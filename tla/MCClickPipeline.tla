-------------------------- MODULE MCClickPipeline --------------------------
(* Small instances of ClickPipeline for TLC.                               *)
EXTENDS ClickPipeline

CONSTANTS w1, a

=============================================================================
