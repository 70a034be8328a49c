------------------------- MODULE MCAnalyticsWorker -------------------------
(* Small instances of AnalyticsWorker for TLC.                             *)
EXTENDS AnalyticsWorker, TLC

CONSTANTS w1, w2, a

MCSymmetry == Permutations(Workers)

=============================================================================
