---------------------------- MODULE MCStatsQuery ----------------------------
(* Small instances of StatsQuery for TLC.                                  *)
EXTENDS StatsQuery

CONSTANTS w1, a, b

=============================================================================
