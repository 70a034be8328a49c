------------------------ MODULE MCIdempotentCreate ------------------------
(* Small instances of IdempotentCreate for TLC.                            *)
EXTENDS IdempotentCreate

CONSTANTS r1, r2, k, c, bad

=============================================================================
