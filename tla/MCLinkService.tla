--------------------------- MODULE MCLinkService ---------------------------
(* Small instances of LinkService for TLC.                                 *)
EXTENDS LinkService, TLC

CONSTANTS r1, r2, a, b

\* The code generated for id 2 is one a client may ask for as well.
MCEncodeBase62 == 1 :> a @@ 2 :> b

MCSymmetry == Permutations(Requests)

=============================================================================
