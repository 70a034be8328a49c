---------------------------- MODULE LinkRegistry ----------------------------
(***************************************************************************)
(* What the shortener promises about its links, with neither requests, nor *)
(* statements, nor a cache: a code is free or names one link; a free code  *)
(* may be given to a link that never had a code; a code is freed when its  *)
(* link is deleted.  A code is never re-pointed from one link to another,  *)
(* and a link that has lost its code never gets one again.                 *)
(***************************************************************************)
CONSTANTS
  Codes,   \* short codes
  Links,   \* links
  Nothing  \* what a free code names; not a link

VARIABLES
  names,   \* names[c]: the link that c redirects to
  former   \* the links that have, or have had, a code

Init ==
  /\ names = [c \in Codes |-> Nothing]
  /\ former = {}

Bind(c, l) ==
  /\ names[c] = Nothing
  /\ l \notin former
  /\ names' = [names EXCEPT ![c] = l]
  /\ former' = former \cup {l}

Free(c) ==
  /\ names[c] # Nothing
  /\ names' = [names EXCEPT ![c] = Nothing]
  /\ UNCHANGED former

Next ==
  \/ \E c \in Codes, l \in Links : Bind(c, l)
  \/ \E c \in Codes : Free(c)

Spec == Init /\ [][Next]_<<names, former>>

=============================================================================
