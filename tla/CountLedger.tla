---------------------------- MODULE CountLedger ----------------------------
(***************************************************************************)
(* What counting clicks promises: an event is taken up at most once, for   *)
(* ever; while it is taken up it is counted under one link, or given up;   *)
(* the counts of a link only go away all together, with the link.          *)
(***************************************************************************)
CONSTANTS Events, Ids

VARIABLES
  taken,  \* the events that have ever been taken up
  open,   \* those that may still be counted
  tally   \* tally[i][e]: how often event e is counted under link i

ledger == <<taken, open, tally>>

NoClicks == [e \in Events |-> 0]

Init == taken = {} /\ open = {} /\ tally = [i \in Ids |-> NoClicks]

\* An event is taken up, or is lost on the way.
Take(e) ==
  /\ e \notin taken
  /\ taken' = taken \cup {e}
  /\ open' \in {open, open \cup {e}}
  /\ UNCHANGED tally

Count(e, i) ==
  /\ e \in open
  /\ open' = open \ {e}
  /\ tally' = [tally EXCEPT ![i][e] = 1]
  /\ UNCHANGED taken

GiveUp(e) ==
  /\ e \in open
  /\ open' = open \ {e}
  /\ UNCHANGED <<taken, tally>>

Forget(i) ==
  /\ tally' = [tally EXCEPT ![i] = NoClicks]
  /\ UNCHANGED <<taken, open>>

Next ==
  \/ \E e \in Events : Take(e) \/ GiveUp(e) \/ \E i \in Ids : Count(e, i)
  \/ \E i \in Ids : Forget(i)

Spec == Init /\ [][Next]_ledger

=============================================================================
