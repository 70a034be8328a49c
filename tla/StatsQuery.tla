----------------------------- MODULE StatsQuery -----------------------------
(***************************************************************************)
(* GET /api/v1/urls/{code}/stats, beside the workers that count: the code  *)
(* is resolved, possibly from the cache, and three statements read the     *)
(* link's counters, each on a snapshot of its own.                         *)
(***************************************************************************)
EXTENDS AnalyticsWorker

VARIABLES
  at,      \* the query's next statement; 0 before the code is resolved
  link,    \* the id that it was resolved to, 0 for none
  answer,  \* what has been read: the clicks in all, by day and by referrer
  kept     \* history: has the link been stored since it was resolved?

query == <<at, link, answer, kept>>

\* The counters that the statements read, in their order; a variant reads the
\* days first.
DaysFirst == <<"daily", "total", "refs">>
Order     == <<"total", "daily", "refs">>

\* A sum over the days and the rows of the days both come from the 'total'
\* rows; an id without rows has no clicks.
Counted(what, i) == IF what = "refs" THEN refs[i] ELSE total[i]

Nothing == [what \in {"total", "daily", "refs"} |-> [e \in Events |-> 0]]

QueryInit ==
  Init /\ at = 0 /\ link = 0 /\ answer = Nothing /\ kept = FALSE

-----------------------------------------------------------------------------
\* GetStats resolves the code: to the link that bears it, or to a deleted one
\* that is still cached.
Resolve ==
  /\ at = 0
  /\ \E i \in 1..(nextId - 1) : link' = i /\ kept' = Stored(i)
  /\ at' = 1
  /\ UNCHANGED answer

\* StatsByURLID, one statement at a time.
Statement ==
  /\ at \in 1..3
  /\ answer' = [answer EXCEPT ![Order[at]] = Counted(Order[at], link)]
  /\ at' = at + 1
  /\ UNCHANGED <<link, kept>>

\* The answer is written, or a statement has failed and the answer is 500.
Respond ==
  /\ at = 4 \/ (PgFaults /\ at # 0)
  /\ at' = 0 /\ link' = 0 /\ answer' = Nothing /\ kept' = FALSE

QueryStep == (Resolve \/ Statement \/ Respond) /\ UNCHANGED vars

\* A step of the rest of the system.
OtherStep ==
  /\ Next
  /\ kept' = (kept /\ \E c \in Codes : names'[c] = link)
  /\ UNCHANGED <<at, link, answer>>

QuerySpec ==
  /\ QueryInit /\ [][QueryStep \/ OtherStep]_<<vars, query>>
  /\ \A w \in Workers : /\ WF_vars(Start(w)) /\ SF_vars(Read(w))
                        /\ WF_vars(Handle(w))

-----------------------------------------------------------------------------
\* What a statistics answer shows adds up, although each statement sees the
\* counters at another moment: unless the link is deleted meanwhile, the days
\* account for every click of the total.
DaysCoverTotal ==
  at = 4 /\ kept => \A e \in Events : answer["total"][e] <= answer["daily"][e]

=============================================================================
