-------------------------- MODULE StatsQueryProofs --------------------------
(***************************************************************************)
(* Theorems about StatsQuery, for any number of workers, events, ids and   *)
(* codes.                                                                  *)
(***************************************************************************)
EXTENDS StatsQuery, AnalyticsWorkerProofs

\* The inductive invariant of a query: the link is the one that was resolved,
\* stored as long as it is kept; what has been read of its total was counted
\* then and is counted still, until the days are read.
QueryInv ==
  /\ at \in 0..4 /\ kept \in BOOLEAN
  /\ answer \in [{"total", "daily", "refs"} -> [Events -> Nat]]
  /\ at # 0 => link \in Ids
  /\ kept => at # 0 /\ Stored(link)
  /\ kept /\ at = 2 => \A e \in Events : answer["total"][e] <= total[link][e]
  /\ kept /\ at \in {3, 4} => \A e \in Events : answer["total"][e] <= answer["daily"][e]

\* The counters of a link that stays stored do not decrease.
LEMMA TotalGrows ==
  ASSUME Inv, Next, NEW i \in Ids, Stored(i), \E c \in Codes : names'[c] = i, NEW e \in Events
  PROVE  total[i][e] <= total'[i][e]
<1>0. /\ total \in Counters /\ names \in [Codes -> 0..MaxId] /\ i # 0
      /\ total[i][e] \in Nat
  BY Bounds DEF Inv, TypeOK, Counters
<1>1. CASE total' = total
  BY <1>0, <1>1
<1>2. ASSUME NEW j, NEW f, total' = [total EXCEPT ![j][f] = @ + 1]
      PROVE  total[i][e] <= total'[i][e]
  <2>1. CASE i = j /\ e = f
    <3>1. total'[i][e] = total[i][e] + 1
      BY <1>0, <1>2, <2>1 DEF Counters
    <3> QED
      BY <1>0, <3>1
  <2>2. CASE ~(i = j /\ e = f)
    <3>1. total'[i][e] = total[i][e]
      BY <1>0, <1>2, <2>2 DEF Counters
    <3> QED
      BY <1>0, <3>1
  <2> QED
    BY <2>1, <2>2
<1>3. ASSUME NEW c \in Codes, DeleteLink(c) PROVE total[i][e] <= total'[i][e]
  <2>1. names[c] # i
    <3>1. SUFFICES ASSUME names[c] = i PROVE FALSE
      OBVIOUS
    <3>2. \A d \in Codes : names[d] = i => d = c
      BY <1>0, <3>1 DEF Inv, LinksInv
    <3>3. names' = [names EXCEPT ![c] = 0]
      BY <1>3 DEF DeleteLink
    <3> QED
      BY <1>0, <3>2, <3>3
  <2>2. total' = [total EXCEPT ![names[c]] = [f \in Events |-> 0]]
    BY <1>3 DEF DeleteLink
  <2>3. total'[i] = total[i]
    BY <1>0, <2>1, <2>2 DEF Counters
  <2> QED
    BY <1>0, <2>3
<1>4. \/ total' = total
      \/ \E j, f : total' = [total EXCEPT ![j][f] = @ + 1]
      \/ \E c \in Codes : DeleteLink(c)
  <2>1. ASSUME NEW w \in Workers, Handle(w)
        PROVE  total' = total \/ \E j, f : total' = [total EXCEPT ![j][f] = @ + 1]
    <3>1. CASE CountTotal(w)
      BY <3>1 DEF CountTotal
    <3>2. CASE ~CountTotal(w)
      BY <2>1, <3>2 DEF Handle, Skip, Claim, Lookup, CountRef, Ack, counts
    <3> QED
      BY <3>1, <3>2
  <2>2. ASSUME NEW w \in Workers, Start(w) \/ Read(w) \/ Crash(w) PROVE total' = total
    BY <2>2 DEF Start, Read, Crash, counts
  <2>3. \A c, b, k : Publish(c, b, k) => total' = total
    BY DEF Publish, counts
  <2>4. Save \/ Restart \/ (\E c \in Codes : CreateLink(c)) => total' = total
    BY DEF Save, Restart, CreateLink, counts
  <2> QED
    BY <2>1, <2>2, <2>3, <2>4 DEF Next
<1> QED
  BY <1>1, <1>2, <1>3, <1>4

\* An answer before anything has been read.
LEMMA NothingRead == Nothing \in [{"total", "daily", "refs"} -> [Events -> Nat]]
BY DEF Nothing

\* Before the first query the invariant holds.
LEMMA QueryInvInit == QueryInit => Inv /\ QueryInv
<1> SUFFICES ASSUME QueryInit PROVE Inv /\ QueryInv
  OBVIOUS
<1>1. Inv
  BY InvInit DEF QueryInit
<1>2. at = 0 /\ kept = FALSE /\ answer = Nothing
  BY DEF QueryInit
<1>3. answer \in [{"total", "daily", "refs"} -> [Events -> Nat]]
  BY <1>2, NothingRead
<1>4. kept \in BOOLEAN /\ ~kept
  BY <1>2
<1>5. at \in 0..4 /\ at = 0
  BY <1>2
<1>6. QueryInv
  BY <1>3, <1>4, <1>5 DEF QueryInv
<1> QED
  BY <1>1, <1>6

\* A query resolves its code, or is answered.
LEMMA ResolveStep ==
  ASSUME Inv, QueryInv, Resolve \/ Respond, UNCHANGED vars
  PROVE  QueryInv'
<1>1. names' = names /\ total' = total
  BY DEF vars, links, counts
<1>2. CASE Resolve
  <2>1. PICK i \in 1..(nextId - 1) : link' = i /\ kept' = Stored(i)
    BY <1>2 DEF Resolve
  <2>2. at' = 1 /\ answer' = answer
    BY <1>2 DEF Resolve
  <2>3. i \in Ids
    BY <2>1, Bounds DEF Inv, TypeOK, Ids
  <2>4. kept' \in BOOLEAN /\ (kept' => Stored(link)')
    BY <1>1, <2>1 DEF Stored
  <2>5. answer' \in [{"total", "daily", "refs"} -> [Events -> Nat]]
    BY <2>2 DEF QueryInv
  <2>6. at' \in 0..4 /\ at' # 0 /\ at' # 2 /\ at' \notin {3, 4} /\ link' \in Ids
    BY <2>1, <2>2, <2>3
  <2> QED
    BY <2>4, <2>5, <2>6 DEF QueryInv
<1>3. CASE Respond
  <2>1. at' = 0 /\ kept' = FALSE /\ answer' = Nothing
    BY <1>3 DEF Respond
  <2>2. answer' \in [{"total", "daily", "refs"} -> [Events -> Nat]]
    BY <2>1, NothingRead
  <2>3. kept' \in BOOLEAN /\ ~kept'
    BY <2>1
  <2>4. at' \in 0..4 /\ at' = 0
    BY <2>1
  <2> QED
    BY <2>2, <2>3, <2>4 DEF QueryInv
<1> QED
  BY <1>2, <1>3

\* The statements, in their order: the total is read before the days.
LEMMA StatementStep ==
  ASSUME Inv, QueryInv, Statement, UNCHANGED vars
  PROVE  QueryInv'
<1>0. /\ names' = names /\ total' = total /\ refs' = refs
      /\ link' = link /\ kept' = kept /\ at' = at + 1
      /\ answer' = [answer EXCEPT ![Order[at]] = Counted(Order[at], link)]
      /\ at \in {1, 2, 3} /\ at # 0
  BY DEF Statement, vars, links, counts
<1>1. /\ link \in Ids /\ answer \in [{"total", "daily", "refs"} -> [Events -> Nat]]
      /\ total[link] \in [Events -> Nat] /\ refs[link] \in [Events -> Nat]
  BY <1>0 DEF QueryInv, Inv, TypeOK, Counters
<1>2. Stored(link)' <=> Stored(link)
  BY <1>0 DEF Stored
<1>3. CASE at = 1
  <2>1. answer' = [answer EXCEPT !["total"] = total[link]] /\ at' = 2
    BY <1>0, <1>3 DEF Order, Counted
  <2>2. \A e \in Events : answer'["total"][e] = total[link][e] /\ total[link][e] \in Nat
    BY <1>1, <2>1
  <2>3. \A e \in Events : answer'["total"][e] <= total[link][e]
    BY <2>2
  <2>4. answer' \in [{"total", "daily", "refs"} -> [Events -> Nat]]
    BY <1>1, <2>1
  <2> QED
    BY <1>0, <1>1, <1>2, <2>1, <2>3, <2>4 DEF QueryInv
<1>4. CASE at = 2
  <2>1. answer' = [answer EXCEPT !["daily"] = total[link]] /\ at' = 3
    BY <1>0, <1>4 DEF Order, Counted
  <2>2. answer'["total"] = answer["total"] /\ answer'["daily"] = total[link]
    BY <1>1, <2>1
  <2>3. answer' \in [{"total", "daily", "refs"} -> [Events -> Nat]]
    BY <1>1, <2>1
  <2> QED
    BY <1>0, <1>1, <1>2, <1>4, <2>1, <2>2, <2>3 DEF QueryInv
<1>5. CASE at = 3
  <2>1. answer' = [answer EXCEPT !["refs"] = refs[link]] /\ at' = 4
    BY <1>0, <1>5 DEF Order, Counted
  <2>2. answer'["total"] = answer["total"] /\ answer'["daily"] = answer["daily"]
    BY <1>1, <2>1
  <2>3. answer' \in [{"total", "daily", "refs"} -> [Events -> Nat]]
    BY <1>1, <2>1
  <2> QED
    BY <1>0, <1>1, <1>2, <1>5, <2>1, <2>2, <2>3 DEF QueryInv
<1> QED
  BY <1>0, <1>3, <1>4, <1>5

\* Whatever else happens, the counters of a link that is kept do not decrease.
LEMMA OtherStepInv ==
  ASSUME Inv, QueryInv, OtherStep
  PROVE  QueryInv'
<1>0. /\ at' = at /\ link' = link /\ answer' = answer
      /\ kept' = (kept /\ \E c \in Codes : names'[c] = link)
      /\ Next
  BY DEF OtherStep
<1>1. kept' \in BOOLEAN /\ (kept' => kept /\ Stored(link)')
  BY <1>0 DEF Stored, QueryInv
<1>2. ASSUME kept', at = 2, NEW e \in Events
      PROVE  answer["total"][e] <= total'[link][e]
  <2>1. kept /\ link \in Ids /\ Stored(link) /\ \E c \in Codes : names'[c] = link
    BY <1>0, <1>2 DEF QueryInv
  <2>2. total[link][e] <= total'[link][e]
    BY <1>0, <2>1, TotalGrows
  <2>3. answer["total"][e] <= total[link][e]
    BY <1>2, <2>1 DEF QueryInv
  <2>4. /\ answer["total"][e] \in Nat /\ total[link][e] \in Nat /\ total'[link][e] \in Nat
    <3>1. Inv'
      BY <1>0, NextIsStep, InvStep
    <3>2. total' \in Counters /\ total \in Counters
      BY <3>1 DEF Inv, TypeOK
    <3> QED
      BY <2>1, <3>2 DEF Counters, QueryInv
  <2> QED
    BY <2>2, <2>3, <2>4
<1> QED
  BY <1>0, <1>1, <1>2 DEF QueryInv

\* Every step keeps the invariant.
LEMMA QueryInvStep ==
  Inv /\ QueryInv /\ [QueryStep \/ OtherStep]_<<vars, query>> => (Inv /\ QueryInv)'
<1> SUFFICES ASSUME Inv, QueryInv, [QueryStep \/ OtherStep]_<<vars, query>>
             PROVE  (Inv /\ QueryInv)'
  OBVIOUS
<1>1. CASE QueryStep
  <2>1. UNCHANGED vars
    BY <1>1 DEF QueryStep
  <2>2. Inv'
    BY <2>1, InvStep DEF Step
  <2> QED
    BY <1>1, <2>1, <2>2, ResolveStep, StatementStep DEF QueryStep
<1>2. CASE OtherStep
  <2>1. Inv'
    BY <1>2, NextIsStep, InvStep DEF OtherStep
  <2> QED
    BY <1>2, <2>1, OtherStepInv
<1>3. CASE UNCHANGED <<vars, query>>
  <2>1. Inv'
    BY <1>3, InvStep DEF Step
  <2>2. /\ at' = at /\ link' = link /\ answer' = answer /\ kept' = kept
        /\ names' = names /\ total' = total
    BY <1>3 DEF query, vars, links, counts
  <2>3. QueryInv'
    BY <2>2 DEF QueryInv, Stored
  <2> QED
    BY <2>1, <2>3
<1> QED
  BY <1>1, <1>2, <1>3

\* The invariant holds beside every query.
LEMMA QueryInvHolds == QuerySpec => [](Inv /\ QueryInv)
BY QueryInvInit, QueryInvStep, PTL DEF QuerySpec

\* An answer adds up, although each statement has a snapshot of its own: unless
\* the link is deleted meanwhile, the days account for every click of the total.
THEOREM StatisticsAddUp == QuerySpec => []DaysCoverTotal
<1>1. QueryInv => DaysCoverTotal
  BY DEF QueryInv, DaysCoverTotal
<1> QED
  BY <1>1, QueryInvHolds, PTL

\* Beside a query, too, clicks are shown for the link that their code names.
THEOREM StatisticsOfStoredLinks == QuerySpec => []CountsOfStoredLinks
<1>1. Inv => CountsOfStoredLinks
  BY InvCounts
<1> QED
  BY <1>1, QueryInvHolds, PTL

=============================================================================
