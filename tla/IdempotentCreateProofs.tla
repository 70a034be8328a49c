----------------------- MODULE IdempotentCreateProofs -----------------------
(***************************************************************************)
(* Theorems about IdempotentCreate, for any number of requests, keys,      *)
(* codes and polls, with or without faults.                                *)
(***************************************************************************)
EXTENDS IdempotentCreate, TLAPS

USE DEF Recorded, SetsNX, MayPoll, PollsLeft

Keyed  == {"get", "claim", "record", "release", "poll", "replay"}
Guided == {"readBack", "record", "release", "replay"}
Owning == {"insert", "readBack", "record", "release"}

\* What a request holds at each step: a key while it works on one, a code
\* while it works on one.
ControlInv ==
  \A r \in Requests :
    /\ pc[r] \in Keyed => key[r] \in Keys
    /\ owner[r] => key[r] \in Keys /\ pc[r] \in Owning
    /\ pc[r] \in Guided => got[r] \in Codes

TypeInv == TypeOK /\ ControlInv

-----------------------------------------------------------------------------
(* Type correctness.                                                       *)

\* The initial state is well formed.
LEMMA TypeInit ==
  ASSUME Init
  PROVE  TypeInv
<1>1. TypeOK
  BY IdempotencyConstants DEF Init, TypeOK, Steps, Statuses
<1>2. ControlInv
  BY DEF Init, ControlInv, Keyed, Guided, Owning
<1>3. QED
  BY <1>1, <1>2 DEF TypeInv

\* What the assumptions on the constants say of ids, codes and ticks.
LEMMA Bounds ==
  0 \in 0..MaxId /\ Ids \subseteq 0..MaxId /\ NoCode \notin Codes /\ 0 \in 0..LockTTL
BY IdempotencyConstants DEF Ids

\* The bookkeeping of an answer keeps its part of the types.
LEMMA AnswerType ==
  ASSUME TypeOK, NEW r \in Requests, NEW s \in Statuses, NEW i \in 0..MaxId,
         Answer(r, s, i)
  PROVE  /\ pc' \in [Requests -> Steps]
         /\ status' \in [Requests -> Statuses]
         /\ shown' \in [Requests -> 0..MaxId]
         /\ owner' \in [Requests -> BOOLEAN]
         /\ want' \in [Requests -> CustomCodes \cup {NoCode}]
         /\ got' \in [Requests -> Codes \cup {NoCode}]
BY DEF TypeOK, Answer, Goto, Steps

\* A new link keeps the types of the links.
LEMMA AddLinkType ==
  ASSUME TypeOK, NEW r \in Requests, NEW c \in Codes, nextId <= MaxId,
         AddLink(r, c)
  PROVE  /\ live' \subseteq Ids /\ code' \in [Ids -> Codes \cup {NoCode}]
         /\ madeFor' \in [Ids -> Keys \cup {NoKey}]
         /\ nextId' \in 1..(MaxId + 1)
BY IdempotencyConstants DEF TypeOK, AddLink, Ids

\* The code of a new link is a code.
LEMMA NewCodeType ==
  ASSUME TypeOK, NEW r \in Requests, nextId <= MaxId
  PROVE  NewCode(r) \in Codes
BY IdempotencyConstants DEF TypeOK, NewCode, Codes, Ids

\* SET NX keeps the type of the locks; it locks its key, and a lock that is set
\* it leaves as it is.
LEMMA SetNXType ==
  ASSUME TypeOK, NEW r \in Requests, key[r] \in Keys
  PROVE  /\ SetNX(r) \in [Keys -> 0..LockTTL] /\ SetNX(r)[key[r]] > 0
         /\ \A l \in Keys : lock[l] > 0 => SetNX(r)[l] = lock[l]
BY IdempotencyConstants DEF TypeOK, SetNX

\* Every step preserves the types and the control part.
LEMMA TypeStep ==
  ASSUME TypeInv, [Next]_vars
  PROVE  TypeInv'
<1> USE Bounds DEF TypeInv
<1>1. ASSUME NEW r \in Requests, Begin(r)
      PROVE  TypeInv'
  <2>1. TypeOK'
    BY <1>1 DEF Begin, Goto, TypeOK, Steps, Statuses, links, store
  <2>2. ControlInv'
    BY <1>1 DEF Begin, Goto, TypeOK, ControlInv, Keyed, Guided, Owning
  <2>3. QED
    BY <2>1, <2>2
<1>2. ASSUME NEW r \in Requests, Get(r)
      PROVE  TypeInv'
  <2>1. key[r] \in Keys
    BY <1>2 DEF Get, ControlInv, Keyed
  <2>2. TypeOK'
    <3>1. /\ pc' \in [Requests -> Steps]
          /\ degraded' \in [Requests -> BOOLEAN]
      BY <1>2 DEF Get, FailOpen, Goto, TypeOK, Steps
    <3>2. got' \in [Requests -> Codes \cup {NoCode}]
      BY <1>2, <2>1 DEF Get, TypeOK
    <3>3. QED
      BY <1>2, <3>1, <3>2 DEF Get, TypeOK, links, store
  <2>3. ControlInv'
    BY <1>2, <2>1 DEF Get, FailOpen, Goto, TypeOK, ControlInv, Keyed, Guided, Owning
  <2>4. QED
    BY <2>2, <2>3
<1>3. ASSUME NEW r \in Requests, Claim(r)
      PROVE  TypeInv'
  <2>1. key[r] \in Keys /\ Polls \in 0..Polls
    BY <1>3, IdempotencyConstants DEF Claim, ControlInv, Keyed
  <2>2. TypeOK'
    <3>1. /\ pc' \in [Requests -> Steps]
          /\ degraded' \in [Requests -> BOOLEAN]
      BY <1>3 DEF Claim, FailOpen, Goto, TypeOK, Steps
    <3>2. /\ lock' \in [Keys -> 0..LockTTL]
          /\ owner' \in [Requests -> BOOLEAN]
      BY <1>3, <2>1, SetNXType DEF Claim, TypeOK
    <3>3. polls' \in [Requests -> 0..Polls]
      BY <1>3, <2>1 DEF Claim, TypeOK
    <3>4. QED
      BY <1>3, <3>1, <3>2, <3>3 DEF Claim, TypeOK, links
  <2>3. ControlInv'
    BY <1>3, <2>1 DEF Claim, FailOpen, Goto, TypeOK, ControlInv, Keyed, Guided, Owning
  <2>4. QED
    BY <2>2, <2>3
<1>4. ASSUME NEW r \in Requests, Record(r)
      PROVE  TypeInv'
  <2>1. key[r] \in Keys /\ got[r] \in Codes
    BY <1>4 DEF Record, ControlInv, Keyed, Guided, Owning
  <2>2. TypeOK'
    BY <1>4, <2>1 DEF Record, Goto, TypeOK, Steps, links, history
  <2>3. ControlInv'
    BY <1>4, <2>1 DEF Record, Goto, TypeOK, ControlInv, Keyed, Guided, Owning
  <2>4. QED
    BY <2>2, <2>3
<1>5. ASSUME NEW r \in Requests, Release(r)
      PROVE  TypeInv'
  <2>1. shown[r] \in 0..MaxId
    BY DEF TypeOK
  <2>2. TypeOK'
    BY <1>5, <2>1, AnswerType DEF Release, TypeOK, Statuses, links, history
  <2>3. ControlInv'
    BY <1>5 DEF Release, Answer, Goto, TypeOK, ControlInv, Keyed, Guided, Owning
  <2>4. QED
    BY <2>2, <2>3
<1>6. ASSUME NEW r \in Requests, Poll(r)
      PROVE  TypeInv'
  <2>1. key[r] \in Keys
    BY <1>6 DEF Poll, ControlInv, Keyed
  <2>2. CASE Answer(r, "inFlight", 0) /\ UNCHANGED polls
    <3>1. TypeOK'
      BY <1>6, <2>2, AnswerType
      DEF Poll, TypeOK, Statuses, links, store, history
    <3>2. ControlInv'
      BY <1>6, <2>2 DEF Poll, Answer, Goto, TypeOK, ControlInv, Keyed, Guided, Owning
    <3>3. QED
      BY <3>1, <3>2
  <2>3. CASE /\ resp[key[r]] # NoCode /\ Goto(r, "replay") /\ Unanswered
             /\ got' = [got EXCEPT ![r] = resp[key[r]]]
             /\ polls' = [polls EXCEPT ![r] = 0]
    <3>1. resp[key[r]] \in Codes /\ 0 \in 0..Polls
      BY <2>1, <2>3, IdempotencyConstants DEF TypeOK
    <3>2. TypeOK'
      BY <1>6, <2>3, <3>1
      DEF Poll, Goto, Unanswered, TypeOK, Steps, links, store, history
    <3>3. ControlInv'
      BY <1>6, <2>1, <2>3, <3>1
      DEF Poll, Goto, Unanswered, TypeOK, ControlInv, Keyed, Guided, Owning
    <3>4. QED
      BY <3>2, <3>3
  <2>4. CASE /\ polls[r] > 0 /\ polls' = [polls EXCEPT ![r] = @ - 1]
             /\ UNCHANGED <<pc, got>> /\ Unanswered
    <3>1. polls[r] - 1 \in 0..Polls
      BY <2>4, IdempotencyConstants DEF TypeOK
    <3>2. TypeOK'
      BY <1>6, <2>4, <3>1
      DEF Poll, Unanswered, TypeOK, links, store, history
    <3>3. ControlInv'
      BY <1>6, <2>4 DEF Poll, Unanswered, ControlInv
    <3>4. QED
      BY <3>2, <3>3
  <2>5. QED
    BY <1>6, <2>2, <2>3, <2>4 DEF Poll
<1>7. ASSUME NEW r \in Requests, Replay(r) \/ RefuseCode(r)
      PROVE  TypeInv'
  <2>1. PICK s \in Statuses, i \in 0..MaxId : Answer(r, s, i)
    BY <1>7 DEF Replay, RefuseCode, Stored, TypeOK, Statuses
  <2>2. TypeOK'
    BY <1>7, <2>1, AnswerType DEF Replay, RefuseCode, TypeOK, links, store, history
  <2>3. ControlInv'
    BY <1>7, <2>1 DEF Replay, RefuseCode, Answer, Goto, TypeOK, ControlInv, Keyed, Guided, Owning
  <2>4. QED
    BY <2>2, <2>3
<1>8. ASSUME NEW r \in Requests, Insert(r)
      PROVE  TypeInv'
  <2>1. NewCode(r) \in Codes
    BY <1>8, NewCodeType DEF Insert
  <2>2. /\ live' \subseteq Ids /\ code' \in [Ids -> Codes \cup {NoCode}]
        /\ madeFor' \in [Ids -> Keys \cup {NoKey}]
        /\ nextId' \in 1..(MaxId + 1)
    BY <1>8, <2>1, AddLinkType DEF Insert, TypeOK, links
  <2>3. CASE Goto(r, "readBack") /\ Unanswered
             /\ got' = [got EXCEPT ![r] = NewCode(r)]
    <3>1. TypeOK'
      BY <1>8, <2>1, <2>2, <2>3
      DEF Insert, Goto, Unanswered, TypeOK, Steps, store, history
    <3>2. ControlInv'
      BY <1>8, <2>1, <2>3
      DEF Insert, Goto, Unanswered, TypeOK, ControlInv, Keyed, Guided, Owning
    <3>3. QED
      BY <3>1, <3>2
  <2>4. CASE \E s \in Statuses : Answer(r, s, 0)
    <3>1. TypeOK'
      BY <1>8, <2>2, <2>4, AnswerType DEF Insert, TypeOK, store, history
    <3>2. ControlInv'
      BY <1>8, <2>4 DEF Insert, Answer, Goto, TypeOK, ControlInv, Keyed, Guided, Owning
    <3>3. QED
      BY <3>1, <3>2
  <2>5. QED
    BY <1>8, <2>3, <2>4 DEF Insert, Statuses
<1>9. ASSUME NEW r \in Requests, ReadBack(r)
      PROVE  TypeInv'
  <2>1. CASE \E s \in Statuses, i \in 0..MaxId : Answer(r, s, i)
    <3>1. TypeOK'
      BY <1>9, <2>1, AnswerType DEF ReadBack, TypeOK, links, store, history
    <3>2. ControlInv'
      BY <1>9, <2>1 DEF ReadBack, Answer, Goto, TypeOK, ControlInv, Keyed, Guided, Owning
    <3>3. QED
      BY <3>1, <3>2
  <2>2. CASE /\ owner[r] /\ Goto(r, "record") /\ UNCHANGED <<status, owner, want, got>>
             /\ \E i \in Ids : shown' = [shown EXCEPT ![r] = i]
    <3>1. TypeOK'
      BY <1>9, <2>2 DEF ReadBack, Goto, TypeOK, Steps, links, store, history
    <3>2. ControlInv'
      BY <1>9, <2>2 DEF ReadBack, Goto, TypeOK, ControlInv, Keyed, Guided, Owning
    <3>3. QED
      BY <3>1, <3>2
  <2>3. QED
    BY <1>9, <2>1, <2>2 DEF ReadBack, Stored, TypeOK, Statuses
<1>10. ASSUME NEW r \in Requests, Crash(r)
       PROVE  TypeInv'
  <2>1. TypeOK'
    BY <1>10, AnswerType, IdempotencyConstants
    DEF Crash, TypeOK, Statuses, links, store, history
  <2>2. ControlInv'
    BY <1>10 DEF Crash, Answer, Goto, TypeOK, ControlInv, Keyed, Guided, Owning
  <2>3. QED
    BY <2>1, <2>2
<1>11. ASSUME NEW k \in Keys, LockTick(k) \/ Forget(k)
       PROVE  TypeInv'
  <2>1. TypeOK'
    <3>1. CASE LockTick(k)
      <4>1. lock' \in [Keys -> 0..LockTTL] /\ lapsed' \in [Keys -> BOOLEAN]
        BY <3>1, IdempotencyConstants DEF LockTick, TypeOK
      <4>2. QED
        BY <3>1, <4>1 DEF LockTick, TypeOK, links, request
    <3>2. CASE Forget(k)
      <4>1. /\ resp' \in [Keys -> Codes \cup {NoCode}]
            /\ kept' \in [Requests -> BOOLEAN]
        BY <3>2 DEF Forget, TypeOK
      <4>2. QED
        BY <3>2, <4>1 DEF Forget, TypeOK, links, request
    <3>3. QED
      BY <1>11, <3>1, <3>2
  <2>2. ControlInv'
    BY <1>11 DEF LockTick, Forget, request, ControlInv
  <2>3. QED
    BY <2>1, <2>2
<1>12. ASSUME NEW i \in Ids, DeleteLink(i)
       PROVE  TypeInv'
  BY <1>12 DEF DeleteLink, TypeOK, store, request, history, ControlInv
<1>13. CASE UNCHANGED vars
  BY <1>13 DEF vars, links, store, request, history, TypeOK, ControlInv
<1>14. QED
  BY <1>1, <1>2, <1>3, <1>4, <1>5, <1>6, <1>7, <1>8, <1>9, <1>10, <1>11,
     <1>12, <1>13
  DEF Next, Handle, Exhausted

\* Every reachable state is type-correct: in particular no request polls for
\* the winner's result more often than idemWaitPolls.
THEOREM TypeCorrect == Spec => []TypeOK
<1>1. Spec => []TypeInv
  BY TypeInit, TypeStep, PTL DEF Spec
<1>2. QED
  BY <1>1, PTL DEF TypeInv

-----------------------------------------------------------------------------
(* Records.                                                                *)

\* The code that a request carries from its insert to its record is that of a
\* link created for its key.
RecordInv ==
  /\ RecordAuthentic
  /\ \A r \in Requests : pc[r] \in {"readBack", "record", "release"} =>
       Made(key[r], got[r])

\* Links are only added, with fresh ids; deleting one keeps what it was.
LEMMA MadeStays ==
  ASSUME TypeOK, [Next]_vars, NEW k, NEW c, Made(k, c)
  PROVE  Made(k, c)'
<1>1. PICK i \in Ids : i < nextId /\ madeFor[i] = k /\ code[i] = c
  BY DEF Made
<1>2. ASSUME NEW r \in Requests, NEW d, AddLink(r, d)
      PROVE  Made(k, c)'
  BY <1>1, <1>2 DEF AddLink, Made, TypeOK, Ids
<1>3. CASE UNCHANGED links
  BY <1>1, <1>3 DEF links, Made
<1>4. ASSUME NEW r \in Requests, Insert(r)
      PROVE  Made(k, c)'
  BY <1>2, <1>3, <1>4 DEF Insert
<1>5. ASSUME NEW j \in Ids, DeleteLink(j)
      PROVE  Made(k, c)'
  BY <1>1, <1>5 DEF DeleteLink, Made
<1>6. ASSUME NEW r \in Requests,
             \/ Begin(r) \/ Get(r) \/ Claim(r) \/ Record(r) \/ Release(r)
             \/ Poll(r) \/ Replay(r) \/ RefuseCode(r) \/ ReadBack(r) \/ Crash(r)
      PROVE  UNCHANGED links
  BY <1>6
  DEF Begin, Get, Claim, Record, Release, Poll, Replay, RefuseCode, ReadBack, Crash
<1>7. ASSUME NEW l \in Keys, LockTick(l) \/ Forget(l)
      PROVE  UNCHANGED links
  BY <1>7 DEF LockTick, Forget
<1>8. CASE Exhausted \/ UNCHANGED vars
  BY <1>3, <1>8 DEF Exhausted, vars
<1>9. QED
  BY <1>3, <1>4, <1>5, <1>6, <1>7, <1>8 DEF Next, Handle

\* A step that leaves a carrying request's key and code, or a key's record,
\* alone keeps them in order.
LEMMA CarriedStays ==
  ASSUME TypeOK, RecordInv, [Next]_vars, NEW r \in Requests,
         pc[r] \in {"readBack", "record", "release"},
         key'[r] = key[r], got'[r] = got[r]
  PROVE  Made(key[r], got[r])'
<1>1. PICK k, c : k = key[r] /\ c = got[r]
  OBVIOUS
<1>2. Made(k, c)
  BY <1>1 DEF RecordInv
<1>3. Made(k, c)'
  BY <1>2, MadeStays
<1>4. QED
  BY <1>1, <1>3 DEF Made

\* A record that a step leaves alone stays authentic.
LEMMA RecordStays ==
  ASSUME TypeOK, RecordInv, [Next]_vars, NEW k \in Keys,
         resp'[k] = resp[k], resp[k] # NoCode
  PROVE  Made(k, resp[k])'
<1>1. PICK c : c = resp[k]
  OBVIOUS
<1>2. Made(k, c)
  BY <1>1 DEF RecordInv, RecordAuthentic
<1>3. Made(k, c)'
  BY <1>2, MadeStays
<1>4. QED
  BY <1>1, <1>3 DEF Made

\* Every step keeps the records authentic.
LEMMA RecordStep ==
  ASSUME TypeInv, RecordInv, [Next]_vars
  PROVE  RecordInv'
<1> DEFINE Carrying(r) == pc[r] \in {"readBack", "record", "release"}
           Steady(r)   == Carrying(r) /\ key'[r] = key[r] /\ got'[r] = got[r]
<1> USE DEF TypeInv
<1>1. ASSUME \A r \in Requests : Carrying(r)' => Steady(r)
      PROVE  \A r \in Requests : Carrying(r)' => Made(key[r], got[r])'
  BY <1>1, CarriedStays
<1>2. ASSUME \A k \in Keys : resp'[k] # NoCode => resp'[k] = resp[k]
      PROVE  RecordAuthentic'
  BY <1>2, RecordStays DEF RecordAuthentic
<1>3. ASSUME NEW r \in Requests, Insert(r)
      PROVE  RecordInv'
  <2>1. RecordAuthentic'
    BY <1>2, <1>3 DEF Insert, store
  <2>2. ASSUME NEW s \in Requests, Carrying(s)'
        PROVE  Made(key[s], got[s])'
    <3>1. CASE s = r
      <4>1. AddLink(r, NewCode(r)) /\ got' = [got EXCEPT ![r] = NewCode(r)]
        BY <1>3, <2>2, <3>1 DEF Insert, Answer, Goto, TypeOK
      <4>2. /\ nextId \in Ids /\ nextId < nextId'
            /\ madeFor'[nextId] = key[r] /\ code'[nextId] = NewCode(r)
        BY <1>3, <4>1 DEF Insert, AddLink, TypeOK, Ids
      <4>3. got'[r] = NewCode(r) /\ key'[r] = key[r]
        BY <1>3, <4>1 DEF Insert, TypeOK
      <4>4. QED
        BY <3>1, <4>2, <4>3 DEF Made
    <3>2. CASE s # r
      <4>1. Steady(s)
        BY <1>3, <2>2, <3>2 DEF Insert, Answer, Goto, TypeOK
      <4>2. QED
        BY <4>1, CarriedStays
    <3>3. QED
      BY <3>1, <3>2
  <2>3. QED
    BY <2>1, <2>2 DEF RecordInv
<1>4. ASSUME NEW r \in Requests, Record(r)
      PROVE  RecordInv'
  <2>1. \A s \in Requests : Carrying(s)' => Steady(s)
    BY <1>4 DEF Record, Goto, TypeOK
  <2>2. ASSUME NEW k \in Keys, resp'[k] # NoCode
        PROVE  Made(k, resp[k])'
    <3>1. CASE resp'[k] = resp[k]
      BY <2>2, <3>1, RecordStays
    <3>2. CASE resp'[k] # resp[k]
      <4>1. k = key[r] /\ resp'[k] = got[r]
        BY <1>4, <3>2 DEF Record, TypeOK
      <4>2. Made(key[r], got[r])' /\ key'[r] = key[r] /\ got'[r] = got[r]
        BY <1>4, CarriedStays DEF Record
      <4>3. QED
        BY <4>1, <4>2 DEF Made
    <3>3. QED
      BY <3>1, <3>2
  <2>3. QED
    BY <1>1, <2>1, <2>2 DEF RecordInv, RecordAuthentic
<1>5. ASSUME NEW r \in Requests, Get(r) \/ Poll(r)
      PROVE  RecordInv'
  <2>1. \A s \in Requests : Carrying(s)' => Steady(s)
    BY <1>5 DEF Get, Poll, FailOpen, Answer, Goto, TypeOK
  <2>2. QED
    BY <1>1, <1>2, <1>5, <2>1 DEF Get, Poll, store, RecordInv
<1>6. ASSUME NEW r \in Requests,
             \/ Begin(r) \/ Claim(r) \/ Release(r) \/ Replay(r) \/ RefuseCode(r) \/ Crash(r)
      PROVE  RecordInv'
  <2>1. \A s \in Requests : Carrying(s)' => Steady(s)
    BY <1>6
    DEF Begin, Claim, Release, Replay, RefuseCode, Crash, FailOpen, Answer, Goto, TypeOK
  <2>2. UNCHANGED resp
    BY <1>6 DEF Begin, Claim, Release, Replay, RefuseCode, Crash, store
  <2>3. QED
    BY <1>1, <1>2, <2>1, <2>2 DEF RecordInv
<1>7. ASSUME NEW r \in Requests, ReadBack(r)
      PROVE  RecordInv'
  <2>1. \A s \in Requests : Carrying(s)' => Steady(s)
    BY <1>7 DEF ReadBack, Answer, Goto, TypeOK
  <2>2. QED
    BY <1>1, <1>2, <1>7, <2>1 DEF ReadBack, store, RecordInv
<1>8. ASSUME NEW k \in Keys, LockTick(k) \/ Forget(k)
      PROVE  RecordInv'
  <2>1. \A s \in Requests : Carrying(s)' => Steady(s)
    BY <1>8 DEF LockTick, Forget, request
  <2>2. \A l \in Keys : resp'[l] # NoCode => resp'[l] = resp[l]
    BY <1>8 DEF LockTick, Forget, TypeOK
  <2>3. QED
    BY <1>1, <1>2, <2>1, <2>2 DEF RecordInv
<1>9. CASE (\E i \in Ids : DeleteLink(i)) \/ Exhausted \/ UNCHANGED vars
  <2>1. UNCHANGED <<store, request>>
    BY <1>9 DEF DeleteLink, Exhausted, vars
  <2>2. QED
    BY <1>1, <1>2, <2>1 DEF store, request, RecordInv
<1>10. QED
  BY <1>3, <1>4, <1>5, <1>6, <1>7, <1>8, <1>9 DEF Next, Handle

\* A code recorded for an idempotency key is always that of a link created for
\* that key, whatever fails, expires or is deleted: createIdempotent records
\* only what its own createOne has stored.
THEOREM RecordsAuthentic == Spec => []RecordAuthentic
<1>1. Init => RecordInv
  BY DEF Init, RecordInv, RecordAuthentic
<1>2. Spec => []TypeInv
  BY TypeInit, TypeStep, PTL DEF Spec
<1>3. TypeInv /\ RecordInv /\ [Next]_vars => RecordInv'
  BY RecordStep
<1>4. RecordInv => RecordAuthentic
  BY DEF RecordInv
<1>5. QED
  BY <1>1, <1>2, <1>3, <1>4, PTL DEF Spec

-----------------------------------------------------------------------------
(* Claims.                                                                 *)

\* While a request owns its key the key is locked, as long as no lock of the key
\* has expired under its owner; and only owners record and release.
OwnerInv ==
  /\ OneOwner
  /\ \A r \in Requests : owner[r] /\ ~lapsed[key[r]] => lock[key[r]] > 0
  /\ \A r \in Requests : pc[r] \in {"record", "release"} => owner[r]

\* Every step preserves the exclusion of owners.
LEMMA OwnerStep ==
  ASSUME TypeInv, OwnerInv, [Next]_vars
  PROVE  OwnerInv'
<1> DEFINE Late(r) == pc[r] \in {"record", "release"}
<1> USE DEF TypeInv, OwnerInv, OneOwner
<1>0. ASSUME UNCHANGED <<key, lock, lapsed>>,
             \A s \in Requests : owner'[s] => owner[s],
             \A s \in Requests : Late(s)' => owner'[s]
      PROVE  OwnerInv'
  BY <1>0
<1>1. ASSUME NEW r \in Requests, Claim(r)
      PROVE  OwnerInv'
  <2>1. key[r] \in Keys /\ ~owner[r]
    BY <1>1 DEF Claim, ControlInv, Keyed, Owning
  <2>2. \A s \in Requests : Late(s)' => owner'[s]
    BY <1>1, <2>1 DEF Claim, FailOpen, Goto, TypeOK
  <2>3. CASE lock[key[r]] = 0 /\ owner' = [owner EXCEPT ![r] = TRUE] /\ lock' = SetNX(r)
    <3>1. /\ lock'[key[r]] > 0
          /\ \A l \in Keys : lock[l] > 0 => lock'[l] > 0
      BY <2>1, <2>3, SetNXType
    <3>2. UNCHANGED <<key, lapsed>> /\ owner \in [Requests -> BOOLEAN]
      BY <1>1 DEF Claim, TypeOK
    <3>3. \A s \in Requests : owner[s] => key[s] \in Keys
      BY DEF ControlInv
    <3>4. \A s \in Requests : owner'[s] <=> owner[s] \/ s = r
      BY <2>3, <3>2
    <3>5. \A s \in Requests : owner[s] /\ key[s] = key[r] => lapsed[key[r]]
      <4>1. ~(lock[key[r]] > 0)
        BY <2>3
      <4> QED
        BY <4>1
    <3>6. QED
      BY <2>2, <3>1, <3>2, <3>3, <3>4, <3>5
  <2>4. CASE UNCHANGED owner /\ lock' \in {lock, SetNX(r)}
    <3>1. UNCHANGED <<key, lapsed>>
      BY <1>1 DEF Claim
    <3>2. \A l \in Keys : lock[l] > 0 => lock'[l] > 0
      BY <2>1, <2>4, SetNXType
    <3>3. \A s \in Requests : owner[s] => key[s] \in Keys
      BY DEF ControlInv
    <3>4. QED
      BY <2>2, <2>4, <3>1, <3>2, <3>3
  <2>5. QED
    BY <1>1, <2>3, <2>4 DEF Claim
<1>2. ASSUME NEW r \in Requests, Release(r)
      PROVE  OwnerInv'
  <2>1. owner[r] /\ key[r] \in Keys
    BY <1>2 DEF Release, ControlInv
  <2>2. /\ owner' = [owner EXCEPT ![r] = FALSE] /\ UNCHANGED key
        /\ pc' = [pc EXCEPT ![r] = "done"]
    BY <1>2 DEF Release, Answer, Goto
  <2>3. /\ UNCHANGED lapsed
        /\ \A s \in Requests : owner[s] /\ ~lapsed[key[s]] /\ s # r =>
             lock'[key[s]] = lock[key[s]]
    BY <1>2, <2>1 DEF Release, TypeOK, ControlInv, history
  <2>4. QED
    BY <2>1, <2>2, <2>3 DEF TypeOK
<1>3. ASSUME NEW r \in Requests, Begin(r)
      PROVE  OwnerInv'
  <2>1. ~owner[r]
    BY <1>3 DEF Begin, ControlInv, Owning
  <2>2. QED
    BY <1>3, <2>1 DEF Begin, Goto, TypeOK, store
<1>4. ASSUME NEW r \in Requests, Get(r) \/ Record(r) \/ Poll(r) \/ Replay(r) \/ RefuseCode(r)
      PROVE  OwnerInv'
  <2>1. UNCHANGED <<key, lock, lapsed>>
    BY <1>4 DEF Get, Record, Poll, Replay, RefuseCode, store, history
  <2>2. \A s \in Requests : owner'[s] => owner[s]
    BY <1>4 DEF Get, Record, Poll, Replay, RefuseCode, Unanswered, Answer, TypeOK
  <2>3. \A s \in Requests \ {r} : pc'[s] = pc[s] /\ owner'[s] = owner[s]
    BY <1>4
    DEF Get, Record, Poll, Replay, RefuseCode, FailOpen, Unanswered, Answer, Goto, TypeOK
  <2>4. pc'[r] \in {"record", "release"} => owner'[r]
    BY <1>4
    DEF Get, Record, Poll, Replay, RefuseCode, FailOpen, Unanswered, Answer, Goto, TypeOK
  <2>5. QED
    BY <1>0, <2>1, <2>2, <2>3, <2>4
<1>5. ASSUME NEW r \in Requests, Insert(r) \/ ReadBack(r) \/ Crash(r)
      PROVE  OwnerInv'
  <2>1. UNCHANGED <<key, lock, lapsed>>
    BY <1>5 DEF Insert, ReadBack, Crash, store, history
  <2>2. \A s \in Requests : owner'[s] => owner[s]
    BY <1>5 DEF Insert, ReadBack, Crash, Unanswered, Answer, TypeOK
  <2>3. \A s \in Requests \ {r} : pc'[s] = pc[s] /\ owner'[s] = owner[s]
    BY <1>5 DEF Insert, ReadBack, Crash, Unanswered, Answer, Goto, TypeOK
  <2>4. pc'[r] \in {"record", "release"} => owner'[r]
    BY <1>5 DEF Insert, ReadBack, Crash, Unanswered, Answer, Goto, TypeOK
  <2>5. QED
    BY <1>0, <2>1, <2>2, <2>3, <2>4
<1>6. ASSUME NEW k \in Keys, LockTick(k)
      PROVE  OwnerInv'
  <2>1. /\ lapsed' = [lapsed EXCEPT ![k] = @ \/ (lock[k] = 1 /\ Owners(k) # {})]
        /\ lock' = [lock EXCEPT ![k] = @ - 1]
        /\ UNCHANGED <<pc, key, owner>>
    BY <1>6 DEF LockTick, request
  <2>2. \A r \in Requests : owner[r] => key[r] \in Keys /\ r \in Owners(key[r])
    BY DEF ControlInv, Owners
  <2>3. \A l \in Keys : lapsed[l] => lapsed'[l]
    BY <2>1 DEF TypeOK
  <2>4. ASSUME NEW r \in Requests, owner[r], ~lapsed'[key[r]]
        PROVE  lock'[key[r]] > 0
    <3>1. key[r] \in Keys /\ ~lapsed[key[r]] /\ lock[key[r]] > 0
      BY <2>2, <2>3, <2>4
    <3>2. key[r] = k => lock[k] # 1
      BY <2>1, <2>2, <2>4, <3>1 DEF TypeOK
    <3>3. QED
      BY <2>1, <3>1, <3>2, IdempotencyConstants DEF TypeOK
  <2>5. QED
    BY <2>1, <2>2, <2>3, <2>4
<1>7. CASE \/ \E k \in Keys : Forget(k)
           \/ \E i \in Ids : DeleteLink(i)
           \/ Exhausted \/ UNCHANGED vars
  <2>1. UNCHANGED <<lock, request, lapsed>>
    BY <1>7 DEF Forget, DeleteLink, Exhausted, vars, store, history
  <2>2. QED
    BY <2>1 DEF request
<1>8. QED
  BY <1>1, <1>2, <1>3, <1>4, <1>5, <1>6, <1>7 DEF Next, Handle

\* The replicas never run two creates that both won the same key, whatever
\* fails, until a create has taken longer than its lock lives (lockTTL).
THEOREM OwnersExclusive == Spec => []OneOwner
<1>1. Init => OwnerInv
  BY DEF Init, OwnerInv, OneOwner
<1>2. Spec => []TypeInv
  BY TypeInit, TypeStep, PTL DEF Spec
<1>3. TypeInv /\ OwnerInv /\ [Next]_vars => OwnerInv'
  BY OwnerStep
<1>4. OwnerInv => OneOwner
  BY DEF OwnerInv
<1>5. QED
  BY <1>1, <1>2, <1>3, <1>4, PTL DEF Spec

-----------------------------------------------------------------------------
(* Replays.                                                                *)

\* A request whose key has had a record since it began finds the record at its
\* first Get, and goes on to create only if that Get failed.
KeptInv ==
  \A r \in Requests : kept[r] /\ pc[r] # "done" =>
    /\ key[r] \in Keys /\ resp[key[r]] # NoCode
    /\ pc[r] \notin {"get", "replay"} => degraded[r]

\* Every step keeps a request whose key is recorded from creating.
LEMMA KeptStep ==
  ASSUME TypeInv, KeptInv, [Next]_vars
  PROVE  KeptInv'
<1> USE DEF TypeInv, KeptInv
<1>1. ASSUME NEW r \in Requests, Begin(r)
      PROVE  KeptInv'
  <2>1. /\ UNCHANGED resp
        /\ \A s \in Requests \ {r} : /\ pc'[s] = pc[s] /\ key'[s] = key[s]
                                    /\ kept'[s] = kept[s]
                                    /\ degraded'[s] = degraded[s]
    BY <1>1 DEF Begin, Goto, TypeOK, store
  <2>2. PICK l \in Keys \cup {NoKey} :
          /\ key' = [key EXCEPT ![r] = l]
          /\ pc' = [pc EXCEPT ![r] = IF l = NoKey THEN "insert" ELSE "get"]
          /\ kept' = [kept EXCEPT ![r] = l # NoKey /\ resp[l] # NoCode]
    BY <1>1 DEF Begin, Goto
  <2>3. kept'[r] => key'[r] \in Keys /\ resp[key'[r]] # NoCode /\ pc'[r] = "get"
    BY <2>2 DEF TypeOK
  <2>4. QED
    BY <2>1, <2>3
<1>2. ASSUME NEW r \in Requests, Get(r)
      PROVE  KeptInv'
  BY <1>2 DEF Get, FailOpen, Goto, TypeOK, store
<1>3. ASSUME NEW r \in Requests, Claim(r)
      PROVE  KeptInv'
  BY <1>3 DEF Claim, FailOpen, Goto, TypeOK
<1>4. ASSUME NEW r \in Requests, Record(r)
      PROVE  KeptInv'
  <2>1. key[r] \in Keys /\ got[r] \in Codes
    BY <1>4 DEF Record, ControlInv, Keyed, Guided
  <2>2. \A l \in Keys : resp[l] # NoCode => resp'[l] # NoCode
    BY <1>4, <2>1, Bounds DEF Record, TypeOK
  <2>3. QED
    BY <1>4, <2>2 DEF Record, Goto, TypeOK, history
<1>5. ASSUME NEW r \in Requests, Poll(r)
      PROVE  KeptInv'
  BY <1>5 DEF Poll, Unanswered, Answer, Goto, TypeOK, store, history
<1>6. ASSUME NEW r \in Requests, Release(r) \/ Replay(r) \/ RefuseCode(r) \/ Crash(r)
      PROVE  KeptInv'
  BY <1>6 DEF Release, Replay, RefuseCode, Crash, Answer, Goto, TypeOK, store, history
<1>7. ASSUME NEW r \in Requests, Insert(r) \/ ReadBack(r)
      PROVE  KeptInv'
  BY <1>7 DEF Insert, ReadBack, Unanswered, Answer, Goto, TypeOK, store, history
<1>8. ASSUME NEW k \in Keys, LockTick(k) \/ Forget(k)
      PROVE  KeptInv'
  <2>1. CASE LockTick(k)
    BY <2>1 DEF LockTick, request
  <2>2. CASE Forget(k)
    <3>1. \A r \in Requests : kept'[r] => kept[r] /\ key[r] # k
      BY <2>2 DEF Forget
    <3>2. \A l \in Keys : l # k => resp'[l] = resp[l]
      BY <2>2 DEF Forget, TypeOK
    <3>3. QED
      BY <2>2, <3>1, <3>2 DEF Forget, request
  <2>3. QED
    BY <1>8, <2>1, <2>2
<1>9. CASE (\E i \in Ids : DeleteLink(i)) \/ Exhausted \/ UNCHANGED vars
  <2>1. UNCHANGED <<store, request, history>>
    BY <1>9 DEF DeleteLink, Exhausted, vars
  <2>2. QED
    BY <2>1 DEF store, request, history
<1>10. QED
  BY <1>1, <1>2, <1>3, <1>4, <1>5, <1>6, <1>7, <1>8, <1>9 DEF Next, Handle

\* A retry that begins when its key's code is recorded never creates a second
\* link, unless Redis fails it or the record is lost while it runs.
THEOREM RetriesCreateNothing == Spec => []RecordedNeverRecreated
<1>1. Init => KeptInv
  BY DEF Init, KeptInv
<1>2. Spec => []TypeInv
  BY TypeInit, TypeStep, PTL DEF Spec
<1>3. TypeInv /\ KeptInv /\ [Next]_vars => KeptInv'
  BY KeptStep
<1>4. KeptInv => RecordedNeverRecreated
  BY DEF KeptInv, RecordedNeverRecreated
<1>5. QED
  BY <1>1, <1>2, <1>3, <1>4, PTL DEF Spec

=============================================================================
