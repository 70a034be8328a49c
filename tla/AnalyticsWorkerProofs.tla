----------------------- MODULE AnalyticsWorkerProofs -----------------------
(***************************************************************************)
(* Theorems about AnalyticsWorker, for any number of workers, events, ids  *)
(* and codes, any size of a batch, and with or without each of the faults. *)
(***************************************************************************)
EXTENDS AnalyticsWorker, FiniteSetTheorems, WellFoundedInduction, TLAPS

\* Between its claim and its last upsert a worker owns its event: nobody else
\* is going to count it.
Counting == {"lookup", "total"}
Owning   == Counting \cup {"ref"}

Owns(w, e) == pc[w] \in Owning /\ e = Current(w)

\* Whatever has been delivered, or may be delivered again, or has been claimed
\* was published before: Publish says nothing of an event that is known.
Published == 1..(nextEvent - 1)

EventsInv ==
  /\ stream \subseteq Published /\ snap.stream \subseteq Published
  /\ claimed \subseteq Published
  /\ \A w \in Workers : batch[w] \subseteq Published

\* An id stands for one link for ever: it is not given again.
LinksInv ==
  /\ \A c \in Codes : names[c] < nextId
  /\ \A c, d \in Codes : names[c] = names[d] /\ names[c] # 0 => c = d
  /\ \A w \in Workers : url[w] < nextId

\* An event is owned by one worker, which has claimed it; the link that it was
\* looked up under still has the event's code, or is gone for ever.
OwnersInv ==
  /\ \A w \in Workers : pc[w] \in Owning =>
       Current(w) \in claimed /\ code[Current(w)] \in Codes
  /\ \A v, w \in Workers : pc[v] \in Owning /\ Owns(w, Current(v)) => v = w
  /\ \A w \in Workers : pc[w] \in {"total", "ref"} =>
       /\ url[w] # 0
       /\ Stored(url[w]) => names[code[Current(w)]] = url[w]

\* What an event has contributed: nothing before it is claimed, nothing while
\* its owner has not counted it, and for its referrer nothing before the last
\* step; what is counted is counted under the link of its code.
CountsInv ==
  /\ \A i \in Ids, e \in Events \ claimed : total[i][e] = 0 /\ refs[i][e] = 0
  /\ \A w \in Workers, i \in Ids :
       /\ pc[w] \in Counting => total[i][Current(w)] = 0
       /\ pc[w] \in Owning => refs[i][Current(w)] = 0
  /\ \A w \in Workers :
       pc[w] = "ref" /\ Stored(url[w]) => total[url[w]][Current(w)] = 1
  /\ \A i \in Ids, e \in Events : total[i][e] <= 1
  /\ RefsWithinTotal
  /\ CountsOfStoredLinks

\* A claimed event has been dealt with, or its owner is about to do so; only
\* claimed events are acknowledged.
DealtWithInv ==
  /\ \A e \in claimed : e \in settled \cup failed \cup BeingCounted
  /\ \A w \in Workers : pc[w] = "ack" => Current(w) \in claimed
  /\ acked \subseteq claimed

\* The inductive invariant.
Inv ==
  /\ TypeOK
  /\ EventsInv
  /\ LinksInv
  /\ OwnersInv
  /\ CountsInv
  /\ DealtWithInv

-----------------------------------------------------------------------------
(* The first and the last event of a batch.                                *)

\* What the assumptions on the constants say of the bounds.
LEMMA Bounds ==
  /\ MaxEvent \in Nat /\ MaxId \in Nat /\ BatchSize \in Nat /\ BatchSize >= 1
  /\ \A e \in Events : e \in Nat /\ 1 <= e /\ e <= MaxEvent
  /\ \A i \in Ids : i \in Nat /\ 1 <= i /\ i <= MaxId
  /\ IsFiniteSet(Events)
<1>1. MaxEvent \in Nat /\ MaxId \in Nat /\ BatchSize \in Nat \ {0}
  BY WorkerConstants
<1>2. IsFiniteSet(1..MaxEvent)
  BY <1>1, FS_Interval
<1> QED
  BY <1>1, <1>2 DEF Events, Ids

\* A finite set of numbers has a least element: of the sets of the elements
\* up to x, one is minimal.
LEMMA LeastElement ==
  ASSUME NEW S, S \subseteq Events, S # {}
  PROVE  \E x \in S : \A y \in S : x <= y
<1> DEFINE UpTo(x) == {y \in S : y <= x}
           Family  == {UpTo(x) : x \in S}
<1>1. IsFiniteSet(S)
  BY Bounds, FS_Subset
<1>2. IsWellFoundedOn(StrictSubsetOrdering(S), SUBSET S)
  BY <1>1, FS_StrictSubsetOrderingWellFounded, FS_FiniteSubsetsOfFinite
<1>3. Family \subseteq SUBSET S /\ Family # {}
  OBVIOUS
<1>4. \E D \in Family : \A C \in Family : ~(<<C, D>> \in StrictSubsetOrdering(S))
  <2> HIDE DEF Family
  <2> QED
    BY <1>2, <1>3, WFMin
<1>5. PICK x \in S : \A y \in S : ~(<<UpTo(y), UpTo(x)>> \in StrictSubsetOrdering(S))
  BY <1>4
<1>6. ASSUME NEW y \in S, ~(x <= y) PROVE FALSE
  <2>1. x \in Int /\ y \in Int /\ y < x /\ \A z \in S : z \in Int
    BY <1>6, Bounds
  <2>2. UpTo(y) \subseteq UpTo(x)
    <3>1. \A z \in S : z <= y => z <= x
      BY <2>1
    <3> QED
      BY <3>1
  <2>3. x \in UpTo(x) /\ x \notin UpTo(y)
    BY <2>1
  <2>4. <<UpTo(y), UpTo(x)>> \in StrictSubsetOrdering(S)
    <3> HIDE DEF UpTo
    <3>1. UpTo(y) \in SUBSET S /\ UpTo(x) \in SUBSET S
      BY DEF UpTo
    <3> QED
      BY <2>2, <2>3, <3>1 DEF StrictSubsetOrdering
  <2> QED
    BY <1>5, <2>4
<1> QED
  BY <1>6

\* The event that is handled next is one of the batch.
LEMMA MinIn ==
  ASSUME NEW S, S \subseteq Events, S # {}
  PROVE  Min(S) \in S
BY LeastElement DEF Min

\* A finite set of numbers has a greatest element: the least one seen from the
\* other side.
LEMMA MaxIn ==
  ASSUME NEW S, S \subseteq Events, S # {}
  PROVE  Max(S) \in S
<1> DEFINE T == {MaxEvent + 1 - x : x \in S}
<1>1. MaxEvent \in Nat /\ \A x \in S : x \in Int /\ 1 <= x /\ x <= MaxEvent
  BY Bounds
<1>2. T \subseteq Events /\ T # {}
  <2>1. \A x \in S : MaxEvent + 1 - x \in 1..MaxEvent
    BY <1>1
  <2> QED
    BY <2>1 DEF Events
<1>3. PICK y \in T : \A z \in T : y <= z
  <2> HIDE DEF T
  <2> QED
    BY <1>2, LeastElement
<1>4. PICK x \in S : y = MaxEvent + 1 - x
  BY <1>3
<1>5. \A z \in S : MaxEvent + 1 - z \in T
  OBVIOUS
<1>6. \A z \in S : x >= z
  <2> HIDE DEF T
  <2> QED
    BY <1>1, <1>3, <1>4, <1>5
<1> QED
  BY <1>6 DEF Max

\* What is delivered next are undelivered events, and at least one if there is
\* one.
LEMMA NextBatchIn ==
  ASSUME TypeOK, Undelivered # {}
  PROVE  NextBatch \subseteq Undelivered /\ NextBatch # {} /\ NextBatch \subseteq Events
<1>1. Undelivered \subseteq Events /\ NextBatch \subseteq Undelivered
  BY DEF Undelivered, NextBatch, TypeOK
<1>2. PICK x \in Undelivered : \A y \in Undelivered : x <= y
  BY <1>1, LeastElement
<1>3. {f \in Undelivered : f <= x} = {x}
  <2>1. \A y \in Undelivered : y \in Int /\ x <= y /\ x \in Int
    BY <1>1, <1>2, Bounds
  <2>2. \A y \in Undelivered : y <= x => y = x
    BY <2>1
  <2> QED
    BY <2>1, <2>2
<1>4. Cardinality({f \in Undelivered : f <= x}) <= BatchSize
  BY <1>3, FS_Singleton, Bounds
<1> QED
  BY <1>1, <1>2, <1>4 DEF NextBatch

-----------------------------------------------------------------------------
(* Type correctness.                                                       *)

\* Where a worker is and what it works on fit together.
BatchType ==
  /\ pc \in [Workers -> Handling \cup {"down", "idle"}]
  /\ batch \in [Workers -> SUBSET Events]
  /\ \A w \in Workers : (pc[w] \in Handling) = (batch[w] # {})

\* A worker that handles an event has one.
LEMMA CurrentIn ==
  ASSUME BatchType, NEW w \in Workers, pc[w] \in Handling
  PROVE  Current(w) \in batch[w] /\ Current(w) \in Events
<1>1. batch[w] # {} /\ batch[w] \subseteq Events
  BY DEF BatchType
<1> QED
  BY <1>1, MinIn DEF Current

\* The three ways in which a step of handle ends keep worker and batch in step.
LEMMA MoveType ==
  ASSUME BatchType, NEW w \in Workers, pc[w] \in Handling,
         \/ Proceed(w)
         \/ Abort(w)
         \/ \E s \in Handling : Goto(w, s)
  PROVE  BatchType'
<1>1. Current(w) \in batch[w]
  BY CurrentIn
<1>2. CASE Proceed(w)
  <2>1. CASE batch[w] = {Current(w)}
    BY <1>2, <2>1 DEF Proceed, BatchType, Handling
  <2>2. CASE batch[w] # {Current(w)}
    <3>1. batch[w] \ {Current(w)} # {}
      BY <1>1, <2>2
    <3> QED
      BY <1>2, <2>2, <3>1 DEF Proceed, BatchType, Handling
  <2> QED
    BY <2>1, <2>2
<1>3. CASE Abort(w)
  BY <1>3 DEF Abort, BatchType, Handling
<1>4. ASSUME NEW s \in Handling, Goto(w, s) PROVE BatchType'
  BY <1>4 DEF Goto, BatchType
<1> QED
  BY <1>2, <1>3, <1>4

\* A failure ends the batch.
LEMMA AbortType ==
  ASSUME TypeOK, NEW w \in Workers, Abort(w)
  PROVE  failed' \subseteq Events
BY DEF TypeOK, Abort

\* One event more is counted, once.
LEMMA CountType ==
  ASSUME NEW t \in Counters, NEW i \in Ids, NEW e \in Events
  PROVE  [t EXCEPT ![i][e] = @ + 1] \in Counters
BY DEF Counters

\* The counters of a link go away.
LEMMA ForgetType ==
  ASSUME NEW t \in Counters, NEW i \in Ids
  PROVE  [t EXCEPT ![i] = [e \in Events |-> 0]] \in Counters
BY DEF Counters

\* A link that is stored has an id.
LEMMA StoredId ==
  ASSUME TypeOK, NEW w \in Workers, url[w] # 0
  PROVE  url[w] \in Ids
BY Bounds DEF TypeOK, Ids

\* The initial state is well typed.
LEMMA TypeInit == Init => TypeOK
<1> SUFFICES ASSUME Init PROVE TypeOK
  OBVIOUS
<1>1. NoCounts \in Counters
  BY DEF NoCounts, Counters
<1>2. nextEvent \in 1..(MaxEvent + 1) /\ nextId \in 1..(MaxId + 1)
  BY Bounds DEF Init
<1>3. 0 \in 0..MaxEvent /\ 0 \in 0..MaxId
  BY Bounds
<1>4. snap \in Snapshot
  BY <1>3 DEF Init, Snapshot
<1>5. BatchType
  BY DEF Init, BatchType, Handling
<1>6. code \in [Events -> Codes \cup {NoCode}] /\ ref \in [Events -> BOOLEAN]
  BY DEF Init
<1> QED
  BY <1>1, <1>2, <1>3, <1>4, <1>5, <1>6 DEF Init, TypeOK, BatchType

\* The steps of handle keep the types.
LEMMA HandleType ==
  ASSUME TypeOK, OwnersInv, NEW w \in Workers, Handle(w)
  PROVE  TypeOK'
<1>0. BatchType /\ pc[w] \in Handling
  BY DEF TypeOK, BatchType, Handle, Skip, Claim, Lookup, CountTotal, CountRef, Ack, Handling
<1>1. Current(w) \in Events
  BY <1>0, CurrentIn
<1>2. /\ {"ack", "lookup", "total", "ref"} \subseteq Handling
      /\ code[Current(w)] \in Codes \cup {NoCode}
  BY <1>1 DEF Handling, TypeOK
<1>3. CASE Skip(w)
  <2>1. BatchType'
    BY <1>0, <1>3, MoveType DEF Skip
  <2> QED
    BY <1>3, <2>1 DEF Skip, TypeOK, BatchType, events, redis, links, counts, history
<1>4. CASE Claim(w)
  <2>1. BatchType' /\ failed' \subseteq Events
    BY <1>0, <1>2, <1>4, MoveType, AbortType DEF Claim, PgError, TypeOK
  <2>2. claimed' \subseteq Events /\ conn' \in [Workers -> BOOLEAN]
    BY <1>1, <1>4 DEF Claim, PgError, TypeOK
  <2> QED
    BY <1>4, <2>1, <2>2 DEF Claim, TypeOK, BatchType, events, redis, links, counts
<1>5. CASE Lookup(w)
  <2>1. BatchType' /\ failed' \subseteq Events
    BY <1>0, <1>2, <1>5, MoveType, AbortType DEF Lookup, PgError, TypeOK
  <2>2. code[Current(w)] \in Codes
    BY <1>5 DEF Lookup, OwnersInv, Owning, Counting
  <2>3. /\ url' \in [Workers -> 0..MaxId] /\ conn' \in [Workers -> BOOLEAN]
        /\ settled' \subseteq Events
    BY <1>1, <1>5, <2>2 DEF Lookup, PgError, TypeOK
  <2> QED
    BY <1>5, <2>1, <2>3 DEF Lookup, TypeOK, BatchType, events, redis, links, counts
<1>6. CASE CountTotal(w)
  <2>1. BatchType' /\ failed' \subseteq Events
    BY <1>0, <1>2, <1>6, MoveType, AbortType DEF CountTotal, PgError, Refused, TypeOK
  <2>2. settled' \subseteq Events /\ conn' \in [Workers -> BOOLEAN]
    BY <1>1, <1>6 DEF CountTotal, PgError, TypeOK
  <2>3. url[w] \in Ids
    BY <1>6, StoredId DEF CountTotal, OwnersInv
  <2>4. total \in Counters
    BY DEF TypeOK
  <2>5. total' \in Counters
    BY <1>1, <1>6, <2>3, <2>4, CountType DEF CountTotal
  <2> QED
    BY <1>6, <2>1, <2>2, <2>5 DEF CountTotal, TypeOK, BatchType, events, redis, links
<1>7. CASE CountRef(w)
  <2>1. BatchType' /\ failed' \subseteq Events
    BY <1>0, <1>2, <1>7, MoveType, AbortType DEF CountRef, PgError, Refused, TypeOK
  <2>2. conn' \in [Workers -> BOOLEAN]
    BY <1>7 DEF CountRef, PgError, TypeOK
  <2>3. url[w] \in Ids
    BY <1>7, StoredId DEF CountRef, OwnersInv
  <2>4. refs \in Counters
    BY DEF TypeOK
  <2>5. refs' \in Counters
    BY <1>1, <1>7, <2>3, <2>4, CountType DEF CountRef
  <2> QED
    BY <1>7, <2>1, <2>2, <2>5 DEF CountRef, TypeOK, BatchType, events, redis, links
<1>8. CASE Ack(w)
  <2>1. BatchType' /\ failed' \subseteq Events
    BY <1>0, <1>8, MoveType, AbortType DEF Ack, TypeOK
  <2>2. pel' \subseteq Events /\ acked' \subseteq Events
    BY <1>1, <1>8 DEF Ack, TypeOK
  <2> QED
    BY <1>8, <2>1, <2>2 DEF Ack, TypeOK, BatchType, events, links, counts
<1> QED
  BY <1>3, <1>4, <1>5, <1>6, <1>7, <1>8 DEF Handle

\* A worker's start, its reads and its death keep the types.
LEMMA LifeType ==
  ASSUME TypeOK, NEW w \in Workers, Start(w) \/ Read(w) \/ Crash(w)
  PROVE  TypeOK'
<1>0. BatchType /\ 0 \in 0..MaxId
  BY Bounds DEF TypeOK, BatchType
<1>1. CASE Start(w)
  <2>1. BatchType'
    BY <1>0, <1>1 DEF Start, BatchType, Handling
  <2>2. cursor' \in 0..MaxEvent /\ pel' \subseteq Events
    BY <1>1, Bounds DEF Start, TypeOK
  <2> QED
    BY <1>1, <2>1, <2>2
    DEF Start, TypeOK, BatchType, events, links, counts, history
<1>2. CASE Read(w)
  <2>1. NextBatch # {} /\ NextBatch \subseteq Events
    BY <1>2, NextBatchIn DEF Read
  <2>2. BatchType'
    BY <1>0, <1>2, <2>1 DEF Read, BatchType, Handling
  <2>3. cursor' \in 0..MaxEvent
    <3>1. cursor' \in Events
      BY <1>2, <2>1, MaxIn DEF Read
    <3> QED
      BY <3>1, Bounds
  <2>4. pel' \subseteq Events /\ failed' \subseteq Events
    BY <1>2, <2>1 DEF Read, TypeOK
  <2> QED
    BY <1>2, <2>2, <2>3, <2>4 DEF Read, TypeOK, BatchType, events, links, counts
<1>3. CASE Crash(w)
  <2>1. BatchType'
    BY <1>0, <1>3 DEF Crash, BatchType, Handling
  <2>2. failed' \subseteq Events
    BY <1>3 DEF Crash, TypeOK
  <2> QED
    BY <1>0, <1>3, <2>1, <2>2
    DEF Crash, TypeOK, BatchType, events, redis, links, counts
<1> QED
  BY <1>1, <1>2, <1>3

\* The environment's steps keep the types, however many entries are added.
LEMMA PublishType ==
  ASSUME TypeOK, NEW c \in Codes \cup {NoCode}, NEW b \in BOOLEAN, NEW k \in Nat,
         Publish(c, b, k)
  PROVE  TypeOK'
<1> DEFINE new == nextEvent..(nextEvent + k - 1)
<1>1. code' \in [Events -> Codes \cup {NoCode}] /\ ref' \in [Events -> BOOLEAN]
  BY DEF Publish, TypeOK
<1>2. new \subseteq Events
  BY DEF Publish
<1>3. stream' \subseteq Events
  BY <1>2 DEF Publish, TypeOK
<1>4. nextEvent' \in 1..(MaxEvent + 1)
  <2>1. nextEvent \in Nat /\ 1 <= nextEvent /\ nextEvent <= MaxEvent + 1 /\ MaxEvent \in Nat
    BY Bounds DEF TypeOK
  <2>2. CASE k = 0
    BY <2>1, <2>2 DEF Publish
  <2>3. CASE k # 0
    <3>1. nextEvent + k - 1 \in new
      BY <2>1, <2>3
    <3>2. nextEvent + k - 1 <= MaxEvent
      BY <1>2, <3>1, Bounds
    <3> QED
      BY <2>1, <3>2 DEF Publish
  <2> QED
    BY <2>2, <2>3
<1> QED
  BY <1>1, <1>3, <1>4 DEF Publish, TypeOK, links, counts, workers, history

\* So does a snapshot of Redis, and a restart from it.
LEMMA RedisType ==
  ASSUME TypeOK, Save \/ Restart
  PROVE  TypeOK'
<1>1. CASE Save
  <2>1. snap' \in Snapshot
    BY <1>1 DEF Save, TypeOK, Snapshot
  <2> QED
    BY <1>1, <2>1
    DEF Save, TypeOK, events, redis, links, counts, workers, history
<1>2. CASE Restart
  <2>1. /\ stream' \subseteq Events /\ group' \in BOOLEAN
        /\ cursor' \in 0..MaxEvent /\ pel' \subseteq Events
    BY <1>2 DEF Restart, TypeOK, Snapshot
  <2> QED
    BY <1>2, <2>1 DEF Restart, TypeOK, events, links, counts, workers, history
<1> QED
  BY <1>1, <1>2

\* So do the create and the delete of a link.
LEMMA LinkType ==
  ASSUME TypeOK, NEW c \in Codes, CreateLink(c) \/ DeleteLink(c)
  PROVE  TypeOK'
<1>1. CASE CreateLink(c)
  <2>1. nextId' \in 1..(MaxId + 1) /\ nextId \in 0..MaxId
    BY <1>1, Bounds DEF CreateLink, TypeOK
  <2>2. names' \in [Codes -> 0..MaxId]
    BY <1>1, <2>1 DEF CreateLink, TypeOK
  <2> QED
    BY <1>1, <2>1, <2>2 DEF CreateLink, TypeOK, events, redis, counts, workers, history
<1>2. CASE DeleteLink(c)
  <2>1. names' \in [Codes -> 0..MaxId]
    BY <1>2, Bounds DEF DeleteLink, TypeOK
  <2>2. names[c] \in Ids /\ total \in Counters /\ refs \in Counters
    BY <1>2, Bounds DEF DeleteLink, TypeOK, Ids
  <2>3. total' \in Counters /\ refs' \in Counters
    BY <1>2, <2>2, ForgetType DEF DeleteLink
  <2> QED
    BY <1>2, <2>1, <2>3 DEF DeleteLink, TypeOK, events, redis, workers, history
<1> QED
  BY <1>1, <1>2

-----------------------------------------------------------------------------
(* What a step leaves alone.                                               *)

\* Worker v keeps its place and what it holds.
Keeps(v) ==
  /\ pc'[v] = pc[v] /\ batch'[v] = batch[v] /\ url'[v] = url[v]
  /\ Current(v)' = Current(v)

\* A step of handle is nothing to the other workers, to the stream and to the
\* links; it claims the current event or none, and works on this one as long
\* as it owns it.
LEMMA HandleFrame ==
  ASSUME TypeOK, NEW w \in Workers, Handle(w)
  PROVE  /\ \A v \in Workers \ {w} : Keeps(v)
         /\ batch'[w] \subseteq batch[w]
         /\ pc'[w] \in Owning \cup {"ack"} => Current(w)' = Current(w)
         /\ UNCHANGED <<events, stream, snap, links>>
         /\ claimed \subseteq claimed' /\ claimed' \subseteq claimed \cup {Current(w)}
<1> USE DEF Goto, Owning, Counting
<1>0. pc \in [Workers -> Handling \cup {"down", "idle"}] /\ batch \in [Workers -> SUBSET Events]
      /\ url \in [Workers -> 0..MaxId]
  BY DEF TypeOK
<1>1. CASE Skip(w)
  BY <1>0, <1>1 DEF Skip, Proceed, Keeps, Current, events, redis, links
<1>2. CASE Claim(w)
  BY <1>0, <1>2 DEF Claim, PgError, Abort, Keeps, Current, events, redis, links
<1>3. CASE Lookup(w)
  BY <1>0, <1>3 DEF Lookup, PgError, Abort, Keeps, Current, events, redis, links
<1>4. CASE CountTotal(w)
  BY <1>0, <1>4 DEF CountTotal, Refused, PgError, Abort, Keeps, Current, events, redis, links
<1>5. CASE CountRef(w)
  BY <1>0, <1>5 DEF CountRef, Refused, PgError, Abort, Keeps, Current, events, redis, links
<1>6. CASE Ack(w)
  BY <1>0, <1>6 DEF Ack, Proceed, Abort, Keeps, Current, events, links
<1> QED
  BY <1>1, <1>2, <1>3, <1>4, <1>5, <1>6 DEF Handle

\* A step is quiet when it neither counts nor changes the links, and no worker
\* owns an event that it did not own before.
Quiet ==
  /\ UNCHANGED <<links, counts, claimed>>
  /\ \A e \in claimed : code'[e] = code[e]
  /\ \A w \in Workers : pc'[w] \in Owning => Keeps(w)

\* Starting, reading and dying are quiet.
LEMMA LifeQuiet ==
  ASSUME TypeOK, NEW w \in Workers, Start(w) \/ Read(w) \/ Crash(w)
  PROVE  Quiet
<1> USE DEF Owning, Counting, Quiet, Keeps, Current, links, counts, events
<1>0. pc \in [Workers -> Handling \cup {"down", "idle"}] /\ batch \in [Workers -> SUBSET Events]
      /\ url \in [Workers -> 0..MaxId]
  BY DEF TypeOK
<1>1. CASE Start(w)
  BY <1>0, <1>1 DEF Start
<1>2. CASE Read(w)
  BY <1>0, <1>2 DEF Read
<1>3. CASE Crash(w)
  BY <1>0, <1>3 DEF Crash
<1> QED
  BY <1>1, <1>2, <1>3

\* So is what happens to the stream: a new entry is none that was claimed.
LEMMA StreamQuiet ==
  ASSUME TypeOK, EventsInv,
         \/ \E c \in Codes \cup {NoCode}, b \in BOOLEAN, k \in Nat : Publish(c, b, k)
         \/ Save \/ Restart
         \/ UNCHANGED vars
  PROVE  Quiet
<1> USE DEF Quiet, Keeps, Current, links, counts, events, workers
<1>1. ASSUME NEW c \in Codes \cup {NoCode}, NEW b \in BOOLEAN, NEW k \in Nat,
             Publish(c, b, k)
      PROVE  Quiet
  <2>1. \A e \in claimed : e \in Events /\ e \notin nextEvent..(nextEvent + k - 1)
    BY Bounds DEF TypeOK, EventsInv, Published
  <2>2. \A e \in claimed : code'[e] = code[e]
    BY <1>1, <2>1 DEF Publish
  <2> QED
    BY <1>1, <2>2 DEF Publish
<1>2. CASE Save
  BY <1>2 DEF Save
<1>3. CASE Restart
  BY <1>3 DEF Restart
<1>4. CASE UNCHANGED vars
  BY <1>4 DEF vars
<1> QED
  BY <1>1, <1>2, <1>3, <1>4

-----------------------------------------------------------------------------
(* The parts of the invariant, one after the other.                        *)

\* A step of the worker, of Redis or of the links; any number of entries may
\* be added at once, as ClickPipeline does.
Step ==
  \/ \E w \in Workers : Start(w) \/ Read(w) \/ Handle(w) \/ Crash(w)
  \/ \E c \in Codes \cup {NoCode}, b \in BOOLEAN, k \in Nat : Publish(c, b, k)
  \/ Save \/ Restart
  \/ \E c \in Codes : CreateLink(c) \/ DeleteLink(c)
  \/ UNCHANGED vars

\* Every step of the specification is one of these.
LEMMA NextIsStep == [Next]_vars => Step
<1>1. /\ \A c \in Visited : c \in Codes \cup {NoCode}
      /\ \A b \in EventRefs : b \in BOOLEAN
      /\ 1 \in Nat
  BY WorkerConstants DEF Visited
<1> QED
  BY <1>1 DEF Next, Step

\* The types are kept.
LEMMA TypeStep == TypeOK /\ OwnersInv /\ Step => TypeOK'
<1> SUFFICES ASSUME TypeOK, OwnersInv, Step PROVE TypeOK'
  OBVIOUS
<1>1. CASE UNCHANGED vars
  BY <1>1 DEF TypeOK, vars, events, redis, links, counts, workers, history
<1> QED
  BY <1>1, HandleType, LifeType, PublishType, RedisType, LinkType DEF Step

\* Only published events are delivered, also after a restart, or claimed.
LEMMA EventsStep == TypeOK /\ EventsInv /\ Step => EventsInv'
<1> SUFFICES ASSUME TypeOK, EventsInv, Step PROVE EventsInv'
  OBVIOUS
<1> USE DEF EventsInv, Published
<1>0. batch \in [Workers -> SUBSET Events] /\ nextEvent \in Nat
  BY Bounds DEF TypeOK
<1>1. ASSUME NEW w \in Workers, Start(w) PROVE EventsInv'
  BY <1>1 DEF Start, events
<1>2. ASSUME NEW w \in Workers, Read(w) PROVE EventsInv'
  <2>1. NextBatch \subseteq 1..(nextEvent - 1)
    BY <1>2, NextBatchIn DEF Read, Undelivered
  <2> QED
    BY <1>0, <1>2, <2>1 DEF Read, events
<1>3. ASSUME NEW w \in Workers, Handle(w) PROVE EventsInv'
  <2>1. claimed' \subseteq 1..(nextEvent - 1)
    <3>1. CASE claimed' = claimed
      BY <3>1
    <3>2. CASE claimed' # claimed
      <4>1. Claim(w)
        BY <1>3, <3>2 DEF Handle, Skip, Lookup, CountTotal, CountRef, Ack
      <4>2. Current(w) \in batch[w]
        BY <4>1, CurrentIn DEF Claim, Handling, TypeOK, BatchType
      <4> QED
        BY <1>3, <4>2, HandleFrame
    <3> QED
      BY <3>1, <3>2
  <2>2. /\ \A v \in Workers : batch'[v] \subseteq batch[v]
        /\ UNCHANGED <<nextEvent, stream, snap>>
    BY <1>3, HandleFrame DEF Keeps, events
  <2> QED
    BY <2>1, <2>2
<1>4. ASSUME NEW w \in Workers, Crash(w) PROVE EventsInv'
  BY <1>0, <1>4 DEF Crash, events, redis
<1>5. ASSUME NEW c, NEW b, NEW k \in Nat, Publish(c, b, k) PROVE EventsInv'
  <2>1. /\ nextEvent' = nextEvent + k
        /\ stream' = stream \cup (nextEvent..(nextEvent + k - 1))
        /\ UNCHANGED <<snap, claimed, batch>>
    BY <1>5 DEF Publish, workers
  <2>2. 1..(nextEvent - 1) \subseteq 1..(nextEvent + k - 1)
    BY <1>0
  <2>3. nextEvent..(nextEvent + k - 1) \subseteq 1..(nextEvent + k - 1)
    BY <1>0, Bounds DEF TypeOK
  <2> QED
    BY <2>1, <2>2, <2>3, <1>0
<1>6. CASE Save
  BY <1>6 DEF Save, events, redis, workers
<1>7. CASE Restart
  BY <1>7 DEF Restart, events, workers
<1>8. ASSUME NEW c \in Codes, CreateLink(c) \/ DeleteLink(c) PROVE EventsInv'
  BY <1>8 DEF CreateLink, DeleteLink, events, redis, workers
<1>9. CASE UNCHANGED vars
  BY <1>9 DEF vars, events, redis, workers
<1> QED
  BY <1>1, <1>2, <1>3, <1>4, <1>5, <1>6, <1>7, <1>8, <1>9 DEF Step

\* An id is given to one link, and to no other ever after.
LEMMA LinksStep == TypeOK /\ OwnersInv /\ LinksInv /\ Step => LinksInv'
<1> SUFFICES ASSUME TypeOK, OwnersInv, LinksInv, Step PROVE LinksInv'
  OBVIOUS
<1> USE DEF LinksInv
<1>0. /\ names \in [Codes -> 0..MaxId] /\ url \in [Workers -> 0..MaxId]
      /\ nextId \in Nat /\ nextId >= 1
      /\ \A j \in 0..MaxId : j \in Nat
  BY Bounds DEF TypeOK
<1>1. ASSUME NEW w \in Workers, Start(w) \/ Read(w) \/ Crash(w) PROVE LinksInv'
  BY <1>0, <1>1 DEF Start, Read, Crash, links
<1>2. ASSUME NEW w \in Workers, Handle(w) PROVE LinksInv'
  <2>1. url'[w] < nextId
    <3>1. CASE Lookup(w)
      <4>1. code[Current(w)] \in Codes
        BY <3>1 DEF Lookup, OwnersInv, Owning, Counting
      <4> QED
        BY <1>0, <3>1, <4>1 DEF Lookup
    <3>2. CASE ~Lookup(w)
      BY <1>2, <3>2 DEF Handle, Skip, Claim, CountTotal, CountRef, Ack
    <3> QED
      BY <3>1, <3>2
  <2>2. (\A v \in Workers \ {w} : url'[v] = url[v]) /\ UNCHANGED <<names, nextId>>
    BY <1>2, HandleFrame DEF Keeps, links
  <2> QED
    BY <2>1, <2>2
<1>3. ASSUME NEW c, NEW b, NEW k, Publish(c, b, k) PROVE LinksInv'
  BY <1>3 DEF Publish, links, workers
<1>4. CASE Save \/ Restart \/ UNCHANGED vars
  BY <1>4 DEF Save, Restart, vars, links, workers
<1>5. ASSUME NEW c \in Codes, CreateLink(c) PROVE LinksInv'
  BY <1>0, <1>5 DEF CreateLink, workers
<1>6. ASSUME NEW c \in Codes, DeleteLink(c) PROVE LinksInv'
  BY <1>0, <1>6 DEF DeleteLink, workers
<1> QED
  BY <1>1, <1>2, <1>3, <1>4, <1>5, <1>6 DEF Step

\* A quiet step makes no owner, and what an owner relies on stays.
LEMMA OwnersQuiet == OwnersInv /\ Quiet => OwnersInv'
<1> SUFFICES ASSUME OwnersInv, Quiet PROVE OwnersInv'
  OBVIOUS
<1> USE DEF OwnersInv, Quiet, Keeps, Owns, links
<1>1. \A i : Stored(i)' <=> Stored(i)
  BY DEF Stored
<1>2. \A w \in Workers : pc'[w] \in Owning =>
        /\ pc[w] \in Owning /\ Current(w)' = Current(w) /\ Current(w) \in claimed
        /\ code'[Current(w)'] = code[Current(w)]
  OBVIOUS
<1>3. \A w \in Workers : pc'[w] \in {"total", "ref"} => pc'[w] \in Owning
  BY DEF Owning, Counting
<1> QED
  BY <1>1, <1>2, <1>3

\* A worker becomes an owner by its claim, which nobody else has; what it finds
\* in the lookup is the link of the event's code.
LEMMA OwnersHandle ==
  ASSUME TypeOK, OwnersInv, NEW w \in Workers, Handle(w)
  PROVE  OwnersInv'
<1> USE DEF Owning, Counting
<1>1. /\ \A v \in Workers \ {w} : Keeps(v)
      /\ pc'[w] \in Owning \cup {"ack"} => Current(w)' = Current(w)
      /\ UNCHANGED <<code, names>> /\ claimed \subseteq claimed'
  BY HandleFrame DEF events, links
<1>2. \A i : Stored(i)' <=> Stored(i)
  BY <1>1 DEF Stored
<1>3. pc'[w] \in Owning =>
        /\ Current(w) \in claimed' /\ code[Current(w)] \in Codes
        /\ pc[w] \in Owning \/ Current(w) \notin claimed
  <2> USE DEF Goto, OwnersInv
  <2>0. pc \in [Workers -> Handling \cup {"down", "idle"}]
    BY DEF TypeOK
  <2>1. CASE Skip(w) \/ Ack(w)
    BY <2>0, <2>1 DEF Skip, Ack, Proceed, Abort
  <2>2. CASE Claim(w)
    <3>1. Current(w) \in Events
      BY <2>2, CurrentIn DEF Claim, Handling, TypeOK, BatchType
    <3>2. code[Current(w)] \in Codes
      BY <2>2, <3>1 DEF Claim, TypeOK
    <3> QED
      BY <2>0, <2>2, <3>2 DEF Claim, SeenBefore, PgError, Abort
  <2>3. CASE Lookup(w) \/ CountTotal(w) \/ CountRef(w)
    <3>1. pc[w] \in Owning
      BY <2>3 DEF Lookup, CountTotal, CountRef
    <3> QED
      BY <1>1, <3>1
  <2> QED
    BY <2>1, <2>2, <2>3 DEF Handle
<1>4. pc'[w] \in {"total", "ref"} =>
        /\ url'[w] # 0
        /\ Stored(url'[w]) => names[code[Current(w)]] = url'[w]
  <2>0. pc \in [Workers -> Handling \cup {"down", "idle"}] /\ url \in [Workers -> 0..MaxId]
    BY DEF TypeOK
  <2>1. CASE Lookup(w)
    BY <2>0, <2>1 DEF Lookup, Goto, PgError, Abort
  <2>2. CASE CountTotal(w)
    BY <2>0, <2>2 DEF CountTotal, OwnersInv
  <2>3. CASE Skip(w) \/ Claim(w) \/ CountRef(w) \/ Ack(w)
    BY <2>0, <2>3 DEF Skip, Claim, CountRef, Ack, Goto, Proceed, PgError, Refused, Abort
  <2> QED
    BY <2>1, <2>2, <2>3 DEF Handle
<1>5. \A v \in Workers : pc'[v] \in Owning =>
        Current(v)' \in claimed' /\ code'[Current(v)'] \in Codes
  BY <1>1, <1>3 DEF OwnersInv, Keeps
<1>6. ASSUME NEW v \in Workers, v # w, pc'[v] \in Owning, pc'[w] \in Owning
      PROVE  Current(v)' # Current(w)'
  BY <1>1, <1>3, <1>6 DEF OwnersInv, Owns, Keeps
<1>7. \A v, x \in Workers : pc'[v] \in Owning /\ Owns(x, Current(v))' => v = x
  BY <1>1, <1>6 DEF OwnersInv, Owns, Keeps
<1>8. \A v \in Workers : pc'[v] \in {"total", "ref"} =>
        /\ url'[v] # 0
        /\ Stored(url[v])' => names'[code'[Current(v)']] = url'[v]
  BY <1>1, <1>2, <1>4 DEF OwnersInv, Keeps
<1> QED
  BY <1>5, <1>7, <1>8 DEF OwnersInv

\* A new link has an id that nobody holds, and a deleted one is stored no more.
LEMMA OwnersLink ==
  ASSUME TypeOK, LinksInv, OwnersInv, NEW c \in Codes, CreateLink(c) \/ DeleteLink(c)
  PROVE  OwnersInv'
<1>0. /\ names \in [Codes -> 0..MaxId] /\ url \in [Workers -> 0..MaxId]
      /\ nextId \in Nat /\ nextId >= 1
      /\ \A j \in 0..MaxId : j \in Nat
  BY Bounds DEF TypeOK
<1>1. /\ UNCHANGED <<code, claimed, pc, batch, url>>
      /\ \A v \in Workers : Current(v)' = Current(v)
  BY DEF CreateLink, DeleteLink, events, workers, Current
<1>2. ASSUME NEW v \in Workers, pc[v] \in {"total", "ref"}, Stored(url[v])'
      PROVE  names'[code[Current(v)]] = url[v]
  <2>1. url[v] # 0 /\ url[v] < nextId
    BY <1>2 DEF OwnersInv, LinksInv
  <2>2. PICK d \in Codes : names'[d] = url[v]
    BY <1>1, <1>2 DEF Stored
  <2>3. names'[d] = names[d] /\ d # c
    BY <1>0, <2>1, <2>2 DEF CreateLink, DeleteLink
  <2>4. names[code[Current(v)]] = url[v] /\ code[Current(v)] \in Codes
    BY <1>2, <2>2, <2>3 DEF OwnersInv, Stored, Owning, Counting
  <2>5. code[Current(v)] = d
    BY <2>1, <2>2, <2>3, <2>4 DEF LinksInv
  <2> QED
    BY <2>2, <2>5
<1> QED
  BY <1>1, <1>2 DEF OwnersInv, Owns

\* Two workers never own the same event.
LEMMA OwnersStep == TypeOK /\ EventsInv /\ LinksInv /\ OwnersInv /\ Step => OwnersInv'
BY OwnersQuiet, OwnersHandle, OwnersLink, LifeQuiet, StreamQuiet DEF Step

\* A quiet step counts nothing, and what is counted stays accounted for.
LEMMA CountsQuiet == TypeOK /\ OwnersInv /\ CountsInv /\ Quiet => CountsInv'
<1> SUFFICES ASSUME TypeOK, OwnersInv, CountsInv, Quiet PROVE CountsInv'
  OBVIOUS
<1>1. /\ UNCHANGED <<names, total, refs, claimed>>
      /\ \A i : Stored(i)' <=> Stored(i)
      /\ \A e \in claimed : code'[e] = code[e]
  BY DEF Quiet, links, counts, Stored
<1>2. \A w \in Workers : pc'[w] \in Owning =>
        pc'[w] = pc[w] /\ url'[w] = url[w] /\ Current(w)' = Current(w)
  BY DEF Quiet, Keeps
<1>3. \A w \in Workers : pc'[w] \in Counting \/ pc'[w] = "ref" => pc'[w] \in Owning
  BY DEF Owning
<1>4. CountsOfStoredLinks'
  <2>1. ASSUME NEW i \in Ids, NEW e \in Events, total[i][e] + refs[i][e] > 0
        PROVE  e \in claimed
    BY <2>1 DEF CountsInv
  <2> QED
    BY <1>1, <2>1 DEF CountsInv, CountsOfStoredLinks
<1>5. RefsWithinTotal'
  BY <1>1 DEF CountsInv, RefsWithinTotal
<1> QED
  BY <1>1, <1>2, <1>3, <1>4, <1>5 DEF CountsInv

\* A step of handle that counts nothing: a new owner has an event that was not
\* claimed, so that nothing of it is counted.
LEMMA CountsUnchanged ==
  ASSUME TypeOK, CountsInv, NEW w \in Workers, Handle(w), UNCHANGED counts,
         ~CountTotal(w)
  PROVE  CountsInv'
<1> USE DEF Owning, Counting, counts
<1>1. /\ \A v \in Workers \ {w} : Keeps(v)
      /\ pc'[w] \in Owning \cup {"ack"} => Current(w)' = Current(w)
      /\ UNCHANGED <<code, names>> /\ claimed \subseteq claimed'
  BY HandleFrame DEF events, links
<1>2. /\ \A i : Stored(i)' <=> Stored(i)
      /\ CountsOfStoredLinks' /\ RefsWithinTotal'
  BY <1>1 DEF CountsInv, CountsOfStoredLinks, RefsWithinTotal, Stored
<1>3. /\ pc'[w] \in Owning => pc'[w] \in Counting
      /\ pc'[w] \in Owning =>
           pc[w] \in Counting \/ Current(w) \in Events \ claimed
  <2>0. pc \in [Workers -> Handling \cup {"down", "idle"}]
    BY DEF TypeOK
  <2>1. CASE Claim(w)
    <3>1. Current(w) \in Events
      BY <2>1, CurrentIn DEF Claim, Handling, TypeOK, BatchType
    <3> QED
      BY <2>0, <2>1, <3>1 DEF Claim, Goto, SeenBefore, PgError, Abort
  <2>2. CASE Lookup(w)
    BY <2>0, <2>2 DEF Lookup, Goto, PgError, Abort
  <2>3. CASE Skip(w) \/ CountRef(w) \/ Ack(w)
    BY <2>0, <2>3 DEF Skip, CountRef, Ack, Goto, Proceed, PgError, Refused, Abort
  <2> QED
    BY <2>1, <2>2, <2>3 DEF Handle
<1>4. \A i \in Ids : pc'[w] \in Owning =>
        total[i][Current(w)] = 0 /\ refs[i][Current(w)] = 0
  BY <1>3 DEF CountsInv
<1>5. \A v \in Workers, i \in Ids :
        /\ pc'[v] \in Counting => total[i][Current(v)'] = 0
        /\ pc'[v] \in Owning => refs[i][Current(v)'] = 0
  BY <1>1, <1>4 DEF CountsInv, Keeps
<1>6. \A v \in Workers :
        pc'[v] = "ref" /\ Stored(url[v])' => total[url'[v]][Current(v)'] = 1
  BY <1>1, <1>2, <1>3 DEF CountsInv, Keeps
<1> QED
  BY <1>1, <1>2, <1>5, <1>6 DEF CountsInv

\* The upsert of the total row is the first that its event sees, and nobody
\* else's; the foreign key has it count for the link of the code.
LEMMA CountsTotal ==
  ASSUME TypeOK, OwnersInv, CountsInv, NEW w \in Workers, CountTotal(w)
  PROVE  CountsInv'
<1> DEFINE e0 == Current(w)
           i0 == url[w]
<1> HIDE DEF e0, i0
<1>0. pc \in [Workers -> Handling \cup {"down", "idle"}] /\ pc[w] = "total"
  BY DEF TypeOK, CountTotal
<1>1. /\ \A v \in Workers \ {w} : Keeps(v)
      /\ pc'[w] \in Owning \cup {"ack"} => Current(w)' = e0
      /\ UNCHANGED <<code, names, claimed, refs>> /\ url'[w] = i0
  BY HandleFrame DEF Handle, CountTotal, events, links, e0, i0
<1>2. /\ e0 \in Events /\ e0 \in claimed /\ i0 \in Ids
      /\ code[e0] \in Codes
      /\ Stored(i0) => names[code[e0]] = i0
  BY <1>0, CurrentIn, StoredId
  DEF TypeOK, BatchType, Handling, OwnersInv, Owning, Counting, e0, i0
<1>3. \A i : Stored(i)' <=> Stored(i)
  BY <1>1 DEF Stored
<1>4. \A i \in Ids : total[i][e0] = 0 /\ refs[i][e0] = 0
  BY <1>0 DEF CountsInv, Owning, Counting, e0
<1>5. \A i \in Ids, e \in Events : total[i][e] \in Nat /\ refs[i][e] \in Nat
  BY DEF TypeOK, Counters
<1>6. \A v \in Workers \ {w} : pc'[v] \in Owning =>
        /\ pc[v] \in Owning /\ pc'[v] = pc[v] /\ url'[v] = url[v]
        /\ Current(v)' = Current(v) /\ Current(v) # e0 /\ Current(v) \in Events
  <2>1. \A v \in Workers : pc[v] \in Owning => Current(v) \in Events
    BY CurrentIn DEF TypeOK, BatchType, Handling, Owning, Counting
  <2> QED
    BY <1>0, <1>1, <2>1 DEF Keeps, OwnersInv, Owns, Owning, Counting, e0
<1>7. /\ pc'[w] \notin Counting
      /\ pc'[w] = "ref" => total' = [total EXCEPT ![i0][e0] = @ + 1]
  BY <1>0 DEF CountTotal, Goto, PgError, Refused, Abort, Counting, i0, e0
<1>8. total' = total \/ (Stored(i0) /\ total' = [total EXCEPT ![i0][e0] = @ + 1])
  BY DEF CountTotal, ForeignKey, i0, e0
<1>9. \A i \in Ids, e \in Events :
        total'[i][e] = total[i][e] \/ (i = i0 /\ e = e0 /\ total'[i][e] = 1 /\ Stored(i0))
  BY <1>2, <1>4, <1>8 DEF TypeOK, Counters
<1>10. \A i \in Ids, e \in Events \ claimed : total'[i][e] = 0 /\ refs'[i][e] = 0
  BY <1>1, <1>2, <1>9 DEF CountsInv
<1>11. \A v \in Workers, i \in Ids :
         /\ pc'[v] \in Counting => total'[i][Current(v)'] = 0
         /\ pc'[v] \in Owning => refs'[i][Current(v)'] = 0
  <2>1. ASSUME NEW v \in Workers \ {w}, NEW i \in Ids
        PROVE  /\ pc'[v] \in Counting => total'[i][Current(v)'] = 0
               /\ pc'[v] \in Owning => refs'[i][Current(v)'] = 0
    BY <1>1, <1>6, <1>9 DEF CountsInv, Owning
  <2>2. \A i \in Ids : pc'[w] \in Owning => refs'[i][Current(w)'] = 0
    BY <1>1, <1>4
  <2> QED
    BY <2>1, <2>2, <1>7
<1>12. \A v \in Workers :
         pc'[v] = "ref" /\ Stored(url[v])' => total'[url'[v]][Current(v)'] = 1
  <2>1. ASSUME NEW v \in Workers \ {w}, pc'[v] = "ref", Stored(url[v])'
        PROVE  total'[url'[v]][Current(v)'] = 1
    <3>1. pc[v] = "ref" /\ Stored(url[v]) /\ url'[v] = url[v] /\ Current(v)' = Current(v)
          /\ Current(v) # e0 /\ Current(v) \in Events
      BY <1>3, <1>6, <2>1 DEF Owning
    <3>2. total[url[v]][Current(v)] = 1 /\ url[v] \in Ids
      BY <3>1, StoredId DEF CountsInv, OwnersInv
    <3> QED
      BY <1>9, <3>1, <3>2
  <2>2. ASSUME pc'[w] = "ref" PROVE total'[url'[w]][Current(w)'] = 1
    <3>1. total' = [total EXCEPT ![i0][e0] = @ + 1] /\ Current(w)' = e0 /\ url'[w] = i0
      BY <1>1, <1>7, <2>2 DEF Owning
    <3> QED
      BY <1>2, <1>4, <3>1 DEF TypeOK, Counters
  <2> QED
    BY <2>1, <2>2
<1>13. \A i \in Ids, e \in Events : total'[i][e] <= 1
  BY <1>9 DEF CountsInv
<1>14. RefsWithinTotal'
  BY <1>1, <1>4, <1>9 DEF CountsInv, RefsWithinTotal
<1>15. CountsOfStoredLinks'
  <2>1. ASSUME NEW i \in Ids, NEW e \in Events, total'[i][e] + refs'[i][e] > 0
        PROVE  code[e] \in Codes /\ names[code[e]] = i
    <3>1. CASE total'[i][e] = total[i][e]
      <4>1. total[i][e] + refs[i][e] > 0
        BY <1>1, <2>1, <3>1
      <4> QED
        BY <4>1 DEF CountsInv, CountsOfStoredLinks
    <3>2. CASE total'[i][e] # total[i][e]
      BY <1>2, <1>9, <3>2
    <3> QED
      BY <3>1, <3>2
  <2> QED
    BY <1>1, <2>1 DEF CountsOfStoredLinks
<1> QED
  BY <1>1, <1>10, <1>11, <1>12, <1>13, <1>14, <1>15 DEF CountsInv

\* The upsert of the referrer row is the first that its event sees, and comes
\* after the one of the total row, which a delete would have taken with it.
LEMMA CountsRef ==
  ASSUME TypeOK, OwnersInv, CountsInv, NEW w \in Workers, CountRef(w)
  PROVE  CountsInv'
<1> DEFINE e0 == Current(w)
           i0 == url[w]
<1> HIDE DEF e0, i0
<1>0. pc \in [Workers -> Handling \cup {"down", "idle"}] /\ pc[w] = "ref"
  BY DEF TypeOK, CountRef
<1>1. /\ \A v \in Workers \ {w} : Keeps(v)
      /\ UNCHANGED <<code, names, claimed, total>>
  BY HandleFrame DEF Handle, CountRef, events, links
<1>2. /\ e0 \in Events /\ e0 \in claimed /\ i0 \in Ids
      /\ code[e0] \in Codes
      /\ Stored(i0) => names[code[e0]] = i0
  BY <1>0, CurrentIn, StoredId
  DEF TypeOK, BatchType, Handling, OwnersInv, Owning, Counting, e0, i0
<1>3. \A i : Stored(i)' <=> Stored(i)
  BY <1>1 DEF Stored
<1>4. /\ \A i \in Ids : refs[i][e0] = 0
      /\ Stored(i0) => total[i0][e0] = 1
  BY <1>0 DEF CountsInv, Owning, e0, i0
<1>5. \A i \in Ids, e \in Events : total[i][e] \in Nat /\ refs[i][e] \in Nat
  BY DEF TypeOK, Counters
<1>6. \A v \in Workers \ {w} : pc'[v] \in Owning =>
        /\ pc[v] \in Owning /\ pc'[v] = pc[v] /\ url'[v] = url[v]
        /\ Current(v)' = Current(v) /\ Current(v) # e0 /\ Current(v) \in Events
  <2>1. \A v \in Workers : pc[v] \in Owning => Current(v) \in Events
    BY CurrentIn DEF TypeOK, BatchType, Handling, Owning, Counting
  <2> QED
    BY <1>0, <1>1, <2>1 DEF Keeps, OwnersInv, Owns, Owning, Counting, e0
<1>7. pc'[w] \notin Owning
  BY <1>0 DEF CountRef, Goto, PgError, Refused, Abort, Owning, Counting
<1>8. refs' = refs \/ (Stored(i0) /\ refs' = [refs EXCEPT ![i0][e0] = @ + 1])
  BY DEF CountRef, ForeignKey, i0, e0
<1>9. \A i \in Ids, e \in Events :
        refs'[i][e] = refs[i][e] \/ (i = i0 /\ e = e0 /\ refs'[i][e] = 1 /\ Stored(i0))
  BY <1>2, <1>4, <1>8 DEF TypeOK, Counters
<1>10. \A i \in Ids, e \in Events \ claimed : total'[i][e] = 0 /\ refs'[i][e] = 0
  BY <1>1, <1>2, <1>9 DEF CountsInv
<1>11. \A v \in Workers, i \in Ids :
         /\ pc'[v] \in Counting => total'[i][Current(v)'] = 0
         /\ pc'[v] \in Owning => refs'[i][Current(v)'] = 0
  <2>1. ASSUME NEW v \in Workers \ {w}, NEW i \in Ids
        PROVE  /\ pc'[v] \in Counting => total'[i][Current(v)'] = 0
               /\ pc'[v] \in Owning => refs'[i][Current(v)'] = 0
    BY <1>1, <1>6, <1>9 DEF CountsInv, Owning
  <2> QED
    BY <2>1, <1>7 DEF Owning
<1>12. \A v \in Workers :
         pc'[v] = "ref" /\ Stored(url[v])' => total'[url'[v]][Current(v)'] = 1
  BY <1>1, <1>3, <1>6, <1>7 DEF CountsInv, Owning
<1>13. RefsWithinTotal'
  BY <1>1, <1>4, <1>9 DEF CountsInv, RefsWithinTotal
<1>14. CountsOfStoredLinks'
  <2>1. ASSUME NEW i \in Ids, NEW e \in Events, total'[i][e] + refs'[i][e] > 0
        PROVE  code[e] \in Codes /\ names[code[e]] = i
    <3>1. CASE refs'[i][e] = refs[i][e]
      <4>1. total[i][e] + refs[i][e] > 0
        BY <1>1, <2>1, <3>1
      <4> QED
        BY <4>1 DEF CountsInv, CountsOfStoredLinks
    <3>2. CASE refs'[i][e] # refs[i][e]
      BY <1>2, <1>9, <3>2
    <3> QED
      BY <3>1, <3>2
  <2> QED
    BY <1>1, <2>1 DEF CountsOfStoredLinks
<1> QED
  BY <1>1, <1>10, <1>11, <1>12, <1>13, <1>14 DEF CountsInv

\* The counts of a new link are empty, for its code was nobody's; those of a
\* deleted one go with it, and its owners find it stored no more.
LEMMA CountsLink ==
  ASSUME TypeOK, LinksInv, OwnersInv, CountsInv, NEW c \in Codes,
         CreateLink(c) \/ DeleteLink(c)
  PROVE  CountsInv'
<1>0. /\ names \in [Codes -> 0..MaxId] /\ nextId \in Nat /\ nextId >= 1
      /\ \A j \in 0..MaxId : j \in Nat
      /\ \A i \in Ids, e \in Events : total[i][e] \in Nat /\ refs[i][e] \in Nat
      /\ total \in Counters /\ refs \in Counters
      /\ \A i \in Ids : i # 0
  BY Bounds DEF TypeOK, Counters
<1>1. /\ UNCHANGED <<code, claimed, pc, batch, url>>
      /\ \A v \in Workers : Current(v)' = Current(v)
      /\ \A v \in Workers : pc[v] \in Owning => Current(v) \in Events
  BY CurrentIn
  DEF CreateLink, DeleteLink, events, workers, Current, TypeOK, BatchType, Handling,
      Owning, Counting
<1>2. CASE CreateLink(c)
  <2>1. UNCHANGED <<total, refs>>
    BY <1>2 DEF CreateLink, counts
  <2>2. \A v \in Workers : pc[v] = "ref" /\ Stored(url[v])' => Stored(url[v])
    BY <1>0, <1>1, <1>2 DEF CreateLink, Stored, LinksInv
  <2>3. CountsOfStoredLinks'
    BY <1>0, <1>1, <1>2, <2>1 DEF CreateLink, CountsInv, CountsOfStoredLinks
  <2> QED
    BY <1>1, <2>1, <2>2, <2>3 DEF CountsInv, RefsWithinTotal
<1>3. CASE DeleteLink(c)
  <2> DEFINE i0 == names[c]
  <2> HIDE DEF i0
  <2>1. i0 \in Ids
    BY <1>0, <1>3 DEF DeleteLink, Ids, i0
  <2>2. \A i \in Ids, e \in Events :
          /\ total'[i][e] = IF i = i0 THEN 0 ELSE total[i][e]
          /\ refs'[i][e] = IF i = i0 THEN 0 ELSE refs[i][e]
    BY <1>0, <1>3, <2>1 DEF DeleteLink, Counters, i0
  <2>3. \A d \in Codes : names'[d] = IF d = c THEN 0 ELSE names[d]
    BY <1>0, <1>3 DEF DeleteLink
  <2>4. \A d \in Codes : names[d] = i0 => d = c
    BY <1>0, <2>1 DEF LinksInv, i0
  <2>5. ~\E d \in Codes : names'[d] = i0
    BY <1>0, <2>1, <2>3, <2>4
  <2>6. \A v \in Workers : pc[v] = "ref" /\ Stored(url[v])' =>
          Stored(url[v]) /\ url[v] # i0 /\ url[v] \in Ids
    <3>1. ASSUME NEW v \in Workers, pc[v] = "ref", Stored(url[v])'
          PROVE  Stored(url[v]) /\ url[v] # i0 /\ url[v] \in Ids
      <4>1. PICK d \in Codes : names'[d] = url[v]
        BY <1>1, <3>1 DEF Stored
      <4>2. url[v] # i0 /\ url[v] # 0 /\ url[v] \in Ids
        BY <2>5, <3>1, <4>1, StoredId DEF OwnersInv
      <4>3. names[d] = url[v]
        BY <2>3, <4>1, <4>2
      <4> QED
        BY <4>2, <4>3 DEF Stored
    <3> QED
      BY <3>1
  <2>7. CountsOfStoredLinks'
    <3>1. ASSUME NEW i \in Ids, NEW e \in Events, total'[i][e] + refs'[i][e] > 0
          PROVE  code[e] \in Codes /\ names'[code[e]] = i
      <4>1. i # i0 /\ total[i][e] + refs[i][e] > 0
        BY <2>2, <3>1
      <4>2. code[e] \in Codes /\ names[code[e]] = i
        BY <4>1 DEF CountsInv, CountsOfStoredLinks
      <4> QED
        BY <2>3, <4>1, <4>2 DEF i0
    <3> QED
      BY <1>1, <3>1 DEF CountsOfStoredLinks
  <2>8. RefsWithinTotal'
    BY <2>2, <1>0 DEF CountsInv, RefsWithinTotal
  <2>9. \A v \in Workers :
          pc'[v] = "ref" /\ Stored(url[v])' => total'[url'[v]][Current(v)'] = 1
    BY <1>1, <2>2, <2>6 DEF CountsInv, Owning
  <2>10. \A v \in Workers, i \in Ids :
           /\ pc'[v] \in Counting => total'[i][Current(v)'] = 0
           /\ pc'[v] \in Owning => refs'[i][Current(v)'] = 0
    BY <1>1, <2>2 DEF CountsInv, Owning
  <2>11. /\ \A i \in Ids, e \in Events \ claimed : total'[i][e] = 0 /\ refs'[i][e] = 0
         /\ \A i \in Ids, e \in Events : total'[i][e] <= 1
    BY <2>2 DEF CountsInv
  <2> QED
    BY <1>1, <2>7, <2>8, <2>9, <2>10, <2>11 DEF CountsInv
<1> QED
  BY <1>2, <1>3

\* Every event is counted once at most, under the link of its code.
LEMMA CountsStep ==
  TypeOK /\ EventsInv /\ LinksInv /\ OwnersInv /\ CountsInv /\ Step => CountsInv'
<1> SUFFICES ASSUME TypeOK, EventsInv, LinksInv, OwnersInv, CountsInv, Step
             PROVE  CountsInv'
  OBVIOUS
<1>1. ASSUME NEW w \in Workers, Handle(w) PROVE CountsInv'
  <2>1. CASE CountTotal(w)
    BY <2>1, CountsTotal
  <2>2. CASE CountRef(w)
    BY <2>2, CountsRef
  <2>3. CASE Skip(w) \/ Claim(w) \/ Lookup(w) \/ Ack(w)
    <3>1. ~CountTotal(w)
      BY <2>3 DEF Skip, Claim, Lookup, Ack, CountTotal
    <3>2. UNCHANGED counts
      BY <2>3 DEF Skip, Claim, Lookup, Ack
    <3> QED
      BY <1>1, <3>1, <3>2, CountsUnchanged
  <2> QED
    BY <1>1, <2>1, <2>2, <2>3 DEF Handle
<1> QED
  BY <1>1, CountsQuiet, CountsLink, LifeQuiet, StreamQuiet DEF Step

-----------------------------------------------------------------------------
(* Where an event goes.                                                    *)

\* A worker gets to the ack with an event that somebody has claimed.
LEMMA AckClaimed ==
  ASSUME TypeOK, OwnersInv, DealtWithInv, NEW w \in Workers, Handle(w), pc'[w] = "ack"
  PROVE  Current(w) \in claimed
<1>0. pc \in [Workers -> Handling \cup {"down", "idle"}]
  BY DEF TypeOK
<1>1. CASE pc[w] \in Owning
  BY <1>1 DEF OwnersInv
<1>2. CASE Claim(w)
  BY <1>0, <1>2 DEF Claim, Goto, SeenBefore, PgError, Abort
<1>3. CASE Skip(w) \/ Ack(w)
  BY <1>0, <1>3 DEF Skip, Ack, Proceed, Abort
<1> QED
  BY <1>1, <1>2, <1>3 DEF Handle, Lookup, CountTotal, CountRef, Owning, Counting

\* A worker that is about to count an event goes on with it, or counts it or
\* finds no link for it, or gives it up.
LEMMA CountingStep ==
  ASSUME TypeOK, NEW w \in Workers, pc[w] \in Counting, Handle(w) \/ Crash(w)
  PROVE  \/ pc'[w] \in Counting /\ Current(w)' = Current(w)
         \/ Current(w) \in settled' \cup failed'
<1>0. /\ pc \in [Workers -> Handling \cup {"down", "idle"}]
      /\ Current(w) \in batch[w]
  BY CurrentIn DEF TypeOK, BatchType, Handling, Counting
<1>1. CASE Lookup(w)
  BY <1>0, <1>1 DEF Lookup, Goto, PgError, Abort, Counting, Current
<1>2. CASE CountTotal(w)
  BY <1>0, <1>2 DEF CountTotal, Goto, PgError, Refused, Abort, Counting
<1>3. CASE Crash(w)
  BY <1>0, <1>3 DEF Crash
<1> QED
  BY <1>1, <1>2, <1>3 DEF Handle, Skip, Claim, CountRef, Ack, Counting

\* What has been counted or given up stays so.
LEMMA HistoryGrows == Step => settled \subseteq settled' /\ failed \subseteq failed'
BY DEF Step, Start, Read, Handle, Skip, Claim, Lookup, CountTotal, CountRef, Ack, Crash,
   PgError, Refused, Abort, Goto, Publish, Save, Restart, CreateLink, DeleteLink, history,
   vars

\* Only the worker that takes a step is moved by it.
LEMMA OthersKeep ==
  ASSUME TypeOK, NEW w \in Workers, Start(w) \/ Read(w) \/ Handle(w) \/ Crash(w)
  PROVE  \A v \in Workers \ {w} : Keeps(v)
<1>1. CASE Handle(w)
  BY <1>1, HandleFrame
<1>2. CASE Start(w) \/ Read(w) \/ Crash(w)
  BY <1>2 DEF TypeOK, Start, Read, Crash, Keeps, Current
<1> QED
  BY <1>1, <1>2

\* The steps of the environment move no worker.
LEMMA AllKeep ==
  ASSUME \/ \E c, b, k : Publish(c, b, k)
         \/ Save \/ Restart
         \/ \E c \in Codes : CreateLink(c) \/ DeleteLink(c)
         \/ UNCHANGED vars
  PROVE  \A v \in Workers : Keeps(v)
BY DEF Publish, Save, Restart, CreateLink, DeleteLink, Keeps, Current, workers, vars

\* So a step is a step of a worker, or keeps it.
LEMMA StepOrKeeps ==
  ASSUME TypeOK, Step, NEW v \in Workers
  PROVE  Keeps(v) \/ Start(v) \/ Read(v) \/ Handle(v) \/ Crash(v)
BY OthersKeep, AllKeep DEF Step

\* BeingCounted, by its elements.
LEMMA BeingCountedIn ==
  /\ \A e : e \in BeingCounted <=> \E w \in Workers : pc[w] \in Counting /\ e = Current(w)
  /\ \A e : e \in BeingCounted' <=>
        \E w \in Workers : pc'[w] \in Counting /\ e = Current(w)'
BY DEF BeingCounted, Counting

\* An event that has been dealt with, or is being counted, stays so.
LEMMA DealtWithStays ==
  ASSUME TypeOK, Step, NEW e, e \in settled \cup failed \cup BeingCounted
  PROVE  e \in settled' \cup failed' \cup BeingCounted'
<1>1. CASE e \in settled \cup failed
  BY <1>1, HistoryGrows
<1>2. ASSUME NEW w \in Workers, pc[w] \in Counting, e = Current(w)
      PROVE  e \in settled' \cup failed' \cup BeingCounted'
  <2>1. CASE Keeps(w)
    BY <1>2, <2>1, BeingCountedIn DEF Keeps
  <2>2. CASE Handle(w) \/ Crash(w)
    BY <1>2, <2>2, CountingStep, BeingCountedIn
  <2>3. CASE Start(w) \/ Read(w)
    BY <1>2, <2>3 DEF Start, Read, Counting
  <2> QED
    BY <2>1, <2>2, <2>3, StepOrKeeps
<1> QED
  BY <1>1, <1>2, BeingCountedIn

\* A claim is followed by an attempt, or fails with its event given up.
LEMMA ClaimDealtWith ==
  ASSUME TypeOK, NEW w \in Workers, Claim(w), Current(w) \in claimed' \ claimed
  PROVE  Current(w) \in settled' \cup failed' \cup BeingCounted'
<1>0. pc \in [Workers -> Handling \cup {"down", "idle"}] /\ Current(w) \in batch[w]
  BY CurrentIn DEF TypeOK, BatchType, Claim, Handling
<1>1. CASE PgError(w)
  BY <1>0, <1>1 DEF Claim, PgError, Abort
<1>2. CASE Goto(w, IF SeenBefore(w) THEN "ack" ELSE "lookup")
  <2>1. pc'[w] \in Counting /\ Current(w)' = Current(w)
    BY <1>0, <1>2 DEF Goto, SeenBefore, Counting, Current
  <2> QED
    BY <2>1, BeingCountedIn
<1> QED
  BY <1>1, <1>2 DEF Claim

\* What is claimed is dealt with, and what is acknowledged was claimed.
LEMMA DealtWithStep ==
  TypeOK /\ OwnersInv /\ DealtWithInv /\ Step => DealtWithInv'
<1> SUFFICES ASSUME TypeOK, OwnersInv, DealtWithInv, Step PROVE DealtWithInv'
  OBVIOUS
<1>1. ASSUME NEW w \in Workers, Handle(w) PROVE DealtWithInv'
  <2>1. /\ \A v \in Workers \ {w} : Keeps(v)
        /\ pc'[w] \in Owning \cup {"ack"} => Current(w)' = Current(w)
        /\ claimed \subseteq claimed' /\ claimed' \subseteq claimed \cup {Current(w)}
    BY <1>1, HandleFrame
  <2>2. \A e \in claimed' : e \in settled' \cup failed' \cup BeingCounted'
    <3>1. CASE claimed' = claimed
      BY <3>1, DealtWithStays DEF DealtWithInv
    <3>2. CASE Claim(w)
      BY <2>1, <3>2, DealtWithStays, ClaimDealtWith DEF DealtWithInv
    <3> QED
      BY <1>1, <3>1, <3>2 DEF Handle, Skip, Lookup, CountTotal, CountRef, Ack
  <2>3. \A v \in Workers : pc'[v] = "ack" => Current(v)' \in claimed'
    BY <1>1, <2>1, AckClaimed DEF DealtWithInv, Keeps
  <2>4. acked' \subseteq claimed'
    <3>1. CASE Ack(w)
      BY <2>1, <3>1 DEF Ack, DealtWithInv
    <3>2. CASE ~Ack(w)
      BY <1>1, <2>1, <3>2
      DEF Handle, Skip, Claim, Lookup, CountTotal, CountRef, DealtWithInv, history
    <3> QED
      BY <3>1, <3>2
  <2> QED
    BY <2>2, <2>3, <2>4 DEF DealtWithInv
<1>2. ASSUME ~\E w \in Workers : Handle(w) PROVE DealtWithInv'
  <2>1. UNCHANGED <<claimed, acked>>
    BY <1>2
    DEF Step, Start, Read, Crash, Publish, Save, Restart, CreateLink, DeleteLink, history, vars
  <2>2. ASSUME NEW v \in Workers, pc'[v] = "ack" PROVE Current(v)' \in claimed
    <3>1. Keeps(v) \/ Start(v) \/ Read(v) \/ Crash(v)
      BY <1>2, StepOrKeeps
    <3>2. pc \in [Workers -> Handling \cup {"down", "idle"}]
      BY DEF TypeOK
    <3>3. Keeps(v)
      BY <2>2, <3>1, <3>2 DEF Start, Read, Crash, Keeps, Current
    <3> QED
      BY <2>2, <3>3 DEF Keeps, DealtWithInv
  <2> QED
    BY <2>1, <2>2, DealtWithStays DEF DealtWithInv
<1> QED
  BY <1>1, <1>2

-----------------------------------------------------------------------------
(* The theorems.                                                           *)

\* The invariant holds at the start.
LEMMA InvInit == Init => Inv
<1> SUFFICES ASSUME Init PROVE Inv
  OBVIOUS
<1>1. TypeOK
  BY TypeInit
<1>2. EventsInv
  BY DEF Init, EventsInv
<1>3. LinksInv
  BY DEF Init, LinksInv
<1>4. OwnersInv
  BY DEF Init, OwnersInv, Owns, Owning, Counting
<1>5. \A i \in Ids, e \in Events : total[i][e] = 0 /\ refs[i][e] = 0
  BY DEF Init, NoCounts
<1>6. CountsInv
  BY <1>5 DEF Init, CountsInv, RefsWithinTotal, CountsOfStoredLinks, Owning, Counting
<1>7. DealtWithInv
  BY DEF Init, DealtWithInv
<1> QED
  BY <1>1, <1>2, <1>3, <1>4, <1>6, <1>7 DEF Inv

\* Every step keeps the invariant.
LEMMA InvStep == Inv /\ Step => Inv'
BY TypeStep, EventsStep, LinksStep, OwnersStep, CountsStep, DealtWithStep DEF Inv

\* The invariant holds in every run.
LEMMA InvHolds == Spec => []Inv
BY InvInit, InvStep, NextIsStep, PTL DEF Spec

\* The state is well typed in every run.
THEOREM TypeCorrect == Spec => []TypeOK
<1>1. Inv => TypeOK
  BY DEF Inv
<1> QED
  BY <1>1, InvHolds, PTL

\* Consequences of the invariant that the runs check.
LEMMA InvCounts == Inv => AtMostOnce /\ RefsWithinTotal /\ CountsOfStoredLinks
<1> SUFFICES ASSUME Inv PROVE AtMostOnce
  BY DEF Inv, CountsInv
<1>1. \A i \in Ids, e \in Events : total[i][e] \in Nat /\ refs[i][e] \in Nat
  BY DEF Inv, TypeOK, Counters
<1>2. \A i \in Ids, e \in Events : total[i][e] <= 1 /\ refs[i][e] <= 1
  BY <1>1 DEF Inv, CountsInv, RefsWithinTotal
<1>3. \A i \in Ids, e \in Events : total[i][e] > 0 => names[code[e]] = i
  BY <1>1 DEF Inv, CountsInv, CountsOfStoredLinks
<1> QED
  BY <1>2, <1>3 DEF AtMostOnce

\* A click is counted at most once and under one link, whatever is delivered
\* again, to however many workers, and whichever statement fails committed.
THEOREM CountedAtMostOnce == Spec => []AtMostOnce
BY InvHolds, InvCounts, PTL

\* No link ever shows a referrer's click that its total does not include.
THEOREM ReferrersWithinTotal == Spec => []RefsWithinTotal
BY InvHolds, InvCounts, PTL

\* Clicks are shown for the link that their code names now, also when a delete
\* comes between the lookup and the upserts.
THEOREM CountsBelongToStoredLinks == Spec => []CountsOfStoredLinks
BY InvHolds, InvCounts, PTL

\* The same of what is acknowledged.
LEMMA InvLoss == Inv => LossNeedsFailure
BY BeingCountedIn DEF Inv, DealtWithInv, LossNeedsFailure, Counting

\* An acknowledged event has been counted or had no link, or an attempt at it
\* was given up, or is still being counted.
THEOREM NoLossWithoutFailure == Spec => []LossNeedsFailure
BY InvHolds, InvLoss, PTL

-----------------------------------------------------------------------------
(* The counters implement the ledger.                                      *)

\* What is open after a step of worker w: the event that it has begun or ended
\* to count is nobody else's.
LEMMA OpenAfter ==
  ASSUME OwnersInv, NEW w \in Workers, \A v \in Workers \ {w} : Keeps(v)
  PROVE  /\ pc[w] \in Counting /\ pc'[w] \notin Counting =>
              Current(w) \in BeingCounted /\ BeingCounted' = BeingCounted \ {Current(w)}
         /\ pc[w] \in Counting /\ pc'[w] \in Counting /\ Current(w)' = Current(w) =>
              BeingCounted' = BeingCounted
         /\ pc[w] \notin Counting /\ pc'[w] \notin Counting =>
              BeingCounted' = BeingCounted
         /\ pc[w] \notin Counting /\ pc'[w] \in Counting /\ Current(w)' = Current(w) =>
              BeingCounted' = BeingCounted \cup {Current(w)}
<1>1. \A v \in Workers \ {w} : pc'[v] = pc[v] /\ Current(v)' = Current(v)
  BY DEF Keeps
<1>2. \A e : e \in BeingCounted' <=>
        \/ pc'[w] \in Counting /\ e = Current(w)'
        \/ \E v \in Workers \ {w} : pc[v] \in Counting /\ e = Current(v)
  BY <1>1, BeingCountedIn
<1>3. \A e : e \in BeingCounted <=>
        \/ pc[w] \in Counting /\ e = Current(w)
        \/ \E v \in Workers \ {w} : pc[v] \in Counting /\ e = Current(v)
  BY BeingCountedIn
<1>4. pc[w] \in Counting =>
        ~\E v \in Workers \ {w} : pc[v] \in Counting /\ Current(w) = Current(v)
  BY DEF OwnersInv, Owns, Owning
<1> QED
  BY <1>2, <1>3, <1>4

\* A step of the ledger, or none.
LedgerStep == [Ledger!Next]_<<claimed, BeingCounted, total>>

\* A claim takes the event up, or loses it on the way; an event that has been
\* claimed before is not taken up again.
LEMMA LedgerClaim ==
  ASSUME TypeOK, OwnersInv, NEW w \in Workers, Claim(w)
  PROVE  LedgerStep
<1>0. /\ pc \in [Workers -> Handling \cup {"down", "idle"}]
      /\ Current(w) \in Events /\ pc[w] \notin Counting
      /\ \A v \in Workers \ {w} : Keeps(v)
      /\ UNCHANGED total
  BY CurrentIn, HandleFrame DEF Handle, TypeOK, BatchType, Claim, Handling, Counting, counts
<1>1. CASE PgError(w)
  <2>1. BeingCounted' = BeingCounted
    BY <1>0, <1>1, OpenAfter DEF PgError, Abort, Counting
  <2>2. claimed' = claimed \/ claimed' = claimed \cup {Current(w)}
    BY <1>1 DEF Claim
  <2> QED
    BY <1>0, <2>1, <2>2 DEF LedgerStep, Ledger!Next, Ledger!Take
<1>2. CASE SeenBefore(w) /\ claimed' = claimed \cup {Current(w)} /\ Goto(w, "ack")
  <2>1. BeingCounted' = BeingCounted
    BY <1>0, <1>2, OpenAfter DEF Goto, Counting
  <2>2. claimed' = claimed
    BY <1>2 DEF SeenBefore
  <2> QED
    BY <1>0, <2>1, <2>2 DEF LedgerStep
<1>3. CASE ~SeenBefore(w) /\ claimed' = claimed \cup {Current(w)} /\ Goto(w, "lookup")
  <2>1. BeingCounted' = BeingCounted \cup {Current(w)}
    BY <1>0, <1>3, OpenAfter DEF Goto, Counting, Current
  <2>2. Current(w) \notin claimed
    BY <1>3 DEF SeenBefore
  <2> QED
    BY <1>0, <1>3, <2>1, <2>2 DEF LedgerStep, Ledger!Next, Ledger!Take
<1> QED
  BY <1>1, <1>2, <1>3 DEF Claim

\* The end of an attempt that counts nothing gives the event up.
LEMMA LedgerGiveUp ==
  ASSUME TypeOK, OwnersInv, NEW w \in Workers, pc[w] \in Counting,
         \A v \in Workers \ {w} : Keeps(v), UNCHANGED <<claimed, total>>,
         pc'[w] \in Counting => Current(w)' = Current(w)
  PROVE  LedgerStep
<1>1. Current(w) \in Events
  BY CurrentIn DEF TypeOK, BatchType, Handling, Counting
<1> QED
  BY <1>1, OpenAfter DEF LedgerStep, Ledger!Next, Ledger!GiveUp

\* An upsert that is executed counts its event for the first time, and ends
\* its owner's attempt whether its success is reported or not.
LEMMA LedgerTotal ==
  ASSUME TypeOK, OwnersInv, CountsInv, NEW w \in Workers, CountTotal(w)
  PROVE  LedgerStep
<1>0. /\ pc \in [Workers -> Handling \cup {"down", "idle"}] /\ pc[w] = "total"
      /\ total \in Counters
      /\ Current(w) \in Events /\ url[w] \in Ids
      /\ \A v \in Workers \ {w} : Keeps(v)
      /\ UNCHANGED claimed
      /\ total[url[w]][Current(w)] = 0
  BY CurrentIn, HandleFrame, StoredId
  DEF Handle, TypeOK, BatchType, CountTotal, Handling, OwnersInv, CountsInv, Counting
<1>1. pc'[w] \notin Counting
  BY <1>0 DEF CountTotal, Goto, PgError, Refused, Abort, Counting
<1>2. CASE total' = total
  BY <1>0, <1>1, <1>2, LedgerGiveUp DEF Counting
<1>3. CASE total' = [total EXCEPT ![url[w]][Current(w)] = @ + 1]
  <2>1. total' = [total EXCEPT ![url[w]][Current(w)] = 1]
    BY <1>0, <1>3 DEF Counters
  <2>2. Current(w) \in BeingCounted /\ BeingCounted' = BeingCounted \ {Current(w)}
    BY <1>0, <1>1, OpenAfter DEF Counting
  <2>3. Ledger!Count(Current(w), url[w])
    BY <1>0, <2>1, <2>2 DEF Ledger!Count
  <2> QED
    BY <1>0, <2>3 DEF LedgerStep, Ledger!Next
<1> QED
  BY <1>2, <1>3 DEF CountTotal

\* Every step is one of the ledger's, or nothing to it.
LEMMA LedgerNext ==
  ASSUME TypeOK, OwnersInv, CountsInv, Step
  PROVE  LedgerStep
<1>0. pc \in [Workers -> Handling \cup {"down", "idle"}]
  BY DEF TypeOK
<1>1. ASSUME NEW w \in Workers, Handle(w) PROVE LedgerStep
  <2>0. \A v \in Workers \ {w} : Keeps(v)
    BY <1>1, HandleFrame
  <2>1. CASE Claim(w)
    BY <2>1, LedgerClaim
  <2>2. CASE CountTotal(w)
    BY <2>2, LedgerTotal
  <2>3. CASE Lookup(w)
    <3>1. pc[w] \in Counting /\ UNCHANGED <<claimed, total>>
      BY <2>3 DEF Lookup, Counting, counts
    <3>2. pc'[w] \in Counting => Current(w)' = Current(w)
      BY <1>1, HandleFrame DEF Owning
    <3> QED
      BY <2>0, <3>1, <3>2, LedgerGiveUp
  <2>4. CASE Skip(w) \/ CountRef(w) \/ Ack(w)
    <3>1. pc[w] \notin Counting /\ pc'[w] \notin Counting
      BY <1>0, <2>4
      DEF Skip, CountRef, Ack, Goto, Proceed, PgError, Refused, Abort, Counting
    <3>2. UNCHANGED <<claimed, total>>
      BY <2>4 DEF Skip, CountRef, Ack, counts
    <3> QED
      BY <2>0, <3>1, <3>2, OpenAfter DEF LedgerStep
  <2> QED
    BY <1>1, <2>1, <2>2, <2>3, <2>4 DEF Handle
<1>2. ASSUME NEW w \in Workers, Start(w) \/ Read(w) \/ Crash(w) PROVE LedgerStep
  <2>1. pc'[w] \notin Counting
    BY <1>0, <1>2 DEF Start, Read, Crash, Counting
  <2>2. (\A v \in Workers \ {w} : Keeps(v)) /\ UNCHANGED <<claimed, total>>
    BY <1>2, OthersKeep DEF Start, Read, Crash, counts
  <2> QED
    BY <2>1, <2>2, OpenAfter, LedgerGiveUp DEF LedgerStep
<1>3. ASSUME \A v \in Workers : Keeps(v), UNCHANGED claimed,
             \/ UNCHANGED total
             \/ \E i \in Ids : total' = [total EXCEPT ![i] = Ledger!NoClicks]
      PROVE  LedgerStep
  <2>1. \A v \in Workers : pc'[v] = pc[v] /\ Current(v)' = Current(v)
    BY <1>3 DEF Keeps
  <2>2. BeingCounted' = BeingCounted
    BY <2>1, BeingCountedIn
  <2> QED
    BY <1>3, <2>2 DEF LedgerStep, Ledger!Next, Ledger!Forget
<1>4. ASSUME NEW c, NEW b, NEW k, Publish(c, b, k) PROVE LedgerStep
  BY <1>3, <1>4, AllKeep DEF Publish, counts
<1>5. CASE Save \/ Restart \/ UNCHANGED vars
  BY <1>3, <1>5, AllKeep DEF Save, Restart, vars, counts
<1>6. ASSUME NEW c \in Codes, CreateLink(c) PROVE LedgerStep
  BY <1>3, <1>6, AllKeep DEF CreateLink, counts
<1>7. ASSUME NEW c \in Codes, DeleteLink(c) PROVE LedgerStep
  <2>1. names[c] \in Ids
    BY <1>7, Bounds DEF DeleteLink, TypeOK, Ids
  <2>2. (\A v \in Workers : Keeps(v)) /\ UNCHANGED claimed
    BY <1>7, AllKeep DEF DeleteLink
  <2> QED
    BY <1>3, <1>7, <2>1, <2>2 DEF DeleteLink, Ledger!NoClicks
<1> QED
  BY <1>1, <1>2, <1>4, <1>5, <1>6, <1>7 DEF Step

\* At first nothing is taken up.
LEMMA LedgerInit == Init => Ledger!Init
<1> SUFFICES ASSUME Init PROVE Ledger!Init
  OBVIOUS
<1>1. BeingCounted = {}
  BY BeingCountedIn DEF Init, Counting
<1> QED
  BY <1>1 DEF Init, NoCounts, Ledger!Init, Ledger!NoClicks

\* The worker implements the ledger: an event that has once been claimed is
\* counted by that claim's attempt or never, and the counts of a link only go
\* away all together.
THEOREM LedgerImplemented == Spec => ImplementsLedger
<1>1. Init => Ledger!Init
  BY LedgerInit
<1>2. Inv /\ [Next]_vars => [Ledger!Next]_(Ledger!ledger)
  BY NextIsStep, LedgerNext DEF Inv, LedgerStep, Ledger!ledger
<1> QED
  BY <1>1, <1>2, InvHolds, PTL DEF Spec, ImplementsLedger, Ledger!Spec

=============================================================================
