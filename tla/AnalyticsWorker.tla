-------------------------- MODULE AnalyticsWorker --------------------------
(***************************************************************************)
(* The analytics worker: click events are read from a Redis stream through *)
(* a consumer group and added to the counters of PostgreSQL's              *)
(* analytics_daily, one event at a time, behind an idempotency record per  *)
(* event.  Several worker processes may run; they all use the same group   *)
(* and the same consumer name.                                             *)
(*                                                                         *)
(* A counter is unfolded by event: total[i][e] is how much event e has     *)
(* contributed to link i's total, and the stored count is the sum over e.  *)
(* The day an event is counted under is left out: it is a function of the  *)
(* event.                                                                  *)
(***************************************************************************)
EXTENDS Naturals, FiniteSets, FiniteSetsExt

CONSTANTS
  Workers,      \* worker processes
  MaxEvent,     \* bound on the events ever added to the stream
  BatchSize,    \* entries one XREADGROUP returns at most
  Codes,        \* short codes
  NoCode,       \* the code of a malformed event
  EventCodes,   \* the codes that events may bear
  EventRefs,    \* may they have a referrer, or none?
  MaxId,        \* bound on the links ever created
  RedisFaults,  \* may a Redis command fail after or before its execution?
  PgFaults,     \* may a statement fail, and the connection with it?
  Crashes,      \* may a worker die?
  Restarts      \* may Redis restart from its last snapshot?

Events == 1..MaxEvent
Ids    == 1..MaxId

ASSUME WorkerConstants ==
  /\ MaxEvent \in Nat /\ MaxId \in Nat
  /\ BatchSize \in Nat \ {0}
  /\ NoCode \notin Codes
  /\ EventCodes \subseteq Codes \cup {NoCode}
  /\ EventRefs \subseteq BOOLEAN
  /\ {RedisFaults, PgFaults, Crashes, Restarts} \subseteq BOOLEAN

VARIABLES
  code, ref,     \* code[e], ref[e]: the event's code; has it a referrer?
  nextEvent,     \* stream ids are never given twice
  stream,        \* the events in the stream
  group,         \* does the consumer group exist?
  cursor,        \* the group's last-delivered id
  pel,           \* delivered and not acknowledged
  snap,          \* what a restart of Redis brings back
  names,         \* names[c]: the link stored under c, 0 for none
  given,         \* the codes that links have had so far
  nextId,        \* next id of the urls table
  total, refs,   \* the 'total' and 'referrer' counters
  claimed,       \* idempotency_records, scope 'analytics'
  pc,            \* pc[w]: where worker w is
  batch,         \* batch[w]: what is left of its batch, the current event included
  url,           \* url[w]: the link id that it has looked up
  conn,          \* conn[w]: does (or, when it is down, will) its PostgreSQL
                 \* connection work?
  settled,       \* history: events counted, or without a link when looked up
  failed,        \* history: events whose processing was given up
  acked          \* history: events acknowledged by a worker

events  == <<code, ref, nextEvent>>
redis   == <<stream, group, cursor, pel>>
links   == <<names, given, nextId>>
counts  == <<total, refs>>
workers == <<pc, batch, url, conn>>
history == <<settled, failed, acked>>
vars    == <<events, redis, snap, links, counts, claimed, workers, history>>

Handling == {"claim", "lookup", "total", "ref", "ack"}
Counters == [Ids -> [Events -> Nat]]
Snapshot == [stream : SUBSET Events, group : BOOLEAN, cursor : 0..MaxEvent,
             pel : SUBSET Events]

\* The type invariant: a worker that handles an event has one.
TypeOK ==
  /\ code \in [Events -> Codes \cup {NoCode}] /\ ref \in [Events -> BOOLEAN]
  /\ nextEvent \in 1..(MaxEvent + 1)
  /\ stream \subseteq Events /\ pel \subseteq Events
  /\ group \in BOOLEAN /\ cursor \in 0..MaxEvent
  /\ snap \in Snapshot
  /\ names \in [Codes -> 0..MaxId] /\ given \subseteq Codes /\ nextId \in 1..(MaxId + 1)
  /\ total \in Counters /\ refs \in Counters
  /\ claimed \subseteq Events
  /\ pc \in [Workers -> Handling \cup {"down", "idle"}]
  /\ batch \in [Workers -> SUBSET Events]
  /\ url \in [Workers -> 0..MaxId] /\ conn \in [Workers -> BOOLEAN]
  /\ settled \subseteq Events /\ failed \subseteq Events /\ acked \subseteq Events
  /\ \A w \in Workers : (pc[w] \in Handling) = (batch[w] # {})

NoCounts == [i \in Ids |-> [e \in Events |-> 0]]

Init ==
  /\ code = [e \in Events |-> NoCode] /\ ref = [e \in Events |-> FALSE]
  /\ nextEvent = 1
  /\ stream = {} /\ group = FALSE /\ cursor = 0 /\ pel = {}
  /\ snap = [stream |-> {}, group |-> FALSE, cursor |-> 0, pel |-> {}]
  /\ names = [c \in Codes |-> 0] /\ given = {} /\ nextId = 1
  /\ total = NoCounts /\ refs = NoCounts
  /\ claimed = {}
  /\ pc = [w \in Workers |-> "down"] /\ batch = [w \in Workers |-> {}]
  /\ url = [w \in Workers |-> 0] /\ conn = [w \in Workers |-> TRUE]
  /\ settled = {} /\ failed = {} /\ acked = {}

-----------------------------------------------------------------------------
Current(w) == Min(batch[w])
Stored(i)  == \E c \in Codes : names[c] = i

\* handle returns nil: the next event of the batch, or the end of ProcessOnce.
Proceed(w) ==
  /\ batch' = [batch EXCEPT ![w] = @ \ {Current(w)}]
  /\ pc' = [pc EXCEPT ![w] = IF batch[w] = {Current(w)} THEN "idle" ELSE "claim"]

\* handle returns an error: ProcessOnce gives up the rest of the batch too.
Abort(w) ==
  /\ batch' = [batch EXCEPT ![w] = {}]
  /\ pc' = [pc EXCEPT ![w] = "idle"]
  /\ failed' = failed \cup (batch[w] \ settled)

\* handle goes on to step s with the current event.
Goto(w, s) ==
  /\ pc' = [pc EXCEPT ![w] = s]
  /\ UNCHANGED batch

\* The statement of w's step fails.  Its connection may be gone for good: the
\* worker has a single connection and never opens another.
PgError(w) ==
  /\ ~conn[w] \/ PgFaults
  /\ Abort(w)
  /\ \E ok \in {FALSE, conn[w]} : conn' = [conn EXCEPT ![w] = ok]

-----------------------------------------------------------------------------
(* The process and its loop.                                               *)

\* main: connects and creates the group unless it exists (BUSYGROUP); a new
\* group starts at the beginning of the stream.
Start(w) ==
  /\ pc[w] = "down"
  /\ pc' = [pc EXCEPT ![w] = "idle"]
  /\ group' = TRUE
  /\ cursor' = IF group THEN cursor ELSE 0
  /\ pel' = IF group THEN pel ELSE {}
  /\ UNCHANGED <<events, stream, snap, links, counts, claimed, batch, url, conn, history>>

\* What XREADGROUP with id ">" delivers next.
Undelivered == {e \in stream : e > cursor}
NextBatch   == {e \in Undelivered :
                  Cardinality({f \in Undelivered : f <= e}) <= BatchSize}

\* One XREADGROUP that finds something.  If the reply is lost the entries are
\* delivered all the same; entries once delivered are never asked for again.
\* Without a group the read fails, and the loop just tries again.
Read(w) ==
  /\ pc[w] = "idle" /\ group /\ Undelivered # {}
  /\ cursor' = Max(NextBatch)
  /\ pel' = pel \cup NextBatch
  /\ \/ /\ batch' = [batch EXCEPT ![w] = NextBatch]
        /\ pc' = [pc EXCEPT ![w] = "claim"]
        /\ UNCHANGED failed
     \/ /\ RedisFaults
        /\ failed' = failed \cup (NextBatch \ settled)
        /\ UNCHANGED <<batch, pc>>
  /\ UNCHANGED <<events, stream, group, snap, links, counts, claimed, url, conn,
                 settled, acked>>

-----------------------------------------------------------------------------
(* handle.                                                                 *)

\* A malformed event is passed over; a variant keeps coming back to it.
SkipStuck(w) == pc[w] = "claim" /\ code[Current(w)] = NoCode /\ UNCHANGED vars

Skip(w) ==
  /\ pc[w] = "claim"
  /\ code[Current(w)] = NoCode
  /\ Proceed(w)
  /\ UNCHANGED <<events, redis, snap, links, counts, claimed, url, conn, history>>

\* Has the INSERT affected no row?  A variant that does not look.
Unseen(w)     == FALSE
SeenBefore(w) == Current(w) \in claimed

\* INSERT INTO idempotency_records ... ON CONFLICT DO NOTHING, in a
\* transaction of its own: an event seen before goes straight to the ack.
Claim(w) ==
  /\ pc[w] = "claim"
  /\ code[Current(w)] # NoCode
  /\ \/ /\ conn[w]
        /\ claimed' = claimed \cup {Current(w)}
        /\ Goto(w, IF SeenBefore(w) THEN "ack" ELSE "lookup")
        /\ UNCHANGED <<conn, failed>>
     \/ /\ PgError(w)
        /\ claimed' \in {claimed, IF conn[w] THEN claimed \cup {Current(w)} ELSE claimed}
  /\ UNCHANGED <<events, redis, snap, links, counts, url, settled, acked>>

\* SELECT id FROM urls WHERE code = $1: whichever link bears the code now.
\* (eventDay, called before it, replaces a bad timestamp and never fails.)
Lookup(w) ==
  LET i == names[code[Current(w)]] IN
  /\ pc[w] = "lookup"
  /\ \/ /\ conn[w] /\ i # 0
        /\ url' = [url EXCEPT ![w] = i]
        /\ Goto(w, "total")
        /\ UNCHANGED <<conn, settled, failed>>
     \/ /\ conn[w] /\ i = 0
        /\ settled' = settled \cup {Current(w)}
        /\ Goto(w, "ack")
        /\ UNCHANGED <<url, conn, failed>>
     \/ /\ PgError(w)
        /\ UNCHANGED <<url, settled>>
  /\ UNCHANGED <<events, redis, snap, links, counts, claimed, acked>>

\* The foreign key of analytics_daily, without which an upsert could count for
\* a link that has been deleted since the lookup.
NoForeignKey(w) == TRUE
ForeignKey(w)   == Stored(url[w])

\* What follows when it refuses an upsert; a variant takes the event for done.
TakenForDone(w) == Goto(w, "ack") /\ UNCHANGED failed
Refused(w)      == Abort(w)

\* The upsert of the 'total' row.  A failed one may be committed.
CountTotal(w) ==
  /\ pc[w] = "total"
  /\ \/ /\ conn[w] /\ ForeignKey(w)
        /\ total' = [total EXCEPT ![url[w]][Current(w)] = @ + 1]
        /\ settled' = settled \cup {Current(w)}
        /\ Goto(w, IF ref[Current(w)] THEN "ref" ELSE "ack")
        /\ UNCHANGED <<conn, failed>>
     \/ /\ conn[w] /\ ~ForeignKey(w)
        /\ Refused(w)
        /\ UNCHANGED <<total, settled, conn>>
     \/ /\ PgError(w)
        /\ \/ UNCHANGED total
           \/ /\ conn[w] /\ ForeignKey(w)
              /\ total' = [total EXCEPT ![url[w]][Current(w)] = @ + 1]
        /\ UNCHANGED settled
  /\ UNCHANGED <<events, redis, snap, links, refs, claimed, url, acked>>

\* The upsert of the 'referrer' row.
CountRef(w) ==
  /\ pc[w] = "ref"
  /\ \/ /\ conn[w] /\ ForeignKey(w)
        /\ refs' = [refs EXCEPT ![url[w]][Current(w)] = @ + 1]
        /\ Goto(w, "ack")
        /\ UNCHANGED <<conn, failed>>
     \/ /\ conn[w] /\ ~ForeignKey(w)
        /\ Refused(w)
        /\ UNCHANGED <<refs, conn>>
     \/ /\ PgError(w)
        /\ \/ UNCHANGED refs
           \/ /\ conn[w] /\ ForeignKey(w)
              /\ refs' = [refs EXCEPT ![url[w]][Current(w)] = @ + 1]
  /\ UNCHANGED <<events, redis, snap, links, total, claimed, url, settled, acked>>

\* XACK; a failed one may have been executed, and ends the batch.
Ack(w) ==
  /\ pc[w] = "ack"
  /\ \/ /\ pel' = pel \ {Current(w)}
        /\ acked' = acked \cup {Current(w)}
        /\ Proceed(w)
        /\ UNCHANGED failed
     \/ /\ RedisFaults
        /\ Abort(w)
        /\ pel' \in {pel, pel \ {Current(w)}}
        /\ UNCHANGED acked
  /\ UNCHANGED <<events, stream, group, cursor, snap, links, counts, claimed, url,
                 conn, settled>>

-----------------------------------------------------------------------------
(* The environment.                                                        *)

\* The worker dies or is stopped; a batch in progress is forgotten.
Crash(w) ==
  /\ Crashes
  /\ pc[w] # "down"
  /\ pc' = [pc EXCEPT ![w] = "down"]
  /\ batch' = [batch EXCEPT ![w] = {}]
  /\ url' = [url EXCEPT ![w] = 0]
  /\ conn' = [conn EXCEPT ![w] = TRUE]
  /\ failed' = failed \cup (batch[w] \ settled)
  /\ UNCHANGED <<events, redis, snap, links, counts, claimed, settled, acked>>

\* k entries for one event, with code c and, if b, a referrer.
Publish(c, b, k) ==
  LET new == nextEvent..(nextEvent + k - 1) IN
  /\ new \subseteq Events
  /\ code' = [e \in Events |-> IF e \in new THEN c ELSE code[e]]
  /\ ref' = [e \in Events |-> IF e \in new THEN b ELSE ref[e]]
  /\ stream' = stream \cup new
  /\ nextEvent' = nextEvent + k
  /\ UNCHANGED <<group, cursor, pel, snap, links, counts, claimed, workers, history>>

\* The codes of new events: a redirect answers for a link, or for a deleted one
\* that the cache still has; a malformed event is not a redirect's.
Visited == EventCodes \cap (given \cup {NoCode})

\* Redis writes a snapshot; a restart brings back the last one, and with it
\* an older position of the group.
Save ==
  /\ Restarts
  /\ snap' = [stream |-> stream, group |-> group, cursor |-> cursor, pel |-> pel]
  /\ UNCHANGED <<events, redis, links, counts, claimed, workers, history>>

Restart ==
  /\ Restarts
  /\ stream' = snap.stream /\ group' = snap.group
  /\ cursor' = snap.cursor /\ pel' = snap.pel
  /\ UNCHANGED <<events, snap, links, counts, claimed, workers, history>>

\* Links come and go; the counters of a deleted link go with it (ON DELETE
\* CASCADE).
CreateLink(c) ==
  /\ names[c] = 0 /\ nextId <= MaxId
  /\ names' = [names EXCEPT ![c] = nextId]
  /\ given' = given \cup {c}
  /\ nextId' = nextId + 1
  /\ UNCHANGED <<events, redis, snap, counts, claimed, workers, history>>

DeleteLink(c) ==
  /\ names[c] # 0
  /\ names' = [names EXCEPT ![c] = 0]
  /\ total' = [total EXCEPT ![names[c]] = [e \in Events |-> 0]]
  /\ refs' = [refs EXCEPT ![names[c]] = [e \in Events |-> 0]]
  /\ UNCHANGED <<events, redis, snap, given, nextId, claimed, workers, history>>

\* The next step of worker w within ProcessOnce.
Handle(w) ==
  \/ Skip(w) \/ Claim(w) \/ Lookup(w) \/ CountTotal(w) \/ CountRef(w) \/ Ack(w)

Next ==
  \/ \E w \in Workers : Start(w) \/ Read(w) \/ Handle(w) \/ Crash(w)
  \/ \E c \in Visited, b \in EventRefs : Publish(c, b, 1)
  \/ Save \/ Restart
  \/ \E c \in Codes : CreateLink(c) \/ DeleteLink(c)

Spec == Init /\ [][Next]_vars

\* Workers run and are started again by their restart policy; one that is
\* started over and over does not always die before its first read.
Fairness ==
  \A w \in Workers : WF_vars(Start(w)) /\ SF_vars(Read(w)) /\ WF_vars(Handle(w))

FairSpec == Spec /\ Fairness

-----------------------------------------------------------------------------
(* What the worker guarantees.                                             *)

\* A click is counted at most once, and under one link only: also when Redis
\* comes back with an older position of the group and delivers events again,
\* when two workers hold the same event, and when a failed statement has been
\* committed.
AtMostOnce ==
  \A e \in Events :
    /\ \A i \in Ids : total[i][e] <= 1 /\ refs[i][e] <= 1
    /\ \A i, j \in Ids : total[i][e] > 0 /\ total[j][e] > 0 => i = j

\* A link never shows a referrer's click that its total does not include, in
\* particular not when it is deleted between the two upserts.
RefsWithinTotal ==
  \A i \in Ids, e \in Events : refs[i][e] <= total[i][e]

\* A click is shown for the link that its code names now, or for none: no
\* upsert that races with a delete leaves counters behind, and none counts for
\* a link of another code.
CountsOfStoredLinks ==
  \A i \in Ids, e \in Events :
    total[i][e] + refs[i][e] > 0 => code[e] \in Codes /\ names[code[e]] = i

\* The counters implement the ledger: an event that has once been claimed is
\* never counted by a second attempt, also when the link it was counted under
\* is gone, and nobody counts it under another one.
BeingCounted == {Current(w) : w \in {v \in Workers : pc[v] \in {"lookup", "total"}}}

Ledger == INSTANCE CountLedger WITH
  taken <- claimed, open <- BeingCounted, tally <- total

ImplementsLedger == Ledger!Spec

\* No event is lost without a failure: one that has been acknowledged has been
\* counted or had no link, or an attempt at it was given up, or the worker
\* that claimed it is still busy with it (a second worker, to which Redis has
\* delivered the event again, may acknowledge it first).
LossNeedsFailure ==
  \A e \in acked :
    \/ e \in settled \cup failed
    \/ \E w \in Workers : pc[w] \in {"lookup", "total"} /\ e = Current(w)

\* Every event that stays in the stream is sooner or later dealt with: it is
\* counted, or has no link, or is malformed and passed over, or its processing
\* was given up; a malformed event or a deleted link never holds up the rest.
EveryEventDealtWith ==
  \A e \in Events :
    (e \in stream) ~>
      \/ e \in settled \cup failed
      \/ e \notin stream
      \/ code[e] = NoCode /\ e <= cursor /\ \A w \in Workers : e \notin batch[w]

-----------------------------------------------------------------------------
(* What the repository's documents say and the code does not do.           *)

\* Link i has code c; event e, once it is published, is a click on the code and
\* in the stream.
ClickOn(i, c, e) ==
  names[c] = i /\ (nextEvent > e => e \in stream /\ code[e] = c)

\* "Events are at-least-once: worker redelivers on failure": a click on a link
\* that exists when it is published, and ever after, is eventually counted.
\* (The lookup of such a click always finds the link.)
AtLeastOnce ==
  \A e \in Events, c \in Codes, i \in Ids :
    nextEvent = e /\ []ClickOn(i, c, e) /\ <>(nextEvent > e) ~> total[i][e] > 0

=============================================================================
