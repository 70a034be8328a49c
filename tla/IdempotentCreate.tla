-------------------------- MODULE IdempotentCreate --------------------------
(***************************************************************************)
(* POST /api/v1/urls with an Idempotency-Key: createIdempotent guards      *)
(* createOne with two Redis keys per idempotency key, the recorded short   *)
(* code and a lock that marks a create in flight.  A request is one        *)
(* goroutine on some replica; each Redis command and each statement of     *)
(* PostgreSQL is a step.                                                   *)
(*                                                                         *)
(* createOne is LinkService's, with the two statements that create a link  *)
(* with a generated code taken as one: a row that is left without a code   *)
(* is no link.  The code generated for link i is i itself; LinkService     *)
(* deals with generated codes that clients have taken.                     *)
(***************************************************************************)
EXTENDS Naturals, FiniteSets

CONSTANTS
  Requests,     \* request slots
  Keys, NoKey,  \* idempotency keys; the request without one
  CustomCodes,  \* the codes clients ask for,
  InvalidCodes, \*   and those of them that validateCustomCode refuses
  NoCode,       \* a client asks for no code; no code is recorded
  MaxId,        \* bound on the links ever created
  Polls,        \* idemWaitPolls
  LockTTL,      \* lockTTL, in ticks
  SlowCreates,  \* may a create take longer than the lock lives?
  Forgets,      \* may a record expire, or be lost by Redis?
  RedisFaults,  \* may a Redis command fail after or before its execution?
  PgFaults,     \* may a statement fail?
  Crashes       \* may a replica die, or a client go away?

Ids   == 1..MaxId
Codes == Ids \cup CustomCodes

ASSUME IdempotencyConstants ==
  /\ MaxId \in Nat /\ Polls \in Nat \ {0} /\ LockTTL \in Nat \ {0}
  /\ NoKey \notin Keys /\ NoCode \notin Codes /\ InvalidCodes \subseteq CustomCodes
  /\ {SlowCreates, Forgets, RedisFaults, PgFaults, Crashes} \subseteq BOOLEAN

VARIABLES
  live,     \* the links that are stored
  code,     \* code[i]: link i's code, kept once it is deleted
  madeFor,  \* history: madeFor[i], the idempotency key link i was created for
  nextId,   \* the next link
  resp,     \* resp[k]: the code recorded for key k (idem:resp:{k})
  lock,     \* lock[k]: the ticks that k stays claimed, 0 if not (idem:lock:{k})
  pc,       \* pc[r]: where request r is; "done" when it has been answered
  key,      \* key[r]: its idempotency key
  want,     \* want[r]: the custom code it asks for
  owner,    \* owner[r]: has it claimed its key?
  polls,    \* polls[r]: how often it will still ask for the winner's result
  got,      \* got[r]: the code it works on: created, or recorded by the winner
  shown,    \* shown[r]: the link it is answered with, 0 for none
  status,   \* status[r]: how it was answered
  kept,     \* history: has there been a record for its key since it began?
  degraded, \* history: has Redis failed it?
  lapsed    \* history: lapsed[k], has a lock of k expired under its owner?

links   == <<live, code, madeFor, nextId>>
store   == <<resp, lock>>
request == <<pc, key, want, owner, polls, got, shown, status>>
history == <<kept, degraded, lapsed>>
vars    == <<links, store, request, history>>

Steps    == {"done", "get", "claim", "insert", "readBack", "record", "release",
             "poll", "replay"}
Statuses == {"none", "201", "200", "invalid", "taken", "inFlight", "500"}

\* The type invariant; a waiting request never polls more often than allowed.
TypeOK ==
  /\ live \subseteq Ids /\ code \in [Ids -> Codes \cup {NoCode}]
  /\ madeFor \in [Ids -> Keys \cup {NoKey}] /\ nextId \in 1..(MaxId + 1)
  /\ resp \in [Keys -> Codes \cup {NoCode}] /\ lock \in [Keys -> 0..LockTTL]
  /\ pc \in [Requests -> Steps] /\ key \in [Requests -> Keys \cup {NoKey}]
  /\ want \in [Requests -> CustomCodes \cup {NoCode}]
  /\ owner \in [Requests -> BOOLEAN] /\ polls \in [Requests -> 0..Polls]
  /\ got \in [Requests -> Codes \cup {NoCode}]
  /\ shown \in [Requests -> 0..MaxId] /\ status \in [Requests -> Statuses]
  /\ kept \in [Requests -> BOOLEAN] /\ degraded \in [Requests -> BOOLEAN]
  /\ lapsed \in [Keys -> BOOLEAN]

Init ==
  /\ live = {} /\ code = [i \in Ids |-> NoCode]
  /\ madeFor = [i \in Ids |-> NoKey] /\ nextId = 1
  /\ resp = [k \in Keys |-> NoCode] /\ lock = [k \in Keys |-> 0]
  /\ pc = [r \in Requests |-> "done"] /\ key = [r \in Requests |-> NoKey]
  /\ want = [r \in Requests |-> NoCode] /\ owner = [r \in Requests |-> FALSE]
  /\ polls = [r \in Requests |-> 0] /\ got = [r \in Requests |-> NoCode]
  /\ shown = [r \in Requests |-> 0] /\ status = [r \in Requests |-> "none"]
  /\ kept = [r \in Requests |-> FALSE] /\ degraded = [r \in Requests |-> FALSE]
  /\ lapsed = [k \in Keys |-> FALSE]

-----------------------------------------------------------------------------
Stored(c) == {i \in live : code[i] = c}
Running   == {r \in Requests : pc[r] # "done"}

Goto(r, s) == pc' = [pc EXCEPT ![r] = s]

\* Request r is answered with status s, showing link i (0: none), and what it
\* worked on ends with it.
Answer(r, s, i) ==
  /\ Goto(r, "done")
  /\ status' = [status EXCEPT ![r] = s]
  /\ shown' = [shown EXCEPT ![r] = i]
  /\ owner' = [owner EXCEPT ![r] = FALSE]
  /\ want' = [want EXCEPT ![r] = NoCode]
  /\ got' = [got EXCEPT ![r] = NoCode]

\* The request goes on, unanswered.
Unanswered == UNCHANGED <<status, shown, owner, want>>

\* createIdempotent gives up the guard and creates all the same.
FailOpen(r) ==
  /\ RedisFaults
  /\ degraded' = [degraded EXCEPT ![r] = TRUE]
  /\ Goto(r, "insert")

\* A request reaches a replica.  Without a key it is a plain create; requests
\* that are refused for their URL, expiry or key length change nothing.  The
\* bound leaves a link for every request that has begun.
Begin(r) ==
  /\ pc[r] = "done"
  /\ nextId + Cardinality(Running) <= MaxId
  /\ \E k \in Keys \cup {NoKey}, c \in CustomCodes \cup {NoCode} :
       /\ key' = [key EXCEPT ![r] = k]
       /\ want' = [want EXCEPT ![r] = c]
       /\ Goto(r, IF k = NoKey THEN "insert" ELSE "get")
       /\ kept' = [kept EXCEPT ![r] = k # NoKey /\ resp[k] # NoCode]
  /\ got' = [got EXCEPT ![r] = NoCode]
  /\ shown' = [shown EXCEPT ![r] = 0]
  /\ status' = [status EXCEPT ![r] = "none"]
  /\ degraded' = [degraded EXCEPT ![r] = FALSE]
  /\ UNCHANGED <<links, store, owner, polls, lapsed>>

-----------------------------------------------------------------------------
(* createIdempotent.                                                       *)

\* What idem.Get finds; a variant that never looks.
RecordedUnseen(r) == NoCode
Recorded(r)       == resp[key[r]]

\* idem.Get: a recorded code is replayed, an unknown key is claimed next.
Get(r) ==
  /\ pc[r] = "get"
  /\ \/ /\ Recorded(r) # NoCode
        /\ got' = [got EXCEPT ![r] = Recorded(r)]
        /\ Goto(r, "replay")
        /\ UNCHANGED degraded
     \/ /\ Recorded(r) = NoCode
        /\ Goto(r, "claim")
        /\ UNCHANGED <<got, degraded>>
     \/ /\ FailOpen(r)
        /\ UNCHANGED got
  /\ UNCHANGED <<links, store, key, want, owner, polls, shown, status, kept, lapsed>>

\* May SET NX set the key?  A variant without NX.
SetsAlways(r) == TRUE
SetsNX(r)     == lock[key[r]] = 0

\* What SET NX makes of the lock: a TTL starts with the claim that sets the key
\* and no other touches it.  A variant that sets the TTL with a command of its
\* own, whether the key is new or not.
SetThenExpire(r) == [lock EXCEPT ![key[r]] = LockTTL]
SetNX(r)         == [lock EXCEPT ![key[r]] = IF @ = 0 THEN LockTTL ELSE @]

\* idem.Claim, SET NX: the winner creates, the others wait.  The command may
\* be executed and fail; and the Redis client, which sends a command again
\* when the connection breaks, may be told that the key it has just set is
\* taken.
Claim(r) ==
  /\ pc[r] = "claim"
  /\ \/ /\ SetsNX(r)
        /\ lock' = SetNX(r)
        /\ owner' = [owner EXCEPT ![r] = TRUE]
        /\ Goto(r, "insert")
        /\ UNCHANGED <<polls, degraded>>
     \/ /\ lock[key[r]] > 0 \/ RedisFaults
        /\ lock' = SetNX(r)
        /\ polls' = [polls EXCEPT ![r] = Polls]
        /\ Goto(r, "poll")
        /\ UNCHANGED <<owner, degraded>>
     \/ /\ FailOpen(r)
        /\ lock' \in {lock, SetNX(r)}
        /\ UNCHANGED <<owner, polls>>
  /\ UNCHANGED <<links, resp, key, want, got, shown, status, kept, lapsed>>

\* The winner records its code; a failure is only logged.
Record(r) ==
  /\ pc[r] = "record"
  /\ \/ resp' = [resp EXCEPT ![key[r]] = got[r]]
     \/ RedisFaults /\ UNCHANGED resp
  /\ Goto(r, "release")
  /\ UNCHANGED <<links, lock, key, want, owner, polls, got, shown, status, history>>

\* The lock is deleted, whoever holds it by now; a failure is ignored.
Release(r) ==
  /\ pc[r] = "release"
  /\ \/ lock' = [lock EXCEPT ![key[r]] = 0]
     \/ RedisFaults /\ UNCHANGED lock
  /\ Answer(r, "201", shown[r])
  /\ UNCHANGED <<links, resp, key, polls, history>>

\* The polls that are left; variants that do not count, and that count too far.
Uncounted(r)   == polls[r]
OneMorePoll(r) == polls[r] >= 0
PollsLeft(r)   == polls[r] - 1
MayPoll(r)     == polls[r] > 0

\* Waiting for the winner: each poll finds its record or not (errors count as
\* not), and after the last one the request is refused.
Poll(r) ==
  /\ pc[r] = "poll"
  /\ \/ /\ MayPoll(r) /\ Recorded(r) # NoCode
        /\ got' = [got EXCEPT ![r] = Recorded(r)]
        /\ Goto(r, "replay")
        /\ polls' = [polls EXCEPT ![r] = 0]
        /\ Unanswered
     \/ /\ MayPoll(r) /\ (Recorded(r) = NoCode \/ RedisFaults)
        /\ polls' = [polls EXCEPT ![r] = PollsLeft(r)]
        /\ UNCHANGED <<pc, got>> /\ Unanswered
     \/ /\ ~MayPoll(r)
        /\ Answer(r, "inFlight", 0)
        /\ UNCHANGED polls
  /\ UNCHANGED <<links, store, key, history>>

\* replay: the recorded code is looked up.  A link that is gone is ErrNotFound,
\* which writeCreateError does not know: 500.
Replay(r) ==
  /\ pc[r] = "replay"
  /\ \/ \E i \in Stored(got[r]) : Answer(r, "200", i)
     \/ /\ Stored(got[r]) = {} \/ PgFaults
        /\ Answer(r, "500", 0)
  /\ UNCHANGED <<links, store, key, polls, history>>

-----------------------------------------------------------------------------
(* createOne.                                                              *)

\* A new link with code c.
AddLink(r, c) ==
  /\ live' = live \cup {nextId}
  /\ code' = [code EXCEPT ![nextId] = c]
  /\ madeFor' = [madeFor EXCEPT ![nextId] = key[r]]
  /\ nextId' = nextId + 1

NewCode(r) == IF want[r] = NoCode THEN nextId ELSE want[r]

\* A custom code is validated by createOne, that is when the key has been
\* claimed: the refusal leaves the lock to expire on its own.
RefuseCode(r) ==
  /\ pc[r] = "insert" /\ want[r] \in InvalidCodes
  /\ Answer(r, "invalid", 0)
  /\ UNCHANGED <<links, store, key, polls, history>>

\* A variant that takes the link that has the code already for its own.
InsertOrAdopt(r) ==
  /\ pc[r] = "insert" /\ nextId <= MaxId /\ want[r] \notin InvalidCodes
  /\ IF Stored(NewCode(r)) = {} THEN AddLink(r, NewCode(r)) ELSE UNCHANGED links
  /\ got' = [got EXCEPT ![r] = NewCode(r)]
  /\ Goto(r, "readBack") /\ Unanswered
  /\ UNCHANGED <<store, key, polls, history>>

\* The row is written: a custom code may be taken, a failed statement may have
\* been committed.  On an error nothing is recorded and the lock is left.
Insert(r) ==
  /\ pc[r] = "insert" /\ nextId <= MaxId /\ want[r] \notin InvalidCodes
  /\ \/ /\ Stored(NewCode(r)) = {}
        /\ AddLink(r, NewCode(r))
        /\ got' = [got EXCEPT ![r] = NewCode(r)]
        /\ Goto(r, "readBack") /\ Unanswered
     \/ /\ Stored(NewCode(r)) # {}
        /\ Answer(r, "taken", 0)
        /\ UNCHANGED links
     \/ /\ PgFaults
        /\ UNCHANGED links \/ (Stored(NewCode(r)) = {} /\ AddLink(r, NewCode(r)))
        /\ Answer(r, "500", 0)
  /\ UNCHANGED <<store, key, polls, history>>

\* The link is read again by its code: an owner goes on to record it.
ReadBack(r) ==
  /\ pc[r] = "readBack"
  /\ \/ \E i \in Stored(got[r]) :
          \/ /\ owner[r]
             /\ shown' = [shown EXCEPT ![r] = i]
             /\ Goto(r, "record")
             /\ UNCHANGED <<status, owner, want, got>>
          \/ ~owner[r] /\ Answer(r, "201", i)
     \/ /\ Stored(got[r]) = {} \/ PgFaults
        /\ Answer(r, "500", 0)
  /\ UNCHANGED <<links, store, key, polls, history>>

-----------------------------------------------------------------------------
(* The environment.                                                        *)

\* The replica dies, or the client goes away and the request is abandoned at
\* its next step.
Crash(r) ==
  /\ Crashes
  /\ pc[r] # "done"
  /\ Answer(r, "none", 0)
  /\ polls' = [polls EXCEPT ![r] = 0]
  /\ UNCHANGED <<links, store, key, history>>

Owners(k) == {r \in Requests : owner[r] /\ key[r] = k}

\* Time passes for the lock of k.  Its last tick comes under its owner only if
\* creates may be that slow.
LockTick(k) ==
  /\ lock[k] > 0
  /\ lock[k] = 1 => SlowCreates \/ Owners(k) = {}
  /\ lock' = [lock EXCEPT ![k] = @ - 1]
  /\ lapsed' = [lapsed EXCEPT ![k] = @ \/ (lock[k] = 1 /\ Owners(k) # {})]
  /\ UNCHANGED <<links, resp, request, kept, degraded>>

\* The record's TTL runs out, or Redis loses it.
Forget(k) ==
  /\ Forgets
  /\ resp[k] # NoCode
  /\ resp' = [resp EXCEPT ![k] = NoCode]
  /\ kept' = [r \in Requests |-> kept[r] /\ key[r] # k]
  /\ UNCHANGED <<links, lock, request, degraded, lapsed>>

\* A link is deleted (LinkService's Delete).
DeleteLink(i) ==
  /\ i \in live
  /\ live' = live \ {i}
  /\ UNCHANGED <<code, madeFor, nextId, store, request, history>>

\* The bound on links is reached and every request has been answered.
Exhausted ==
  /\ Running = {} /\ nextId > MaxId
  /\ UNCHANGED vars

\* The next step of request r.
Handle(r) ==
  \/ Get(r) \/ Claim(r) \/ Record(r) \/ Release(r) \/ Poll(r) \/ Replay(r)
  \/ RefuseCode(r) \/ Insert(r) \/ ReadBack(r)

Next ==
  \/ \E r \in Requests : Begin(r) \/ Handle(r) \/ Crash(r)
  \/ \E k \in Keys : LockTick(k) \/ Forget(k)
  \/ \E i \in Ids : DeleteLink(i)
  \/ Exhausted

Spec == Init /\ [][Next]_vars

\* Handlers run to completion and time passes.
Fairness ==
  /\ \A r \in Requests : WF_vars(Handle(r))
  /\ \A k \in Keys : WF_vars(LockTick(k))

FairSpec == Spec /\ Fairness

-----------------------------------------------------------------------------
(* What the idempotency guard guarantees.                                  *)

\* A link with code c has been created for key k.
Made(k, c) == \E i \in Ids : i < nextId /\ madeFor[i] = k /\ code[i] = c

\* A recorded code is that of a link created for the same key: no request,
\* whatever fails under it, records a code that another client has taken.
RecordAuthentic ==
  \A k \in Keys : resp[k] # NoCode => Made(k, resp[k])

\* A request that begins when a code is recorded for its key creates nothing,
\* unless Redis fails it or the record is lost before it has answered.
RecordedNeverRecreated ==
  \A r \in Requests : kept[r] /\ pc[r] \in {"insert", "readBack", "record"} =>
    degraded[r]

\* Two requests that both won the lock of a key never create at the same time,
\* as long as no create has outlived its lock: Release deletes the lock without
\* looking whose it is, and still never takes it from under another owner.
OneOwner ==
  \A r, s \in Requests :
    owner[r] /\ owner[s] /\ key[r] = key[s] /\ ~lapsed[key[r]] => r = s

\* Every request is answered: nobody waits for a winner that is gone.
EveryRequestAnswered ==
  \A r \in Requests : (pc[r] # "done") ~> (pc[r] = "done")

\* "so a crashed creator never blocks the key forever": a claimed key becomes
\* free again, also when its owner has died, failed or could not release it, and
\* however often the key is claimed again meanwhile.
KeyFreed == \A k \in Keys : lock[k] > 0 ~> lock[k] = 0

-----------------------------------------------------------------------------
(* What the repository's documents say and the code does not do.           *)

\* "First create with a key wins ... Any later create with the same key
\* replays the exact original response": a key never has two stored links.
OneLinkPerKey ==
  \A i, j \in live : madeFor[i] = madeFor[j] /\ madeFor[i] \in Keys => i = j

=============================================================================
