---------------------------- MODULE LinkService ----------------------------
(***************************************************************************)
(* Links of the URL shortener: the urls table (PostgreSQL), the url:{code} *)
(* cache (Redis) and the requests that several API replicas run against    *)
(* them at the same time.  One request is one goroutine executing one of   *)
(* the handlers Create, Get/Redirect or Delete; every PostgreSQL statement *)
(* and every Redis command is a step of its own, because each is a round   *)
(* trip between which the other requests move.                             *)
(*                                                                         *)
(* A row is identified by its id; its long_url and expires_at never change *)
(* after the INSERT, so the id stands for them wherever a row is copied    *)
(* (into the cache, into a request's local variable, into a response).     *)
(* Time is relative: life[i] is what is left of row i's lifetime and       *)
(* cacheLeft[c] what is left of a key's TTL, and Tick counts both down.    *)
(***************************************************************************)
EXTENDS Naturals

CONSTANTS
  Requests,     \* request slots: how many requests run at the same time
  Codes,        \* short codes
  CustomCodes,  \* the codes clients ask for (they pass validateCustomCode)
  NoCode,       \* the NULL of the code column
  MaxId,        \* bound on the identity sequence of the urls table
  EncodeBase62, \* the code generated for an id
  CacheTTL,     \* the TTL given to a cached mapping, in ticks
  Lifetimes,    \* what may be left of a link's lifetime when it is inserted
  Forever,      \* no expires_at
  RedisFaults,  \* may a Redis command fail or time out?
  PgFaults,     \* may a PostgreSQL statement fail?
  Crashes,      \* may a replica die, or Redis restart?
  Snapshots     \* may Redis write a snapshot, which a restart brings back?

Ids == 1..MaxId

ASSUME ConstantsAssumption ==
  /\ MaxId \in Nat
  /\ CacheTTL \in Nat \ {0}
  /\ CustomCodes \subseteq Codes
  /\ NoCode \notin Codes
  /\ Forever \notin Nat
  /\ Lifetimes \subseteq Nat \cup {Forever}
  /\ {RedisFaults, PgFaults, Crashes, Snapshots} \subseteq BOOLEAN

\* The code is the id written in base 62: no two ids have the same.
ASSUME EncodeAssumption ==
  /\ EncodeBase62 \in [Ids -> Codes]
  /\ \A i, j \in Ids : EncodeBase62[i] = EncodeBase62[j] => i = j

VARIABLES
  row,        \* row[i]: "none" (never stored), "live", or "gone" (deleted)
  code,       \* code[i]: the code column; kept, as history, once the row is gone
  life,       \* life[i]: ticks until expires_at, 0 once it has passed
  nextId,     \* next value of the identity sequence
  cacheId,    \* cacheId[c]: the row whose copy is cached under c, 0 for no key
  cacheLeft,  \* cacheLeft[c]: ticks until Redis drops the key
  snapId,     \* the cached rows and TTLs in Redis' last snapshot; keys expire
  snapLeft,   \* there at the same moment, for the snapshot keeps their deadline
  pc,         \* pc[r]: where request r is; "done" when it has been answered
  op,         \* op[r]: the handler that r runs
  arg,        \* arg[r]: the code that r works on
  u,          \* u[r]: the row that r holds a copy of, 0 for none
  ttl,        \* ttl[r]: the TTL that r has computed for its cache write
  status,     \* status[r]: the HTTP status r was answered with
  expired0    \* expired0[r]: history, the rows already expired when r began

table   == <<row, code, life, nextId>>
snap    == <<snapId, snapLeft>>
redis   == <<cacheId, cacheLeft, snap>>
request == <<pc, op, arg, u, ttl, status, expired0>>
vars    == <<table, redis, request>>

Ops      == {"createAuto", "createCustom", "read", "delete"}
Statuses == {"none", "200", "201", "204", "404", "409", "410", "500"}
Steps    == {"done", "insert", "setCode", "readBack", "cacheGet", "evict",
             "lookup", "ttl", "fill", "deleteRow", "invalidate"}

TableType ==
  /\ row \in [Ids -> {"none", "live", "gone"}]
  /\ code \in [Ids -> Codes \cup {NoCode}]
  /\ life \in [Ids -> Nat \cup {Forever}]
  /\ nextId \in 1..(MaxId + 1)

RedisType ==
  /\ cacheId \in [Codes -> 0..MaxId]
  /\ cacheLeft \in [Codes -> 0..CacheTTL]
  /\ snapId \in [Codes -> 0..MaxId]
  /\ snapLeft \in [Codes -> 0..CacheTTL]

RequestType ==
  /\ pc \in [Requests -> Steps]
  /\ op \in [Requests -> Ops]
  /\ arg \in [Requests -> Codes \cup {NoCode}]
  /\ u \in [Requests -> 0..MaxId]
  /\ ttl \in [Requests -> 0..CacheTTL]
  /\ status \in [Requests -> Statuses]
  /\ expired0 \in [Requests -> SUBSET Ids]

\* The type invariant.  No TTL exceeds cacheTTL: a link whose remaining
\* lifetime is longer is cached for cacheTTL only (cache.Set).
TypeOK == TableType /\ RedisType /\ RequestType

Init ==
  /\ row = [i \in Ids |-> "none"]
  /\ code = [i \in Ids |-> NoCode]
  /\ life = [i \in Ids |-> Forever]
  /\ nextId = 1
  /\ cacheId = [c \in Codes |-> 0]
  /\ cacheLeft = [c \in Codes |-> 0]
  /\ snapId = cacheId
  /\ snapLeft = cacheLeft
  /\ pc = [r \in Requests |-> "done"]
  /\ op = [r \in Requests |-> "read"]
  /\ arg = [r \in Requests |-> NoCode]
  /\ u = [r \in Requests |-> 0]
  /\ ttl = [r \in Requests |-> 0]
  /\ status = [r \in Requests |-> "none"]
  /\ expired0 = [r \in Requests |-> {}]

-----------------------------------------------------------------------------
\* The rows a statement with WHERE code = c finds.
Stored(c) == {i \in Ids : row[i] = "live" /\ code[i] = c}

\* ExpiresAt is set and not after now.
Expired(i) == life[i] = 0

\* Request r goes on to step s.
Goto(r, s) == pc' = [pc EXCEPT ![r] = s]

\* Request r is answered with status s, showing row i (0: no row).
Answer(r, s, i) ==
  /\ Goto(r, "done")
  /\ status' = [status EXCEPT ![r] = s]
  /\ u' = [u EXCEPT ![r] = i]

\* The effect on Redis of DEL url:{c}.
CacheDel(c) ==
  /\ cacheId' = [cacheId EXCEPT ![c] = 0]
  /\ cacheLeft' = [cacheLeft EXCEPT ![c] = 0]
  /\ UNCHANGED snap

\* The effect on Redis of SET url:{c} <row i> EX t.
CacheSet(c, i, t) ==
  /\ cacheId' = [cacheId EXCEPT ![c] = i]
  /\ cacheLeft' = [cacheLeft EXCEPT ![c] = t]
  /\ UNCHANGED snap

\* Resolve returns row i to the handler: Get and Redirect answer with it,
\* Delete goes on to delete by code.
Resolved(r, i) ==
  \/ /\ op[r] = "read"
     /\ Answer(r, "200", i)
  \/ /\ op[r] = "delete"
     /\ Goto(r, "deleteRow")
     /\ u' = [u EXCEPT ![r] = i]
     /\ UNCHANGED status

-----------------------------------------------------------------------------
\* A client's request reaches a replica.  Requests whose body, URL, expiry or
\* custom code is refused change nothing and are not begun.
Begin(r) ==
  /\ pc[r] = "done"
  /\ \/ \E o \in {"read", "delete"}, c \in Codes :
          /\ Goto(r, "cacheGet")
          /\ op' = [op EXCEPT ![r] = o]
          /\ arg' = [arg EXCEPT ![r] = c]
     \/ /\ Goto(r, "insert")
        /\ op' = [op EXCEPT ![r] = "createAuto"]
        /\ arg' = [arg EXCEPT ![r] = NoCode]
     \/ \E c \in CustomCodes :
          /\ Goto(r, "insert")
          /\ op' = [op EXCEPT ![r] = "createCustom"]
          /\ arg' = [arg EXCEPT ![r] = c]
  /\ u' = [u EXCEPT ![r] = 0]
  /\ ttl' = [ttl EXCEPT ![r] = 0]
  /\ status' = [status EXCEPT ![r] = "none"]
  /\ expired0' = [expired0 EXCEPT ![r] = {i \in Ids : Expired(i)}]
  /\ UNCHANGED <<table, redis>>

-----------------------------------------------------------------------------
(* Resolve: the cache, then the table, then the cache is filled.           *)

\* May a cached copy be used?  A variant trusts every copy.
AnyCopy(i) == TRUE
Fresh(i)   == ~Expired(i)

\* What a hit is good for; a variant renews the entry, from its own copy.
OnHitRenew(r, i) == Goto(r, "ttl") /\ u' = [u EXCEPT ![r] = i] /\ UNCHANGED status
OnHit(r, i)      == Resolved(r, i)

\* The cache holds a copy that has not expired.
CacheHit(r) ==
  /\ pc[r] = "cacheGet"
  /\ cacheId[arg[r]] # 0
  /\ Fresh(cacheId[arg[r]])
  /\ OnHit(r, cacheId[arg[r]])
  /\ UNCHANGED <<table, redis, op, arg, ttl, expired0>>

\* The cache holds a copy that has expired: it is to be evicted.
CacheHitExpired(r) ==
  /\ pc[r] = "cacheGet"
  /\ cacheId[arg[r]] # 0
  /\ ~Fresh(cacheId[arg[r]])
  /\ Goto(r, "evict")
  /\ UNCHANGED <<table, redis, op, arg, u, ttl, status, expired0>>

\* No key, or the read failed and the request fails open to the table.
CacheMiss(r) ==
  /\ pc[r] = "cacheGet"
  /\ cacheId[arg[r]] = 0 \/ RedisFaults
  /\ Goto(r, "lookup")
  /\ UNCHANGED <<table, redis, op, arg, u, ttl, status, expired0>>

\* Evicting the expired copy; an error is ignored.
Evict(r) ==
  /\ pc[r] = "evict"
  /\ Goto(r, "lookup")
  /\ \/ CacheDel(arg[r])
     \/ RedisFaults /\ UNCHANGED redis
  /\ UNCHANGED <<table, op, arg, u, ttl, status, expired0>>

\* The rows that are found; a variant deletes softly and has no filter here.
FoundDeletedToo(c) == {i \in Ids : row[i] # "none" /\ code[i] = c}
Found(c)           == Stored(c)

\* SELECT ... WHERE code = $1, and what Resolve makes of its outcome.
Lookup(r) ==
  /\ pc[r] = "lookup"
  /\ \/ \E i \in Found(arg[r]) :
          /\ ~Expired(i)
          /\ Goto(r, "ttl")
          /\ u' = [u EXCEPT ![r] = i]
          /\ UNCHANGED status
     \/ /\ \E i \in Found(arg[r]) : Expired(i)
        /\ Answer(r, "410", 0)
     \/ /\ Found(arg[r]) = {}
        /\ Answer(r, "404", 0)
     \/ /\ PgFaults
        /\ Answer(r, "500", 0)
  /\ UNCHANGED <<table, redis, op, arg, ttl, expired0>>

\* min(cacheTTL, what is left of the link's lifetime); a variant caches a link
\* for its whole lifetime.
TTLUncapped(i) == IF life[i] # Forever THEN life[i] ELSE CacheTTL
TTLFor(i)      == IF life[i] # Forever /\ life[i] < CacheTTL THEN life[i] ELSE CacheTTL

\* cache.Set computes the TTL, and writes nothing when nothing is left.
ComputeTTL(r) ==
  /\ pc[r] = "ttl"
  /\ \/ /\ Expired(u[r])
        /\ Resolved(r, u[r])
        /\ UNCHANGED ttl
     \/ /\ ~Expired(u[r])
        /\ ttl' = [ttl EXCEPT ![r] = TTLFor(u[r])]
        /\ Goto(r, "fill")
        /\ UNCHANGED <<u, status>>
  /\ UNCHANGED <<table, redis, op, arg, expired0>>

\* Redis executes the SET, or it fails and the failure is only logged.
Fill(r) ==
  /\ pc[r] = "fill"
  /\ Resolved(r, u[r])
  /\ \/ CacheSet(arg[r], u[r], ttl[r])
     \/ RedisFaults /\ UNCHANGED redis
  /\ ttl' = [ttl EXCEPT ![r] = 0]
  /\ UNCHANGED <<table, op, arg, expired0>>

-----------------------------------------------------------------------------
(* Delete, after Resolve has found the link.                               *)

\* Row i is deleted.
RemoveRow(i) == row' = [row EXCEPT ![i] = "gone"]

\* DELETE ... WHERE code = $1, with the code of the resolved copy: whatever
\* row bears that code by now.  A failed statement may have been committed.
DeleteRow(r) ==
  LET found == Stored(code[u[r]]) IN
  /\ pc[r] = "deleteRow"
  /\ \/ \E i \in found :
          /\ RemoveRow(i)
          /\ Goto(r, "invalidate")
          /\ UNCHANGED <<u, status>>
     \/ /\ found = {}
        /\ Answer(r, "404", 0)
        /\ UNCHANGED row
     \/ /\ PgFaults
        /\ Answer(r, "500", 0)
        /\ UNCHANGED row \/ \E i \in found : RemoveRow(i)
  /\ UNCHANGED <<code, life, nextId, redis, op, arg, ttl, expired0>>

\* DEL url:{code}; a failure is only logged.
Invalidate(r) ==
  /\ pc[r] = "invalidate"
  /\ Answer(r, "204", 0)
  /\ \/ CacheDel(code[u[r]])
     \/ RedisFaults /\ UNCHANGED redis
  /\ UNCHANGED <<table, op, arg, ttl, expired0>>

-----------------------------------------------------------------------------
(* Create.                                                                 *)

\* The id of a new row; a variant gives a free one again.
FreeId == CHOOSE j \in Ids : row[j] # "live"
NewId  == nextId

\* A new row with code column c takes a new id; l is what is left of its
\* lifetime when the INSERT is executed.
AddRow(c, l) ==
  /\ row' = [row EXCEPT ![NewId] = "live"]
  /\ code' = [code EXCEPT ![NewId] = c]
  /\ life' = [life EXCEPT ![NewId] = l]
  /\ nextId' = nextId + 1

\* INSERT with the client's code.  A unique violation still uses up an id;
\* a failed statement may have been committed.
InsertCustom(r) ==
  /\ pc[r] = "insert" /\ op[r] = "createCustom"
  /\ nextId <= MaxId
  /\ \/ /\ Stored(arg[r]) = {}
        /\ \E l \in Lifetimes : AddRow(arg[r], l)
        /\ Goto(r, "readBack")
        /\ UNCHANGED <<u, status>>
     \/ /\ Stored(arg[r]) # {}
        /\ nextId' = nextId + 1
        /\ Answer(r, "409", 0)
        /\ UNCHANGED <<row, code, life>>
     \/ /\ PgFaults
        /\ Answer(r, "500", 0)
        /\ \/ UNCHANGED table
           \/ /\ Stored(arg[r]) = {}
              /\ \E l \in Lifetimes : AddRow(arg[r], l)
  /\ UNCHANGED <<redis, op, arg, ttl, expired0>>

\* INSERT without a code: the row is committed with code NULL.
InsertAuto(r) ==
  /\ pc[r] = "insert" /\ op[r] = "createAuto"
  /\ nextId <= MaxId
  /\ \/ /\ \E l \in Lifetimes : AddRow(NoCode, l)
        /\ Goto(r, "setCode")
        /\ u' = [u EXCEPT ![r] = nextId]
        /\ UNCHANGED status
     \/ /\ PgFaults
        /\ Answer(r, "500", 0)
        /\ \/ UNCHANGED table
           \/ \E l \in Lifetimes : AddRow(NoCode, l)
  /\ UNCHANGED <<redis, op, arg, ttl, expired0>>

\* Does the unique index let the code pass?  A variant without the index.
CodeAnyway(c) == TRUE
CodeFree(c)   == Stored(c) = {}

\* UPDATE ... SET code = base62(id) WHERE id = $2, in a transaction of its
\* own.  The row is still there: a row without a code cannot be deleted.
SetCode(r) ==
  LET c == EncodeBase62[u[r]] IN
  /\ pc[r] = "setCode"
  /\ \/ /\ CodeFree(c)
        /\ code' = [code EXCEPT ![u[r]] = c]
        /\ arg' = [arg EXCEPT ![r] = c]
        /\ Goto(r, "readBack")
        /\ u' = [u EXCEPT ![r] = 0]
        /\ UNCHANGED status
     \/ /\ ~CodeFree(c)
        /\ Answer(r, "500", 0)
        /\ UNCHANGED <<code, arg>>
     \/ /\ PgFaults
        /\ Answer(r, "500", 0)
        /\ UNCHANGED code \/ (CodeFree(c) /\ code' = [code EXCEPT ![u[r]] = c])
        /\ UNCHANGED arg
  /\ UNCHANGED <<row, life, nextId, redis, op, ttl, expired0>>

\* The created row is read again by its code to build the response.
ReadBack(r) ==
  /\ pc[r] = "readBack"
  /\ \/ \E i \in Stored(arg[r]) : Answer(r, "201", i)
     \/ /\ Stored(arg[r]) = {} \/ PgFaults
        /\ Answer(r, "500", 0)
  /\ UNCHANGED <<table, redis, op, arg, ttl, expired0>>

-----------------------------------------------------------------------------
(* The environment.                                                        *)

\* The replica running r dies: the client gets no answer and the slot is as
\* good as new.
Crash(r) ==
  /\ Crashes
  /\ pc[r] # "done"
  /\ Answer(r, "none", 0)
  /\ op' = [op EXCEPT ![r] = "read"]
  /\ arg' = [arg EXCEPT ![r] = NoCode]
  /\ ttl' = [ttl EXCEPT ![r] = 0]
  /\ expired0' = [expired0 EXCEPT ![r] = {}]
  /\ UNCHANGED <<table, redis>>

\* Redis writes its keys to disk from time to time.
Save ==
  /\ Snapshots
  /\ snapId' = cacheId
  /\ snapLeft' = cacheLeft
  /\ UNCHANGED <<table, cacheId, cacheLeft, request>>

\* Redis restarts without a log (appendonly no): its keys are those of the
\* last snapshot, none if there is none.
Restart ==
  /\ Crashes
  /\ cacheId' = snapId
  /\ cacheLeft' = snapLeft
  /\ UNCHANGED <<table, snap, request>>

\* What a tick makes of the keys id, with TTLs left: Redis drops those whose
\* TTL runs out.
Older(left)    == [c \in Codes |-> IF left[c] = 0 THEN 0 ELSE left[c] - 1]
Kept(id, left) == [c \in Codes |-> IF left[c] <= 1 THEN 0 ELSE id[c]]

\* Time passes: links and keys grow older.
Tick ==
  /\ life' = [i \in Ids |-> IF life[i] \in {0, Forever} THEN life[i]
                            ELSE life[i] - 1]
  /\ cacheLeft' = Older(cacheLeft) /\ cacheId' = Kept(cacheId, cacheLeft)
  /\ snapLeft' = Older(snapLeft) /\ snapId' = Kept(snapId, snapLeft)
  /\ UNCHANGED <<row, code, nextId, request>>

\* The next step of request r's handler.
Handle(r) ==
  \/ CacheHit(r) \/ CacheHitExpired(r) \/ CacheMiss(r) \/ Evict(r)
  \/ Lookup(r) \/ ComputeTTL(r) \/ Fill(r)
  \/ DeleteRow(r) \/ Invalidate(r)
  \/ InsertCustom(r) \/ InsertAuto(r) \/ SetCode(r) \/ ReadBack(r)

Next ==
  \/ \E r \in Requests : Begin(r) \/ Handle(r) \/ Crash(r)
  \/ Save \/ Restart
  \/ Tick

Spec == Init /\ [][Next]_vars

\* Handlers run to completion and time goes on; clients owe nothing.
Fairness ==
  /\ \A r \in Requests : WF_vars(Handle(r))
  /\ WF_vars(Tick)

FairSpec == Spec /\ Fairness

-----------------------------------------------------------------------------
(* What the link service guarantees.                                       *)

\* Two stored links never bear the same code, however custom and generated
\* codes are claimed concurrently: the unique index decides, and createOne
\* trusts nothing it read before.
OneLiveRowPerCode ==
  \A i, j \in Ids :
    /\ row[i] = "live" /\ row[j] = "live"
    /\ code[i] = code[j] /\ code[i] # NoCode
    => i = j

\* The keys id hold rows that are or were stored under their code.
Authentic(id) ==
  \A c \in Codes : id[c] # 0 => row[id[c]] # "none" /\ code[id[c]] = c

CacheAuthentic == Authentic(cacheId) /\ Authentic(snapId)

CopiesAuthentic ==
  \A r \in Requests : u[r] # 0 =>
    row[u[r]] # "none" /\ code[u[r]] = arg[r]

\* Whatever is shown for a code was stored under that code: this holds of the
\* copies in the cache and its snapshot, of those that requests carry across
\* their Redis and PostgreSQL calls, and of the answers, also when the link
\* has been deleted and its code given to another link in the meantime.
MappingAuthentic == CacheAuthentic /\ CopiesAuthentic

\* A Get or Redirect that starts after a link has expired never answers with
\* it, though the cached copy may outlive the link (its TTL is computed before
\* the SET is executed) and may be older than the row.
ExpiredNeverServed ==
  \A r \in Requests : status[r] = "200" => u[r] \notin expired0[r]

Cached(i)  == \E c \in Codes : i \in {cacheId[c], snapId[c]}
Carried(i) == \E r \in Requests : pc[r] # "done" /\ u[r] = i

\* A deleted link whose last copy is gone from the cache and from the snapshot
\* that a restart of Redis brings back, and that no running request carries,
\* never comes back: no step stores it, caches it, picks it up or answers with
\* it.
DeadStaysDeadStep ==
  \A i \in Ids : row[i] = "gone" /\ ~Cached(i) /\ ~Carried(i) =>
    /\ row'[i] = "gone" /\ ~Cached(i)' /\ ~Carried(i)'
    /\ \A r \in Requests : u'[r] = i => u[r] = i

DeadStaysDead == [][DeadStaysDeadStep]_vars

\* A deleted link eventually disappears for good: reads that race with the
\* delete can put it back into the cache after the invalidation, a failed
\* invalidation can leave it there, a restart of Redis can restore it, but the
\* TTL, which hits do not renew, and the end of the racing reads put an end to
\* it.
DeletedFadesOut ==
  \A i \in Ids : (row[i] = "gone") ~> [](~Cached(i) /\ ~Carried(i))

\* The urls table as the abstract registry sees it: the link that a code
\* names, and the links that have had a code.
TheRow(S) == IF S = {} THEN 0 ELSE CHOOSE i \in S : TRUE

Names  == [c \in Codes |-> TheRow(Stored(c))]
Former == {i \in Ids : row[i] # "none" /\ code[i] # NoCode}

Registry == INSTANCE LinkRegistry
              WITH Links <- Ids, Nothing <- 0, names <- Names, former <- Former

\* The service implements the registry: whatever the two statements of a
\* create, the failed statements that were committed all the same, and the
\* deletes by code interleave to, a code is only ever bound while it is free,
\* to a link that never had one, and freed.
ImplementsRegistry == Registry!Spec

-----------------------------------------------------------------------------
(* What the repository's documents say and the code does not do.           *)

\* "Collision: impossible (DB-controlled)": without faults, creating a link
\* with a generated code never fails.
GeneratedCodesNeverCollide ==
  \A r \in Requests : op[r] = "createAuto" => status[r] # "500"

=============================================================================
