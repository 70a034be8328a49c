------------------------------ MODULE Migrator ------------------------------
(***************************************************************************)
(* Schema migration at boot: every server process, and cmd/migrate, runs   *)
(* Migrator.Apply on one PostgreSQL connection, under a session-level      *)
(* advisory lock, with a transaction per migration.  Processes may be of   *)
(* different releases; each has the files embedded in its binary.          *)
(*                                                                         *)
(* What a transaction has done is invisible until it commits, so it is     *)
(* part of the program counter: a session at "record" has executed the     *)
(* migration, one at "commit" has recorded it as well.                     *)
(***************************************************************************)
EXTENDS Naturals, Sequences

CONSTANTS
  Procs, NoProc,  \* processes
  Versions,       \* migration versions
  NoVersion,      \* what a file name without a number denotes
  Files,          \* Files[p]: p's migrations, as sort.Strings orders them
  Faults          \* may statements fail, connections break, processes die?

\* A release only ever appends migrations to those of the releases before it.
ASSUME MigratorConstants ==
  /\ NoProc \notin Procs /\ NoVersion \notin Versions /\ Faults \in BOOLEAN
  /\ Files \in [Procs -> Seq(Versions \cup {NoVersion})]
  /\ \A p, q \in Procs : \A i \in DOMAIN Files[p], j \in DOMAIN Files[q] :
       /\ j \in DOMAIN Files[p] => Files[p][j] = Files[q][j]
       /\ Files[p][i] = Files[q][j] => i = j

VARIABLES
  holder,    \* the process whose session holds the advisory lock
  session,   \* session[p]: does the server keep p's session?
  recorded,  \* the rows of schema_migrations
  effect,    \* effect[v]: how often v's statements have been committed
  pc,        \* pc[p]: where p is; "down" when it does not run
  next,      \* next[p]: the file p is at
  ok         \* ok[p]: has Apply met no error?

vars == <<holder, session, recorded, effect, pc, next, ok>>

Locked == {"ensure", "check", "exec", "record", "commit", "unlock"}
Steps  == {"down", "lock", "serving"} \cup Locked

\* The type invariant; a migration is executed only where there is a file.
TypeOK ==
  /\ holder \in Procs \cup {NoProc} /\ session \in [Procs -> BOOLEAN]
  /\ recorded \subseteq Versions /\ effect \in [Versions -> Nat]
  /\ pc \in [Procs -> Steps] /\ next \in [Procs -> Nat \ {0}]
  /\ ok \in [Procs -> BOOLEAN]
  /\ \A p \in Procs : pc[p] \in {"exec", "record", "commit"} =>
       next[p] \in DOMAIN Files[p] /\ Files[p][next[p]] \in Versions

Init ==
  /\ holder = NoProc /\ session = [p \in Procs |-> FALSE]
  /\ recorded = {} /\ effect = [v \in Versions |-> 0]
  /\ pc = [p \in Procs |-> "down"] /\ next = [p \in Procs |-> 1]
  /\ ok = [p \in Procs |-> TRUE]

-----------------------------------------------------------------------------
Version(p) == Files[p][next[p]]
AtEnd(p)   == next[p] \notin DOMAIN Files[p]

Goto(p, s) == pc' = [pc EXCEPT ![p] = s]

\* Variants of a failure: one tries the same file again, and one remembers the
\* error and goes on with the next file.
FailRetried(p) == Goto(p, "check") /\ UNCHANGED <<next, ok>>
FailOnward(p) ==
  /\ Goto(p, "check")
  /\ next' = [next EXCEPT ![p] = @ + 1]
  /\ ok' = [ok EXCEPT ![p] = FALSE]

\* Apply returns an error, by way of the deferred unlock; an open transaction
\* is rolled back.
Fail(p) ==
  /\ Goto(p, "unlock")
  /\ ok' = [ok EXCEPT ![p] = FALSE]
  /\ UNCHANGED next

\* A process starts and has its connection.  A session that a former run has
\* left would only keep it waiting for the lock.
Boot(p) ==
  /\ pc[p] = "down" /\ ~session[p]
  /\ session' = [session EXCEPT ![p] = TRUE]
  /\ next' = [next EXCEPT ![p] = 1]
  /\ ok' = [ok EXCEPT ![p] = TRUE]
  /\ Goto(p, "lock")
  /\ UNCHANGED <<holder, recorded, effect>>

\* Is the lock granted?  A variant does not wait for it.
LockIgnored == TRUE
LockFree    == holder = NoProc

\* pg_advisory_lock.
Lock(p) ==
  /\ pc[p] = "lock" /\ session[p]
  /\ LockFree
  /\ holder' = p
  /\ Goto(p, "ensure")
  /\ UNCHANGED <<session, recorded, effect, next, ok>>

\* pg_advisory_lock fails, whether the lock has been granted or not: the unlock
\* has not been deferred yet, and the process exits.
LockFails(p) ==
  /\ pc[p] = "lock"
  /\ Faults \/ ~session[p]
  /\ UNCHANGED holder \/ (session[p] /\ LockFree /\ holder' = p)
  /\ Goto(p, "down")
  /\ ok' = [ok EXCEPT ![p] = FALSE]
  /\ UNCHANGED <<session, recorded, effect, next>>

\* schema_migrations exists from here on; the files are listed and sorted.
Ensure(p) ==
  /\ pc[p] = "ensure" /\ session[p]
  /\ Goto(p, "check")
  /\ UNCHANGED <<holder, session, recorded, effect, next, ok>>

\* What a migration that is there leads to; a variant stops at it.
StopAtApplied(p) == Goto(p, "unlock") /\ UNCHANGED <<next, ok>>
SkipApplied(p)   == next' = [next EXCEPT ![p] = @ + 1] /\ UNCHANGED <<pc, ok>>

\* What a file name without a version leads to; a variant does not mind it.
UnparsedToo(p) == Goto(p, "exec") /\ UNCHANGED <<next, ok>>
Unparsed(p)    == Fail(p)

\* The head of the loop: the end, a migration that is there already, or one
\* to apply.
Check(p) ==
  /\ pc[p] = "check" /\ session[p]
  /\ \/ AtEnd(p) /\ Goto(p, "unlock") /\ UNCHANGED <<next, ok>>
     \/ ~AtEnd(p) /\ Version(p) \in recorded /\ SkipApplied(p)
     \/ /\ ~AtEnd(p) /\ Version(p) \in Versions \ recorded
        /\ Goto(p, "exec")
        /\ UNCHANGED <<next, ok>>
     \/ ~AtEnd(p) /\ Version(p) = NoVersion /\ Unparsed(p)
  /\ UNCHANGED <<holder, session, recorded, effect>>

\* Statements have no effect before the commit; a variant has no transaction.
AutoCommit(p) == effect' = [effect EXCEPT ![Version(p)] = @ + 1]
InTx(p)       == UNCHANGED effect

\* The transaction begins and executes the file.
Exec(p) ==
  /\ pc[p] = "exec" /\ session[p]
  /\ Goto(p, "record") /\ InTx(p)
  /\ UNCHANGED <<holder, session, recorded, next, ok>>

\* Another session's open transaction has inserted v.
Pending(p, v) ==
  \E q \in Procs \ {p} : pc[q] = "commit" /\ session[q] /\ Version(q) = v

\* The version is inserted: its primary key makes the statement wait for an
\* uncommitted one, and fail on a committed one.
Record(p) ==
  /\ pc[p] = "record" /\ session[p]
  /\ ~Pending(p, Version(p))
  /\ IF Version(p) \in recorded
       THEN Fail(p)
       ELSE Goto(p, "commit") /\ UNCHANGED <<next, ok>>
  /\ UNCHANGED <<holder, session, recorded, effect>>

\* The transaction becomes visible; the answer may be lost.
Commit(p) ==
  /\ pc[p] = "commit" /\ session[p]
  /\ recorded' = recorded \cup {Version(p)}
  /\ effect' = [effect EXCEPT ![Version(p)] = @ + 1]
  /\ \/ /\ next' = [next EXCEPT ![p] = @ + 1]
        /\ Goto(p, "check")
        /\ UNCHANGED ok
     \/ Faults /\ Fail(p)
  /\ UNCHANGED <<holder, session>>

\* A statement under the lock fails, always when the connection is gone.
StatementFails(p) ==
  /\ pc[p] \in Locked \ {"unlock"}
  /\ Faults \/ ~session[p]
  /\ Fail(p)
  /\ UNCHANGED <<holder, session, recorded, effect>>

\* The lock is freed, unless it is not p's any more.
Release(p) == holder' = IF holder = p THEN NoProc ELSE holder

\* The deferred unlock, whose error is ignored: if it fails the session keeps
\* the lock.  The process serves, with the connection in its pool, or exits.
Unlock(p) ==
  /\ pc[p] = "unlock"
  /\ Release(p) \/ (Faults /\ UNCHANGED holder)
  /\ Goto(p, IF ok[p] THEN "serving" ELSE "down")
  /\ UNCHANGED <<session, recorded, effect, next, ok>>

-----------------------------------------------------------------------------
(* The environment.                                                        *)

\* p's session ends, with its transaction and its lock: p is gone, or its pool
\* closes the connection after its lifetime, or the connection breaks, which p
\* only finds out by its next statement.
SessionEnds(p) ==
  /\ session[p]
  /\ Faults \/ pc[p] \in {"down", "serving"}
  /\ session' = [session EXCEPT ![p] = FALSE]
  /\ Release(p)
  /\ UNCHANGED <<recorded, effect, pc, next, ok>>

\* The process dies, or is stopped.
Crash(p) ==
  /\ Faults
  /\ pc[p] # "down"
  /\ Goto(p, "down")
  /\ UNCHANGED <<holder, session, recorded, effect, next, ok>>

\* The next step of Apply.
Step(p) ==
  \/ Lock(p) \/ Ensure(p) \/ Check(p) \/ Exec(p) \/ Record(p) \/ Commit(p)
  \/ Unlock(p)

Next ==
  \E p \in Procs :
    \/ Boot(p) \/ Step(p) \/ LockFails(p) \/ StatementFails(p)
    \/ SessionEnds(p) \/ Crash(p)

Spec == Init /\ [][Next]_vars

\* Processes run, and find out about broken connections; PostgreSQL ends the
\* sessions of the dead, and grants a lock to those who wait for it in the
\* order of their requests; a pool does not keep a connection for ever.
Fairness ==
  \A p \in Procs :
    /\ WF_vars(Step(p)) /\ SF_vars(Lock(p))
    /\ WF_vars(~session[p] /\ (LockFails(p) \/ StatementFails(p)))
    /\ WF_vars(pc[p] \in {"down", "serving"} /\ SessionEnds(p))

FairSpec == Spec /\ Fairness

-----------------------------------------------------------------------------
(* What the migrator guarantees.                                           *)

\* Every migration has been committed once if it is recorded and never if it
\* is not, whatever fails in between.
ExactlyOnce == \A v \in Versions : effect[v] = IF v \in recorded THEN 1 ELSE 0

\* What Check has seen still holds when the migration is executed, recorded
\* and committed several statements later: nobody else has applied it.
CheckStaysValid ==
  \A p \in Procs : pc[p] \in {"exec", "record", "commit"} /\ session[p] =>
    Version(p) \notin recorded

\* A process serves only when every migration of its release is applied.
ServingMigrated ==
  \A p \in Procs : pc[p] = "serving" =>
    \A i \in DOMAIN Files[p] : Files[p][i] \in recorded

\* A migration is applied only after all those that precede it.
InOrder ==
  \A p \in Procs : \A i, j \in DOMAIN Files[p] :
    i < j /\ Files[p][j] \in recorded => Files[p][i] \in recorded

\* Nobody waits for ever: a process that boots serves or goes down, even when
\* one that serves has not unlocked.
EveryBootEnds ==
  \A p \in Procs : pc[p] = "lock" ~> pc[p] \in {"serving", "down"}

=============================================================================
