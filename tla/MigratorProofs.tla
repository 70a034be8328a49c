--------------------------- MODULE MigratorProofs ---------------------------
(* Proofs of Migrator's safety properties, for any number of processes,    *)
(* releases and migrations.                                                *)
EXTENDS Migrator, TLAPS

\* Parts of actions that have names of their own are visible everywhere.
USE DEF LockFree, SkipApplied, Unparsed, InTx, Release

\* The advisory lock works: a process that is past Lock and whose session is
\* alive is the one that holds it.
LockInv ==
  \A p \in Procs : pc[p] \in Locked \ {"unlock"} /\ session[p] => holder = p

\* The loop of Apply: everything before the current file is applied, and a
\* process that is about to serve, or serves, has come to its end.
LoopInv ==
  \A p \in Procs :
    /\ pc[p] \in {"check", "exec", "record", "commit"} =>
         \A i \in DOMAIN Files[p] : i < next[p] => Files[p][i] \in recorded
    /\ pc[p] = "unlock" /\ ok[p] =>
         \A i \in DOMAIN Files[p] : Files[p][i] \in recorded
    /\ pc[p] \in {"lock", "ensure"} => next[p] = 1

Inv == TypeOK /\ LockInv /\ LoopInv /\ ExactlyOnce /\ CheckStaysValid
         /\ ServingMigrated /\ InOrder

USE MigratorConstants

\* A version that is applied is at the same place in every release that has it.
LEMMA SamePlace ==
  ASSUME NEW p \in Procs, NEW q \in Procs,
         NEW i \in DOMAIN Files[p], NEW j \in DOMAIN Files[q],
         Files[p][i] = Files[q][j]
  PROVE  i = j
  OBVIOUS

\* A release that has a j-th migration has the i-th for every i < j.
LEMMA Before ==
  ASSUME NEW p \in Procs, NEW j \in DOMAIN Files[p], NEW i \in Nat \ {0}, i < j
  PROVE  i \in DOMAIN Files[p]
  OBVIOUS

\* The invariant holds initially.
LEMMA InitInv == Init => Inv
  BY DEF Init, Inv, TypeOK, LockInv, LoopInv, ExactlyOnce, CheckStaysValid,
         ServingMigrated, InOrder, Steps, Locked

\* Every step preserves the types.
LEMMA TypeStep == TypeOK /\ [Next]_vars => TypeOK'
<1> SUFFICES ASSUME TypeOK, [Next]_vars PROVE TypeOK'
  OBVIOUS
<1> USE DEF TypeOK, Steps, Locked, Goto, Version, AtEnd
<1>1. ASSUME NEW p \in Procs, Boot(p) PROVE TypeOK'
  BY <1>1 DEF Boot
<1>2. ASSUME NEW p \in Procs, Lock(p) PROVE TypeOK'
  BY <1>2 DEF Lock
<1>3. ASSUME NEW p \in Procs, Ensure(p) PROVE TypeOK'
  BY <1>3 DEF Ensure
<1>4. ASSUME NEW p \in Procs, Check(p) PROVE TypeOK'
  <2>1. CASE Fail(p)
    BY <1>4, <2>1 DEF Check, Fail
  <2>2. CASE Goto(p, "unlock") /\ UNCHANGED <<next, ok>>
    BY <1>4, <2>2 DEF Check
  <2>3. CASE next' = [next EXCEPT ![p] = @ + 1] /\ UNCHANGED <<pc, ok>>
    BY <1>4, <2>3 DEF Check
  <2>4. CASE /\ ~AtEnd(p) /\ Version(p) \in Versions \ recorded
             /\ Goto(p, "exec") /\ UNCHANGED <<next, ok>>
    BY <1>4, <2>4 DEF Check
  <2> QED
    BY <1>4, <2>1, <2>2, <2>3, <2>4 DEF Check
<1>5. ASSUME NEW p \in Procs, Exec(p) PROVE TypeOK'
  BY <1>5 DEF Exec
<1>6. ASSUME NEW p \in Procs, Record(p) PROVE TypeOK'
  <2>1. CASE Fail(p)
    BY <1>6, <2>1 DEF Record, Fail
  <2>2. CASE Goto(p, "commit") /\ UNCHANGED <<next, ok>>
    BY <1>6, <2>2 DEF Record
  <2> QED
    BY <1>6, <2>1, <2>2 DEF Record
<1>7. ASSUME NEW p \in Procs, Commit(p) PROVE TypeOK'
  <2>1. recorded' \subseteq Versions /\ effect' \in [Versions -> Nat]
    BY <1>7 DEF Commit
  <2>2. CASE Fail(p)
    BY <1>7, <2>1, <2>2 DEF Commit, Fail
  <2>3. CASE next' = [next EXCEPT ![p] = @ + 1] /\ Goto(p, "check") /\ UNCHANGED ok
    BY <1>7, <2>1, <2>3 DEF Commit
  <2> QED
    BY <1>7, <2>2, <2>3 DEF Commit
<1>8. ASSUME NEW p \in Procs, StatementFails(p) PROVE TypeOK'
  BY <1>8 DEF StatementFails, Fail
<1>9. ASSUME NEW p \in Procs, Unlock(p) PROVE TypeOK'
  BY <1>9 DEF Unlock
<1>10. ASSUME NEW p \in Procs, SessionEnds(p) PROVE TypeOK'
  BY <1>10 DEF SessionEnds
<1>11. ASSUME NEW p \in Procs, Crash(p) PROVE TypeOK'
  BY <1>11 DEF Crash
<1>12. ASSUME NEW p \in Procs, LockFails(p) PROVE TypeOK'
  BY <1>12 DEF LockFails
<1>13. CASE UNCHANGED vars
  BY <1>13 DEF vars
<1> QED
  BY <1>1, <1>2, <1>3, <1>4, <1>5, <1>6, <1>7, <1>8, <1>9, <1>10, <1>11, <1>12, <1>13
     DEF Next, Step

\* Every step preserves the exclusion by the advisory lock.
LEMMA LockStep == TypeOK /\ LockInv /\ [Next]_vars => LockInv'
<1> SUFFICES ASSUME TypeOK, LockInv, [Next]_vars PROVE LockInv'
  OBVIOUS
<1> USE DEF TypeOK, LockInv, Steps, Locked, Goto
<1>1. ASSUME NEW p \in Procs, Boot(p) PROVE LockInv'
  BY <1>1 DEF Boot
<1>2. ASSUME NEW p \in Procs, Lock(p) PROVE LockInv'
  BY <1>2 DEF Lock
<1>3. ASSUME NEW p \in Procs, Ensure(p) PROVE LockInv'
  BY <1>3 DEF Ensure
<1>4. ASSUME NEW p \in Procs, Check(p) PROVE LockInv'
  BY <1>4 DEF Check, Fail
<1>5. ASSUME NEW p \in Procs, Exec(p) PROVE LockInv'
  BY <1>5 DEF Exec
<1>6. ASSUME NEW p \in Procs, Record(p) PROVE LockInv'
  <2>1. UNCHANGED <<holder, session>> /\ holder = p
    BY <1>6 DEF Record
  <2>2. \A q \in Procs \ {p} : pc'[q] = pc[q]
    BY <1>6 DEF Record, Fail
  <2> QED
    BY <2>1, <2>2
<1>7. ASSUME NEW p \in Procs, Commit(p) PROVE LockInv'
  BY <1>7 DEF Commit, Fail
<1>8. ASSUME NEW p \in Procs, StatementFails(p) PROVE LockInv'
  BY <1>8 DEF StatementFails, Fail
<1>9. ASSUME NEW p \in Procs, Unlock(p) PROVE LockInv'
  BY <1>9 DEF Unlock
<1>10. ASSUME NEW p \in Procs, SessionEnds(p) PROVE LockInv'
  BY <1>10 DEF SessionEnds
<1>11. ASSUME NEW p \in Procs, Crash(p) PROVE LockInv'
  BY <1>11 DEF Crash
<1>12. ASSUME NEW p \in Procs, LockFails(p) PROVE LockInv'
  BY <1>12 DEF LockFails
<1>13. CASE UNCHANGED vars
  BY <1>13 DEF vars
<1> QED
  BY <1>1, <1>2, <1>3, <1>4, <1>5, <1>6, <1>7, <1>8, <1>9, <1>10, <1>11, <1>12, <1>13
     DEF Next, Step

\* Only Commit changes what is applied, and it adds a version that is not.
LEMMA AppliedStep ==
  ASSUME Inv, NEW p \in Procs, Commit(p)
  PROVE  /\ Version(p) \in Versions \ recorded
         /\ next[p] \in DOMAIN Files[p]
         /\ \A i \in DOMAIN Files[p] : i < next[p] => Files[p][i] \in recorded
         /\ \A q \in Procs \ {p} :
              ~(pc[q] \in {"exec", "record", "commit"} /\ session[q])
         /\ recorded' = recorded \cup {Version(p)}
         /\ effect' = [effect EXCEPT ![Version(p)] = @ + 1]
  BY DEF Inv, TypeOK, LockInv, LoopInv, CheckStaysValid, Commit, Version, Locked

\* Every step keeps the effects in line with the records.
LEMMA OnceStep == Inv /\ [Next]_vars => ExactlyOnce'
<1> SUFFICES ASSUME Inv, [Next]_vars PROVE ExactlyOnce'
  OBVIOUS
<1>1. ASSUME NEW p \in Procs, Commit(p) PROVE ExactlyOnce'
  BY <1>1, AppliedStep DEF Inv, TypeOK, ExactlyOnce
<1>2. ASSUME UNCHANGED <<recorded, effect>> PROVE ExactlyOnce'
  BY <1>2 DEF Inv, ExactlyOnce
<1> QED
  BY <1>1, <1>2 DEF Next, Step, vars, Boot, Lock, LockFails, Ensure, Check,
    Exec, Record, StatementFails, Unlock, SessionEnds, Crash

\* Every step keeps the applied migrations in order.
LEMMA OrderStep == Inv /\ [Next]_vars => InOrder'
<1> SUFFICES ASSUME Inv, [Next]_vars PROVE InOrder'
  OBVIOUS
<1>1. ASSUME NEW p \in Procs, Commit(p) PROVE InOrder'
  <2> SUFFICES ASSUME NEW q \in Procs, NEW i \in DOMAIN Files[q],
                      NEW j \in DOMAIN Files[q], i < j, Files[q][j] \in recorded'
               PROVE  Files[q][i] \in recorded'
    BY DEF InOrder
  <2>1. CASE Files[q][j] \in recorded
    BY <1>1, <2>1, AppliedStep DEF Inv, InOrder
  <2>2. CASE Files[q][j] = Version(p)
    <3>1. j = next[p]
      BY <1>1, <2>2, AppliedStep, SamePlace DEF Version
    <3>2. i \in DOMAIN Files[p] /\ i < next[p]
      BY <1>1, <3>1, AppliedStep, Before DEF Inv, TypeOK
    <3>3. Files[p][i] = Files[q][i]
      BY <3>2
    <3> QED
      BY <1>1, <3>2, <3>3, AppliedStep
  <2> QED
    BY <1>1, <2>1, <2>2, AppliedStep
<1>2. ASSUME UNCHANGED recorded PROVE InOrder'
  BY <1>2 DEF Inv, InOrder
<1> QED
  BY <1>1, <1>2 DEF Next, Step, vars, Boot, Lock, LockFails, Ensure, Check,
    Exec, Record, StatementFails, Unlock, SessionEnds, Crash

\* No step invalidates what a process with a session has checked.
LEMMA ValidStep == Inv /\ [Next]_vars => CheckStaysValid'
<1> SUFFICES ASSUME Inv, [Next]_vars PROVE CheckStaysValid'
  OBVIOUS
<1> USE DEF Inv, TypeOK, CheckStaysValid, Steps, Locked, Goto, Version
<1>1. ASSUME NEW p \in Procs, Boot(p) PROVE CheckStaysValid'
  BY <1>1 DEF Boot
<1>2. ASSUME NEW p \in Procs, Lock(p) PROVE CheckStaysValid'
  BY <1>2 DEF Lock
<1>3. ASSUME NEW p \in Procs, Ensure(p) PROVE CheckStaysValid'
  BY <1>3 DEF Ensure
<1>4. ASSUME NEW p \in Procs, Check(p) PROVE CheckStaysValid'
  BY <1>4 DEF Check, Fail, AtEnd
<1>5. ASSUME NEW p \in Procs, Exec(p) PROVE CheckStaysValid'
  BY <1>5 DEF Exec
<1>6. ASSUME NEW p \in Procs, Record(p) PROVE CheckStaysValid'
  BY <1>6 DEF Record, Fail
<1>7. ASSUME NEW p \in Procs, Commit(p) PROVE CheckStaysValid'
  <2>1. pc'[p] \in {"check", "unlock"}
    BY <1>7 DEF Commit, Fail
  <2>2. \A q \in Procs \ {p} : pc'[q] = pc[q] /\ session'[q] = session[q]
    BY <1>7 DEF Commit, Fail
  <2>3. \A q \in Procs : ~(pc'[q] \in {"exec", "record", "commit"} /\ session'[q])
    <3>1. \A q \in Procs \ {p} :
            ~(pc[q] \in {"exec", "record", "commit"} /\ session[q])
      BY <1>7, AppliedStep
    <3> QED
      BY <2>1, <2>2, <3>1
  <2> QED
    BY <2>3
<1>8. ASSUME NEW p \in Procs, StatementFails(p) PROVE CheckStaysValid'
  BY <1>8 DEF StatementFails, Fail
<1>9. ASSUME NEW p \in Procs, Unlock(p) PROVE CheckStaysValid'
  BY <1>9 DEF Unlock
<1>10. ASSUME NEW p \in Procs, SessionEnds(p) PROVE CheckStaysValid'
  BY <1>10 DEF SessionEnds
<1>11. ASSUME NEW p \in Procs, Crash(p) PROVE CheckStaysValid'
  BY <1>11 DEF Crash
<1>12. ASSUME NEW p \in Procs, LockFails(p) PROVE CheckStaysValid'
  BY <1>12 DEF LockFails
<1>13. CASE UNCHANGED vars
  BY <1>13 DEF vars
<1> QED
  BY <1>1, <1>2, <1>3, <1>4, <1>5, <1>6, <1>7, <1>8, <1>9, <1>10, <1>11, <1>12, <1>13
     DEF Next, Step

\* Every step preserves the invariant of the loop and what it leads to.
LEMMA LoopStep == Inv /\ [Next]_vars => LoopInv' /\ ServingMigrated'
<1> SUFFICES ASSUME Inv, [Next]_vars PROVE LoopInv' /\ ServingMigrated'
  OBVIOUS
<1> USE DEF Inv, TypeOK, LoopInv, ServingMigrated, Steps, Locked, Goto, Version
<1>1. ASSUME NEW p \in Procs, Boot(p) PROVE LoopInv' /\ ServingMigrated'
  BY <1>1 DEF Boot
<1>2. ASSUME NEW p \in Procs, Lock(p) PROVE LoopInv' /\ ServingMigrated'
  BY <1>2 DEF Lock
<1>3. ASSUME NEW p \in Procs, Ensure(p) PROVE LoopInv' /\ ServingMigrated'
  BY <1>3 DEF Ensure
<1>4. ASSUME NEW p \in Procs, Check(p) PROVE LoopInv' /\ ServingMigrated'
  <2>1. CASE Fail(p)
    BY <1>4, <2>1 DEF Check, Fail
  <2>2. CASE AtEnd(p) /\ Goto(p, "unlock") /\ UNCHANGED <<next, ok>>
    <3>1. \A i \in DOMAIN Files[p] : i < next[p]
      BY <2>2 DEF AtEnd
    <3> QED
      BY <1>4, <2>2, <3>1 DEF Check
  <2>3. CASE /\ ~AtEnd(p) /\ Version(p) \in recorded
             /\ next' = [next EXCEPT ![p] = @ + 1] /\ UNCHANGED <<pc, ok>>
    BY <1>4, <2>3 DEF Check, AtEnd
  <2>4. CASE Goto(p, "exec") /\ UNCHANGED <<next, ok>>
    BY <1>4, <2>4 DEF Check
  <2> QED
    BY <1>4, <2>1, <2>2, <2>3, <2>4 DEF Check
<1>5. ASSUME NEW p \in Procs, Exec(p) PROVE LoopInv' /\ ServingMigrated'
  BY <1>5 DEF Exec
<1>6. ASSUME NEW p \in Procs, Record(p) PROVE LoopInv' /\ ServingMigrated'
  <2>1. CASE Fail(p)
    BY <1>6, <2>1 DEF Record, Fail
  <2>2. CASE Goto(p, "commit") /\ UNCHANGED <<next, ok>>
    BY <1>6, <2>2 DEF Record
  <2> QED
    BY <1>6, <2>1, <2>2 DEF Record
<1>7. ASSUME NEW p \in Procs, Commit(p) PROVE LoopInv' /\ ServingMigrated'
  <2>1. /\ recorded' = recorded \cup {Files[p][next[p]]} /\ next[p] \in DOMAIN Files[p]
        /\ \A i \in DOMAIN Files[p] : i < next[p] => Files[p][i] \in recorded
    BY <1>7, AppliedStep
  <2>2. CASE Fail(p)
    BY <2>1, <2>2 DEF Fail
  <2>3. CASE next' = [next EXCEPT ![p] = @ + 1] /\ Goto(p, "check") /\ UNCHANGED ok
    <3>1. \A i \in DOMAIN Files[p] : i < next'[p] => Files[p][i] \in recorded'
      BY <2>1, <2>3
    <3> QED
      BY <2>1, <2>3, <3>1
  <2> QED
    BY <1>7, <2>2, <2>3 DEF Commit
<1>8. ASSUME NEW p \in Procs, StatementFails(p) PROVE LoopInv' /\ ServingMigrated'
  BY <1>8 DEF StatementFails, Fail
<1>9. ASSUME NEW p \in Procs, Unlock(p) PROVE LoopInv' /\ ServingMigrated'
  BY <1>9 DEF Unlock
<1>10. ASSUME NEW p \in Procs, SessionEnds(p) PROVE LoopInv' /\ ServingMigrated'
  BY <1>10 DEF SessionEnds
<1>11. ASSUME NEW p \in Procs, Crash(p) PROVE LoopInv' /\ ServingMigrated'
  BY <1>11 DEF Crash
<1>12. ASSUME NEW p \in Procs, LockFails(p) PROVE LoopInv' /\ ServingMigrated'
  BY <1>12 DEF LockFails
<1>13. CASE UNCHANGED vars
  BY <1>13 DEF vars
<1> QED
  BY <1>1, <1>2, <1>3, <1>4, <1>5, <1>6, <1>7, <1>8, <1>9, <1>10, <1>11, <1>12, <1>13
     DEF Next, Step

\* Inv is inductive.
LEMMA Invariance == Spec => []Inv
<1>1. Inv /\ [Next]_vars => Inv'
  BY TypeStep, LockStep, LoopStep, OnceStep, ValidStep, OrderStep DEF Inv
<1> QED
  BY InitInv, <1>1, PTL DEF Spec

\* The migrator's state is well formed: no file without a version is applied.
THEOREM TypeCorrect == Spec => []TypeOK
  BY Invariance, PTL DEF Inv

\* Every migration is committed exactly as often as it is recorded, at most
\* once, whatever fails and however many processes boot together.
THEOREM AppliedExactlyOnce == Spec => []ExactlyOnce
  BY Invariance, PTL DEF Inv

\* What a process has checked about a migration holds until it has committed.
THEOREM ChecksStayValid == Spec => []CheckStaysValid
  BY Invariance, PTL DEF Inv

\* A process that serves has the whole schema of its release.
THEOREM ServersMigrated == Spec => []ServingMigrated
  BY Invariance, PTL DEF Inv

\* Migrations are applied in their order, whichever processes apply them.
THEOREM AppliedInOrder == Spec => []InOrder
  BY Invariance, PTL DEF Inv

=============================================================================
