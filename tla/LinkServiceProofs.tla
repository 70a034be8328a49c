------------------------- MODULE LinkServiceProofs -------------------------
(***************************************************************************)
(* Theorems about LinkService, for any number of requests, codes and ids,  *)
(* any cache TTL and lifetimes, and with or without faults and crashes.    *)
(***************************************************************************)
EXTENDS LinkService, TLAPS

\* Parts of actions that have names of their own are visible everywhere.
USE DEF Fresh, OnHit, Found, TTLFor, NewId, CodeFree

Working == {"cacheGet", "evict", "lookup", "ttl", "fill", "deleteRow",
            "invalidate", "readBack"}
Holding == {"ttl", "fill", "deleteRow", "invalidate", "setCode"}

\* Ids not yet drawn from the sequence are blank; a blank row has no code and
\* has not expired; a deleted row has a code, for it was deleted by it.
TableInv ==
  \A i \in Ids :
    /\ i >= nextId => row[i] = "none"
    /\ row[i] = "none" => code[i] = NoCode /\ life[i] = Forever
    /\ row[i] = "gone" => code[i] # NoCode

\* What a request holds at each step of its handler.
ControlInv ==
  \A r \in Requests :
    /\ pc[r] # "done" => status[r] = "none"
    /\ pc[r] \in Working => arg[r] \in Codes
    /\ pc[r] = "insert" /\ op[r] = "createCustom" => arg[r] \in Codes
    /\ pc[r] = "insert" /\ op[r] = "createAuto" => arg[r] = NoCode
    /\ pc[r] \in Holding => u[r] \in Ids

\* The data a request holds.  Between the two statements of a create it is a
\* stored row without a code, and nobody else holds one; otherwise it is a row
\* stored under the request's code.  Rows noted as expired stay so, and none
\* of them is carried on once the row that was read has been checked.
RequestInv(r) ==
  /\ u[r] # 0 => row[u[r]] # "none" /\ code[u[r]] = arg[r]
  /\ u[r] # 0 /\ arg[r] = NoCode => pc[r] = "setCode"
  /\ pc[r] = "setCode" => row[u[r]] = "live" /\ arg[r] = NoCode
  /\ \A i \in expired0[r] : life[i] = 0
  /\ pc[r] \in {"ttl", "fill"} => u[r] \notin expired0[r]
  /\ status[r] = "200" => u[r] \notin expired0[r]

\* Two creates never work on the same row.
SoleCreator ==
  \A r, s \in Requests :
    pc[r] = "setCode" /\ pc[s] = "setCode" /\ u[r] = u[s] => r = s

\* The inductive invariants: the types need the control part, because a
\* cached or stored row is looked up by what the request holds; the data part
\* builds on both.
TypeInv == TypeOK /\ ControlInv

DataInv ==
  /\ TableInv
  /\ OneLiveRowPerCode
  /\ CacheAuthentic
  /\ \A r \in Requests : RequestInv(r)
  /\ SoleCreator

-----------------------------------------------------------------------------
(* Type correctness.                                                       *)

\* The initial state is well formed.
LEMMA TypeInit ==
  ASSUME Init
  PROVE  TypeInv
<1>1. TypeOK
  BY ConstantsAssumption
  DEF Init, TypeOK, TableType, RedisType, RequestType, Ids, Ops, Statuses, Steps
<1>2. ControlInv
  BY DEF Init, ControlInv, Working, Holding
<1>3. QED
  BY <1>1, <1>2 DEF TypeInv

\* The bookkeeping of a request's step keeps its part of the types.
LEMMA GotoType ==
  ASSUME NEW r \in Requests, NEW s \in Steps, RequestType, Goto(r, s)
  PROVE  pc' \in [Requests -> Steps]
BY DEF Goto, RequestType

\* An answer keeps the types of the request.
LEMMA AnswerType ==
  ASSUME NEW r \in Requests, NEW s \in Statuses, NEW i \in 0..MaxId,
         RequestType, Answer(r, s, i)
  PROVE  /\ pc' \in [Requests -> Steps]
         /\ u' \in [Requests -> 0..MaxId]
         /\ status' \in [Requests -> Statuses]
BY GotoType DEF Answer, RequestType, Steps

\* What follows a resolve keeps the types of the request.
LEMMA ResolvedType ==
  ASSUME NEW r \in Requests, NEW i \in 0..MaxId, RequestType, Resolved(r, i)
  PROVE  /\ pc' \in [Requests -> Steps]
         /\ u' \in [Requests -> 0..MaxId]
         /\ status' \in [Requests -> Statuses]
<1>1. CASE Answer(r, "200", i)
  BY <1>1, AnswerType DEF Statuses
<1>2. CASE Goto(r, "deleteRow") /\ u' = [u EXCEPT ![r] = i] /\ UNCHANGED status
  BY <1>2, GotoType DEF RequestType, Steps
<1>3. QED
  BY <1>1, <1>2 DEF Resolved

\* What the assumptions on the constants say of ids and TTLs.
LEMMA Bounds ==
  /\ 0 \in 0..MaxId /\ Ids \subseteq 0..MaxId
  /\ 0 \in 0..CacheTTL
BY ConstantsAssumption DEF Ids

\* An invalidation keeps the types of the cache.
LEMMA CacheDelType ==
  ASSUME NEW c, RedisType, CacheDel(c)
  PROVE  RedisType'
BY Bounds DEF CacheDel, snap, RedisType

\* A fill keeps the types of the cache.
LEMMA CacheSetType ==
  ASSUME NEW c, NEW i \in 0..MaxId, NEW t \in 0..CacheTTL, RedisType,
         CacheSet(c, i, t)
  PROVE  RedisType'
BY DEF CacheSet, snap, RedisType

\* A new row keeps the types of the table.
LEMMA AddRowType ==
  ASSUME NEW c \in Codes \cup {NoCode}, NEW l \in Lifetimes, TableType,
         nextId <= MaxId, AddRow(c, l)
  PROVE  TableType'
BY ConstantsAssumption DEF AddRow, TableType, Ids

\* Every step of every handler, and of the environment, preserves the types
\* and the control part.
LEMMA TypeStep ==
  ASSUME TypeInv, [Next]_vars
  PROVE  TypeInv'
<1> USE Bounds DEF TypeInv, TypeOK
<1>1. ASSUME NEW r \in Requests, Begin(r)
      PROVE  TypeInv'
  <2>1. CustomCodes \subseteq Codes
    BY ConstantsAssumption
  <2>2. /\ pc' \in [Requests -> Steps]
        /\ op' \in [Requests -> Ops]
        /\ arg' \in [Requests -> Codes \cup {NoCode}]
    BY <1>1, <2>1 DEF Begin, Goto, RequestType, Steps, Ops
  <2>3. /\ u' \in [Requests -> 0..MaxId]
        /\ ttl' \in [Requests -> 0..CacheTTL]
        /\ status' \in [Requests -> Statuses]
        /\ expired0' \in [Requests -> SUBSET Ids]
    BY <1>1 DEF Begin, RequestType, Statuses
  <2>4. ControlInv'
    BY <1>1, <2>1 DEF Begin, Goto, ControlInv, Working, Holding, RequestType
  <2>5. QED
    BY <1>1, <2>2, <2>3, <2>4
    DEF Begin, TableType, RedisType, RequestType, table, redis, snap
<1>2. ASSUME NEW r \in Requests, CacheHit(r)
      PROVE  TypeInv'
  <2>1. arg[r] \in Codes /\ cacheId[arg[r]] \in 0..MaxId
    BY <1>2 DEF CacheHit, ControlInv, Working, RedisType
  <2>2. TypeOK'
    BY <1>2, <2>1, ResolvedType
    DEF CacheHit, TableType, RedisType, RequestType, table, redis, snap,
        Steps, Statuses, ControlInv, Holding
  <2>3. ControlInv'
    BY <1>2, <2>1
    DEF CacheHit, Resolved, Answer, Goto, ControlInv, Working, Holding, RedisType, RequestType, Ids
  <2>4. QED
    BY <2>2, <2>3
<1>3. ASSUME NEW r \in Requests, CacheHitExpired(r)
      PROVE  TypeInv'
  <2>1. TypeOK'
    BY <1>3, GotoType
    DEF CacheHitExpired, TableType, RedisType, RequestType, table, redis, snap,
        Steps, Statuses, ControlInv, Holding
  <2>2. ControlInv'
    BY <1>3
    DEF CacheHitExpired, Goto, ControlInv, Working, Holding, RedisType, RequestType, Ids
  <2>3. QED
    BY <2>1, <2>2
<1>4. ASSUME NEW r \in Requests, CacheMiss(r)
      PROVE  TypeInv'
  <2>1. TypeOK'
    BY <1>4, GotoType
    DEF CacheMiss, TableType, RedisType, RequestType, table, redis, snap,
        Steps, Statuses, ControlInv, Holding
  <2>2. ControlInv'
    BY <1>4
    DEF CacheMiss, Goto, ControlInv, Working, Holding, RedisType, RequestType, Ids
  <2>3. QED
    BY <2>1, <2>2
<1>5. ASSUME NEW r \in Requests, Evict(r)
      PROVE  TypeInv'
  <2>1. TypeOK'
    BY <1>5, GotoType, CacheDelType
    DEF Evict, TableType, RedisType, RequestType, table, redis, snap,
        Steps, Statuses, ControlInv, Holding
  <2>2. ControlInv'
    BY <1>5
    DEF Evict, Goto, ControlInv, Working, Holding, RedisType, RequestType, Ids
  <2>3. QED
    BY <2>1, <2>2
<1>6. ASSUME NEW r \in Requests, Lookup(r)
      PROVE  TypeInv'
  <2>1. /\ pc' \in [Requests -> Steps]
        /\ u' \in [Requests -> 0..MaxId]
        /\ status' \in [Requests -> Statuses]
    <3>1. CASE \E i \in Stored(arg[r]) :
                 Goto(r, "ttl") /\ u' = [u EXCEPT ![r] = i] /\ UNCHANGED status
      BY <3>1, GotoType DEF RequestType, Stored, Steps
    <3>2. CASE \E s \in {"404", "410", "500"} : Answer(r, s, 0)
      BY <3>2, AnswerType DEF Statuses
    <3>3. QED
      BY <1>6, <3>1, <3>2 DEF Lookup
  <2>2. TypeOK'
    BY <1>6, <2>1 DEF Lookup, TableType, RedisType, RequestType, table, redis, snap
  <2>3. ControlInv'
    BY <1>6
    DEF Lookup, Stored, Answer, Goto, ControlInv, Working, Holding, RequestType
  <2>4. QED
    BY <2>2, <2>3
<1>7. ASSUME NEW r \in Requests, ComputeTTL(r)
      PROVE  TypeInv'
  <2>1. u[r] \in Ids /\ life[u[r]] \in Nat \cup {Forever}
    BY <1>7 DEF ComputeTTL, ControlInv, Holding, TableType
  <2>2. /\ pc' \in [Requests -> Steps]
        /\ u' \in [Requests -> 0..MaxId]
        /\ status' \in [Requests -> Statuses]
        /\ ttl' \in [Requests -> 0..CacheTTL]
    <3>1. CASE Resolved(r, u[r]) /\ UNCHANGED ttl
      BY <2>1, <3>1, ResolvedType DEF RequestType
    <3>2. CASE Goto(r, "fill") /\ UNCHANGED <<u, status>>
      <4>1. (IF life[u[r]] # Forever /\ life[u[r]] < CacheTTL
               THEN life[u[r]] ELSE CacheTTL) \in 0..CacheTTL
        BY <2>1, ConstantsAssumption
      <4>2. ttl' \in [Requests -> 0..CacheTTL]
        BY <1>7, <3>2, <4>1 DEF ComputeTTL, RequestType, Resolved, Answer
      <4>3. QED
        BY <3>2, <4>2, GotoType DEF RequestType, Steps
    <3>3. QED
      BY <1>7, <3>1, <3>2 DEF ComputeTTL
  <2>3. TypeOK'
    BY <1>7, <2>2 DEF ComputeTTL, TableType, RedisType, RequestType, table, redis, snap
  <2>4. ControlInv'
    BY <1>7
    DEF ComputeTTL, Resolved, Answer, Goto, ControlInv, Working, Holding, RequestType
  <2>5. QED
    BY <2>3, <2>4
<1>8. ASSUME NEW r \in Requests, Fill(r)
      PROVE  TypeInv'
  <2>1. TypeOK'
    BY <1>8, ResolvedType, CacheSetType
    DEF Fill, TableType, RedisType, RequestType, table, redis, snap,
        Steps, Statuses, ControlInv, Holding
  <2>2. ControlInv'
    BY <1>8
    DEF Fill, Resolved, Answer, Goto, ControlInv, Working, Holding, RedisType, RequestType, Ids
  <2>3. QED
    BY <2>1, <2>2
<1>9. ASSUME NEW r \in Requests, DeleteRow(r)
      PROVE  TypeInv'
  <2>1. /\ pc' \in [Requests -> Steps]
        /\ u' \in [Requests -> 0..MaxId]
        /\ status' \in [Requests -> Statuses]
    <3>1. CASE Goto(r, "invalidate") /\ UNCHANGED <<u, status>>
      BY <3>1, GotoType DEF RequestType, Steps
    <3>2. CASE \E s \in {"404", "500"} : Answer(r, s, 0)
      BY <3>2, AnswerType DEF Statuses
    <3>3. QED
      BY <1>9, <3>1, <3>2 DEF DeleteRow
  <2>2. row' \in [Ids -> {"none", "live", "gone"}]
    BY <1>9 DEF DeleteRow, RemoveRow, Stored, TableType
  <2>3. TypeOK'
    BY <1>9, <2>1, <2>2 DEF DeleteRow, TableType, RedisType, RequestType, redis, snap
  <2>4. ControlInv'
    BY <1>9 DEF DeleteRow, Answer, Goto, ControlInv, Working, Holding, RequestType
  <2>5. QED
    BY <2>3, <2>4
<1>10. ASSUME NEW r \in Requests, Invalidate(r)
      PROVE  TypeInv'
  <2>1. TypeOK'
    BY <1>10, AnswerType, CacheDelType
    DEF Invalidate, TableType, RedisType, RequestType, table, redis, snap,
        Steps, Statuses, ControlInv, Holding
  <2>2. ControlInv'
    BY <1>10
    DEF Invalidate, Answer, Goto, ControlInv, Working, Holding, RedisType, RequestType, Ids
  <2>3. QED
    BY <2>1, <2>2
<1>11. ASSUME NEW r \in Requests, InsertCustom(r)
      PROVE  TypeInv'
  <2>1. /\ pc' \in [Requests -> Steps]
        /\ u' \in [Requests -> 0..MaxId]
        /\ status' \in [Requests -> Statuses]
    <3>1. CASE Goto(r, "readBack") /\ UNCHANGED <<u, status>>
      BY <3>1, GotoType DEF RequestType, Steps
    <3>2. CASE \E s \in {"409", "500"} : Answer(r, s, 0)
      BY <3>2, AnswerType DEF Statuses
    <3>3. QED
      BY <1>11, <3>1, <3>2 DEF InsertCustom
  <2>2. TableType'
    <3>1. CASE \E l \in Lifetimes : AddRow(arg[r], l)
      BY <1>11, <3>1, AddRowType DEF InsertCustom, RequestType
    <3>2. CASE nextId' = nextId + 1 /\ UNCHANGED <<row, code, life>>
      BY <1>11, <3>2, ConstantsAssumption DEF InsertCustom, TableType
    <3>3. CASE UNCHANGED table
      BY <3>3 DEF table, TableType
    <3>4. QED
      BY <1>11, <3>1, <3>2, <3>3 DEF InsertCustom
  <2>3. TypeOK'
    BY <1>11, <2>1, <2>2 DEF InsertCustom, RedisType, RequestType, redis, snap
  <2>4. ControlInv'
    BY <1>11
    DEF InsertCustom, Answer, Goto, ControlInv, Working, Holding, RequestType
  <2>5. QED
    BY <2>3, <2>4
<1>12. ASSUME NEW r \in Requests, InsertAuto(r)
      PROVE  TypeInv'
  <2>1. nextId \in Ids
    BY <1>12, ConstantsAssumption DEF InsertAuto, TableType, Ids
  <2>2. /\ pc' \in [Requests -> Steps]
        /\ u' \in [Requests -> 0..MaxId]
        /\ status' \in [Requests -> Statuses]
    <3>1. CASE Goto(r, "setCode") /\ u' = [u EXCEPT ![r] = nextId] /\ UNCHANGED status
      BY <2>1, <3>1, GotoType DEF RequestType, Steps
    <3>2. CASE Answer(r, "500", 0)
      BY <3>2, AnswerType DEF Statuses
    <3>3. QED
      BY <1>12, <3>1, <3>2 DEF InsertAuto
  <2>3. TableType'
    <3>1. CASE \E l \in Lifetimes : AddRow(NoCode, l)
      BY <1>12, <3>1, AddRowType DEF InsertAuto
    <3>2. CASE UNCHANGED table
      BY <3>2 DEF table, TableType
    <3>3. QED
      BY <1>12, <3>1, <3>2 DEF InsertAuto
  <2>4. TypeOK'
    BY <1>12, <2>2, <2>3 DEF InsertAuto, RedisType, RequestType, redis, snap
  <2>5. ControlInv'
    BY <1>12, <2>1
    DEF InsertAuto, Answer, Goto, ControlInv, Working, Holding, RequestType
  <2>6. QED
    BY <2>4, <2>5
<1>13. ASSUME NEW r \in Requests, SetCode(r)
      PROVE  TypeInv'
  <2>1. u[r] \in Ids /\ EncodeBase62[u[r]] \in Codes
    BY <1>13, EncodeAssumption DEF SetCode, ControlInv, Holding
  <2>2. /\ pc' \in [Requests -> Steps]
        /\ u' \in [Requests -> 0..MaxId]
        /\ status' \in [Requests -> Statuses]
    <3>1. CASE Goto(r, "readBack") /\ u' = [u EXCEPT ![r] = 0] /\ UNCHANGED status
      BY <3>1, GotoType DEF RequestType, Steps
    <3>2. CASE Answer(r, "500", 0)
      BY <3>2, AnswerType DEF Statuses
    <3>3. QED
      BY <1>13, <3>1, <3>2 DEF SetCode
  <2>3. /\ code' \in [Ids -> Codes \cup {NoCode}]
        /\ arg' \in [Requests -> Codes \cup {NoCode}]
    BY <1>13, <2>1 DEF SetCode, TableType, RequestType
  <2>4. TypeOK'
    BY <1>13, <2>2, <2>3 DEF SetCode, TableType, RedisType, RequestType, redis, snap
  <2>5. ControlInv'
    BY <1>13, <2>1
    DEF SetCode, Answer, Goto, ControlInv, Working, Holding, RequestType
  <2>6. QED
    BY <2>4, <2>5
<1>14. ASSUME NEW r \in Requests, ReadBack(r)
      PROVE  TypeInv'
  <2>1. /\ pc' \in [Requests -> Steps]
        /\ u' \in [Requests -> 0..MaxId]
        /\ status' \in [Requests -> Statuses]
    <3>1. CASE \E i \in Stored(arg[r]) : Answer(r, "201", i)
      BY <3>1, AnswerType DEF Stored, Statuses
    <3>2. CASE Answer(r, "500", 0)
      BY <3>2, AnswerType DEF Statuses
    <3>3. QED
      BY <1>14, <3>1, <3>2 DEF ReadBack
  <2>2. TypeOK'
    BY <1>14, <2>1 DEF ReadBack, TableType, RedisType, RequestType, table, redis, snap
  <2>3. ControlInv'
    BY <1>14
    DEF ReadBack, Answer, Goto, ControlInv, Working, Holding, RequestType
  <2>4. QED
    BY <2>2, <2>3
<1>15. ASSUME NEW r \in Requests, Crash(r)
      PROVE  TypeInv'
  <2>1. TypeOK'
    BY <1>15, AnswerType
    DEF Crash, TableType, RedisType, RequestType, table, redis, snap, Statuses, Ops
  <2>2. ControlInv'
    BY <1>15
    DEF Crash, Answer, Goto, ControlInv, Working, Holding, RequestType
  <2>3. QED
    BY <2>1, <2>2
<1>16. CASE Save \/ Restart
  BY <1>16
  DEF Save, Restart, TableType, RedisType, RequestType, table, snap, request,
      ControlInv
<1>17. CASE Tick
  <2>1. life' \in [Ids -> Nat \cup {Forever}]
    <3>1. \A i \in Ids : (IF life[i] \in {0, Forever} THEN life[i]
                          ELSE life[i] - 1) \in Nat \cup {Forever}
      BY DEF TableType
    <3>2. QED
      BY <1>17, <3>1 DEF Tick
  <2>2. cacheLeft' \in [Codes -> 0..CacheTTL] /\ snapLeft' \in [Codes -> 0..CacheTTL]
    BY <1>17, ConstantsAssumption DEF Tick, Older, RedisType
  <2>3. cacheId' \in [Codes -> 0..MaxId] /\ snapId' \in [Codes -> 0..MaxId]
    BY <1>17 DEF Tick, Kept, RedisType
  <2>4. TypeOK'
    BY <1>17, <2>1, <2>2, <2>3 DEF Tick, TableType, RedisType, RequestType, request
  <2>5. ControlInv'
    BY <1>17 DEF Tick, request, ControlInv
  <2>6. QED
    BY <2>4, <2>5
<1>18. CASE UNCHANGED vars
  BY <1>18
  DEF vars, TableType, RedisType, RequestType, table, redis, snap, request, ControlInv
<1>19. QED
  BY <1>1, <1>2, <1>3, <1>4, <1>5, <1>6, <1>7, <1>8, <1>9, <1>10, <1>11, <1>12, <1>13, <1>14, <1>15, <1>16, <1>17, <1>18
  DEF Next, Handle

\* Every reachable state of the link service is type-correct: ids stay within
\* the sequence, remaining lifetimes and TTLs never go below zero, and no TTL
\* exceeds cacheTTL.
THEOREM TypeCorrect == Spec => []TypeOK
<1>1. TypeInv => TypeOK
  BY DEF TypeInv
<1>2. QED
  BY <1>1, TypeInit, TypeStep, PTL DEF Spec

-----------------------------------------------------------------------------
(* Safety.                                                                 *)

\* The data part holds initially.
LEMMA DataInit ==
  ASSUME Init
  PROVE  DataInv
BY ConstantsAssumption
DEF Init, DataInv, TableInv, OneLiveRowPerCode, CacheAuthentic, Authentic, RequestInv,
    SoleCreator

\* What no step takes back: a row that was stored keeps its code and, once
\* expired, stays expired.
RowsKept ==
  \A i \in Ids : row[i] # "none" =>
    /\ row'[i] # "none"
    /\ code[i] # NoCode => code'[i] = code[i]
    /\ life[i] = 0 => life'[i] = 0

\* A step leaves request s alone.
Idle(s) ==
  /\ pc'[s] = pc[s] /\ u'[s] = u[s] /\ arg'[s] = arg[s]
  /\ status'[s] = status[s] /\ expired0'[s] = expired0[s]

\* The rows a request has noted as expired stay expired.
LEMMA ExpiredStays ==
  ASSUME TypeInv, DataInv, RowsKept, NEW r \in Requests
  PROVE  \A i \in expired0[r] : life'[i] = 0
<1>1. ASSUME NEW i \in expired0[r]
      PROVE  life'[i] = 0
  <2>1. i \in Ids /\ life[i] = 0
    BY DEF TypeInv, TypeOK, RequestType, DataInv, RequestInv
  <2>2. row[i] # "none"
    BY <2>1, ConstantsAssumption DEF DataInv, TableInv
  <2>3. QED
    BY <2>1, <2>2 DEF RowsKept
<1>2. QED
  BY <1>1

\* Requests that do not move keep their part, unless their row is taken away.
LEMMA IdleKeeps ==
  ASSUME TypeInv, DataInv, RowsKept, NEW s \in Requests, Idle(s),
         pc[s] = "setCode" => row'[u[s]] = "live" /\ code'[u[s]] = NoCode
  PROVE  RequestInv(s)'
<1>1. u[s] # 0 => u[s] \in Ids
  BY DEF TypeInv, TypeOK, RequestType, Ids
<1>2. u[s] # 0 => row'[u[s]] # "none" /\ code'[u[s]] = arg[s]
  BY <1>1 DEF DataInv, RequestInv, RowsKept
<1>3. \A i \in expired0[s] : life'[i] = 0
  BY ExpiredStays
<1>4. QED
  BY <1>2, <1>3 DEF Idle, DataInv, RequestInv

\* A request that is answered with no row, or with a row stored under its
\* code, keeps its part.
LEMMA AnswerKeeps ==
  ASSUME TypeInv, DataInv, RowsKept,
         NEW r \in Requests, NEW st, NEW i, Answer(r, st, i),
         UNCHANGED <<arg, expired0>>,
         i # 0 => row'[i] # "none" /\ code'[i] = arg[r] /\ arg[r] # NoCode,
         st = "200" => i \notin expired0[r]
  PROVE  RequestInv(r)' /\ pc'[r] # "setCode"
<1>1. pc'[r] = "done" /\ status'[r] = st /\ u'[r] = i
  BY DEF TypeInv, TypeOK, RequestType, Answer, Goto
<1>2. \A j \in expired0[r] : life'[j] = 0
  BY ExpiredStays
<1>3. QED
  BY <1>1, <1>2 DEF RequestInv

\* Steps of one request that leave the table alone.
LEMMA TableAlone ==
  ASSUME TypeInv, DataInv, UNCHANGED table, NEW r \in Requests,
         \A s \in Requests : s # r => Idle(s),
         RequestInv(r)', pc'[r] # "setCode", CacheAuthentic'
  PROVE  DataInv'
<1>1. TableInv' /\ OneLiveRowPerCode'
  BY DEF table, DataInv, TableInv, OneLiveRowPerCode
<1>2. RowsKept
  BY DEF table, RowsKept
<1>3. ASSUME NEW s \in Requests, s # r
      PROVE  RequestInv(s)'
  <2>1. pc[s] = "setCode" => row'[u[s]] = "live" /\ code'[u[s]] = NoCode
    BY DEF table, DataInv, RequestInv, TypeInv, ControlInv, Holding, Ids
  <2>2. QED
    BY <1>2, <1>3, <2>1, IdleKeeps
<1>4. SoleCreator'
  BY DEF DataInv, SoleCreator, Idle
<1>5. QED
  BY <1>1, <1>3, <1>4 DEF DataInv

\* Resolve hands a row to the handler that was stored under the code asked
\* for and was not expired when the request began.
LEMMA ResolvedKeeps ==
  ASSUME TypeInv, DataInv, UNCHANGED <<table, arg, expired0>>,
         NEW r \in Requests, NEW i \in Ids, Resolved(r, i), arg[r] \in Codes,
         row[i] # "none", code[i] = arg[r], i \notin expired0[r],
         status[r] = "none"
  PROVE  /\ RequestInv(r)' /\ pc'[r] # "setCode"
         /\ \A s \in Requests : s # r => Idle(s)
<1>1. RowsKept
  BY DEF table, RowsKept
<1>2. arg[r] # NoCode
  BY ConstantsAssumption
<1>3. CASE Answer(r, "200", i)
  <2>1. RequestInv(r)' /\ pc'[r] # "setCode"
    BY <1>1, <1>2, <1>3, AnswerKeeps DEF table
  <2>2. \A s \in Requests : s # r => Idle(s)
    BY <1>3 DEF TypeInv, TypeOK, RequestType, Answer, Goto, Idle
  <2>3. QED
    BY <2>1, <2>2
<1>4. CASE Goto(r, "deleteRow") /\ u' = [u EXCEPT ![r] = i] /\ UNCHANGED status
  <2>1. pc'[r] = "deleteRow" /\ u'[r] = i /\ status'[r] = "none"
    BY <1>4 DEF TypeInv, TypeOK, RequestType, Goto
  <2>2. \A s \in Requests : s # r => Idle(s)
    BY <1>4 DEF TypeInv, TypeOK, RequestType, Goto, Idle
  <2>3. RequestInv(r)'
    BY <1>2, <2>1 DEF table, DataInv, RequestInv
  <2>4. QED
    BY <2>1, <2>2, <2>3
<1>5. QED
  BY <1>3, <1>4 DEF Resolved

\* The steps of a request that leave the table alone keep the data part.
LEMMA ReadSteps ==
  ASSUME TypeInv, DataInv, NEW r \in Requests,
         \/ Begin(r) \/ CacheHit(r) \/ CacheHitExpired(r) \/ CacheMiss(r)
         \/ Evict(r) \/ Lookup(r) \/ ComputeTTL(r) \/ Fill(r) \/ Invalidate(r)
         \/ ReadBack(r) \/ Crash(r)
  PROVE  DataInv'
<1> DEFINE Alone == /\ \A s \in Requests : s # r => Idle(s)
                    /\ RequestInv(r)' /\ pc'[r] # "setCode"
                    /\ CacheAuthentic' /\ UNCHANGED table
<1>0. Alone => DataInv'
  BY TableAlone
<1>a. UNCHANGED table => RowsKept
  BY DEF table, RowsKept
<1>b. UNCHANGED <<table, redis>> => CacheAuthentic'
  BY DEF table, redis, snap, DataInv, CacheAuthentic, Authentic
<1>c. ASSUME NEW c, UNCHANGED table, CacheDel(c)
      PROVE  CacheAuthentic'
  BY <1>c DEF TypeInv, TypeOK, RedisType, CacheDel, snap, table, DataInv, CacheAuthentic, Authentic
<1>d. Codes \cap {NoCode} = {}
  BY ConstantsAssumption
<1>1. CASE Begin(r)
  <2>1. /\ \A s \in Requests : s # r => Idle(s)
        /\ pc'[r] \in {"cacheGet", "insert"} /\ u'[r] = 0 /\ status'[r] = "none"
        /\ expired0'[r] = {i \in Ids : life[i] = 0}
    BY <1>1 DEF Begin, Goto, Idle, Expired, TypeInv, TypeOK, RequestType
  <2>2. RequestInv(r)'
    BY <1>1, <2>1 DEF Begin, RequestInv, table
  <2>3. QED
    BY <1>0, <1>1, <1>b, <2>1, <2>2 DEF Begin
<1>2. CASE CacheHit(r)
  <2> DEFINE i == cacheId[arg[r]]
  <2>1. arg[r] \in Codes /\ i \in Ids /\ status[r] = "none"
    BY <1>2 DEF CacheHit, TypeInv, TypeOK, ControlInv, Working, RedisType, Ids
  <2>2. row[i] # "none" /\ code[i] = arg[r]
    BY <1>2, <2>1 DEF CacheHit, DataInv, CacheAuthentic, Authentic
  <2>3. i \notin expired0[r]
    BY <1>2 DEF CacheHit, Expired, DataInv, RequestInv
  <2>4. /\ RequestInv(r)' /\ pc'[r] # "setCode"
        /\ \A s \in Requests : s # r => Idle(s)
    BY <1>2, <2>1, <2>2, <2>3, ResolvedKeeps DEF CacheHit
  <2>5. QED
    BY <1>0, <1>2, <1>b, <2>4 DEF CacheHit
<1>3. CASE CacheHitExpired(r) \/ CacheMiss(r)
  <2>1. /\ \A s \in Requests : s # r => Idle(s)
        /\ pc'[r] \in {"evict", "lookup"} /\ pc[r] = "cacheGet"
        /\ UNCHANGED <<table, redis, arg, u, status, expired0>>
    BY <1>3
    DEF CacheHitExpired, CacheMiss, Goto, Idle, TypeInv, TypeOK, RequestType
  <2>2. RequestInv(r)'
    BY <2>1 DEF table, DataInv, RequestInv
  <2>3. QED
    BY <1>0, <1>b, <2>1, <2>2
<1>4. CASE Evict(r)
  <2>1. /\ \A s \in Requests : s # r => Idle(s)
        /\ pc'[r] = "lookup" /\ pc[r] = "evict"
        /\ UNCHANGED <<table, arg, u, status, expired0>>
    BY <1>4 DEF Evict, Goto, Idle, TypeInv, TypeOK, RequestType
  <2>2. RequestInv(r)'
    BY <2>1 DEF table, DataInv, RequestInv
  <2>3. CacheAuthentic'
    BY <1>4, <1>b, <1>c DEF Evict
  <2>4. QED
    BY <1>0, <2>1, <2>2, <2>3
<1>5. CASE Lookup(r)
  <2>1. arg[r] \in Codes /\ status[r] = "none"
    BY <1>5 DEF Lookup, TypeInv, ControlInv, Working
  <2>2. CASE \E i \in Stored(arg[r]) :
               /\ ~Expired(i) /\ Goto(r, "ttl")
               /\ u' = [u EXCEPT ![r] = i] /\ UNCHANGED status
    <3>1. PICK i \in Stored(arg[r]) :
               /\ ~Expired(i) /\ Goto(r, "ttl")
               /\ u' = [u EXCEPT ![r] = i] /\ UNCHANGED status
      BY <2>2
    <3>2. /\ \A s \in Requests : s # r => Idle(s)
          /\ pc'[r] = "ttl" /\ u'[r] = i /\ status'[r] = "none"
      BY <1>5, <2>1, <3>1
      DEF Lookup, Goto, Idle, TypeInv, TypeOK, RequestType
    <3>3. row[i] # "none" /\ code[i] = arg[r] /\ i \notin expired0[r]
      BY <3>1 DEF Stored, Expired, DataInv, RequestInv
    <3>4. RequestInv(r)'
      BY <1>5, <1>d, <2>1, <3>2, <3>3 DEF Lookup, table, DataInv, RequestInv
    <3>5. QED
      BY <1>0, <1>5, <1>b, <3>2, <3>4 DEF Lookup
  <2>3. CASE \E st \in {"404", "410", "500"} : Answer(r, st, 0)
    <3>1. RequestInv(r)' /\ pc'[r] # "setCode"
      BY <1>5, <1>a, <2>3, AnswerKeeps DEF Lookup
    <3>2. \A s \in Requests : s # r => Idle(s)
      BY <1>5, <2>3
      DEF Lookup, Answer, Goto, Idle, TypeInv, TypeOK, RequestType
    <3>3. QED
      BY <1>0, <1>5, <1>b, <3>1, <3>2 DEF Lookup
  <2>4. QED
    BY <1>5, <2>2, <2>3 DEF Lookup
<1>6. CASE ComputeTTL(r)
  <2>1. /\ arg[r] \in Codes /\ status[r] = "none" /\ u[r] \in Ids
        /\ row[u[r]] # "none" /\ code[u[r]] = arg[r] /\ u[r] \notin expired0[r]
    BY <1>6
    DEF ComputeTTL, TypeInv, ControlInv, Working, Holding, DataInv, RequestInv, Ids
  <2>2. CASE Resolved(r, u[r])
    BY <1>0, <1>6, <1>b, <2>1, <2>2, ResolvedKeeps DEF ComputeTTL
  <2>3. CASE Goto(r, "fill") /\ UNCHANGED <<u, status>>
    <3>1. /\ \A s \in Requests : s # r => Idle(s)
          /\ pc'[r] = "fill" /\ pc[r] = "ttl"
          /\ UNCHANGED <<table, arg, u, status, expired0>>
      BY <1>6, <2>3 DEF ComputeTTL, Goto, Idle, TypeInv, TypeOK, RequestType
    <3>2. RequestInv(r)'
      BY <3>1 DEF table, DataInv, RequestInv
    <3>3. QED
      BY <1>0, <1>6, <1>b, <3>1, <3>2 DEF ComputeTTL
  <2>4. QED
    BY <1>6, <2>2, <2>3 DEF ComputeTTL
<1>7. CASE Fill(r)
  <2>1. /\ arg[r] \in Codes /\ status[r] = "none" /\ u[r] \in Ids
        /\ row[u[r]] # "none" /\ code[u[r]] = arg[r] /\ u[r] \notin expired0[r]
    BY <1>7
    DEF Fill, TypeInv, ControlInv, Working, Holding, DataInv, RequestInv, Ids
  <2>2. /\ RequestInv(r)' /\ pc'[r] # "setCode"
        /\ \A s \in Requests : s # r => Idle(s)
    BY <1>7, <2>1, ResolvedKeeps DEF Fill
  <2>3. CASE CacheSet(arg[r], u[r], ttl[r])
    <3>1. CacheAuthentic'
      BY <1>7, <2>1, <2>3
      DEF Fill, CacheSet, snap, table, DataInv, CacheAuthentic, Authentic, TypeInv, TypeOK, RedisType
    <3>2. QED
      BY <1>0, <1>7, <2>2, <3>1 DEF Fill
  <2>4. CASE UNCHANGED redis
    BY <1>0, <1>7, <1>b, <2>2, <2>4 DEF Fill
  <2>5. QED
    BY <1>7, <2>3, <2>4 DEF Fill
<1>8. CASE Invalidate(r)
  <2>1. RequestInv(r)' /\ pc'[r] # "setCode"
    BY <1>8, <1>a, AnswerKeeps DEF Invalidate
  <2>2. \A s \in Requests : s # r => Idle(s)
    BY <1>8 DEF Invalidate, Answer, Goto, Idle, TypeInv, TypeOK, RequestType
  <2>3. CacheAuthentic'
    BY <1>8, <1>b, <1>c DEF Invalidate
  <2>4. QED
    BY <1>0, <1>8, <2>1, <2>2, <2>3 DEF Invalidate
<1>9. CASE ReadBack(r)
  <2>1. arg[r] \in Codes /\ arg[r] # NoCode
    BY <1>9, <1>d DEF ReadBack, TypeInv, ControlInv, Working
  <2>2. PICK i, st : /\ st # "200" /\ Answer(r, st, i)
                     /\ i # 0 => i \in Stored(arg[r])
    BY <1>9 DEF ReadBack
  <2>3. i # 0 => row'[i] # "none" /\ code'[i] = arg[r]
    BY <1>9, <2>2 DEF ReadBack, Stored, table
  <2>4. RequestInv(r)' /\ pc'[r] # "setCode"
    BY <1>9, <1>a, <2>1, <2>2, <2>3, AnswerKeeps DEF ReadBack
  <2>5. \A s \in Requests : s # r => Idle(s)
    BY <1>9, <2>2
    DEF ReadBack, Answer, Goto, Idle, TypeInv, TypeOK, RequestType
  <2>6. QED
    BY <1>0, <1>9, <1>b, <2>4, <2>5 DEF ReadBack
<1>10. CASE Crash(r)
  <2>1. /\ \A s \in Requests : s # r => Idle(s)
        /\ pc'[r] = "done" /\ u'[r] = 0 /\ status'[r] = "none" /\ expired0'[r] = {}
    BY <1>10 DEF Crash, Answer, Goto, Idle, TypeInv, TypeOK, RequestType
  <2>2. RequestInv(r)'
    BY <2>1 DEF RequestInv
  <2>3. QED
    BY <1>0, <1>10, <1>b, <2>1, <2>2 DEF Crash
<1>11. QED
  BY <1>1, <1>2, <1>3, <1>4, <1>5, <1>6, <1>7, <1>8, <1>9, <1>10

\* Steps of one request that change the table and leave the cache alone.
LEMMA TableChanged ==
  ASSUME TypeInv, DataInv, NEW r \in Requests, RowsKept, UNCHANGED redis,
         TableInv', OneLiveRowPerCode', RequestInv(r)',
         \A s \in Requests : s # r => Idle(s),
         \A s \in Requests : s # r /\ pc[s] = "setCode" =>
            /\ row'[u[s]] = "live" /\ code'[u[s]] = NoCode
            /\ pc'[r] = "setCode" => u'[r] # u[s]
  PROVE  DataInv'
<1>1. CacheAuthentic'
  <2>1. ASSUME NEW id \in [Codes -> 0..MaxId], Authentic(id),
               NEW c \in Codes, id[c] # 0
        PROVE  row'[id[c]] # "none" /\ code'[id[c]] = c
    <3>1. id[c] \in Ids
      BY <2>1 DEF Ids
    <3>2. row[id[c]] # "none" /\ code[id[c]] = c /\ c # NoCode
      BY <2>1, ConstantsAssumption DEF Authentic
    <3>3. QED
      BY <3>1, <3>2 DEF RowsKept
  <2>2. /\ cacheId \in [Codes -> 0..MaxId] /\ Authentic(cacheId)
        /\ snapId \in [Codes -> 0..MaxId] /\ Authentic(snapId)
    BY DEF TypeInv, TypeOK, RedisType, DataInv, CacheAuthentic
  <2>3. QED
    BY <2>1, <2>2 DEF redis, snap, CacheAuthentic, Authentic
<1>2. ASSUME NEW s \in Requests, s # r
      PROVE  RequestInv(s)'
  BY <1>2, IdleKeeps
<1>3. SoleCreator'
  BY DEF DataInv, SoleCreator, Idle
<1>4. QED
  BY <1>1, <1>2, <1>3 DEF DataInv

\* A new row takes an id nobody knows of.
LEMMA AddRowKeeps ==
  ASSUME TypeInv, DataInv, NEW c \in Codes \cup {NoCode}, NEW l \in Lifetimes,
         nextId <= MaxId, AddRow(c, l), c # NoCode => Stored(c) = {}
  PROVE  /\ RowsKept /\ TableInv' /\ OneLiveRowPerCode'
         /\ nextId \in Ids /\ row[nextId] = "none"
         /\ row'[nextId] = "live" /\ code'[nextId] = c
         /\ \A i \in Ids : row[i] # "none" => row'[i] = row[i] /\ code'[i] = code[i]
<1>1. nextId \in Ids /\ row[nextId] = "none"
  BY ConstantsAssumption DEF TypeInv, TypeOK, TableType, Ids, DataInv, TableInv
<1>2. /\ row'[nextId] = "live" /\ code'[nextId] = c /\ life'[nextId] = l
      /\ \A i \in Ids : i # nextId =>
           row'[i] = row[i] /\ code'[i] = code[i] /\ life'[i] = life[i]
  BY <1>1 DEF TypeInv, TypeOK, TableType, AddRow
<1>3. RowsKept
  BY <1>1, <1>2 DEF RowsKept
<1>4. TableInv'
  <2>1. \A i \in Ids : i >= nextId + 1 => i # nextId /\ i >= nextId
    BY ConstantsAssumption DEF TypeInv, TypeOK, TableType, Ids
  <2>2. QED
    BY <1>1, <1>2, <2>1 DEF AddRow, DataInv, TableInv
<1>5. OneLiveRowPerCode'
  BY <1>1, <1>2 DEF DataInv, OneLiveRowPerCode, Stored
<1>6. QED
  BY <1>1, <1>2, <1>3, <1>4, <1>5

\* The DELETE of a row preserves the data part.
LEMMA DeleteRowKeeps ==
  ASSUME TypeInv, DataInv, NEW r \in Requests, DeleteRow(r)
  PROVE  DataInv'
<1>1. /\ u[r] \in Ids /\ arg[r] # NoCode /\ code[u[r]] = arg[r]
      /\ status[r] = "none" /\ row[u[r]] # "none"
  BY ConstantsAssumption
  DEF DeleteRow, TypeInv, ControlInv, Working, Holding, DataInv, RequestInv, Ids
<1>2. \/ UNCHANGED row
      \/ \E i \in Ids : row[i] = "live" /\ code[i] = arg[r] /\ RemoveRow(i)
  BY <1>1 DEF DeleteRow, Stored
<1>3. \A i \in Ids : \/ row'[i] = row[i]
                     \/ row[i] = "live" /\ row'[i] = "gone" /\ code[i] # NoCode
  BY <1>1, <1>2 DEF RemoveRow, TypeInv, TypeOK, TableType
<1>4. UNCHANGED <<code, life, nextId, redis, arg, expired0>>
  BY DEF DeleteRow
<1>5. RowsKept
  BY <1>3, <1>4 DEF RowsKept
<1>6. TableInv' /\ OneLiveRowPerCode'
  BY <1>3, <1>4 DEF DataInv, TableInv, OneLiveRowPerCode
<1>7. ASSUME NEW s \in Requests, s # r, pc[s] = "setCode"
      PROVE  row'[u[s]] = "live" /\ code'[u[s]] = NoCode
  BY <1>3, <1>4, <1>7
  DEF DataInv, RequestInv, TypeInv, ControlInv, Holding, Ids
<1>8. CASE \E st \in {"404", "500"} : Answer(r, st, 0)
  <2>1. RequestInv(r)' /\ pc'[r] # "setCode"
    BY <1>4, <1>5, <1>8, AnswerKeeps
  <2>2. \A s \in Requests : s # r => Idle(s)
    BY <1>4, <1>8 DEF Answer, Goto, Idle, TypeInv, TypeOK, RequestType
  <2>3. QED
    BY <1>4, <1>5, <1>6, <1>7, <2>1, <2>2, TableChanged
<1>9. CASE Goto(r, "invalidate") /\ UNCHANGED <<u, status>>
  <2>1. /\ pc'[r] = "invalidate"
        /\ \A s \in Requests : s # r => Idle(s)
    BY <1>4, <1>9 DEF Goto, Idle, TypeInv, TypeOK, RequestType
  <2>2. RequestInv(r)'
    <3>1. row'[u[r]] # "none"
      BY <1>1, <1>5 DEF RowsKept
    <3>2. QED
      BY <1>1, <1>4, <1>9, <2>1, <3>1 DEF DataInv, RequestInv
  <2>3. QED
    BY <1>4, <1>5, <1>6, <1>7, <2>1, <2>2, TableChanged
<1>10. QED
  BY <1>8, <1>9 DEF DeleteRow

\* The INSERT of a row with a custom code preserves the data part.
LEMMA InsertCustomKeeps ==
  ASSUME TypeInv, DataInv, NEW r \in Requests, InsertCustom(r)
  PROVE  DataInv'
<1>1. arg[r] \in Codes /\ arg[r] # NoCode
  BY ConstantsAssumption DEF InsertCustom, TypeInv, ControlInv
<1>2. status[r] = "none" /\ UNCHANGED <<redis, arg, expired0>>
  BY DEF InsertCustom, TypeInv, ControlInv
<1>3. /\ RowsKept /\ TableInv' /\ OneLiveRowPerCode'
      /\ \A i \in Ids : row[i] # "none" => row'[i] = row[i] /\ code'[i] = code[i]
  <2>1. CASE Stored(arg[r]) = {} /\ \E l \in Lifetimes : AddRow(arg[r], l)
    BY <1>1, <2>1, AddRowKeeps DEF InsertCustom
  <2>2. CASE nextId' = nextId + 1 /\ UNCHANGED <<row, code, life>>
    <3>1. \A i \in Ids : i >= nextId + 1 => i >= nextId
      BY ConstantsAssumption DEF TypeInv, TypeOK, TableType, Ids
    <3>2. QED
      BY <2>2, <3>1 DEF RowsKept, DataInv, TableInv, OneLiveRowPerCode
  <2>3. CASE UNCHANGED table
    BY <2>3 DEF table, RowsKept, DataInv, TableInv, OneLiveRowPerCode
  <2>4. QED
    BY <2>1, <2>2, <2>3 DEF InsertCustom
<1>4. ASSUME NEW s \in Requests, s # r, pc[s] = "setCode"
      PROVE  row'[u[s]] = "live" /\ code'[u[s]] = NoCode
  BY <1>3, <1>4 DEF DataInv, RequestInv, TypeInv, ControlInv, Holding, Ids
<1>5. CASE \E st \in {"409", "500"} : Answer(r, st, 0)
  <2>1. RequestInv(r)' /\ pc'[r] # "setCode"
    BY <1>2, <1>3, <1>5, AnswerKeeps
  <2>2. \A s \in Requests : s # r => Idle(s)
    BY <1>2, <1>5 DEF Answer, Goto, Idle, TypeInv, TypeOK, RequestType
  <2>3. QED
    BY <1>2, <1>3, <1>4, <2>1, <2>2, TableChanged
<1>6. CASE Goto(r, "readBack") /\ UNCHANGED <<u, status>>
  <2>1. /\ pc'[r] = "readBack"
        /\ \A s \in Requests : s # r => Idle(s)
    BY <1>2, <1>6 DEF Goto, Idle, TypeInv, TypeOK, RequestType
  <2>2. u[r] = 0 \/ u[r] \in Ids
    BY DEF TypeInv, TypeOK, RequestType, Ids
  <2>3. \A i \in expired0[r] : life'[i] = 0
    BY <1>3, ExpiredStays
  <2>4. RequestInv(r)'
    BY <1>1, <1>2, <1>3, <1>6, <2>1, <2>2, <2>3 DEF DataInv, RequestInv
  <2>5. QED
    BY <1>2, <1>3, <1>4, <2>1, <2>4, TableChanged
<1>7. QED
  BY <1>5, <1>6 DEF InsertCustom

\* The INSERT of a row without a code preserves the data part.
LEMMA InsertAutoKeeps ==
  ASSUME TypeInv, DataInv, NEW r \in Requests, InsertAuto(r)
  PROVE  DataInv'
<1>1. /\ arg[r] = NoCode /\ status[r] = "none"
      /\ UNCHANGED <<redis, arg, expired0>>
  BY DEF InsertAuto, TypeInv, ControlInv
<1>2. /\ RowsKept /\ TableInv' /\ OneLiveRowPerCode'
      /\ \A i \in Ids : row[i] # "none" => row'[i] = row[i] /\ code'[i] = code[i]
  <2>1. CASE \E l \in Lifetimes : AddRow(NoCode, l)
    BY <2>1, AddRowKeeps DEF InsertAuto
  <2>2. CASE UNCHANGED table
    BY <2>2 DEF table, RowsKept, DataInv, TableInv, OneLiveRowPerCode
  <2>3. QED
    BY <2>1, <2>2 DEF InsertAuto
<1>3. ASSUME NEW s \in Requests, s # r, pc[s] = "setCode"
      PROVE  u[s] \in Ids /\ row'[u[s]] = "live" /\ code'[u[s]] = NoCode
  BY <1>2, <1>3 DEF DataInv, RequestInv, TypeInv, ControlInv, Holding, Ids
<1>4. CASE Answer(r, "500", 0)
  <2>1. RequestInv(r)' /\ pc'[r] # "setCode"
    BY <1>1, <1>2, <1>4, AnswerKeeps
  <2>2. \A s \in Requests : s # r => Idle(s)
    BY <1>1, <1>4 DEF Answer, Goto, Idle, TypeInv, TypeOK, RequestType
  <2>3. QED
    BY <1>1, <1>2, <1>3, <2>1, <2>2, TableChanged
<1>5. CASE /\ \E l \in Lifetimes : AddRow(NoCode, l)
           /\ Goto(r, "setCode")
           /\ u' = [u EXCEPT ![r] = nextId]
           /\ UNCHANGED status
  <2>1. /\ nextId \in Ids /\ row[nextId] = "none"
        /\ row'[nextId] = "live" /\ code'[nextId] = NoCode
    BY <1>5, AddRowKeeps DEF InsertAuto
  <2>2. /\ pc'[r] = "setCode" /\ u'[r] = nextId
        /\ \A s \in Requests : s # r => Idle(s)
    BY <1>1, <1>5 DEF Goto, Idle, TypeInv, TypeOK, RequestType
  <2>3. \A i \in expired0[r] : life'[i] = 0
    BY <1>2, ExpiredStays
  <2>4. RequestInv(r)'
    BY <1>1, <1>5, <2>1, <2>2, <2>3 DEF RequestInv
  <2>5. \A s \in Requests : s # r /\ pc[s] = "setCode" => u'[r] # u[s]
    BY <2>1, <2>2 DEF DataInv, RequestInv, TypeInv, ControlInv, Holding, Ids
  <2>6. QED
    BY <1>1, <1>2, <1>3, <2>2, <2>4, <2>5, TableChanged
<1>6. QED
  BY <1>4, <1>5 DEF InsertAuto

\* The UPDATE that gives a row its generated code preserves the data part.
LEMMA SetCodeKeeps ==
  ASSUME TypeInv, DataInv, NEW r \in Requests, SetCode(r)
  PROVE  DataInv'
<1> DEFINE c == EncodeBase62[u[r]]
<1>1. /\ pc[r] = "setCode" /\ u[r] \in Ids /\ row[u[r]] = "live"
      /\ code[u[r]] = NoCode /\ c \in Codes /\ c # NoCode /\ status[r] = "none"
  BY ConstantsAssumption, EncodeAssumption
  DEF SetCode, TypeInv, ControlInv, Holding, DataInv, RequestInv, Ids
<1>2. UNCHANGED <<row, life, nextId, redis, expired0>>
  BY DEF SetCode
<1>3. \/ UNCHANGED code
      \/ Stored(c) = {} /\ code' = [code EXCEPT ![u[r]] = c]
  BY DEF SetCode
<1>4. \A i \in Ids : i # u[r] => code'[i] = code[i]
  BY <1>3 DEF TypeInv, TypeOK, TableType
<1>5. code'[u[r]] = NoCode \/ (Stored(c) = {} /\ code'[u[r]] = c)
  BY <1>1, <1>3 DEF TypeInv, TypeOK, TableType
<1>6. RowsKept
  BY <1>1, <1>2, <1>4 DEF RowsKept
<1>7. TableInv'
  BY <1>1, <1>2, <1>4 DEF DataInv, TableInv
<1>8. OneLiveRowPerCode'
  BY <1>1, <1>2, <1>4, <1>5 DEF DataInv, OneLiveRowPerCode, Stored
<1>9. ASSUME NEW s \in Requests, s # r, pc[s] = "setCode"
      PROVE  row'[u[s]] = "live" /\ code'[u[s]] = NoCode
  <2>1. u[s] \in Ids /\ row[u[s]] = "live" /\ code[u[s]] = NoCode
    BY <1>9 DEF DataInv, RequestInv, TypeInv, ControlInv, Holding, Ids
  <2>2. u[s] # u[r]
    BY <1>1, <1>9 DEF DataInv, SoleCreator
  <2>3. QED
    BY <1>2, <1>4, <2>1, <2>2
<1>10. CASE Answer(r, "500", 0) /\ UNCHANGED arg
  <2>1. RequestInv(r)' /\ pc'[r] # "setCode"
    BY <1>2, <1>6, <1>10, AnswerKeeps
  <2>2. \A s \in Requests : s # r => Idle(s)
    BY <1>2, <1>10 DEF Answer, Goto, Idle, TypeInv, TypeOK, RequestType
  <2>3. QED
    BY <1>2, <1>6, <1>7, <1>8, <1>9, <2>1, <2>2, TableChanged
<1>11. CASE /\ arg' = [arg EXCEPT ![r] = c]
            /\ Goto(r, "readBack")
            /\ u' = [u EXCEPT ![r] = 0]
            /\ UNCHANGED status
  <2>1. /\ pc'[r] = "readBack" /\ u'[r] = 0
        /\ \A s \in Requests : s # r => Idle(s)
    BY <1>2, <1>11 DEF Goto, Idle, TypeInv, TypeOK, RequestType
  <2>2. \A i \in expired0[r] : life'[i] = 0
    BY <1>6, ExpiredStays
  <2>3. RequestInv(r)'
    BY <1>1, <1>2, <1>11, <2>1, <2>2 DEF RequestInv
  <2>4. QED
    BY <1>2, <1>6, <1>7, <1>8, <1>9, <2>1, <2>3, TableChanged
<1>12. QED
  BY <1>10, <1>11 DEF SetCode

\* The passing of time preserves the data part.
LEMMA TickKeeps ==
  ASSUME TypeInv, DataInv, Tick
  PROVE  DataInv'
<1>1. /\ UNCHANGED <<row, code, nextId, request>>
      /\ \A i \in Ids : life[i] \in {0, Forever} => life'[i] = life[i]
  BY DEF Tick
<1>2. TableInv'
  BY <1>1 DEF DataInv, TableInv
<1>3. CacheAuthentic'
  BY <1>1 DEF Tick, Kept, DataInv, CacheAuthentic, Authentic
<1>4. ASSUME NEW r \in Requests
      PROVE  RequestInv(r)'
  BY <1>1 DEF request, DataInv, RequestInv, TypeInv, TypeOK, RequestType
<1>5. QED
  BY <1>1, <1>2, <1>3, <1>4
  DEF request, DataInv, OneLiveRowPerCode, SoleCreator

\* Every step preserves the data part.
LEMMA DataStep ==
  ASSUME TypeInv, DataInv, [Next]_vars
  PROVE  DataInv'
<1>1. CASE Save \/ Restart
  <2>1. CacheAuthentic'
    BY <1>1 DEF Save, Restart, table, snap, DataInv, CacheAuthentic, Authentic
  <2>2. \A r \in Requests : RequestInv(r)'
    BY <1>1 DEF Save, Restart, table, request, DataInv, RequestInv
  <2>3. QED
    BY <1>1, <2>1, <2>2
    DEF Save, Restart, table, request, DataInv, TableInv, OneLiveRowPerCode, SoleCreator
<1>2. CASE UNCHANGED vars
  <2>1. \A r \in Requests : RequestInv(r)'
    BY <1>2 DEF vars, table, request, DataInv, RequestInv
  <2>2. QED
    BY <1>2, <2>1
    DEF vars, table, redis, snap, request, DataInv, TableInv, OneLiveRowPerCode,
        CacheAuthentic, Authentic, SoleCreator
<1>3. QED
  BY <1>1, <1>2, ReadSteps, DeleteRowKeeps, InsertCustomKeeps, InsertAutoKeeps,
     SetCodeKeeps, TickKeeps
  DEF Next, Handle

\* Both invariants hold in every reachable state.
LEMMA Invariance == Spec => [](TypeInv /\ DataInv)
<1>1. Init => TypeInv /\ DataInv
  BY TypeInit, DataInit
<1>2. TypeInv /\ DataInv /\ [Next]_vars => (TypeInv /\ DataInv)'
  BY TypeStep, DataStep
<1>3. QED
  BY <1>1, <1>2, PTL DEF Spec

\* In every reachable state, two stored links have different codes.
THEOREM CodesUnique == Spec => []OneLiveRowPerCode
<1>1. DataInv => OneLiveRowPerCode
  BY DEF DataInv
<1>2. QED
  BY <1>1, Invariance, PTL

\* In every reachable state, what the cache holds, what requests carry and
\* what they answer for a code is a link that was stored under that code.
THEOREM OnlyAuthenticMappings == Spec => []MappingAuthentic
<1>1. DataInv => MappingAuthentic
  BY DEF DataInv, RequestInv, MappingAuthentic, CacheAuthentic, Authentic, CopiesAuthentic
<1>2. QED
  BY <1>1, Invariance, PTL

\* No Get or Redirect that begins after a link has expired answers with it.
THEOREM NoExpiredAnswer == Spec => []ExpiredNeverServed
<1>1. DataInv => ExpiredNeverServed
  BY DEF DataInv, RequestInv, ExpiredNeverServed
<1>2. QED
  BY <1>1, Invariance, PTL

-----------------------------------------------------------------------------
(* Deleted links.                                                          *)

\* Nothing revives a deleted row.
LEMMA GoneStaysGone ==
  ASSUME TypeInv, DataInv, [Next]_vars, NEW i \in Ids, row[i] = "gone"
  PROVE  row'[i] = "gone"
<1>1. ASSUME NEW r \in Requests, InsertCustom(r)
      PROVE  row'[i] = "gone"
  <2>1. CASE Stored(arg[r]) = {} /\ \E l \in Lifetimes : AddRow(arg[r], l)
    BY <1>1, <2>1, AddRowKeeps DEF InsertCustom, TypeInv, TypeOK, RequestType
  <2>2. QED
    BY <1>1, <2>1 DEF InsertCustom, table
<1>2. ASSUME NEW r \in Requests, InsertAuto(r)
      PROVE  row'[i] = "gone"
  <2>1. CASE \E l \in Lifetimes : AddRow(NoCode, l)
    BY <1>2, <2>1, AddRowKeeps DEF InsertAuto
  <2>2. QED
    BY <1>2, <2>1 DEF InsertAuto, table
<1>3. ASSUME NEW r \in Requests, DeleteRow(r)
      PROVE  row'[i] = "gone"
  BY <1>3 DEF DeleteRow, RemoveRow, TypeInv, TypeOK, TableType
<1>4. ASSUME NEW r \in Requests,
             \/ Begin(r) \/ CacheHit(r) \/ CacheHitExpired(r) \/ CacheMiss(r)
             \/ Evict(r) \/ Lookup(r) \/ ComputeTTL(r) \/ Fill(r)
             \/ Invalidate(r) \/ ReadBack(r) \/ Crash(r) \/ SetCode(r)
      PROVE  row'[i] = "gone"
  BY <1>4
  DEF Begin, CacheHit, CacheHitExpired, CacheMiss, Evict, Lookup, ComputeTTL,
      Fill, Invalidate, ReadBack, Crash, SetCode, table
<1>5. CASE Save \/ Restart \/ Tick \/ UNCHANGED vars
  BY <1>5 DEF Save, Restart, Tick, vars, table
<1>6. QED
  BY <1>1, <1>2, <1>3, <1>4, <1>5 DEF Next, Handle

\* The cache only takes copies that it, its snapshot or a running request has.
LEMMA CacheTakesCarried ==
  ASSUME TypeInv, DataInv, [Next]_vars, NEW i \in Ids, NEW c \in Codes,
         i \in {cacheId'[c], snapId'[c]}
  PROVE  Cached(i) \/ Carried(i)
<1> DEFINE Here == i \in {cacheId[c], snapId[c]}
<1>0. i # 0 /\ (Here => Cached(i))
  BY DEF Ids, Cached
<1>1. UNCHANGED redis => Here
  BY DEF redis, snap
<1>2. ASSUME NEW d, CacheDel(d)
      PROVE  Here
  BY <1>0, <1>2 DEF CacheDel, snap, TypeInv, TypeOK, RedisType
<1>3. ASSUME NEW r \in Requests, Fill(r)
      PROVE  Here \/ Carried(i)
  BY <1>1, <1>3 DEF Fill, CacheSet, snap, Carried, TypeInv, TypeOK, RedisType
<1>4. CASE Save \/ Restart
  BY <1>0, <1>4 DEF Save, Restart, snap
<1>5. CASE Tick
  BY <1>0, <1>5 DEF Tick, Kept
<1>6. CASE UNCHANGED vars
  BY <1>0, <1>1, <1>6 DEF vars
<1>7. ASSUME NEW r \in Requests, Evict(r) \/ Invalidate(r)
      PROVE  Here
  BY <1>1, <1>2, <1>7 DEF Evict, Invalidate
<1>8. ASSUME NEW r \in Requests,
             \/ Begin(r) \/ CacheHit(r) \/ CacheHitExpired(r) \/ CacheMiss(r)
             \/ Lookup(r) \/ ComputeTTL(r) \/ DeleteRow(r) \/ InsertCustom(r)
             \/ InsertAuto(r) \/ SetCode(r) \/ ReadBack(r) \/ Crash(r)
      PROVE  Here
  BY <1>1, <1>8
  DEF Begin, CacheHit, CacheHitExpired, CacheMiss, Lookup, ComputeTTL,
      DeleteRow, InsertCustom, InsertAuto, SetCode, ReadBack, Crash
<1>9. QED
  BY <1>0, <1>3, <1>4, <1>5, <1>6, <1>7, <1>8 DEF Next, Handle

\* A handler's step picks up a row only from the cache or from the table.
LEMMA PickedUp ==
  ASSUME TypeInv, DataInv, NEW r \in Requests, Handle(r), NEW i \in Ids,
         u'[r] = i
  PROVE  u[r] = i \/ row[i] # "gone" \/ Cached(i)
<1>0. i # 0 /\ u \in [Requests -> 0..MaxId]
  BY DEF Ids, TypeInv, TypeOK, RequestType
<1>1. CASE CacheHit(r)
  <2>1. arg[r] \in Codes
    BY <1>1 DEF CacheHit, TypeInv, ControlInv, Working
  <2>2. QED
    BY <1>0, <1>1, <2>1 DEF CacheHit, Resolved, Answer, Cached
<1>2. CASE Lookup(r)
  BY <1>0, <1>2 DEF Lookup, Answer, Stored
<1>3. CASE ComputeTTL(r) \/ Fill(r)
  BY <1>0, <1>3 DEF ComputeTTL, Fill, Resolved, Answer
<1>4. CASE InsertAuto(r)
  <2>1. CASE Answer(r, "500", 0)
    BY <1>0, <2>1 DEF Answer
  <2>2. CASE /\ \E l \in Lifetimes : AddRow(NoCode, l)
             /\ u' = [u EXCEPT ![r] = nextId]
    <3>1. row[nextId] = "none"
      BY <1>4, <2>2, AddRowKeeps DEF InsertAuto
    <3>2. QED
      BY <1>0, <2>2, <3>1
  <2>3. QED
    BY <1>4, <2>1, <2>2 DEF InsertAuto
<1>5. CASE ReadBack(r)
  BY <1>0, <1>5 DEF ReadBack, Answer, Stored
<1>6. CASE \/ CacheHitExpired(r) \/ CacheMiss(r) \/ Evict(r) \/ DeleteRow(r)
           \/ Invalidate(r) \/ InsertCustom(r) \/ SetCode(r)
  BY <1>0, <1>6
  DEF CacheHitExpired, CacheMiss, Evict, DeleteRow, Invalidate, InsertCustom,
      SetCode, Answer
<1>7. QED
  BY <1>1, <1>2, <1>3, <1>4, <1>5, <1>6 DEF Handle

\* A step of one request leaves the others' copies alone.
LEMMA OthersKeepCopies ==
  ASSUME TypeInv, [Next]_vars, NEW s \in Requests,
         ~(Begin(s) \/ Handle(s) \/ Crash(s))
  PROVE  u'[s] = u[s] /\ pc'[s] = pc[s]
<1>1. ASSUME NEW r \in Requests, r # s, Begin(r) \/ Handle(r) \/ Crash(r)
      PROVE  u'[s] = u[s] /\ pc'[s] = pc[s]
  <2>1. CASE Begin(r) \/ Crash(r)
    BY <1>1, <2>1
    DEF Begin, Crash, Answer, Goto, TypeInv, TypeOK, RequestType
  <2>2. CASE \/ CacheHit(r) \/ CacheHitExpired(r) \/ CacheMiss(r) \/ Evict(r)
             \/ Lookup(r) \/ ComputeTTL(r) \/ Fill(r)
    BY <1>1, <2>2
    DEF CacheHit, CacheHitExpired, CacheMiss, Evict, Lookup, ComputeTTL, Fill,
        Resolved, Answer, Goto, TypeInv, TypeOK, RequestType
  <2>3. CASE \/ DeleteRow(r) \/ Invalidate(r) \/ InsertCustom(r)
             \/ InsertAuto(r) \/ SetCode(r) \/ ReadBack(r)
    BY <1>1, <2>3
    DEF DeleteRow, Invalidate, InsertCustom, InsertAuto, SetCode, ReadBack,
        Answer, Goto, TypeInv, TypeOK, RequestType
  <2>4. QED
    BY <1>1, <2>1, <2>2, <2>3 DEF Handle
<1>2. CASE Save \/ Restart \/ Tick \/ UNCHANGED vars
  BY <1>2 DEF Save, Restart, Tick, vars, request
<1>3. QED
  BY <1>1, <1>2 DEF Next

\* No step brings back a link that is dead.
LEMMA DeadStep ==
  ASSUME TypeInv, DataInv, [Next]_vars
  PROVE  DeadStaysDeadStep
<1> SUFFICES ASSUME NEW i \in Ids, row[i] = "gone", ~Cached(i), ~Carried(i)
             PROVE  /\ row'[i] = "gone" /\ ~Cached(i)' /\ ~Carried(i)'
                    /\ \A r \in Requests : u'[r] = i => u[r] = i
  BY DEF DeadStaysDeadStep
<1>1. row'[i] = "gone"
  BY GoneStaysGone
<1>2. ~Cached(i)'
  BY CacheTakesCarried DEF Cached
<1>3. ASSUME NEW r \in Requests, u'[r] = i
      PROVE  u[r] = i /\ pc'[r] = "done"
  <2>1. CASE Begin(r) \/ Crash(r)
    <3>1. u'[r] = 0
      BY <2>1 DEF Begin, Crash, Answer, TypeInv, TypeOK, RequestType
    <3>2. QED
      BY <1>3, <3>1 DEF Ids
  <2>2. CASE Handle(r)
    <3>1. u[r] = i
      BY <1>3, <2>2, PickedUp
    <3>2. pc[r] # "done"
      BY <2>2
      DEF Handle, CacheHit, CacheHitExpired, CacheMiss, Evict, Lookup,
          ComputeTTL, Fill, DeleteRow, Invalidate, InsertCustom, InsertAuto,
          SetCode, ReadBack
    <3>3. QED
      BY <3>1, <3>2 DEF Carried
  <2>3. CASE ~(Begin(r) \/ Handle(r) \/ Crash(r))
    BY <1>3, <2>3, OthersKeepCopies DEF Carried
  <2>4. QED
    BY <2>1, <2>2, <2>3
<1>4. QED
  BY <1>1, <1>2, <1>3 DEF Carried

\* A deleted link that is neither cached nor carried by a running request is
\* never stored, cached, carried or answered again.
THEOREM DeadLinksStayDead == Spec => DeadStaysDead
<1>1. TypeInv /\ DataInv /\ [Next]_vars => [DeadStaysDeadStep]_vars
  BY DeadStep
<1>2. QED
  BY <1>1, Invariance, PTL DEF Spec, DeadStaysDead

-----------------------------------------------------------------------------
(* The abstract registry.                                                  *)

\* The only member of a singleton is the one that is chosen.
LEMMA ChooseOnly ==
  ASSUME NEW S, NEW i \in S, \A j \in S : j = i
  PROVE  (CHOOSE j \in S : TRUE) = i
OBVIOUS

\* What a code names before and after a step.
LEMMA NamesNow ==
  ASSUME DataInv, NEW c \in Codes
  PROVE  /\ Names[c] \in Ids \cup {0}
         /\ \A i \in Stored(c) : Names[c] = i
         /\ Stored(c) = {} => Names[c] = 0
<1>1. \A i, j \in Stored(c) : i = j
  BY ConstantsAssumption DEF DataInv, OneLiveRowPerCode, Stored
<1>2. \A i \in Stored(c) : i \in Ids /\ (CHOOSE j \in Stored(c) : TRUE) = i
  BY <1>1, ChooseOnly DEF Stored
<1>3. QED
  BY <1>2 DEF Names, TheRow

\* The same after the step.
LEMMA NamesNext ==
  ASSUME DataInv', NEW c \in Codes
  PROVE  /\ \A i \in Stored(c)' : Names'[c] = i
         /\ Stored(c)' = {} => Names'[c] = 0
<1>1. \A i, j \in Stored(c)' : i = j
  BY ConstantsAssumption DEF DataInv, OneLiveRowPerCode, Stored
<1>2. \A i \in Stored(c)' : (CHOOSE j \in Stored(c)' : TRUE) = i
  BY <1>1, ChooseOnly
<1>3. QED
  BY <1>2 DEF Names, TheRow

\* The registry sees a stutter when no row gets or loses a code.
LEMMA SameNames ==
  ASSUME \A i \in Ids : \/ row'[i] = row[i] /\ code'[i] = code[i]
                        \/ {code[i], code'[i]} \subseteq {NoCode}
  PROVE  UNCHANGED <<Names, Former>>
<1>1. \A c \in Codes : Stored(c)' = Stored(c)
  BY ConstantsAssumption DEF Stored
<1>2. Names' = Names
  BY <1>1 DEF Names
<1>3. Former' = Former
  BY DEF Former
<1>4. QED
  BY <1>2, <1>3

\* A row without a code gets a free one: the registry binds it.
LEMMA BindStep ==
  ASSUME DataInv, DataInv', NEW c \in Codes, NEW i \in Ids,
         code[i] = NoCode, Stored(c) = {},
         row'[i] = "live", code'[i] = c,
         \A j \in Ids : j # i => row'[j] = row[j] /\ code'[j] = code[j]
  PROVE  Registry!Bind(c, i)
<1>1. Names[c] = 0 /\ i \notin Former
  BY NamesNow DEF Former
<1>2. c # NoCode
  BY ConstantsAssumption
<1>3. Former' = Former \cup {i}
  BY <1>2 DEF Former
<1>4. Names'[c] = i
  <2>1. i \in Stored(c)'
    BY DEF Stored
  <2>2. QED
    BY <2>1, NamesNext
<1>5. ASSUME NEW d \in Codes, d # c
      PROVE  Names'[d] = Names[d]
  <2>1. Stored(d)' = Stored(d)
    BY <1>5, ConstantsAssumption DEF Stored
  <2>2. QED
    BY <2>1 DEF Names
<1>6. Names' = [Names EXCEPT ![c] = i]
  <2>1. Names = [d \in Codes |-> Names[d]] /\ Names' = [d \in Codes |-> Names'[d]]
    BY DEF Names
  <2>2. QED
    BY <1>4, <1>5, <2>1
<1>7. QED
  BY <1>1, <1>3, <1>6 DEF Registry!Bind

\* A stored row is deleted: the registry frees its code.
LEMMA FreeStep ==
  ASSUME DataInv, DataInv', NEW c \in Codes, NEW i \in Stored(c),
         row'[i] = "gone", UNCHANGED code,
         \A j \in Ids : j # i => row'[j] = row[j]
  PROVE  Registry!Free(c)
<1>1. i \in Ids /\ row[i] = "live" /\ code[i] = c /\ i # 0
  BY DEF Stored, Ids
<1>2. Names[c] = i
  BY NamesNow
<1>3. Former' = Former
  BY <1>1 DEF Former
<1>4. Names'[c] = 0
  <2>1. \A j \in Stored(c) : j = i
    BY <1>2, NamesNow
  <2>2. Stored(c)' = {}
    BY <2>1 DEF Stored
  <2>3. QED
    BY <2>2, NamesNext
<1>5. ASSUME NEW d \in Codes, d # c
      PROVE  Names'[d] = Names[d]
  <2>1. Stored(d)' = Stored(d)
    BY <1>1, <1>5 DEF Stored
  <2>2. QED
    BY <2>1 DEF Names
<1>6. Names' = [Names EXCEPT ![c] = 0]
  <2>1. Names = [d \in Codes |-> Names[d]] /\ Names' = [d \in Codes |-> Names'[d]]
    BY DEF Names
  <2>2. QED
    BY <1>4, <1>5, <2>1
<1>7. QED
  BY <1>1, <1>2, <1>3, <1>6 DEF Registry!Free

\* Every step of the service is a step of the registry, or leaves it alone.
LEMMA RegistryStep ==
  ASSUME TypeInv, DataInv, DataInv', [Next]_vars
  PROVE  [Registry!Next]_<<Names, Former>>
<1> DEFINE Goal == Registry!Next \/ UNCHANGED <<Names, Former>>
<1>1. ASSUME NEW r \in Requests, DeleteRow(r)
      PROVE  Goal
  <2>1. CASE UNCHANGED row
    BY <1>1, <2>1, SameNames DEF DeleteRow
  <2>2. ASSUME NEW i \in Stored(code[u[r]]), RemoveRow(i)
        PROVE  Goal
    <3>1. code[u[r]] \in Codes
      BY <1>1
      DEF DeleteRow, TypeInv, ControlInv, Working, Holding, DataInv, RequestInv, Ids
    <3>2. /\ row'[i] = "gone" /\ UNCHANGED code
          /\ \A j \in Ids : j # i => row'[j] = row[j]
      BY <1>1, <2>2
      DEF DeleteRow, RemoveRow, Stored, TypeInv, TypeOK, TableType
    <3>3. QED
      BY <2>2, <3>1, <3>2, FreeStep DEF Registry!Next
  <2>3. QED
    BY <1>1, <2>1, <2>2 DEF DeleteRow
<1>2. ASSUME NEW c \in Codes \cup {NoCode}, NEW l \in Lifetimes,
             nextId <= MaxId, AddRow(c, l), c # NoCode => Stored(c) = {}
      PROVE  Goal
  <2>1. /\ nextId \in Ids /\ row[nextId] = "none" /\ code[nextId] = NoCode
        /\ row'[nextId] = "live" /\ code'[nextId] = c
    BY <1>2, AddRowKeeps DEF DataInv, TableInv
  <2>2. \A j \in Ids : j # nextId => row'[j] = row[j] /\ code'[j] = code[j]
    BY <1>2 DEF AddRow, TypeInv, TypeOK, TableType
  <2>3. CASE c = NoCode
    BY <2>1, <2>2, <2>3, SameNames
  <2>4. CASE c # NoCode
    BY <1>2, <2>1, <2>2, <2>4, BindStep DEF Registry!Next
  <2>5. QED
    BY <2>3, <2>4
<1>3. ASSUME NEW r \in Requests, InsertCustom(r)
      PROVE  Goal
  <2>1. CASE UNCHANGED <<row, code>>
    BY <2>1, SameNames
  <2>2. CASE Stored(arg[r]) = {} /\ \E l \in Lifetimes : AddRow(arg[r], l)
    BY <1>2, <1>3, <2>2 DEF InsertCustom, TypeInv, TypeOK, RequestType
  <2>3. QED
    BY <1>3, <2>1, <2>2 DEF InsertCustom, table
<1>4. ASSUME NEW r \in Requests, InsertAuto(r)
      PROVE  Goal
  <2>1. CASE UNCHANGED <<row, code>>
    BY <2>1, SameNames
  <2>2. CASE \E l \in Lifetimes : AddRow(NoCode, l)
    BY <1>2, <1>4, <2>2 DEF InsertAuto
  <2>3. QED
    BY <1>4, <2>1, <2>2 DEF InsertAuto, table
<1>5. ASSUME NEW r \in Requests, SetCode(r)
      PROVE  Goal
  <2> DEFINE c == EncodeBase62[u[r]]
  <2>1. /\ u[r] \in Ids /\ row[u[r]] = "live" /\ code[u[r]] = NoCode
        /\ c \in Codes
    BY <1>5, EncodeAssumption
    DEF SetCode, TypeInv, ControlInv, Holding, DataInv, RequestInv, Ids
  <2>2. CASE UNCHANGED code
    BY <1>5, <2>2, SameNames DEF SetCode
  <2>3. CASE Stored(c) = {} /\ code' = [code EXCEPT ![u[r]] = c]
    <3>1. /\ row'[u[r]] = "live" /\ code'[u[r]] = c
          /\ \A j \in Ids : j # u[r] => row'[j] = row[j] /\ code'[j] = code[j]
      BY <1>5, <2>1, <2>3 DEF SetCode, TypeInv, TypeOK, TableType
    <3>2. QED
      BY <2>1, <2>3, <3>1, BindStep DEF Registry!Next
  <2>4. QED
    BY <1>5, <2>2, <2>3 DEF SetCode
<1>6. ASSUME NEW r \in Requests,
             \/ Begin(r) \/ CacheHit(r) \/ CacheHitExpired(r) \/ CacheMiss(r)
             \/ Evict(r) \/ Lookup(r) \/ ComputeTTL(r) \/ Fill(r)
             \/ Invalidate(r) \/ ReadBack(r) \/ Crash(r)
      PROVE  Goal
  <2>1. UNCHANGED table
    BY <1>6
    DEF Begin, CacheHit, CacheHitExpired, CacheMiss, Evict, Lookup, ComputeTTL,
        Fill, Invalidate, ReadBack, Crash
  <2>2. QED
    BY <2>1, SameNames DEF table
<1>7. CASE Save \/ Restart \/ Tick \/ UNCHANGED vars
  BY <1>7, SameNames DEF Save, Restart, Tick, vars, table
<1>8. QED
  BY <1>1, <1>3, <1>4, <1>5, <1>6, <1>7 DEF Next, Handle

\* The link service implements the abstract registry: with any interleaving
\* of requests, faults and crashes, a code is only bound while it is free, to
\* a link that never had a code before, and freed.
THEOREM ServiceImplementsRegistry == Spec => ImplementsRegistry
<1>1. Init => Registry!Init
  <2>1. Init => \A c \in Codes : Stored(c) = {}
    BY DEF Init, Stored
  <2>2. Init => Former = {}
    BY DEF Init, Former
  <2>3. QED
    BY <2>1, <2>2 DEF Registry!Init, Names, TheRow
<1>2. TypeInv /\ DataInv /\ [Next]_vars => [Registry!Next]_<<Names, Former>>
  BY DataStep, RegistryStep
<1>3. QED
  BY <1>1, <1>2, Invariance, PTL DEF Spec, ImplementsRegistry, Registry!Spec

=============================================================================
