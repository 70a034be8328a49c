------------------------- MODULE RateLimiterProofs -------------------------
(***************************************************************************)
(* Theorems about RateLimiter, for any limit, length of a window, number   *)
(* of requests and addresses, and with or without faults.                  *)
(***************************************************************************)
EXTENDS RateLimiter, FiniteSetTheorems, TLAPS

\* The first second after window w.
After(w) == (w + 1) * W

\* A request stays in allow for Lag seconds at most, and has been told a count
\* once it has incremented one.
RequestsInv ==
  \A r \in Requests :
    /\ pc[r] # "done" => born[r] <= now /\ now <= born[r] + Lag /\ answer[r] = "none"
    /\ pc[r] = "incr" => seen[r] = 0
    /\ pc[r] \in {"expire", "decide"} => seen[r] >= 1

\* A counter outlives its window by a second at least, in which the last of its
\* requests is counted and told a count that is still there.
CountersInv ==
  /\ \A a \in Addresses, w \in Windows : dies[a][w] # 0 => dies[a][w] > After(w)
  /\ \A r \in Requests : pc[r] # "done" => seen[r] <= count[addr[r]][Window(r)]

\* How many requests of an address and a window are, or will be, let through.
Admitted(a, w) == passed[a][w] + Cardinality(Passing(a, w))

\* Never more than the limit or, as long as the counter is there, than have
\* been counted; and without a fault, no fewer.
AdmittedInv ==
  \A a \in Addresses, w \in Windows :
    /\ Admitted(a, w) <= Limit
    /\ now <= After(w) => Admitted(a, w) <= count[a][w]
    /\ now <= After(w) /\ <<a, w>> \notin faulty /\ Admitted(a, w) < Limit =>
         count[a][w] <= Admitted(a, w)

\* The inductive invariant.
Inv ==
  /\ TypeOK
  /\ RequestsInv
  /\ CountersInv
  /\ AdmittedInv
  /\ RefusedOnlyWhenFull
  /\ RetryLeavesWindow

-----------------------------------------------------------------------------
(* Windows and seconds.                                                    *)

\* What the assumptions on the constants say of the bounds.
LEMMA Bounds ==
  /\ Limit \in Nat /\ Limit >= 1 /\ W \in Nat /\ W >= 1
  /\ Lag \in Nat /\ Lag <= 1 /\ MaxTime \in Nat /\ MaxAsked \in Nat
  /\ TTL \in Nat /\ EndTime \in Nat /\ EndTime = MaxTime + Lag + TTL /\ TTL = W + 1
  /\ 0 \in Seconds
BY LimiterConstants DEF TTL, EndTime, Seconds

\* A second lies in its window.
LEMMA InWindow ==
  ASSUME NEW t \in Nat
  PROVE  /\ t \div W \in Nat /\ t % W \in Nat /\ t % W < W
         /\ After(t \div W) \in Nat
         /\ t = After(t \div W) - W + (t % W)
<1> DEFINE q == t \div W
           m == t % W
<1>1. /\ q \in Int /\ m \in 0..(W - 1)
      /\ t = W * q + m
  BY Bounds
<1> HIDE DEF q, m
<1>2. q >= 0
  <2>1. SUFFICES ASSUME q <= -1 PROVE FALSE
    BY <1>1
  <2>2. W * q <= W * (-1)
    BY <1>1, <2>1, Bounds
  <2> QED
    BY <1>1, <2>2, Bounds
<1>3. (q + 1) * W = W * q + W /\ W * q \in Int
  BY <1>1, Bounds
<1>4. (q + 1) * W \in Nat
  BY <1>1, <1>2, Bounds
<1> QED
  BY <1>1, <1>2, <1>3, <1>4, Bounds DEF After, q, m

\* Windows do not overlap: the next one begins After the one before.
LEMMA NextWindow ==
  ASSUME NEW v \in Nat, NEW w \in Nat
  PROVE  /\ After(v) \in Nat /\ After(v + 1) = After(v) + W
         /\ v < w => After(v) + W <= After(w)
<1>1. After(v) \in Nat /\ After(v + 1) = After(v) + W
  BY Bounds DEF After
<1>2. ASSUME v < w PROVE After(v) + W <= After(w)
  <2>1. (v + 2) * W <= (w + 1) * W
    BY <1>2, Bounds
  <2>2. (v + 2) * W = (v + 1) * W + W
    BY Bounds
  <2> QED
    BY <2>1, <2>2 DEF After
<1> QED
  BY <1>1, <1>2

\* A later second is not in an earlier window.
LEMMA WindowMonotone ==
  ASSUME NEW s \in Nat, NEW t \in Nat, s <= t
  PROVE  s \div W <= t \div W
<1> DEFINE v == s \div W
           w == t \div W
<1>1. /\ v \in Nat /\ w \in Nat /\ After(v) - W <= s /\ t < After(w)
      /\ After(w) \in Nat /\ After(v) \in Nat
  <2>1. /\ v \in Nat /\ s % W \in Nat /\ After(v) \in Nat
        /\ s = After(v) - W + (s % W)
    BY InWindow
  <2>2. /\ w \in Nat /\ t % W \in Nat /\ t % W < W /\ After(w) \in Nat
        /\ t = After(w) - W + (t % W)
    BY InWindow
  <2> HIDE DEF v, w
  <2> QED
    BY <2>1, <2>2, Bounds
<1> HIDE DEF v, w
<1>2. SUFFICES ASSUME w < v PROVE FALSE
  BY <1>1 DEF v, w
<1> QED
  BY <1>1, <1>2, NextWindow, Bounds

\* What is left of a window leads to the beginning of the next one.
LEMMA NextBegins ==
  ASSUME NEW t \in Nat
  PROVE  After(t \div W) \div W = (t \div W) + 1
<1> DEFINE w == t \div W
<1>1. w \in Nat
  BY InWindow
<1> HIDE DEF w
<1> DEFINE d == After(w) \div W
<1>2. /\ d \in Nat /\ After(w) \in Nat /\ After(d) \in Nat
      /\ After(d) - W <= After(w) /\ After(w) < After(d)
  <2>1. After(w) \in Nat
    BY <1>1, NextWindow
  <2>2. /\ d \in Nat /\ After(w) % W \in Nat /\ After(w) % W < W /\ After(d) \in Nat
        /\ After(w) = After(d) - W + (After(w) % W)
    BY <2>1, InWindow
  <2> HIDE DEF d
  <2> QED
    BY <2>1, <2>2, Bounds
<1> HIDE DEF d
<1>3. w < d
  <2>1. SUFFICES ASSUME d <= w PROVE FALSE
    BY <1>1, <1>2
  <2>2. After(d) <= After(w)
    BY <1>1, <1>2, <2>1, NextWindow, Bounds
  <2> QED
    BY <1>2, <2>2
<1>4. d <= w + 1
  <2>1. SUFFICES ASSUME w + 1 < d PROVE FALSE
    BY <1>1, <1>2
  <2>2. After(w + 1) + W <= After(d) /\ After(w + 1) = After(w) + W
    BY <1>1, <1>2, <2>1, NextWindow
  <2> QED
    BY <1>2, <2>2, Bounds
<1> QED
  BY <1>1, <1>2, <1>3, <1>4 DEF w, d

\* A second of the run lies in one of its windows.
LEMMA WindowIn ==
  ASSUME NEW t \in Seconds
  PROVE  t \in Nat /\ t \div W \in Windows /\ t \div W \in Nat
<1>1. t \in Nat /\ t <= EndTime
  BY Bounds DEF Seconds
<1>2. t \div W \in Nat /\ EndTime \div W \in Nat /\ t \div W <= EndTime \div W
  BY <1>1, InWindow, WindowMonotone, Bounds
<1> QED
  BY <1>1, <1>2 DEF Windows

\* The bound of 1 in Retry-After is never needed: what is added to the clock is
\* exactly what is left of the window.
LEMMA RetryLeads ==
  ASSUME now \in Nat
  PROVE  /\ RetryAfter \in 1..W
         /\ now + RetryAfter = After(now \div W)
<1>1. /\ now % W \in Nat /\ now % W < W /\ After(now \div W) \in Nat
      /\ now = After(now \div W) - W + (now % W)
  BY InWindow
<1> DEFINE x == W - (now % W)
<1>2. x \in Nat /\ x >= 1 /\ x <= W
  BY <1>1, Bounds
<1>3. now + x = After(now \div W)
  BY <1>1, Bounds
<1> HIDE DEF x
<1>4. \A y \in {1, x} : (\A z \in {1, x} : y >= z) <=> y = x
  BY <1>2
<1>5. Max({1, x}) = x
  BY <1>4 DEF Max
<1> QED
  BY <1>2, <1>3, <1>5, Bounds DEF RetryAfter, x

-----------------------------------------------------------------------------
(* Type correctness.                                                       *)

\* The initial state is well typed.
LEMMA TypeInit == Init => TypeOK
<1> SUFFICES ASSUME Init PROVE TypeOK
  OBVIOUS
<1>1. 0 \in Seconds /\ 0 \in 0..(EndTime + TTL) /\ 0 \in 0..(EndTime + W) /\ 0 \in 0..MaxAsked
  BY Bounds
<1> QED
  BY <1>1 DEF Init, TypeOK, TTLsRun, Steps, Answers

\* An increment keeps the counters counters.
LEMMA CountTypes ==
  ASSUME TypeOK, NEW r \in Requests, NEW k \in Nat, Count(r, k)
  PROVE  /\ count' \in [Addresses -> [Windows -> Nat]]
         /\ addr[r] \in Addresses /\ Window(r) \in Windows
         /\ count'[addr[r]][Window(r)] = count[addr[r]][Window(r)] + k
         /\ \A a \in Addresses, w \in Windows : <<a, w>> # <<addr[r], Window(r)>> =>
              count'[a][w] = count[a][w]
<1>1. addr[r] \in Addresses /\ Window(r) \in Windows
  BY WindowIn DEF TypeOK, Window
<1> QED
  BY <1>1 DEF Count, TypeOK

\* A request gives a counter the TTL or leaves it alone.
LEMMA TTLsSet ==
  ASSUME TypeOK, NEW r \in Requests, Begin(r) \/ Handle(r) \/ Crash(r)
  PROVE  TTLsRun'
<1>1. now' = now /\ now \in Nat
  BY Bounds DEF Begin, Handle, Incr, Expire, Pass, Refuse, Crash, TypeOK, Seconds
<1>2. dies' = dies \/ dies' = [dies EXCEPT ![addr[r]][Window(r)] = now + TTL]
  BY DEF Begin, Handle, Incr, Expire, Pass, Refuse, Crash, SetTTL, redis
<1>3. now < now + TTL /\ now + TTL <= now + TTL
  BY <1>1, Bounds
<1>4. dies \in [Addresses -> [Windows -> 0..(EndTime + TTL)]] /\ TTLsRun
  BY DEF TypeOK
<1>5. \A a \in Addresses, w \in Windows : dies'[a][w] \in {dies[a][w], now + TTL}
  BY <1>2, <1>4
<1> QED
  BY <1>1, <1>3, <1>4, <1>5 DEF TTLsRun

\* The steps of a request keep the types.
LEMMA RequestType ==
  ASSUME TypeOK, RequestsInv, NEW r \in Requests, Begin(r) \/ Handle(r) \/ Crash(r)
  PROVE  TypeOK'
<1> USE DEF Goto, Answer, Fault
<1>a. TTLsRun'
  BY TTLsSet
<1>0. /\ born[r] \in Seconds /\ Window(r) \in Windows /\ addr[r] \in Addresses
      /\ now \in Nat /\ now \div W \in Windows
      /\ {"incr", "expire", "decide", "done"} \subseteq Steps
      /\ {"none", "passed", "open", "429"} \subseteq Answers
      /\ 0 \in 0..(EndTime + W)
  BY WindowIn, Bounds DEF TypeOK, Window, Steps, Answers
<1>1. CASE Begin(r)
  <2>1. asked' \in [Addresses -> [Windows -> 0..MaxAsked]] /\ addr' \in [Requests -> Addresses]
    <3>1. PICK a \in Addresses :
            /\ asked[a][now \div W] < MaxAsked
            /\ addr' = [addr EXCEPT ![r] = a]
            /\ asked' = [asked EXCEPT ![a][now \div W] = @ + 1]
      BY <1>1 DEF Begin
    <3>2. asked[a][now \div W] + 1 \in 0..MaxAsked
      BY <1>0, <3>1, Bounds DEF TypeOK
    <3> QED
      BY <1>0, <3>1, <3>2 DEF TypeOK
  <2>2. /\ pc' \in [Requests -> Steps] /\ born' \in [Requests -> Seconds]
        /\ seen' \in [Requests -> Nat] /\ answer' \in [Requests -> Answers]
        /\ retry' \in [Requests -> 0..(EndTime + W)]
        /\ \A s \in Requests : answer'[s] = "429" => retry'[s] <= born'[s] + Lag + W
    BY <1>0, <1>1 DEF Begin, TypeOK
  <2> QED
    BY <1>a, <1>1, <2>1, <2>2 DEF Begin, TypeOK, redis
<1>2. CASE Incr(r)
  <2>1. PICK k \in {0, 1, 2} : Count(r, k)
    BY <1>2 DEF Incr
  <2>2. /\ count' \in [Addresses -> [Windows -> Nat]]
        /\ count'[addr[r]][Window(r)] \in Nat
    BY <1>0, <2>1, CountTypes
  <2>3. /\ pc' \in [Requests -> Steps] /\ seen' \in [Requests -> Nat]
        /\ answer' \in [Requests -> Answers] /\ faulty' \subseteq Addresses \X Windows
    <3>1. pc' \in [Requests -> Steps]
      BY <1>0, <1>2 DEF Incr, AfterIncr, TypeOK
    <3>2. seen' \in [Requests -> Nat]
      <4>1. seen' = seen \/ seen' = [seen EXCEPT ![r] = count'[addr[r]][Window(r)]]
        BY <1>2 DEF Incr
      <4>2. seen \in [Requests -> Nat]
        BY DEF TypeOK
      <4> QED
        BY <2>2, <4>1, <4>2
    <3>3. answer' = answer \/ answer' = [answer EXCEPT ![r] = "open"]
      BY <1>2 DEF Incr
    <3>4. faulty' = faulty \/ faulty' = faulty \cup {<<addr[r], Window(r)>>}
      BY <1>2 DEF Incr
    <3>5. answer \in [Requests -> Answers] /\ faulty \subseteq Addresses \X Windows
      BY DEF TypeOK
    <3>6. answer' \in [Requests -> Answers]
      BY <1>0, <3>3, <3>5
    <3>7. faulty' \subseteq Addresses \X Windows
      BY <1>0, <3>4, <3>5
    <3> QED
      BY <3>1, <3>2, <3>6, <3>7
  <2>4. \A s \in Requests : answer'[s] = "429" => answer[s] = "429"
    BY <1>2 DEF Incr, TypeOK
  <2> QED
    BY <1>a, <1>2, <2>2, <2>3, <2>4 DEF Incr, TypeOK
<1>3. CASE Expire(r)
  <2>1. now + TTL \in 0..(EndTime + TTL)
    BY Bounds DEF TypeOK, Seconds
  <2>2. dies' \in [Addresses -> [Windows -> 0..(EndTime + TTL)]]
    <3>1. dies' = dies \/ dies' = [dies EXCEPT ![addr[r]][Window(r)] = now + TTL]
      BY <1>3 DEF Expire, SetTTL
    <3>2. dies \in [Addresses -> [Windows -> 0..(EndTime + TTL)]]
      BY DEF TypeOK
    <3> QED
      BY <1>0, <2>1, <3>1, <3>2
  <2>3. pc' \in [Requests -> Steps] /\ faulty' \subseteq Addresses \X Windows
    BY <1>0, <1>3 DEF Expire, TypeOK
  <2> QED
    BY <1>a, <1>3, <2>2, <2>3 DEF Expire, TypeOK
<1>4. CASE Pass(r)
  <2>1. passed' \in [Addresses -> [Windows -> Nat]]
    BY <1>0, <1>4 DEF Pass, TypeOK, Window
  <2>2. pc' \in [Requests -> Steps] /\ answer' \in [Requests -> Answers]
    BY <1>0, <1>4 DEF Pass, TypeOK
  <2>3. \A s \in Requests : answer'[s] = "429" => answer[s] = "429"
    BY <1>4 DEF Pass, TypeOK
  <2> QED
    BY <1>a, <1>4, <2>1, <2>2, <2>3 DEF Pass, TypeOK, redis
<1>5. CASE Refuse(r)
  <2>1. RetryAfter \in 1..W
    BY <1>0, RetryLeads
  <2>2. now \in Nat /\ now <= EndTime /\ born[r] \in Nat /\ now <= born[r] + Lag
    BY <1>5, Bounds DEF Refuse, RequestsInv, TypeOK, Seconds
  <2>3. now + RetryAfter \in 0..(EndTime + W) /\ now + RetryAfter <= born[r] + Lag + W
    BY <2>1, <2>2, Bounds
  <2>4. retry' \in [Requests -> 0..(EndTime + W)]
    BY <1>5, <2>3 DEF Refuse, TypeOK
  <2>5. pc' \in [Requests -> Steps] /\ answer' \in [Requests -> Answers]
    BY <1>0, <1>5 DEF Refuse, TypeOK
  <2>6. \A s \in Requests : answer'[s] = "429" => retry'[s] <= born[s] + Lag + W
    BY <1>5, <2>3 DEF Refuse, TypeOK
  <2> QED
    BY <1>a, <1>5, <2>4, <2>5, <2>6 DEF Refuse, TypeOK, redis, history
<1>6. CASE Crash(r)
  <2>1. \A s \in Requests : answer'[s] = "429" => answer[s] = "429"
    BY <1>6 DEF Crash, TypeOK
  <2>2. /\ pc' \in [Requests -> Steps] /\ answer' \in [Requests -> Answers]
        /\ faulty' \subseteq Addresses \X Windows
    BY <1>0, <1>6 DEF Crash, TypeOK
  <2> QED
    BY <1>a, <1>6, <2>1, <2>2 DEF Crash, TypeOK, redis
<1> QED
  BY <1>1, <1>2, <1>3, <1>4, <1>5, <1>6 DEF Handle

\* A tick keeps the types.
LEMMA TickType ==
  ASSUME TypeOK, Tick
  PROVE  TypeOK'
<1>1. now' \in Seconds
  BY Bounds DEF Tick, TypeOK, Seconds
<1>2. /\ count' \in [Addresses -> [Windows -> Nat]]
      /\ dies' \in [Addresses -> [Windows -> 0..(EndTime + TTL)]]
  BY Bounds DEF Tick, TypeOK
<1>3. TTLsRun'
  <2>1. now \in Nat /\ now' = now + 1
    BY Bounds DEF Tick, TypeOK, Seconds
  <2>2. ASSUME NEW a \in Addresses, NEW w \in Windows, dies'[a][w] # 0
        PROVE  now' < dies'[a][w] /\ dies'[a][w] <= now' + TTL
    <3>1. dies[a][w] \in 0..(EndTime + TTL) /\ TTLsRun
      BY DEF TypeOK
    <3>2. dies'[a][w] = dies[a][w] /\ dies[a][w] # now + 1
      BY <2>2 DEF Tick
    <3>3. now < dies[a][w] /\ dies[a][w] <= now + TTL
      BY <2>2, <3>1, <3>2 DEF TTLsRun
    <3> QED
      BY <2>1, <3>1, <3>2, <3>3, Bounds
  <2> QED
    BY <2>2 DEF TTLsRun
<1> QED
  BY <1>1, <1>2, <1>3 DEF Tick, TypeOK, request, history

-----------------------------------------------------------------------------
(* Requests and counters.                                                  *)

\* A request under way is, at the latest, in the first second after its
\* window; it has not been there before its window began.
LEMMA UnderWay ==
  ASSUME TypeOK, RequestsInv, NEW r \in Requests, pc[r] # "done"
  PROVE  /\ addr[r] \in Addresses /\ Window(r) \in Windows /\ After(Window(r)) \in Nat
         /\ now \in Nat /\ After(Window(r)) - W <= now /\ born[r] + Lag <= After(Window(r))
         /\ now <= After(Window(r))
<1>1. /\ born[r] \in Nat /\ now \in Nat /\ born[r] <= now /\ now <= born[r] + Lag
      /\ born[r] \in Seconds /\ addr[r] \in Addresses
  BY WindowIn DEF TypeOK, RequestsInv
<1>2. Window(r) \in Windows /\ Window(r) \in Nat
  BY <1>1, WindowIn DEF Window
<1>3. /\ born[r] % W \in Nat /\ born[r] % W < W /\ After(Window(r)) \in Nat
      /\ born[r] = After(Window(r)) - W + (born[r] % W)
  BY <1>1, InWindow DEF Window
<1> QED
  BY <1>1, <1>2, <1>3, Bounds

\* A step of a request moves no other.
LEMMA OthersStay ==
  ASSUME TypeOK, NEW r \in Requests, Begin(r) \/ Handle(r) \/ Crash(r),
         NEW s \in Requests \ {r}
  PROVE  /\ pc'[s] = pc[s] /\ seen'[s] = seen[s] /\ addr'[s] = addr[s]
         /\ born'[s] = born[s] /\ answer'[s] = answer[s] /\ retry'[s] = retry[s]
<1> USE DEF TypeOK, Goto, Answer
<1>1. CASE Begin(r)
  BY <1>1 DEF Begin
<1>2. CASE Incr(r)
  BY <1>2 DEF Incr
<1>3. CASE Expire(r) \/ Pass(r) \/ Refuse(r) \/ Crash(r)
  BY <1>3 DEF Expire, Pass, Refuse, Crash
<1> QED
  BY <1>1, <1>2, <1>3 DEF Handle

\* A request that is told a count counts at least itself.
LEMMA Told ==
  ASSUME TypeOK, RequestsInv, NEW r \in Requests, Incr(r), pc'[r] # "done"
  PROVE  \E k \in {1, 2} :
           /\ Count(r, k) /\ seen'[r] = count[addr[r]][Window(r)] + k
           /\ k = 2 => Fault(r)
           /\ k = 1 => UNCHANGED faulty
           /\ count[addr[r]][Window(r)] \in Nat
           /\ addr[r] \in Addresses /\ Window(r) \in Windows
           /\ pc'[r] \in {"expire", "decide"}
<1>1. /\ addr[r] \in Addresses /\ Window(r) \in Windows
      /\ count[addr[r]][Window(r)] \in Nat
  BY WindowIn DEF TypeOK, Window
<1>2. PICK k \in {1, 2} :
        /\ Count(r, k)
        /\ k = 2 => Fault(r)
        /\ k = 1 => UNCHANGED faulty
        /\ seen' = [seen EXCEPT ![r] = count'[addr[r]][Window(r)]]
        /\ pc' = [pc EXCEPT ![r] = AfterIncr(seen'[r])]
  BY DEF Incr, Answer, Goto, TypeOK
<1>3. count'[addr[r]][Window(r)] = count[addr[r]][Window(r)] + k
  BY <1>2, CountTypes
<1>4. seen'[r] = count[addr[r]][Window(r)] + k
  BY <1>2, <1>3 DEF TypeOK
<1>5. pc'[r] \in {"expire", "decide"}
  BY <1>2 DEF AfterIncr, TypeOK
<1> QED
  BY <1>1, <1>2, <1>4, <1>5

\* A request knows a count when it has counted, and its time in allow is short.
LEMMA RequestsStep ==
  TypeOK /\ RequestsInv /\ [Next]_vars => RequestsInv'
<1> SUFFICES ASSUME TypeOK, RequestsInv, [Next]_vars PROVE RequestsInv'
  OBVIOUS
<1> USE DEF RequestsInv
<1>0. /\ now \in Nat /\ \A r \in Requests : born[r] \in Nat /\ seen[r] \in Nat
  BY WindowIn DEF TypeOK
<1>1. ASSUME NEW r \in Requests, Begin(r) \/ Handle(r) \/ Crash(r) PROVE RequestsInv'
  <2>1. /\ pc'[r] # "done" =>
             born'[r] <= now /\ now <= born'[r] + Lag /\ answer'[r] = "none"
        /\ pc'[r] = "incr" => seen'[r] = 0
        /\ pc'[r] \in {"expire", "decide"} => seen'[r] >= 1
    <3> USE DEF TypeOK, Goto, Answer
    <3>1. CASE Begin(r)
      BY <1>0, <3>1, Bounds DEF Begin
    <3>2. CASE Incr(r)
      <4>1. pc[r] # "done" /\ born'[r] = born[r]
        BY <3>2 DEF Incr
      <4>2. CASE pc'[r] = "done"
        BY <4>2
      <4>3. CASE pc'[r] # "done"
        <5>1. PICK k \in {1, 2} :
                /\ seen'[r] = count[addr[r]][Window(r)] + k
                /\ count[addr[r]][Window(r)] \in Nat
                /\ pc'[r] \in {"expire", "decide"}
          BY <3>2, <4>3, Told
        <5>2. seen'[r] >= 1
          BY <5>1
        <5>3. answer' = answer
          BY <3>2, <4>3 DEF Incr
        <5> QED
          BY <4>1, <5>1, <5>2, <5>3
      <4> QED
        BY <4>2, <4>3
    <3>3. CASE Expire(r)
      BY <3>3 DEF Expire
    <3>4. CASE Pass(r) \/ Refuse(r) \/ Crash(r)
      BY <3>4 DEF Pass, Refuse, Crash
    <3> QED
      BY <1>1, <3>1, <3>2, <3>3, <3>4 DEF Handle
  <2>2. now' = now
    BY <1>1 DEF Begin, Handle, Incr, Expire, Pass, Refuse, Crash
  <2>3. ASSUME NEW s \in Requests \ {r}
        PROVE  /\ pc'[s] = pc[s] /\ seen'[s] = seen[s] /\ born'[s] = born[s]
               /\ answer'[s] = answer[s]
    BY <1>1, OthersStay
  <2> QED
    BY <2>1, <2>2, <2>3
<1>2. CASE Tick
  BY <1>0, <1>2, Bounds DEF Tick, request, Running
<1>3. CASE UNCHANGED vars
  BY <1>3 DEF vars, request
<1> QED
  BY <1>1, <1>2, <1>3 DEF Next, Exhausted

\* A counter expires after its window, when no request of it is under way, and
\* does not go down before.
LEMMA CountersStep ==
  TypeOK /\ RequestsInv /\ CountersInv /\ [Next]_vars => CountersInv'
<1> SUFFICES ASSUME TypeOK, RequestsInv, CountersInv, [Next]_vars PROVE CountersInv'
  OBVIOUS
<1>0. /\ \A r \in Requests : seen[r] \in Nat
      /\ \A a \in Addresses, w \in Windows : count[a][w] \in Nat /\ dies[a][w] \in Nat
      /\ now \in Nat
      /\ \A r \in Requests : addr[r] \in Addresses /\ Window(r) \in Windows
  BY WindowIn, Bounds DEF TypeOK, Window
<1>1. ASSUME NEW r \in Requests, Begin(r) \/ Handle(r) \/ Crash(r) PROVE CountersInv'
  <2>1. \A a \in Addresses, w \in Windows : dies'[a][w] # 0 => dies'[a][w] > After(w)
    <3>1. CASE Expire(r) /\ SetTTL(r)
      <4>1. /\ After(Window(r)) \in Nat /\ After(Window(r)) - W <= now
        BY <3>1, UnderWay DEF Expire
      <4>2. now + TTL > After(Window(r))
        BY <1>0, <4>1, Bounds
      <4>3. \A a \in Addresses, w \in Windows :
              dies'[a][w] = dies[a][w] \/ (w = Window(r) /\ dies'[a][w] = now + TTL)
        BY <1>0, <3>1 DEF SetTTL, TypeOK
      <4> QED
        BY <4>2, <4>3 DEF CountersInv
    <3>2. CASE dies' = dies
      BY <3>2 DEF CountersInv
    <3> QED
      BY <1>1, <3>1, <3>2 DEF Begin, Handle, Incr, Expire, Pass, Refuse, Crash, redis
  <2>2. \A a \in Addresses, w \in Windows : count[a][w] <= count'[a][w]
    <3>1. ASSUME NEW k \in {0, 1, 2}, Count(r, k)
          PROVE  \A a \in Addresses, w \in Windows : count[a][w] <= count'[a][w]
      BY <1>0, <3>1, CountTypes
    <3>2. CASE count' = count
      BY <1>0, <3>2
    <3> QED
      BY <1>1, <3>1, <3>2 DEF Begin, Handle, Incr, Expire, Pass, Refuse, Crash, redis
  <2>3. pc'[r] # "done" => seen'[r] <= count'[addr'[r]][Window(r)']
    <3>1. CASE Begin(r)
      <4>1. seen'[r] = 0 /\ addr'[r] \in Addresses /\ born'[r] = now /\ count' = count
        BY <3>1 DEF Begin, TypeOK, redis
      <4>2. Window(r)' \in Windows
        BY <4>1, WindowIn DEF Window, TypeOK
      <4> QED
        BY <1>0, <4>1, <4>2
    <3>2. CASE Incr(r)
      <4>1. addr' = addr /\ Window(r)' = Window(r)
        BY <3>2 DEF Incr, Window
      <4>2. ASSUME pc'[r] # "done"
            PROVE  seen'[r] <= count'[addr[r]][Window(r)]
        <5>1. PICK k \in {1, 2} :
                Count(r, k) /\ seen'[r] = count[addr[r]][Window(r)] + k
          BY <3>2, <4>2, Told
        <5> QED
          BY <1>0, <5>1, CountTypes
      <4> QED
        BY <4>1, <4>2
    <3>3. CASE Expire(r) \/ Pass(r) \/ Refuse(r) \/ Crash(r)
      BY <3>3
      DEF Expire, Pass, Refuse, Crash, Goto, Answer, CountersInv, TypeOK, Window, redis
    <3> QED
      BY <1>1, <3>1, <3>2, <3>3 DEF Handle
  <2>4. ASSUME NEW s \in Requests \ {r}, pc'[s] # "done"
        PROVE  seen'[s] <= count'[addr'[s]][Window(s)']
    <3>1. pc[s] # "done" /\ seen'[s] = seen[s] /\ addr'[s] = addr[s] /\ Window(s)' = Window(s)
      BY <1>1, <2>4, OthersStay DEF Window
    <3>2. seen[s] <= count[addr[s]][Window(s)]
      BY <3>1 DEF CountersInv
    <3>3. count[addr[s]][Window(s)] <= count'[addr[s]][Window(s)]
      BY <1>0, <2>2
    <3>4. count'[addr[s]][Window(s)] \in Nat
      <4>1. TypeOK'
        BY <1>1, RequestType
      <4> QED
        BY <1>0, <4>1 DEF TypeOK
    <3> QED
      BY <1>0, <3>1, <3>2, <3>3, <3>4
  <2> QED
    BY <2>1, <2>3, <2>4 DEF CountersInv
<1>2. CASE Tick
  <2>1. \A a \in Addresses, w \in Windows :
          /\ dies'[a][w] = 0 \/ dies'[a][w] = dies[a][w]
          /\ dies[a][w] # now + 1 => count'[a][w] = count[a][w]
    BY <1>2 DEF Tick
  <2>2. ASSUME NEW r \in Requests, pc[r] # "done"
        PROVE  seen[r] <= count'[addr[r]][Window(r)]
    <3>1. now + 1 <= After(Window(r)) /\ After(Window(r)) \in Nat
      <4>1. now < born[r] + Lag
        BY <1>2, <2>2 DEF Tick, Running
      <4>2. born[r] + Lag <= After(Window(r)) /\ After(Window(r)) \in Nat
        BY <2>2, UnderWay
      <4>3. born[r] \in Nat
        BY WindowIn DEF TypeOK
      <4> QED
        BY <1>0, <4>1, <4>2, <4>3, Bounds
    <3>2. dies[addr[r]][Window(r)] # now + 1
      BY <1>0, <3>1 DEF CountersInv
    <3> QED
      BY <1>0, <2>1, <2>2, <3>2 DEF CountersInv
  <2>3. UNCHANGED request
    BY <1>2 DEF Tick
  <2> QED
    BY <2>1, <2>2, <2>3 DEF CountersInv, request, Window
<1>3. CASE UNCHANGED vars
  BY <1>3 DEF vars, request, redis, CountersInv, Window
<1> QED
  BY <1>1, <1>2, <1>3 DEF Next, Exhausted

-----------------------------------------------------------------------------
(* How many are let through.                                               *)

\* Sets of requests are finite.
LEMMA PassingFinite ==
  ASSUME NEW a, NEW w
  PROVE  IsFiniteSet(Passing(a, w)) /\ Cardinality(Passing(a, w)) \in Nat
<1>1. Passing(a, w) \subseteq Requests
  BY DEF Passing, Running
<1> QED
  BY <1>1, LimiterConstants, FS_Subset, FS_CardinalityType

\* Is request r about to be let through, by its own state?
PassesAs(r, a, w) ==
  pc[r] # "done" /\ seen[r] \in 1..Limit /\ addr[r] = a /\ Window(r) = w

\* Only the request that takes a step comes to be let through by it, or leaves.
LEMMA PassingAfter ==
  ASSUME TypeOK, NEW r \in Requests, Begin(r) \/ Handle(r) \/ Crash(r), NEW a, NEW w
  PROVE  /\ (PassesAs(r, a, w)' <=> PassesAs(r, a, w)) =>
               Cardinality(Passing(a, w)') = Cardinality(Passing(a, w))
         /\ PassesAs(r, a, w)' /\ ~PassesAs(r, a, w) =>
               Cardinality(Passing(a, w)') = Cardinality(Passing(a, w)) + 1
         /\ ~PassesAs(r, a, w)' /\ PassesAs(r, a, w) =>
               Cardinality(Passing(a, w)') = Cardinality(Passing(a, w)) - 1
<1>1. \A s \in Requests \ {r} : s \in Passing(a, w)' <=> s \in Passing(a, w)
  <2>1. \A s \in Requests \ {r} :
          /\ pc'[s] = pc[s] /\ seen'[s] = seen[s] /\ addr'[s] = addr[s]
          /\ Window(s)' = Window(s)
    BY OthersStay DEF Window
  <2> QED
    BY <2>1 DEF Passing, Running
<1>2. /\ r \in Passing(a, w)' <=> PassesAs(r, a, w)'
      /\ r \in Passing(a, w) <=> PassesAs(r, a, w)
      /\ Passing(a, w) \subseteq Requests /\ Passing(a, w)' \subseteq Requests
  BY DEF Passing, Running, PassesAs
<1> DEFINE P == Passing(a, w)
           Q == Passing(a, w)'
<1>3. /\ (PassesAs(r, a, w)' <=> PassesAs(r, a, w)) => Q = P
      /\ PassesAs(r, a, w)' /\ ~PassesAs(r, a, w) => Q = P \cup {r} /\ r \notin P
      /\ ~PassesAs(r, a, w)' /\ PassesAs(r, a, w) => Q = P \ {r} /\ r \in P
  BY <1>1, <1>2
<1>4. IsFiniteSet(P) /\ Cardinality(P) \in Nat
  BY PassingFinite
<1> HIDE DEF P, Q
<1>5. /\ r \notin P => Cardinality(P \cup {r}) = Cardinality(P) + 1
      /\ r \in P => Cardinality(P \ {r}) = Cardinality(P) - 1
  BY <1>4, FS_AddElement, FS_RemoveElement
<1> QED
  BY <1>3, <1>5 DEF P, Q

\* The keys that a step of request r does not concern.
LEMMA OtherKeys ==
  ASSUME TypeOK, NEW r \in Requests, Handle(r) \/ Crash(r),
         NEW a \in Addresses, NEW w \in Windows, <<a, w>> # <<addr[r], Window(r)>>
  PROVE  /\ Admitted(a, w)' = Admitted(a, w) /\ count'[a][w] = count[a][w]
         /\ <<a, w>> \in faulty' <=> <<a, w>> \in faulty
<1>0. addr[r] \in Addresses /\ Window(r) \in Windows
  BY WindowIn DEF TypeOK, Window
<1>1. addr'[r] = addr[r] /\ Window(r)' = Window(r)
  BY DEF Handle, Incr, Expire, Pass, Refuse, Crash, Window
<1>2. Cardinality(Passing(a, w)') = Cardinality(Passing(a, w))
  BY <1>1, PassingAfter DEF PassesAs
<1>3. passed'[a][w] = passed[a][w]
  <2>1. CASE Pass(r)
    BY <1>0, <2>1 DEF Pass, TypeOK, Window
  <2>2. CASE ~Pass(r)
    BY <2>2 DEF Handle, Incr, Expire, Refuse, Crash, history
  <2> QED
    BY <2>1, <2>2
<1>4. count'[a][w] = count[a][w]
  <2>1. ASSUME NEW k \in {0, 1, 2}, Count(r, k) PROVE count'[a][w] = count[a][w]
    BY <2>1, CountTypes
  <2>2. CASE Incr(r)
    BY <2>1, <2>2 DEF Incr
  <2>3. CASE ~Incr(r)
    BY <2>3 DEF Handle, Expire, Pass, Refuse, Crash, redis
  <2> QED
    BY <2>2, <2>3
<1>5. <<a, w>> \in faulty' <=> <<a, w>> \in faulty
  <2>1. CASE faulty' = faulty
    BY <2>1
  <2>2. CASE Fault(r)
    BY <2>2 DEF Fault
  <2> QED
    BY <2>1, <2>2 DEF Handle, Incr, Expire, Pass, Refuse, Crash, history
<1> QED
  BY <1>2, <1>3, <1>4, <1>5 DEF Admitted

\* The key of request r: an increment lets through one request more, if the
\* limit allows, and counts one more, or hits the counter with a fault; the
\* other steps only move a request from those about to be let through to those
\* that were, or take one away by a fault.
LEMMA OwnKey ==
  ASSUME TypeOK, RequestsInv, CountersInv, AdmittedInv,
         NEW r \in Requests, Handle(r) \/ Crash(r),
         NEW a, NEW w, a = addr[r], w = Window(r)
  PROVE  /\ Admitted(a, w)' <= Limit /\ Admitted(a, w)' <= count'[a][w]
         /\ <<a, w>> \notin faulty' /\ Admitted(a, w)' < Limit =>
              count'[a][w] <= Admitted(a, w)'
         /\ <<a, w>> \notin faulty' => Admitted(a, w) <= Admitted(a, w)'
         /\ Admitted(a, w)' \in Nat
<1>0. /\ pc[r] # "done" /\ a \in Addresses /\ w \in Windows
      /\ addr'[r] = a /\ Window(r)' = w
      /\ count[a][w] \in Nat /\ passed[a][w] \in Nat /\ seen[r] \in Nat
      /\ Cardinality(Passing(a, w)) \in Nat
  BY WindowIn, PassingFinite
  DEF Handle, Incr, Expire, Pass, Refuse, Crash, Window, TypeOK
<1>1. /\ Admitted(a, w) \in Nat /\ Admitted(a, w) <= Limit /\ Admitted(a, w) <= count[a][w]
      /\ <<a, w>> \notin faulty /\ Admitted(a, w) < Limit => count[a][w] <= Admitted(a, w)
      /\ Admitted(a, w) = passed[a][w] + Cardinality(Passing(a, w))
      /\ Admitted(a, w)' = passed'[a][w] + Cardinality(Passing(a, w)')
      /\ seen[r] <= count[a][w]
  BY <1>0, UnderWay DEF AdmittedInv, Admitted, CountersInv
<1>2. CASE Incr(r) /\ pc'[r] # "done"
  <2>1. PICK k \in {1, 2} :
          /\ Count(r, k) /\ seen'[r] = count[a][w] + k
          /\ k = 2 => Fault(r)
          /\ k = 1 => UNCHANGED faulty
    BY <1>2, Told
  <2>2. /\ count'[a][w] = count[a][w] + k /\ passed'[a][w] = passed[a][w]
        /\ k = 2 => <<a, w>> \in faulty'
    BY <1>2, <2>1, CountTypes DEF Incr, Fault
  <2>3. ~PassesAs(r, a, w)
    BY <1>2, Bounds DEF PassesAs, RequestsInv, Incr
  <2>4. PassesAs(r, a, w)' <=> seen'[r] <= Limit
    BY <1>0, <1>2, <2>1, Bounds DEF PassesAs
  <2>5. CASE seen'[r] <= Limit
    <3>1. Admitted(a, w)' = Admitted(a, w) + 1
      BY <1>0, <1>1, <1>2, <2>2, <2>3, <2>4, <2>5, PassingAfter DEF Handle
    <3> QED
      BY <1>0, <1>1, <2>1, <2>2, <2>5, <3>1, Bounds
  <2>6. CASE ~(seen'[r] <= Limit)
    <3>1. Admitted(a, w)' = Admitted(a, w)
      BY <1>0, <1>1, <1>2, <2>2, <2>3, <2>4, <2>6, PassingAfter DEF Handle
    <3> QED
      BY <1>0, <1>1, <2>1, <2>2, <2>6, <3>1, Bounds
  <2> QED
    BY <2>5, <2>6
<1>3. CASE Incr(r) /\ pc'[r] = "done"
  <2>1. Fault(r) /\ passed' = passed /\ \E k \in {0, 1, 2} : Count(r, k)
    BY <1>3 DEF Incr, AfterIncr, Goto, TypeOK
  <2>2. count[a][w] <= count'[a][w] /\ count'[a][w] \in Nat /\ <<a, w>> \in faulty'
    BY <1>0, <2>1, CountTypes DEF Fault
  <2>3. ~PassesAs(r, a, w) /\ ~PassesAs(r, a, w)'
    BY <1>3, Bounds DEF PassesAs, RequestsInv, Incr
  <2>4. Admitted(a, w)' = Admitted(a, w)
    BY <1>1, <1>3, <2>1, <2>3, PassingAfter DEF Handle
  <2> QED
    BY <1>0, <1>1, <2>2, <2>4, Bounds
<1>4. CASE Expire(r)
  <2>1. /\ passed' = passed /\ count' = count /\ faulty \subseteq faulty'
        /\ seen' = seen /\ pc'[r] = "decide"
    BY <1>4 DEF Expire, Fault, Goto, TypeOK
  <2>2. PassesAs(r, a, w)' <=> PassesAs(r, a, w)
    BY <1>0, <2>1 DEF PassesAs
  <2>3. Admitted(a, w)' = Admitted(a, w)
    BY <1>1, <1>4, <2>1, <2>2, PassingAfter DEF Handle
  <2> QED
    BY <1>1, <2>1, <2>3
<1>5. CASE Pass(r)
  <2>1. /\ count' = count /\ faulty' = faulty /\ pc'[r] = "done"
        /\ passed'[a][w] = passed[a][w] + 1
    BY <1>0, <1>5 DEF Pass, redis, Answer, Goto, TypeOK, Window
  <2>2. PassesAs(r, a, w) /\ ~PassesAs(r, a, w)'
    BY <1>0, <1>5, <2>1, Bounds DEF Pass, WithinLimit, RequestsInv, PassesAs
  <2>3. Admitted(a, w)' = Admitted(a, w)
    BY <1>0, <1>1, <1>5, <2>1, <2>2, PassingAfter DEF Handle
  <2> QED
    BY <1>1, <2>1, <2>3
<1>6. CASE Refuse(r)
  <2>1. passed' = passed /\ count' = count /\ faulty' = faulty /\ pc'[r] = "done"
    BY <1>6 DEF Refuse, redis, history, Answer, Goto, TypeOK
  <2>2. ~PassesAs(r, a, w) /\ ~PassesAs(r, a, w)'
    BY <1>6, <2>1 DEF Refuse, WithinLimit, PassesAs
  <2>3. Admitted(a, w)' = Admitted(a, w)
    BY <1>1, <1>6, <2>1, <2>2, PassingAfter DEF Handle
  <2> QED
    BY <1>1, <2>1, <2>3
<1>7. CASE Crash(r)
  <2>1. passed' = passed /\ count' = count /\ <<a, w>> \in faulty' /\ pc'[r] = "done"
    BY <1>7 DEF Crash, redis, Fault, Answer, Goto, TypeOK
  <2>2. ~PassesAs(r, a, w)'
    BY <2>1 DEF PassesAs
  <2>3. Cardinality(Passing(a, w)') \in Nat /\ Cardinality(Passing(a, w)') <= Cardinality(Passing(a, w))
    <3>1. Cardinality(Passing(a, w)') \in Nat
      <4>1. Passing(a, w)' \subseteq Requests
        BY DEF Passing, Running
      <4> QED
        BY <4>1, LimiterConstants, FS_Subset, FS_CardinalityType
    <3> QED
      BY <1>0, <1>7, <2>2, <3>1, PassingAfter
  <2> QED
    BY <1>0, <1>1, <2>1, <2>3, Bounds
<1> QED
  BY <1>2, <1>3, <1>4, <1>5, <1>6, <1>7 DEF Handle

\* A new request is not let through yet, and stands for no count.
LEMMA BeginAdmits ==
  ASSUME TypeOK, NEW r \in Requests, Begin(r), NEW a, NEW w
  PROVE  Admitted(a, w)' = Admitted(a, w)
<1>1. pc[r] = "done" /\ seen'[r] = 0 /\ passed' = passed
  BY DEF Begin, TypeOK
<1>2. ~PassesAs(r, a, w) /\ ~PassesAs(r, a, w)'
  BY <1>1, Bounds DEF PassesAs
<1> QED
  BY <1>1, <1>2, PassingAfter DEF Admitted

\* When no request moves, none comes to be let through.
LEMMA IdleAdmits ==
  ASSUME UNCHANGED <<request, history>>, NEW a, NEW w
  PROVE  Admitted(a, w)' = Admitted(a, w)
BY DEF Admitted, Passing, Running, Window, request, history

\* The count of a window is kept while its requests are under way.
LEMMA AdmittedStep ==
  TypeOK /\ RequestsInv /\ CountersInv /\ AdmittedInv /\ [Next]_vars => AdmittedInv'
<1> SUFFICES ASSUME TypeOK, RequestsInv, CountersInv, AdmittedInv, [Next]_vars
             PROVE  AdmittedInv'
  OBVIOUS
<1>1. ASSUME NEW r \in Requests, Handle(r) \/ Crash(r) PROVE AdmittedInv'
  <2>1. now' = now
    BY <1>1 DEF Handle, Incr, Expire, Pass, Refuse, Crash
  <2>2. ASSUME NEW a \in Addresses, NEW w \in Windows
        PROVE  /\ Admitted(a, w)' <= Limit
               /\ now <= After(w) => Admitted(a, w)' <= count'[a][w]
               /\ now <= After(w) /\ <<a, w>> \notin faulty' /\ Admitted(a, w)' < Limit =>
                    count'[a][w] <= Admitted(a, w)'
    <3>1. CASE <<a, w>> = <<addr[r], Window(r)>>
      BY <1>1, <3>1, OwnKey
    <3>2. CASE <<a, w>> # <<addr[r], Window(r)>>
      BY <1>1, <3>2, OtherKeys DEF AdmittedInv
    <3> QED
      BY <3>1, <3>2
  <2> QED
    BY <2>1, <2>2 DEF AdmittedInv
<1>2. ASSUME NEW r \in Requests, Begin(r) PROVE AdmittedInv'
  <2>1. \A a \in Addresses, w \in Windows : Admitted(a, w)' = Admitted(a, w)
    BY <1>2, BeginAdmits
  <2>2. now' = now /\ count' = count /\ faulty' = faulty
    BY <1>2 DEF Begin, redis
  <2> QED
    BY <2>1, <2>2 DEF AdmittedInv
<1>3. CASE Tick
  <2>1. UNCHANGED <<request, history>> /\ now' = now + 1 /\ now \in Nat
    BY <1>3, WindowIn DEF Tick, TypeOK
  <2>2. ASSUME NEW a \in Addresses, NEW w \in Windows, now' <= After(w)
        PROVE  now <= After(w) /\ count'[a][w] = count[a][w]
    <3>1. w \in Nat /\ After(w) \in Nat
      <4>1. w \in Nat
        BY DEF Windows
      <4> QED
        BY <4>1, NextWindow
    <3>2. dies[a][w] # now + 1
      BY <2>1, <2>2, <3>1, Bounds DEF CountersInv
    <3> QED
      BY <1>3, <2>1, <2>2, <3>1, <3>2 DEF Tick
  <2>3. faulty' = faulty
    BY <2>1 DEF history
  <2>4. \A a \in Addresses, w \in Windows : Admitted(a, w)' = Admitted(a, w)
    BY <2>1, IdleAdmits
  <2> QED
    BY <2>2, <2>3, <2>4 DEF AdmittedInv
<1>4. CASE UNCHANGED vars
  BY <1>4, IdleAdmits DEF AdmittedInv, vars, redis, history
<1> QED
  BY <1>1, <1>2, <1>3, <1>4 DEF Next, Exhausted

\* A refusal stays justified, and a new one is: a request that finds more than
\* the limit counted comes after Limit others.
LEMMA RefusedStep ==
  /\ TypeOK /\ RequestsInv /\ CountersInv /\ AdmittedInv /\ RefusedOnlyWhenFull
  /\ [Next]_vars
  => RefusedOnlyWhenFull'
<1> SUFFICES ASSUME TypeOK, RequestsInv, CountersInv, AdmittedInv, RefusedOnlyWhenFull,
                    [Next]_vars
             PROVE  RefusedOnlyWhenFull'
  OBVIOUS
<1>0. \A s \in Requests : addr[s] \in Addresses /\ Window(s) \in Windows
  BY WindowIn DEF TypeOK, Window
<1>1. ASSUME NEW s \in Requests, answer[s] = "429", <<addr[s], Window(s)>> \notin faulty
      PROVE  Limit <= Admitted(addr[s], Window(s))
  BY <1>1 DEF RefusedOnlyWhenFull, Admitted
<1>2. SUFFICES ASSUME NEW s \in Requests, answer'[s] = "429",
                      NEW a, NEW w, a = addr'[s], w = Window(s)', <<a, w>> \notin faulty'
               PROVE  Limit <= Admitted(a, w)'
  BY DEF RefusedOnlyWhenFull, Admitted
<1>3. ASSUME NEW r \in Requests, Handle(r) \/ Crash(r) PROVE Limit <= Admitted(a, w)'
  <2>1. CASE s # r
    <3>1. answer[s] = "429" /\ addr[s] = a /\ Window(s) = w
      BY <1>2, <1>3, <2>1, OthersStay DEF Window
    <3>2. <<a, w>> \notin faulty
      BY <1>2, <1>3
      DEF Handle, Incr, Expire, Pass, Refuse, Crash, Fault, history
    <3>3. Limit <= Admitted(a, w)
      BY <1>1, <3>1, <3>2
    <3>4. CASE <<a, w>> = <<addr[r], Window(r)>>
      <4>1. /\ Admitted(a, w) <= Admitted(a, w)' /\ Admitted(a, w)' \in Nat
        BY <1>2, <1>3, <3>4, OwnKey
      <4>2. Admitted(a, w) \in Nat
        BY <1>0, <3>1, PassingFinite DEF Admitted, TypeOK
      <4> QED
        BY <3>3, <4>1, <4>2, Bounds
    <3>5. CASE <<a, w>> # <<addr[r], Window(r)>>
      BY <1>0, <1>3, <3>1, <3>3, <3>5, OtherKeys
    <3> QED
      BY <3>4, <3>5
  <2>2. CASE s = r
    <3>1. Refuse(r)
      BY <1>2, <1>3, <2>2
      DEF Handle, Incr, Expire, Pass, Crash, Answer, Goto, TypeOK, RequestsInv
    <3>2. a = addr[r] /\ w = Window(r)
      BY <1>2, <2>2, <3>1 DEF Refuse, Window
    <3>3. /\ count' = count /\ seen[r] > Limit /\ seen[r] <= count[a][w]
          /\ seen[r] \in Nat /\ count[a][w] \in Nat
      BY <1>0, <3>1, <3>2, Bounds DEF Refuse, WithinLimit, redis, CountersInv, TypeOK
    <3>4. /\ Admitted(a, w)' < Limit => count'[a][w] <= Admitted(a, w)'
          /\ Admitted(a, w)' \in Nat
      BY <1>2, <1>3, <3>2, OwnKey
    <3> QED
      BY <3>3, <3>4, Bounds
  <2> QED
    BY <2>1, <2>2
<1>4. ASSUME NEW r \in Requests, Begin(r) PROVE Limit <= Admitted(a, w)'
  <2>1. s # r /\ faulty' = faulty
    BY <1>2, <1>4 DEF Begin, TypeOK
  <2>2. answer[s] = "429" /\ addr[s] = a /\ Window(s) = w
    BY <1>2, <1>4, <2>1, OthersStay DEF Window
  <2> QED
    BY <1>1, <1>2, <1>4, <2>1, <2>2, BeginAdmits
<1>5. CASE UNCHANGED <<request, history>>
  <2>1. answer[s] = "429" /\ addr[s] = a /\ Window(s) = w /\ faulty' = faulty
    BY <1>2, <1>5 DEF request, history, Window
  <2> QED
    BY <1>1, <1>2, <1>5, <2>1, IdleAdmits
<1> QED
  BY <1>3, <1>4, <1>5 DEF Next, Tick, Exhausted, vars

\* Retry-After is counted from a second that is not before the request's window.
LEMMA RetryStep ==
  TypeOK /\ RequestsInv /\ RetryLeavesWindow /\ [Next]_vars => RetryLeavesWindow'
<1> SUFFICES ASSUME TypeOK, RequestsInv, RetryLeavesWindow, [Next]_vars
             PROVE  RetryLeavesWindow'
  OBVIOUS
<1>1. ASSUME NEW r \in Requests, Begin(r) \/ Handle(r) \/ Crash(r)
      PROVE  RetryLeavesWindow'
  <2>1. ASSUME NEW s \in Requests \ {r}, answer'[s] = "429"
        PROVE  retry'[s] \div W > Window(s)'
    <3>1. /\ answer[s] = "429" /\ retry'[s] = retry[s] /\ Window(s)' = Window(s)
      BY <1>1, <2>1, OthersStay DEF Window
    <3> QED
      BY <3>1 DEF RetryLeavesWindow
  <2>2. ASSUME answer'[r] = "429" PROVE retry'[r] \div W > Window(r)'
    <3>1. CASE Refuse(r)
      <4>1. /\ now \in Nat /\ born[r] \in Nat /\ born[r] <= now
            /\ retry'[r] = now + RetryAfter /\ Window(r)' = Window(r)
        BY <3>1, WindowIn DEF Refuse, RequestsInv, TypeOK, Window
      <4>2. now + RetryAfter = After(now \div W)
        BY <4>1, RetryLeads
      <4>3. /\ After(now \div W) \div W = (now \div W) + 1 /\ now \div W \in Nat
            /\ Window(r) \in Nat /\ Window(r) <= now \div W
        BY <4>1, NextBegins, InWindow, WindowMonotone DEF Window
      <4> QED
        BY <4>1, <4>2, <4>3
    <3>2. CASE Expire(r) \/ Incr(r)
      <4>1. answer[r] = "429" /\ retry' = retry /\ Window(r)' = Window(r)
        BY <2>2, <3>2 DEF Expire, Incr, Answer, Goto, TypeOK, Window
      <4> QED
        BY <4>1 DEF RetryLeavesWindow
    <3>3. CASE Begin(r) \/ Pass(r) \/ Crash(r)
      BY <2>2, <3>3 DEF Begin, Pass, Crash, Answer, Goto, TypeOK
    <3> QED
      BY <1>1, <3>1, <3>2, <3>3 DEF Handle
  <2> QED
    BY <2>1, <2>2 DEF RetryLeavesWindow
<1>2. CASE UNCHANGED request
  BY <1>2 DEF RetryLeavesWindow, request, Window
<1> QED
  BY <1>1, <1>2 DEF Next, Tick, Exhausted, vars

-----------------------------------------------------------------------------
(* The theorems.                                                           *)

\* The invariant holds at the start.
LEMMA InvInit == Init => Inv
<1> SUFFICES ASSUME Init PROVE Inv
  OBVIOUS
<1>1. TypeOK /\ RequestsInv /\ RefusedOnlyWhenFull /\ RetryLeavesWindow
  BY TypeInit DEF Init, RequestsInv, RefusedOnlyWhenFull, RetryLeavesWindow
<1>2. CountersInv
  BY DEF Init, CountersInv
<1>3. AdmittedInv
  <2>1. ASSUME NEW a \in Addresses, NEW w \in Windows
        PROVE  Admitted(a, w) = 0 /\ count[a][w] = 0
    <3>1. Passing(a, w) = {}
      BY DEF Init, Passing, Running
    <3>2. Cardinality(Passing(a, w)) = 0
      BY <3>1, FS_EmptySet
    <3> QED
      BY <3>2 DEF Init, Admitted
  <2> QED
    BY <2>1, Bounds DEF AdmittedInv
<1> QED
  BY <1>1, <1>2, <1>3 DEF Inv

\* Every step keeps the invariant.
LEMMA InvStep == Inv /\ [Next]_vars => Inv'
<1> SUFFICES ASSUME Inv, [Next]_vars PROVE Inv'
  OBVIOUS
<1>1. TypeOK'
  <2>1. CASE UNCHANGED vars
    BY <2>1 DEF Inv, TypeOK, TTLsRun, vars, redis, request, history
  <2> QED
    BY <2>1, RequestType, TickType DEF Inv, Next, Exhausted
<1> QED
  BY <1>1, RequestsStep, CountersStep, AdmittedStep, RefusedStep, RetryStep DEF Inv

\* The invariant holds in every run.
LEMMA InvHolds == Spec => []Inv
BY InvInit, InvStep, PTL DEF Spec

\* The state is well typed in every run; no counter that has a TTL outlives it,
\* and no client is told to wait longer than a window.
THEOREM TypeCorrect == Spec => []TypeOK
<1>1. Inv => TypeOK
  BY DEF Inv
<1> QED
  BY <1>1, InvHolds, PTL

\* No window lets more than Limit checked requests of an address through,
\* however late they are counted, and whether or not Redis fails.
THEOREM WindowsKeepTheLimit == Spec => []WindowLimit
<1>1. Inv => WindowLimit
  <2> SUFFICES ASSUME Inv, NEW a \in Addresses, NEW w \in Windows
               PROVE  passed[a][w] <= Limit
    BY DEF WindowLimit
  <2>1. passed[a][w] \in Nat /\ Cardinality(Passing(a, w)) \in Nat
    BY PassingFinite DEF Inv, TypeOK
  <2>2. Admitted(a, w) <= Limit
    BY DEF Inv, AdmittedInv
  <2> QED
    BY <2>1, <2>2, Bounds DEF Admitted
<1> QED
  BY <1>1, InvHolds, PTL

\* Who waits as long as Retry-After says is in a window after the one whose
\* limit was exhausted.
THEOREM RetryIsLongEnough == Spec => []RetryLeavesWindow
<1>1. Inv => RetryLeavesWindow
  BY DEF Inv
<1> QED
  BY <1>1, InvHolds, PTL

\* Without a fault of its own counter a request is refused only if Limit others
\* of its address and window are let through.
THEOREM RefusalsAreJustified == Spec => []RefusedOnlyWhenFull
<1>1. Inv => RefusedOnlyWhenFull
  BY DEF Inv
<1> QED
  BY <1>1, InvHolds, PTL

=============================================================================
