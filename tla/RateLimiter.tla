---------------------------- MODULE RateLimiter ----------------------------
(***************************************************************************)
(* The limit on POST /api/v1/urls: a counter in Redis per remote address   *)
(* and minute, incremented by every request and given a TTL by the one     *)
(* that finds it new.  Requests run on several replicas; each reading of   *)
(* the clock and each Redis command is a step.                             *)
(*                                                                         *)
(* The clock counts seconds, and a minute has W of them.  What the request *)
(* does once it has been let through is LinkService's.                     *)
(***************************************************************************)
EXTENDS Naturals, FiniteSets, FiniteSetsExt

CONSTANTS
  Requests,   \* request slots
  Addresses,  \* the hosts at the other end of connections
  Limit,      \* perMinute
  W,          \* the length of a window, 60 in the code
  Lag,        \* how many seconds a request may spend in allow
  MaxTime,    \* bound: the last second in which requests arrive
  MaxAsked,   \* bound: requests per address and window
  Faults      \* may a Redis command fail, or a replica die?

TTL     == W + 1
EndTime == MaxTime + Lag + TTL
Seconds == 0..EndTime
Windows == 0..(EndTime \div W)

\* The context of allow lives 200 ms: the clock ticks at most once under it.
ASSUME LimiterConstants ==
  /\ IsFiniteSet(Requests)
  /\ Limit \in Nat \ {0} /\ W \in Nat \ {0} /\ Lag \in 0..1
  /\ MaxTime \in Nat /\ MaxAsked \in Nat
  /\ Faults \in BOOLEAN

VARIABLES
  now,      \* the clock
  count,    \* count[a][w]: the counter of address a and window w, 0 when absent
  dies,     \* dies[a][w]: when it expires, 0 for never
  pc,       \* pc[r]: where request r is; "done" when it has been answered
  addr,     \* addr[r]: where it comes from (clientIP)
  born,     \* born[r]: the second in which it read the clock
  seen,     \* seen[r]: the count it was told
  answer,   \* answer[r]: "passed", "open" (let through unchecked) or "429"
  retry,    \* retry[r]: when its Retry-After is over
  passed,   \* history: passed[a][w], checked and let through by arrival
  asked,    \* history: asked[a][w], how often a has asked
  faulty    \* history: the counters <<address, window>> that a fault has hit

redis   == <<count, dies>>
request == <<pc, addr, born, seen, answer, retry>>
history == <<passed, asked, faulty>>
vars    == <<now, redis, request, history>>

Steps   == {"done", "incr", "expire", "decide"}
Answers == {"none", "passed", "open", "429"}

\* A counter that has a TTL expires within it; none that has expired is left.
TTLsRun ==
  \A a \in Addresses, w \in Windows :
    dies[a][w] # 0 => now < dies[a][w] /\ dies[a][w] <= now + TTL

\* The type invariant, with the TTLs; a client is never told to wait longer than
\* a window.
TypeOK ==
  /\ now \in Seconds
  /\ count \in [Addresses -> [Windows -> Nat]]
  /\ dies \in [Addresses -> [Windows -> 0..(EndTime + TTL)]] /\ TTLsRun
  /\ pc \in [Requests -> Steps] /\ addr \in [Requests -> Addresses]
  /\ born \in [Requests -> Seconds] /\ seen \in [Requests -> Nat]
  /\ answer \in [Requests -> Answers]
  /\ retry \in [Requests -> 0..(EndTime + W)]
  /\ \A r \in Requests : answer[r] = "429" => retry[r] <= born[r] + Lag + W
  /\ passed \in [Addresses -> [Windows -> Nat]]
  /\ asked \in [Addresses -> [Windows -> 0..MaxAsked]]
  /\ faulty \subseteq Addresses \X Windows

Init ==
  /\ now = 0
  /\ count = [a \in Addresses |-> [w \in Windows |-> 0]]
  /\ dies = [a \in Addresses |-> [w \in Windows |-> 0]]
  /\ pc = [r \in Requests |-> "done"] /\ addr \in [Requests -> Addresses]
  /\ born = [r \in Requests |-> 0] /\ seen = [r \in Requests |-> 0]
  /\ answer = [r \in Requests |-> "none"] /\ retry = [r \in Requests |-> 0]
  /\ passed = [a \in Addresses |-> [w \in Windows |-> 0]]
  /\ asked = [a \in Addresses |-> [w \in Windows |-> 0]]
  /\ faulty = {}

-----------------------------------------------------------------------------
Running == {r \in Requests : pc[r] # "done"}

Window(r) == born[r] \div W

Goto(r, s) == pc' = [pc EXCEPT ![r] = s]

\* A fault hits request r's counter.
Fault(r) ==
  /\ Faults
  /\ faulty' = faulty \cup {<<addr[r], Window(r)>>}

Answer(r, s) == Goto(r, "done") /\ answer' = [answer EXCEPT ![r] = s]

\* A request arrives and reads the clock.
Begin(r) ==
  /\ pc[r] = "done"
  /\ now <= MaxTime
  /\ \E a \in Addresses :
       /\ asked[a][now \div W] < MaxAsked
       /\ addr' = [addr EXCEPT ![r] = a]
       /\ asked' = [asked EXCEPT ![a][now \div W] = @ + 1]
  /\ Goto(r, "incr")
  /\ born' = [born EXCEPT ![r] = now]
  /\ seen' = [seen EXCEPT ![r] = 0]
  /\ answer' = [answer EXCEPT ![r] = "none"]
  /\ retry' = [retry EXCEPT ![r] = 0]
  /\ UNCHANGED <<now, redis, passed, faulty>>

\* INCR, executed n times.
Count(r, n) == count' = [count EXCEPT ![addr[r]][Window(r)] = @ + n]

\* A variant that never gives a counter its TTL.
AfterIncrForgetful(n) == "decide"

\* Where a request goes when it has been told the count n.
AfterIncr(n) == IF n = 1 THEN "expire" ELSE "decide"

\* rdb.Incr.  The Redis client sends the command again when the connection
\* breaks, so it may be executed twice; on an error the request is let through,
\* whether the command was executed or not.
Incr(r) ==
  /\ pc[r] = "incr"
  /\ \/ /\ \/ Count(r, 1) /\ UNCHANGED faulty
           \/ Fault(r) /\ Count(r, 2)
        /\ seen' = [seen EXCEPT ![r] = count'[addr[r]][Window(r)]]
        /\ Goto(r, AfterIncr(seen'[r]))
        /\ UNCHANGED answer
     \/ /\ Fault(r)
        /\ \E n \in 0..2 : Count(r, n)
        /\ Answer(r, "open")
        /\ UNCHANGED seen
  /\ UNCHANGED <<now, dies, addr, born, retry, passed, asked>>

\* A variant whose counters live exactly as long as their window.
SetTTLShort(r) == dies' = [dies EXCEPT ![addr[r]][Window(r)] = now + W]

SetTTL(r) == dies' = [dies EXCEPT ![addr[r]][Window(r)] = now + TTL]

\* rdb.Expire, whose failure is ignored; a key that is gone is left alone.
Expire(r) ==
  /\ pc[r] = "expire"
  /\ \/ count[addr[r]][Window(r)] > 0 /\ SetTTL(r) /\ UNCHANGED faulty
     \/ count[addr[r]][Window(r)] = 0 /\ UNCHANGED <<dies, faulty>>
     \/ Fault(r) /\ UNCHANGED dies
  /\ Goto(r, "decide")
  /\ UNCHANGED <<now, count, addr, born, seen, answer, retry, passed, asked>>

\* Variants that tell the client to come back too early or too late.
RetryAfterEarly == Max({1, W - 1 - (now % W)})
RetryAfterLate == W + 1 + (now % W)

RetryAfter == Max({1, W - (now % W)})

\* A variant that is stricter than the limit by one.
WithinLimitStrict(n) == n < Limit

WithinLimit(n) == n <= Limit

Pass(r) ==
  /\ pc[r] = "decide" /\ WithinLimit(seen[r])
  /\ Answer(r, "passed")
  /\ passed' = [passed EXCEPT ![addr[r]][born[r] \div W] = @ + 1]
  /\ UNCHANGED <<now, redis, addr, born, seen, retry, asked, faulty>>

\* 429; Retry-After is computed from a second reading of the clock.
Refuse(r) ==
  /\ pc[r] = "decide" /\ ~WithinLimit(seen[r])
  /\ Answer(r, "429")
  /\ retry' = [retry EXCEPT ![r] = now + RetryAfter]
  /\ UNCHANGED <<now, redis, addr, born, seen, history>>

-----------------------------------------------------------------------------
(* The environment.                                                        *)

\* The replica dies.
Crash(r) ==
  /\ pc[r] # "done"
  /\ Fault(r)
  /\ Answer(r, "none")
  /\ UNCHANGED <<now, redis, addr, born, seen, retry, passed, asked>>

\* A second passes; counters whose time is over are gone.
Tick ==
  /\ now < EndTime
  /\ \A r \in Running : now < born[r] + Lag
  /\ now' = now + 1
  /\ count' = [a \in Addresses |-> [w \in Windows |->
                 IF dies[a][w] = now + 1 THEN 0 ELSE count[a][w]]]
  /\ dies' = [a \in Addresses |-> [w \in Windows |->
                IF dies[a][w] = now + 1 THEN 0 ELSE dies[a][w]]]
  /\ UNCHANGED <<request, history>>

\* The bound on time is reached and every request has been answered.
Exhausted ==
  /\ now = EndTime /\ Running = {}
  /\ UNCHANGED vars

\* The next step of request r.
Handle(r) == Incr(r) \/ Expire(r) \/ Pass(r) \/ Refuse(r)

Next ==
  \/ \E r \in Requests : Begin(r) \/ Handle(r) \/ Crash(r)
  \/ Tick
  \/ Exhausted

Spec == Init /\ [][Next]_vars

\* Handlers run to completion, and time passes.
Fairness == WF_vars(Tick) /\ \A r \in Requests : WF_vars(Handle(r))

FairSpec == Spec /\ Fairness

-----------------------------------------------------------------------------
(* What the limiter guarantees.                                            *)

\* No window lets more than Limit checked requests of an address through, also
\* when its last requests are counted after the window is over: the counter
\* lives a second longer than its window for them.
WindowLimit ==
  \A a \in Addresses, w \in Windows : passed[a][w] <= Limit

\* Retry-After, added to the time of the refusal, is past the window whose
\* limit was exhausted.
RetryLeavesWindow ==
  \A r \in Requests : answer[r] = "429" => retry[r] \div W > Window(r)

\* The requests of address a and window w that are about to be let through.
Passing(a, w) ==
  {s \in Running : seen[s] \in 1..Limit /\ addr[s] = a /\ Window(s) = w}

\* A request is refused only if Limit others of its address and window have
\* been let through, or are about to be, or if a fault has hit their counter: a
\* fault elsewhere refuses nobody.
RefusedOnlyWhenFull ==
  \A r \in Requests : answer[r] = "429" /\ <<addr[r], Window(r)>> \notin faulty =>
    Limit <= passed[addr[r]][Window(r)] + Cardinality(Passing(addr[r], Window(r)))

\* Every counter that no fault has hit expires, also one that was incremented
\* late: addresses that have gone away leave nothing in Redis.
CountersExpire ==
  \A a \in Addresses, w \in Windows :
    count[a][w] > 0 ~> count[a][w] = 0 \/ <<a, w>> \in faulty

=============================================================================
