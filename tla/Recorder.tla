------------------------------ MODULE Recorder ------------------------------
(***************************************************************************)
(* The analytics recorder of a server process: a redirect pushes an event  *)
(* into a bounded channel without ever waiting, and one goroutine moves    *)
(* the events from the channel to the Redis stream.  The process may be    *)
(* stopped, may die, and is started again.                                 *)
(*                                                                         *)
(* An event is the number of its redirect.                                 *)
(***************************************************************************)
EXTENDS Naturals, FiniteSets, Sequences, SequencesExt

CONSTANTS
  BufferSize,   \* the channel's capacity
  MaxEvent,     \* bound on redirects
  MaxInFlight,  \* bound on redirects that are resolved and not yet answered
  RedisFaults,  \* may XADD fail, before or after its execution?
  Crashes       \* may the process die?

Events == 1..MaxEvent

\* What is assumed of the constants; ClickPipeline has it as an assumption.
RecorderConstants ==
  /\ BufferSize \in Nat \ {0} /\ MaxEvent \in Nat /\ MaxInFlight \in Nat
  /\ {RedisFaults, Crashes} \subseteq BOOLEAN

VARIABLES
  proc,       \* the process: "up", "stopping" or "down"
  nextEvent,  \* the next redirect
  pending,    \* redirects that have been resolved and not answered
  ch,         \* the channel
  cur,        \* the event the goroutine has taken, 0 for none
  stream,     \* stream[e]: how often event e is in the stream
  dropped,    \* the events counted by EventsDropped,
  failed,     \*                    by EventsFailed,
  published,  \*                    by EventsPublished
  stopped,    \* history: events the process took with it when it was stopped,
  died        \*          when it died

counters == <<dropped, failed, published>>
history  == <<stopped, died>>
vars     == <<proc, nextEvent, pending, ch, cur, stream, counters, history>>

Buffered == ToSet(ch) \cup ({cur} \ {0})

\* The type invariant; the channel never holds more than it may.
TypeOK ==
  /\ proc \in {"up", "stopping", "down"} /\ nextEvent \in 1..(MaxEvent + 1)
  /\ pending \subseteq Events /\ ch \in Seq(Events) /\ Len(ch) <= BufferSize
  /\ cur \in 0..MaxEvent /\ stream \in [Events -> Nat]
  /\ {dropped, failed, published, stopped, died} \subseteq SUBSET Events

Init ==
  /\ proc = "up" /\ nextEvent = 1 /\ pending = {} /\ ch = <<>> /\ cur = 0
  /\ stream = [e \in Events |-> 0]
  /\ dropped = {} /\ failed = {} /\ published = {} /\ stopped = {} /\ died = {}

-----------------------------------------------------------------------------
\* A redirect has been resolved; a process that is stopping takes no more.
Resolve ==
  /\ proc = "up" /\ nextEvent <= MaxEvent
  /\ Cardinality(pending) < MaxInFlight
  /\ pending' = pending \cup {nextEvent}
  /\ nextEvent' = nextEvent + 1
  /\ UNCHANGED <<proc, ch, cur, stream, counters, history>>

\* Is there no room in the channel?  A variant without a bound.
NeverFull == FALSE
Full == Len(ch) = BufferSize

\* What becomes of an event without room; a variant waits for room.
Wait(e) == FALSE
Drop(e) == dropped' = dropped \cup {e} /\ UNCHANGED ch

\* Push, and the redirect's answer: the event is sent to the channel, or
\* dropped and counted when the channel is full.
Push(e) ==
  /\ e \in pending
  /\ pending' = pending \ {e}
  /\ \/ ~Full /\ ch' = Append(ch, e) /\ UNCHANGED dropped
     \/ Full /\ Drop(e)
  /\ UNCHANGED <<proc, nextEvent, cur, stream, failed, published, history>>

\* The goroutine receives from the channel; a variant ends with an error.
Take ==
  /\ proc # "down" /\ cur = 0 /\ ch # <<>>
  /\ cur' = Head(ch)
  /\ ch' = Tail(ch)
  /\ UNCHANGED <<proc, nextEvent, pending, stream, counters, history>>

ReceiveUntilError == failed = {} /\ Take
Receive           == Take

\* Event e is added to the stream n times.
Added(e, n) == stream' = [stream EXCEPT ![e] = @ + n]

\* An error of XADD is counted; a variant does not see it.
FailUnseen == published' = published \cup {cur} /\ UNCHANGED failed
Fail       == failed' = failed \cup {cur} /\ UNCHANGED published

\* XADD.  The Redis client sends the command again when the connection breaks,
\* so it may be executed twice; after an error the event is given up, whether
\* it has been added or not.
XAdd ==
  /\ proc # "down" /\ cur # 0
  /\ \/ /\ \E n \in {1} \cup {m \in {2} : RedisFaults} : Added(cur, n)
        /\ published' = published \cup {cur}
        /\ UNCHANGED failed
     \/ /\ RedisFaults
        /\ \E n \in 0..2 : Added(cur, n)
        /\ Fail
  /\ cur' = 0
  /\ UNCHANGED <<proc, nextEvent, pending, ch, dropped, history>>

-----------------------------------------------------------------------------
(* The life of the process.                                                *)

\* The process is gone, with its channel; an XADD under way may be executed.
Gone ==
  /\ proc' = "down"
  /\ ch' = <<>> /\ cur' = 0
  /\ UNCHANGED stream \/ (cur # 0 /\ Added(cur, 1))

\* SIGTERM: Shutdown takes no new requests.
Stop ==
  /\ proc = "up"
  /\ proc' = "stopping"
  /\ UNCHANGED <<nextEvent, pending, ch, cur, stream, counters, history>>

\* main returns when the redirects under way have been answered, without a
\* look at the channel.
Exit ==
  /\ proc = "stopping" /\ pending = {}
  /\ Gone
  /\ stopped' = stopped \cup Buffered
  /\ UNCHANGED <<nextEvent, pending, counters, died>>

\* The process dies, or its shutdown timeout is over.
Crash ==
  /\ Crashes
  /\ proc # "down"
  /\ Gone
  /\ pending' = {}
  /\ died' = died \cup Buffered \cup pending
  /\ UNCHANGED <<nextEvent, counters, stopped>>

Start ==
  /\ proc = "down"
  /\ proc' = "up"
  /\ UNCHANGED <<nextEvent, pending, ch, cur, stream, counters, history>>

Next ==
  \/ Resolve \/ (\E e \in Events : Push(e)) \/ Receive \/ XAdd
  \/ Stop \/ Exit \/ Crash \/ Start

Spec == Init /\ [][Next]_vars

-----------------------------------------------------------------------------
(* What the recorder guarantees.                                           *)

\* The counters can be trusted: what is counted as published is in the stream;
\* what is in the stream is counted, as published or as failed, unless the
\* process ended during its XADD; what is counted as dropped is not there, and
\* never will be.
CountersTruthful ==
  /\ \A e \in published : stream[e] > 0
  /\ \A e \in Events : stream[e] > 0 => e \in published \cup failed \cup stopped \cup died
  /\ \A e \in dropped : stream[e] = 0 /\ e \notin Buffered \cup failed

\* "a slow or dead Redis must never stall a redirect response": whatever the
\* recorder's goroutine does, a redirect is answered.
RedirectNeverStalls == \A e \in Events : e \in pending ~> e \notin pending

=============================================================================
