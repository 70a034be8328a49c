---------------------------- MODULE ClickPipeline ----------------------------
(***************************************************************************)
(* The way of a click from the redirect to the counters: the recorder of a *)
(* server process and the analytics worker, joined by the Redis stream.    *)
(* The recorder's events are clicks, the worker's are the entries of the   *)
(* stream; an entry is made by XADD, and a repeated XADD makes two.        *)
(***************************************************************************)
EXTENDS AnalyticsWorker, Sequences

CONSTANTS
  BufferSize,     \* the channel's capacity
  MaxClick,       \* bound on redirects
  MaxInFlight,    \* bound on redirects that are resolved and not yet answered
  ServerFaults,   \* may XADD fail, before or after its execution?
  ServerCrashes   \* may the server process die?

VARIABLES
  proc, nextClick, pending, ch, cur,    \* as in Recorder
  added, dropped, gaveUp, published, stopped, died,
  visit,  \* visit[k]: the code that click k asked for; has it a referrer?
  of      \* of[e]: the click that entry e is for, 0 for none

server   == <<proc, nextClick, pending, ch, cur, added, dropped, gaveUp,
              published, stopped, died>>
pipeline == <<vars, server, visit, of>>

Clicks == 1..MaxClick
Visits == [code : Codes, ref : EventRefs]

Rec == INSTANCE Recorder WITH
  MaxEvent <- MaxClick, RedisFaults <- ServerFaults, Crashes <- ServerCrashes,
  nextEvent <- nextClick, stream <- added, failed <- gaveUp

ASSUME PipelineConstants == Rec!RecorderConstants

PipelineInit ==
  /\ Init /\ Rec!Init
  /\ visit \in [Clicks -> Visits]
  /\ of = [e \in Events |-> 0]

-----------------------------------------------------------------------------
\* The steps of the server that do not reach the stream.  A redirect answers
\* for a link, or for a deleted one that the cache still has.
ServerStep ==
  /\ \/ /\ nextClick \in Clicks /\ visit[nextClick].code \in given
        /\ Rec!Resolve
     \/ \E k \in Clicks : Rec!Push(k)
     \/ Rec!Receive \/ Rec!Stop \/ Rec!Start
  /\ UNCHANGED <<vars, visit, of>>

\* What an XADD that was executed has added for click k is in the stream.
Enter(k) ==
  LET copies == added'[k] - added[k]
      new    == nextEvent..(nextEvent + copies - 1)
  IN
  /\ Publish(visit[k].code, visit[k].ref, copies)
  /\ of' = [e \in Events |-> IF e \in new THEN k ELSE of[e]]
  /\ UNCHANGED visit

\* The goroutine's XADD, and the end of the process, which may leave one under
\* way.
XAdd == Rec!XAdd /\ Enter(cur)

Gone ==
  /\ Rec!Exit \/ Rec!Crash
  /\ IF cur = 0 THEN UNCHANGED <<vars, visit, of>> ELSE Enter(cur)

\* The worker's steps, and what becomes of the links.
WorkerStep ==
  /\ \/ \E w \in Workers : Start(w) \/ Read(w) \/ Handle(w) \/ Crash(w)
     \/ \E c \in Codes : CreateLink(c) \/ DeleteLink(c)
  /\ UNCHANGED <<server, visit, of>>

PipelineNext == ServerStep \/ XAdd \/ Gone \/ WorkerStep

PipelineSpec == PipelineInit /\ [][PipelineNext]_pipeline

ServerOnly == UNCHANGED <<vars, visit, of>>
WorkerOnly == UNCHANGED <<server, visit, of>>

\* Handlers run, whatever becomes of Redis: nothing is said of the recorder's
\* goroutine, which may hang with it.
FairPipeline ==
  PipelineSpec /\ \A k \in Clicks : WF_pipeline(Rec!Push(k) /\ ServerOnly)

\* The goroutine goes on, and its XADD returns within pushTimeout; so do the
\* workers, as in AnalyticsWorker.
GoroutineRuns == WF_pipeline(Rec!Receive /\ ServerOnly) /\ WF_pipeline(XAdd)
WorkersRun ==
  \A w \in Workers : /\ WF_pipeline(Start(w) /\ WorkerOnly)
                     /\ SF_pipeline(Read(w) /\ WorkerOnly)
                     /\ WF_pipeline(Handle(w) /\ WorkerOnly)

-----------------------------------------------------------------------------
(* What the pipeline guarantees.                                           *)

EntriesOf(k) == {e \in Events : of[e] = k}

\* The type invariant; every entry of the stream is for a click, and no click
\* has more entries than XADDs.
PipelineTypeOK ==
  /\ TypeOK /\ Rec!TypeOK
  /\ visit \in [Clicks -> Visits] /\ of \in [Events -> 0..MaxClick]
  /\ \A k \in Clicks : Cardinality(EntriesOf(k)) = added[k]

\* Clicks that did not become an entry, each for a reason that is counted or
\* that is the end of the process.
Lost == dropped \cup gaveUp \cup stopped \cup died

\* Clicks are conserved from the redirect to the counters: a click is still
\* with the server, or has been lost there with its reason, or has an entry
\* that waits in the stream, is being handled, or has been dealt with.
ClicksConserved ==
  \A k \in 1..(nextClick - 1) :
    \/ k \in pending \cup Rec!Buffered \cup Lost
    \/ \E e \in EntriesOf(k) :
         e > cursor \/ e \in settled \cup failed \/ \E w \in Workers : e \in batch[w]

\* The server's counters can be trusted: what is counted as published is in
\* the stream; what is in the stream is counted, as published or as failed,
\* unless the process ended during its XADD; what is counted as dropped is not
\* there, and never will be.
CountersTruthful == Rec!CountersTruthful

\* "a slow or dead Redis must never stall a redirect response": whatever the
\* recorder's goroutine does, a redirect is answered.
RedirectNeverStalls == Rec!RedirectNeverStalls

\* As long as the goroutine and the workers run every click comes to an end: it
\* is lost with its reason, or one of its entries has been dealt with.
EveryClickSettled ==
  GoroutineRuns /\ WorkersRun =>
    \A k \in Clicks :
      k < nextClick ~> k \in Lost \/ \E e \in EntriesOf(k) : e \in settled \cup failed

=============================================================================
