------------------------- MODULE ClickPipelineProofs -------------------------
(***************************************************************************)
(* Theorems about ClickPipeline, for any size of the channel, any number   *)
(* of redirects, events and workers, and with or without each fault.  The  *)
(* theorems about the worker hold in the pipeline too.                     *)
(***************************************************************************)
EXTENDS ClickPipeline, AnalyticsWorkerProofs

\* The clicks so far.
Seen == 1..(nextClick - 1)

\* A click is in one place at a time: one that waits for its push, or has been
\* dropped, is nowhere else and has no entry; nothing is known of those to come;
\* one with an entry has been counted, or was with the process at its end; and
\* none leaves the server without an entry or a reason.
ServerInv ==
  /\ Rec!TypeOK
  /\ pending \cup dropped \cup Rec!Buffered \cup gaveUp \subseteq Seen
  /\ pending \cap dropped = {}
  /\ (pending \cup dropped) \cap (Rec!Buffered \cup gaveUp) = {}
  /\ \A k \in Clicks : k \in pending \cup dropped \/ k \notin Seen => added[k] = 0
  /\ \A k \in published : added[k] > 0
  /\ \A k \in Clicks : added[k] > 0 => k \in published \cup gaveUp \cup stopped \cup died
  /\ \A k \in Seen : k \in pending \cup Rec!Buffered \cup Lost \/ added[k] > 0

\* The entries of a click are as many as its XADDs; every entry is one of a
\* click's, has its code, and is still in the stream.
EntriesInv ==
  /\ visit \in [Clicks -> Visits] /\ of \in [Events -> 0..MaxClick]
  /\ stream = Published
  /\ \A e \in Events : e \notin Published => of[e] = 0
  /\ \A e \in Published : code[e] # NoCode
  /\ \A k \in Clicks : Cardinality(EntriesOf(k)) = added[k]

\* What the group has delivered is being handled, or has been dealt with.
DeliveredInv ==
  /\ cursor < nextEvent
  /\ \A e \in Published :
       e <= cursor => e \in settled \cup failed \/ \E w \in Workers : e \in batch[w]

\* The inductive invariant; Inv is that of the worker.
PipelineInv == Inv /\ ServerInv /\ EntriesInv /\ DeliveredInv

-----------------------------------------------------------------------------
(* The server.                                                             *)

\* What the assumptions on the constants say of the server's.
LEMMA ServerBounds ==
  /\ BufferSize \in Nat /\ BufferSize >= 1 /\ MaxClick \in Nat
  /\ \A k \in Clicks : k \in Nat /\ 1 <= k /\ k <= MaxClick
<1>1. BufferSize \in Nat \ {0} /\ MaxClick \in Nat
  BY PipelineConstants DEF Rec!RecorderConstants
<1> QED
  BY <1>1 DEF Clicks

\* The events of a channel with one that is sent to it.
LEMMA SentIn ==
  ASSUME NEW S, NEW c \in Seq(S), NEW e \in S
  PROVE  /\ Append(c, e) \in Seq(S) /\ Len(Append(c, e)) = Len(c) + 1
         /\ Rec!ToSet(Append(c, e)) = Rec!ToSet(c) \cup {e}
<1>1. /\ Append(c, e) \in Seq(S) /\ Len(c) \in Nat /\ Len(Append(c, e)) = Len(c) + 1
      /\ \A k \in 1..Len(c) : Append(c, e)[k] = c[k]
      /\ Append(c, e)[Len(c) + 1] = e
      /\ DOMAIN c = 1..Len(c) /\ DOMAIN Append(c, e) = 1..(Len(c) + 1)
  OBVIOUS
<1>2. \A k : k \in 1..(Len(c) + 1) <=> k \in 1..Len(c) \/ k = Len(c) + 1
  BY <1>1
<1> QED
  BY <1>1, <1>2 DEF Rec!ToSet

\* What is received is the first.
LEMMA ReceivedIn ==
  ASSUME NEW S, NEW c \in Seq(S), c # <<>>
  PROVE  /\ Head(c) \in S /\ Tail(c) \in Seq(S) /\ Len(Tail(c)) = Len(c) - 1
         /\ Rec!ToSet(c) = {Head(c)} \cup Rec!ToSet(Tail(c))
<1>1. /\ Len(c) \in Nat /\ Len(c) >= 1 /\ Head(c) = c[1] /\ Head(c) \in S
      /\ Tail(c) \in Seq(S) /\ Len(Tail(c)) = Len(c) - 1
      /\ \A k \in 1..(Len(c) - 1) : Tail(c)[k] = c[k + 1]
      /\ DOMAIN c = 1..Len(c) /\ DOMAIN Tail(c) = 1..(Len(c) - 1)
  OBVIOUS
<1>2. ASSUME NEW x PROVE x \in Rec!ToSet(c) <=> x = Head(c) \/ x \in Rec!ToSet(Tail(c))
  <2>1. \A k \in 1..(Len(c) - 1) : k + 1 \in 1..Len(c)
    BY <1>1
  <2>2. \A k \in 1..Len(c) : k = 1 \/ (k - 1 \in 1..(Len(c) - 1) /\ (k - 1) + 1 = k)
    BY <1>1
  <2>3. x = Head(c) => x \in Rec!ToSet(c)
    BY <1>1 DEF Rec!ToSet
  <2>4. x \in Rec!ToSet(Tail(c)) => x \in Rec!ToSet(c)
    BY <1>1, <2>1 DEF Rec!ToSet
  <2>5. ASSUME x \in Rec!ToSet(c) PROVE x = Head(c) \/ x \in Rec!ToSet(Tail(c))
    <3>1. PICK k \in 1..Len(c) : x = c[k]
      BY <1>1, <2>5 DEF Rec!ToSet
    <3>2. CASE k = 1
      BY <1>1, <3>1, <3>2
    <3>3. CASE k # 1
      <4>1. k - 1 \in 1..(Len(c) - 1) /\ Tail(c)[k - 1] = x
        BY <1>1, <2>2, <3>1, <3>3
      <4> QED
        BY <1>1, <4>1 DEF Rec!ToSet
    <3> QED
      BY <3>2, <3>3
  <2> QED
    BY <2>3, <2>4, <2>5
<1> QED
  BY <1>1, <1>2

\* The clicks so far, in numbers.
LEMMA SeenIn ==
  ASSUME nextClick \in 1..(MaxClick + 1)
  PROVE  Seen \subseteq Clicks /\ \A k \in Clicks : k \in Seen <=> k < nextClick
BY ServerBounds DEF Seen, Clicks

\* The types of the server's state, one by one.
LEMMA ServerTypes ==
  ASSUME Rec!TypeOK
  PROVE  /\ nextClick \in 1..(MaxClick + 1)
         /\ pending \subseteq Clicks /\ ch \in Seq(Clicks)
         /\ Len(ch) \in Nat /\ Len(ch) <= BufferSize
         /\ cur \in 0..MaxClick /\ added \in [Clicks -> Nat]
         /\ dropped \subseteq Clicks /\ gaveUp \subseteq Clicks /\ published \subseteq Clicks
         /\ stopped \subseteq Clicks /\ died \subseteq Clicks
BY DEF Rec!TypeOK, Rec!Events, Clicks

\* A click that is resolved was not seen before.
LEMMA ServerResolve == ServerInv /\ Rec!Resolve => ServerInv'
<1> SUFFICES ASSUME ServerInv, Rec!Resolve PROVE ServerInv'
  OBVIOUS
<1>1. /\ nextClick <= MaxClick /\ nextClick' = nextClick + 1
      /\ pending' = pending \cup {nextClick}
      /\ UNCHANGED <<proc, ch, cur, added, dropped, gaveUp, published, stopped, died>>
  BY DEF Rec!Resolve, Rec!counters, Rec!history
<1>2. nextClick \in 1..(MaxClick + 1) /\ pending \subseteq Clicks
  BY ServerTypes DEF ServerInv
<1>3. /\ nextClick \in Clicks /\ nextClick \notin Seen /\ Seen' = Seen \cup {nextClick}
      /\ nextClick' \in 1..(MaxClick + 1)
  BY <1>1, <1>2, ServerBounds DEF Seen, Clicks
<1>4. Rec!TypeOK'
  BY <1>1, <1>2, <1>3 DEF ServerInv, Rec!TypeOK, Rec!Events, Clicks
<1>5. Rec!Buffered' = Rec!Buffered /\ Lost' = Lost
  BY <1>1 DEF Rec!Buffered, Rec!ToSet, Lost
<1> QED
  BY <1>1, <1>3, <1>4, <1>5 DEF ServerInv

\* A click is sent to the channel, or dropped.
LEMMA ServerPush ==
  ASSUME ServerInv, NEW k \in Clicks, Rec!Push(k)
  PROVE  ServerInv'
<1>1. /\ k \in pending /\ pending' = pending \ {k}
      /\ UNCHANGED <<proc, nextClick, cur, added, gaveUp, published, stopped, died>>
      /\ \/ Len(ch) # BufferSize /\ ch' = Append(ch, k) /\ dropped' = dropped
         \/ dropped' = dropped \cup {k} /\ ch' = ch
  BY DEF Rec!Push, Rec!Full, Rec!Drop, Rec!history
<1>2. /\ pending \subseteq Clicks /\ ch \in Seq(Clicks) /\ dropped \subseteq Clicks
      /\ Len(ch) \in Nat /\ Len(ch) <= BufferSize
  BY ServerTypes DEF ServerInv
<1>3. Seen' = Seen
  BY <1>1 DEF Seen
<1>4. CASE Len(ch) # BufferSize /\ ch' = Append(ch, k) /\ dropped' = dropped
  <2>1. /\ ch' \in Seq(Clicks) /\ Len(ch') <= BufferSize
        /\ Rec!ToSet(ch') = Rec!ToSet(ch) \cup {k}
    BY <1>2, <1>4, SentIn, ServerBounds
  <2>2. Rec!TypeOK'
    BY <1>1, <1>2, <1>4, <2>1 DEF ServerInv, Rec!TypeOK, Rec!Events, Clicks
  <2>3. Rec!Buffered' = Rec!Buffered \cup {k} /\ Lost' = Lost
    <3>1. k # 0
      BY ServerBounds
    <3> QED
      BY <1>1, <1>4, <2>1, <3>1 DEF Rec!Buffered, Lost
  <2> QED
    BY <1>1, <1>3, <1>4, <2>2, <2>3 DEF ServerInv
<1>5. CASE dropped' = dropped \cup {k} /\ ch' = ch
  <2>1. Rec!TypeOK'
    BY <1>1, <1>2, <1>5 DEF ServerInv, Rec!TypeOK, Rec!Events, Clicks
  <2>2. Rec!Buffered' = Rec!Buffered /\ Lost' = Lost \cup {k}
    BY <1>1, <1>5 DEF Rec!Buffered, Rec!ToSet, Lost
  <2> QED
    BY <1>1, <1>3, <1>5, <2>1, <2>2 DEF ServerInv
<1> QED
  BY <1>1, <1>4, <1>5

\* The goroutine takes the first click from the channel.
LEMMA ServerReceive == ServerInv /\ Rec!Receive => ServerInv'
<1> SUFFICES ASSUME ServerInv, Rec!Receive PROVE ServerInv'
  OBVIOUS
<1>1. /\ cur = 0 /\ ch # <<>> /\ cur' = Head(ch) /\ ch' = Tail(ch)
      /\ UNCHANGED <<proc, nextClick, pending, added, dropped, gaveUp, published,
                     stopped, died>>
  BY DEF Rec!Receive, Rec!Take, Rec!counters, Rec!history
<1>2. ch \in Seq(Clicks) /\ Len(ch) \in Nat /\ Len(ch) <= BufferSize
  BY ServerTypes DEF ServerInv
<1>3. /\ cur' \in Clicks /\ ch' \in Seq(Clicks) /\ Len(ch') <= BufferSize
      /\ Rec!ToSet(ch) = {cur'} \cup Rec!ToSet(ch')
  BY <1>1, <1>2, ReceivedIn, ServerBounds
<1>4. cur' \in 0..MaxClick /\ cur' # 0
  BY <1>3, ServerBounds
<1>5. Rec!TypeOK'
  BY <1>1, <1>3, <1>4 DEF ServerInv, Rec!TypeOK, Rec!Events, Clicks
<1>6. Rec!Buffered' = Rec!Buffered /\ Seen' = Seen /\ Lost' = Lost
  BY <1>1, <1>3, <1>4 DEF Rec!Buffered, Seen, Lost
<1> QED
  BY <1>1, <1>5, <1>6 DEF ServerInv

\* An XADD of click k, executed m times.
LEMMA ServerAdded ==
  ASSUME ServerInv, NEW k \in Clicks, NEW m \in Nat, Rec!Added(k, m)
  PROVE  /\ added' \in [Clicks -> Nat]
         /\ added'[k] = added[k] + m /\ added[k] \in Nat
         /\ \A j \in Clicks : added'[j] >= added[j] /\ (j # k => added'[j] = added[j])
<1>1. added \in [Clicks -> Nat] /\ added' = [added EXCEPT ![k] = @ + m]
  BY ServerTypes DEF ServerInv, Rec!Added
<1> QED
  BY <1>1

\* The goroutine's XADD: the click is counted as published or as failed.
LEMMA ServerXAdd == ServerInv /\ Rec!XAdd => ServerInv'
<1> SUFFICES ASSUME ServerInv, Rec!XAdd PROVE ServerInv'
  OBVIOUS
<1>1. /\ cur # 0 /\ cur' = 0
      /\ UNCHANGED <<proc, nextClick, pending, ch, dropped, stopped, died>>
  BY DEF Rec!XAdd, Rec!history
<1>2. PICK m \in Nat :
        /\ Rec!Added(cur, m)
        /\ \/ m >= 1 /\ published' = published \cup {cur} /\ gaveUp' = gaveUp
           \/ gaveUp' = gaveUp \cup {cur} /\ published' = published
  BY DEF Rec!XAdd, Rec!Fail
<1>3. /\ cur \in Clicks /\ gaveUp \subseteq Clicks /\ published \subseteq Clicks
      /\ added \in [Clicks -> Nat]
  <2>1. /\ cur \in 0..MaxClick /\ gaveUp \subseteq Clicks /\ published \subseteq Clicks
        /\ added \in [Clicks -> Nat]
    BY ServerTypes DEF ServerInv
  <2> QED
    BY <1>1, <2>1, ServerBounds DEF Clicks
<1>4. /\ added' \in [Clicks -> Nat]
      /\ added'[cur] = added[cur] + m /\ added[cur] \in Nat
      /\ \A j \in Clicks : added'[j] >= added[j] /\ (j # cur => added'[j] = added[j])
  BY <1>2, <1>3, ServerAdded
<1>5. m >= 1 => added'[cur] > 0
  BY <1>2, <1>4
<1>6. \A j \in Clicks : added[j] > 0 => added'[j] > 0
  BY <1>3, <1>4
<1>7. 0 \in 0..MaxClick
  BY ServerBounds
<1>8. Rec!TypeOK'
  <2>1. published' \subseteq Clicks /\ gaveUp' \subseteq Clicks
    BY <1>2, <1>3
  <2> QED
    BY <1>1, <1>4, <1>7, <2>1 DEF ServerInv, Rec!TypeOK, Rec!Events, Clicks
<1>9. /\ Rec!Buffered = Rec!Buffered' \cup {cur} /\ cur \in Rec!Buffered
      /\ Seen' = Seen /\ Lost' = Lost \cup gaveUp'
      /\ Seen \subseteq Clicks
  <2>1. Rec!Buffered = Rec!Buffered' \cup {cur} /\ cur \in Rec!Buffered
    BY <1>1 DEF Rec!Buffered, Rec!ToSet
  <2>2. Seen' = Seen /\ Lost' = Lost \cup gaveUp'
    BY <1>1, <1>2 DEF Seen, Lost
  <2> QED
    BY <2>1, <2>2, SeenIn, ServerTypes DEF ServerInv
<1>10. cur \notin pending \cup dropped /\ cur \in Seen
  BY <1>9 DEF ServerInv
<1>11. \A j \in Clicks : j \in (pending \cup dropped)' \/ j \notin Seen' => added'[j] = 0
  BY <1>1, <1>4, <1>9, <1>10 DEF ServerInv
<1>12. \A j \in published' : added'[j] > 0
  BY <1>2, <1>3, <1>5, <1>6 DEF ServerInv
<1>13. \A j \in Seen' : j \in (pending \cup Rec!Buffered \cup Lost)' \/ added'[j] > 0
  BY <1>1, <1>2, <1>5, <1>6, <1>9 DEF ServerInv
<1>14. /\ (pending \cup dropped \cup Rec!Buffered \cup gaveUp)' \subseteq Seen'
       /\ (pending \cap dropped)' = {}
       /\ ((pending \cup dropped) \cap (Rec!Buffered \cup gaveUp))' = {}
  BY <1>1, <1>2, <1>9, <1>10 DEF ServerInv
<1>15. \A j \in Clicks : added'[j] > 0 => j \in (published \cup gaveUp \cup stopped \cup died)'
  <2>1. cur \in published' \cup gaveUp'
    BY <1>2
  <2>2. ASSUME NEW j \in Clicks, j # cur, added'[j] > 0
        PROVE  j \in (published \cup gaveUp \cup stopped \cup died)'
    BY <1>1, <1>2, <1>4, <2>2 DEF ServerInv
  <2> QED
    BY <2>1, <2>2
<1> QED
  BY <1>8, <1>11, <1>12, <1>13, <1>14, <1>15 DEF ServerInv

\* The end of the process: its channel is lost, and the clicks of the channel
\* with it.
LEMMA ServerGone ==
  ASSUME ServerInv, Rec!Exit \/ Rec!Crash
  PROVE  ServerInv'
<1>1. /\ proc' = "down" /\ ch' = <<>> /\ cur' = 0
      /\ pending' = {} /\ UNCHANGED <<nextClick, dropped, gaveUp, published>>
      /\ stopped \subseteq stopped' /\ died \subseteq died'
      /\ stopped' \cup died' \subseteq stopped \cup died \cup Rec!Buffered \cup pending
      /\ pending \cup Rec!Buffered \subseteq stopped' \cup died'
      /\ added' = added \/ (cur # 0 /\ Rec!Added(cur, 1))
  BY DEF Rec!Exit, Rec!Crash, Rec!Gone, Rec!counters
<1>2. /\ cur \in 0..MaxClick /\ added \in [Clicks -> Nat]
      /\ pending \subseteq Clicks /\ stopped \subseteq Clicks /\ died \subseteq Clicks
      /\ dropped \subseteq Clicks /\ gaveUp \subseteq Clicks /\ published \subseteq Clicks
      /\ nextClick \in 1..(MaxClick + 1)
  BY ServerTypes DEF ServerInv
<1>3. cur # 0 => cur \in Clicks /\ cur \in Rec!Buffered
  BY <1>2, ServerBounds DEF Clicks, Rec!Buffered
<1>4. /\ added' \in [Clicks -> Nat]
      /\ \A j \in Clicks : added'[j] >= added[j]
      /\ \A j \in Clicks : j # cur \/ cur = 0 => added'[j] = added[j]
  <2>1. CASE added' = added
    BY <1>2, <2>1
  <2>2. CASE cur # 0 /\ Rec!Added(cur, 1)
    BY <1>3, <2>2, ServerAdded
  <2> QED
    BY <1>1, <2>1, <2>2
<1>5. \A j \in Clicks : added[j] > 0 => added'[j] > 0
  BY <1>2, <1>4
<1>6. Seen \subseteq Clicks /\ Seen' = Seen /\ Rec!Buffered \subseteq Seen
  BY <1>1, <1>2, SeenIn DEF Seen, ServerInv
<1>7. Rec!Buffered' = {}
  <2>1. DOMAIN <<>> = {}
    OBVIOUS
  <2> QED
    BY <1>1, <2>1 DEF Rec!Buffered, Rec!ToSet
<1>8. Rec!TypeOK'
  <2>1. <<>> \in Seq(Clicks) /\ Len(<<>>) <= BufferSize /\ 0 \in 0..MaxClick
    BY ServerBounds
  <2>2. stopped' \subseteq Clicks /\ died' \subseteq Clicks
    BY <1>1, <1>2, <1>6
  <2> QED
    BY <1>1, <1>2, <1>4, <2>1, <2>2 DEF Rec!TypeOK, Rec!Events, Clicks
<1>9. \A j \in Clicks : j \in (pending \cup dropped)' \/ j \notin Seen' => added'[j] = 0
  <2>1. \A j \in Clicks : j \in dropped \/ j \notin Seen => j # cur \/ cur = 0
    BY <1>3, <1>6 DEF ServerInv
  <2> QED
    BY <1>1, <1>4, <1>6, <2>1 DEF ServerInv
<1>10. \A j \in published' : added'[j] > 0
  BY <1>1, <1>2, <1>5 DEF ServerInv
<1>11. \A j \in Seen' : j \in (pending \cup Rec!Buffered \cup Lost)' \/ added'[j] > 0
  <2>1. pending \cup Rec!Buffered \cup Lost \subseteq Lost'
    BY <1>1 DEF Lost
  <2> QED
    BY <1>5, <1>6, <2>1 DEF ServerInv
<1>12. /\ (pending \cup dropped \cup Rec!Buffered \cup gaveUp)' \subseteq Seen'
       /\ (pending \cap dropped)' = {}
       /\ ((pending \cup dropped) \cap (Rec!Buffered \cup gaveUp))' = {}
  BY <1>1, <1>6, <1>7 DEF ServerInv
<1>13. \A j \in Clicks : added'[j] > 0 => j \in (published \cup gaveUp \cup stopped \cup died)'
  <2>1. cur # 0 => cur \in stopped' \cup died'
    BY <1>1, <1>3
  <2>2. ASSUME NEW j \in Clicks, j # cur \/ cur = 0, added'[j] > 0
        PROVE  j \in (published \cup gaveUp \cup stopped \cup died)'
    BY <1>1, <1>4, <2>2 DEF ServerInv
  <2> QED
    BY <2>1, <2>2
<1> QED
  BY <1>8, <1>9, <1>10, <1>11, <1>12, <1>13 DEF ServerInv

\* SIGTERM, a new start, and steps that are not the server's.
LEMMA ServerQuiet ==
  ASSUME ServerInv, Rec!Stop \/ Rec!Start \/ UNCHANGED server
  PROVE  ServerInv'
<1>1. /\ proc' \in {proc, "up", "stopping"}
      /\ UNCHANGED <<nextClick, pending, ch, cur, added, dropped, gaveUp, published,
                     stopped, died>>
  BY DEF Rec!Stop, Rec!Start, Rec!counters, Rec!history, server
<1>2. Rec!TypeOK'
  BY <1>1 DEF ServerInv, Rec!TypeOK
<1>3. Rec!Buffered' = Rec!Buffered /\ Seen' = Seen /\ Lost' = Lost
  BY <1>1 DEF Rec!Buffered, Rec!ToSet, Seen, Lost
<1> QED
  BY <1>1, <1>2, <1>3 DEF ServerInv

\* Every step of the pipeline keeps the server's part of the invariant.
LEMMA ServerStepInv == ServerInv /\ [PipelineNext]_pipeline => ServerInv'
<1> SUFFICES ASSUME ServerInv, [PipelineNext]_pipeline PROVE ServerInv'
  OBVIOUS
<1>1. CASE ServerStep
  BY <1>1, ServerResolve, ServerPush, ServerReceive, ServerQuiet DEF ServerStep
<1>2. CASE XAdd
  BY <1>2, ServerXAdd DEF XAdd
<1>3. CASE Gone
  BY <1>3, ServerGone DEF Gone
<1>4. CASE WorkerStep \/ UNCHANGED pipeline
  BY <1>4, ServerQuiet DEF WorkerStep, pipeline
<1> QED
  BY <1>1, <1>2, <1>3, <1>4 DEF PipelineNext

-----------------------------------------------------------------------------
(* The stream.                                                             *)

\* What an XADD under way has added, in an Enter: none, one or two entries.
LEMMA Copies ==
  ASSUME ServerInv, XAdd \/ (Gone /\ cur # 0)
  PROVE  /\ Enter(cur) /\ cur \in Clicks
         /\ added' \in [Clicks -> Nat] /\ added \in [Clicks -> Nat]
         /\ added'[cur] - added[cur] \in Nat
         /\ \A j \in Clicks : j # cur => added'[j] = added[j]
<1>1. Enter(cur) /\ cur # 0
  BY DEF XAdd, Gone, Rec!XAdd
<1>2. /\ cur \in 0..MaxClick /\ added \in [Clicks -> Nat]
  BY ServerTypes DEF ServerInv
<1>3. cur \in Clicks
  BY <1>1, <1>2, ServerBounds DEF Clicks
<1>4. added' = added \/ \E m \in Nat : Rec!Added(cur, m)
  BY DEF XAdd, Gone, Rec!XAdd, Rec!Exit, Rec!Crash, Rec!Gone
<1>5. CASE added' = added
  BY <1>1, <1>2, <1>3, <1>5
<1>6. ASSUME NEW m \in Nat, Rec!Added(cur, m)
      PROVE  /\ added' \in [Clicks -> Nat]
             /\ added'[cur] - added[cur] \in Nat
             /\ \A j \in Clicks : j # cur => added'[j] = added[j]
  BY <1>3, <1>6, ServerAdded
<1> QED
  BY <1>1, <1>2, <1>3, <1>4, <1>5, <1>6

\* Every step of the pipeline is one of the worker's, of Publish, or none, as
\* far as the worker's state is concerned.
LEMMA PipelineStep ==
  ASSUME ServerInv, EntriesInv, [PipelineNext]_pipeline
  PROVE  Step
<1>1. CASE ServerStep \/ UNCHANGED pipeline
  BY <1>1 DEF ServerStep, pipeline, Step
<1>2. CASE WorkerStep
  BY <1>2 DEF WorkerStep, Step
<1>3. CASE XAdd \/ (Gone /\ cur # 0)
  <2>1. Enter(cur) /\ cur \in Clicks /\ added'[cur] - added[cur] \in Nat
    BY <1>3, Copies
  <2>2. visit[cur].code \in Codes \cup {NoCode} /\ visit[cur].ref \in BOOLEAN
    BY <2>1, WorkerConstants DEF EntriesInv, Visits
  <2> QED
    BY <2>1, <2>2 DEF Enter, Step
<1>4. CASE Gone /\ cur = 0
  BY <1>4 DEF Gone, Step
<1> QED
  BY <1>1, <1>2, <1>3, <1>4 DEF PipelineNext

\* What has been published, in numbers.
LEMMA PublishedIn ==
  ASSUME nextEvent \in 1..(MaxEvent + 1)
  PROVE  Published \subseteq Events /\ \A e \in Events : e \in Published <=> e < nextEvent
BY Bounds DEF Published, Events

\* An entry that is new: what is published grows by it, and it is nobody's yet.
LEMMA EntriesEnter ==
  ASSUME TypeOK, ServerInv, EntriesInv, XAdd \/ (Gone /\ cur # 0)
  PROVE  EntriesInv'
<1> DEFINE copies == added'[cur] - added[cur]
           new    == nextEvent..(nextEvent + copies - 1)
<1>1. /\ Enter(cur) /\ cur \in Clicks /\ copies \in Nat
      /\ added' \in [Clicks -> Nat] /\ added \in [Clicks -> Nat]
      /\ \A j \in Clicks : j # cur => added'[j] = added[j]
  BY Copies
<1>2. /\ new \subseteq Events /\ stream' = stream \cup new /\ nextEvent' = nextEvent + copies
      /\ code' = [e \in Events |-> IF e \in new THEN visit[cur].code ELSE code[e]]
      /\ of' = [e \in Events |-> IF e \in new THEN cur ELSE of[e]]
      /\ visit' = visit
  BY <1>1 DEF Enter, Publish
<1>3. added'[cur] = added[cur] + copies /\ added[cur] \in Nat
  BY <1>1
<1> HIDE DEF copies
<1>4. nextEvent \in 1..(MaxEvent + 1) /\ nextEvent \in Nat /\ nextEvent >= 1
  BY Bounds DEF TypeOK
<1>5. Published' = Published \cup new /\ Published \cap new = {}
  BY <1>1, <1>2, <1>4 DEF Published
<1>6. IsFiniteSet(new) /\ Cardinality(new) = copies
  <2>1. nextEvent + copies - 1 \in Int /\ nextEvent \in Int
    BY <1>1, <1>4
  <2>2. /\ IsFiniteSet(new)
        /\ Cardinality(new) =
             IF nextEvent > nextEvent + copies - 1 THEN 0
             ELSE (nextEvent + copies - 1) - nextEvent + 1
    BY <2>1, FS_Interval
  <2> HIDE DEF new
  <2> QED
    BY <1>1, <1>4, <2>2
<1> HIDE DEF new
<1>7. cur \in 0..MaxClick /\ cur # 0
  BY <1>1, ServerBounds
<1>8. of' \in [Events -> 0..MaxClick] /\ visit' \in [Clicks -> Visits]
  BY <1>2, <1>7 DEF EntriesInv
<1>9. visit[cur].code # NoCode
  BY <1>1, WorkerConstants DEF EntriesInv, Visits
<1>10. \A e \in Published' : code'[e] # NoCode
  BY <1>2, <1>4, <1>5, <1>9, PublishedIn DEF EntriesInv
<1>11. \A e \in Events : e \notin Published' => of'[e] = 0
  BY <1>2, <1>5 DEF EntriesInv
<1>12. \A e \in new : e \in Events /\ of[e] = 0
  BY <1>2, <1>5 DEF EntriesInv
<1>13. ASSUME NEW j \in Clicks PROVE Cardinality(EntriesOf(j)') = added'[j]
  <2>1. Cardinality(EntriesOf(j)) = added[j] /\ EntriesOf(j) \subseteq Events
    BY DEF EntriesInv, EntriesOf
  <2>2. CASE j # cur
    <3>1. EntriesOf(j)' = EntriesOf(j)
      <4>1. j # 0
        BY ServerBounds
      <4> QED
        BY <1>2, <1>12, <2>2, <4>1 DEF EntriesOf
    <3> QED
      BY <1>1, <2>1, <2>2, <3>1
  <2>3. CASE j = cur
    <3>1. EntriesOf(j)' = EntriesOf(j) \cup new
      BY <1>2, <1>12, <2>3 DEF EntriesOf
    <3>2. EntriesOf(j) \cap new = {}
      BY <1>7, <1>12, <2>3 DEF EntriesOf
    <3>3. IsFiniteSet(EntriesOf(j))
      BY <2>1, Bounds, FS_Subset
    <3>4. Cardinality(EntriesOf(j) \cup new) =
            Cardinality(EntriesOf(j)) + Cardinality(new) - Cardinality(EntriesOf(j) \cap new)
      BY <1>6, <3>3, FS_Union
    <3>5. Cardinality({}) = 0
      BY FS_EmptySet
    <3>6. Cardinality(EntriesOf(j)') = added[cur] + copies - 0
      BY <1>6, <2>1, <2>3, <3>1, <3>2, <3>4, <3>5
    <3>7. added[cur] + copies - 0 = added[cur] + copies
      BY <1>1, <1>3
    <3> QED
      BY <1>3, <2>3, <3>6, <3>7
  <2> QED
    BY <2>2, <2>3
<1>14. stream' = Published'
  BY <1>2, <1>5 DEF EntriesInv
<1> QED
  BY <1>8, <1>10, <1>11, <1>13, <1>14 DEF EntriesInv

\* All other steps leave the entries alone.
LEMMA EntriesKept ==
  ASSUME EntriesInv, UNCHANGED <<code, nextEvent, stream, visit, of, added>>
  PROVE  EntriesInv'
<1>1. Published' = Published /\ \A j : EntriesOf(j)' = EntriesOf(j)
  BY DEF Published, EntriesOf
<1> QED
  BY <1>1 DEF EntriesInv

\* Every step of the pipeline keeps the entries' part of the invariant.
LEMMA EntriesStep ==
  TypeOK /\ ServerInv /\ EntriesInv /\ [PipelineNext]_pipeline => EntriesInv'
<1> SUFFICES ASSUME TypeOK, ServerInv, EntriesInv, [PipelineNext]_pipeline PROVE EntriesInv'
  OBVIOUS
<1>1. CASE ServerStep
  <2>1. added' = added
    BY <1>1 DEF ServerStep, Rec!Resolve, Rec!Push, Rec!Receive, Rec!Take, Rec!Stop, Rec!Start
  <2> QED
    BY <1>1, <2>1, EntriesKept DEF ServerStep, vars, events, redis
<1>2. CASE WorkerStep
  <2>1. UNCHANGED <<events, stream>>
    <3>1. ASSUME NEW w \in Workers, Handle(w) PROVE UNCHANGED <<events, stream>>
      BY <3>1, HandleFrame
    <3> QED
      BY <1>2, <3>1 DEF WorkerStep, Start, Read, Crash, CreateLink, DeleteLink, redis
  <2> QED
    BY <1>2, <2>1, EntriesKept DEF WorkerStep, events, server
<1>3. CASE Gone /\ cur = 0
  <2>1. added' = added
    BY <1>3 DEF Gone, Rec!Exit, Rec!Crash, Rec!Gone
  <2> QED
    BY <1>3, <2>1, EntriesKept DEF Gone, vars, events, redis
<1>4. CASE UNCHANGED pipeline
  BY <1>4, EntriesKept DEF pipeline, vars, events, redis, server
<1> QED
  BY <1>1, <1>2, <1>3, <1>4, EntriesEnter DEF PipelineNext

-----------------------------------------------------------------------------
(* The deliveries.                                                         *)

\* What a read delivers is everything up to the new cursor: there is no entry
\* before the last one of a batch that is not in the batch, or before it.
LEMMA BatchIsGapless ==
  ASSUME TypeOK, Undelivered # {}, NEW e \in stream, e <= Max(NextBatch)
  PROVE  e <= cursor \/ e \in NextBatch
<1> DEFINE x == Max(NextBatch)
           UpTo(y) == {f \in Undelivered : f <= y}
<1>1. /\ NextBatch \subseteq Undelivered /\ NextBatch # {} /\ NextBatch \subseteq Events
      /\ Undelivered \subseteq Events /\ stream \subseteq Events /\ cursor \in Int
  BY NextBatchIn, Bounds DEF TypeOK, Undelivered
<1>2. x \in NextBatch
  BY <1>1, MaxIn
<1> HIDE DEF x
<1>3. SUFFICES ASSUME ~(e <= cursor) PROVE e \in NextBatch
  OBVIOUS
<1>4. e \in Int /\ x \in Int /\ e <= x
  BY <1>1, <1>2, Bounds DEF x
<1>5. e \in Undelivered
  BY <1>1, <1>3, <1>4 DEF Undelivered
<1>6. UpTo(e) \subseteq UpTo(x)
  <2>1. \A f \in Undelivered : f \in Int
    BY <1>1, Bounds
  <2>2. \A f \in Undelivered : f <= e => f <= x
    BY <1>4, <2>1
  <2> QED
    BY <2>2
<1>7. IsFiniteSet(UpTo(x)) /\ UpTo(x) \subseteq Events
  BY <1>1, Bounds, FS_Subset
<1>8. /\ Cardinality(UpTo(e)) <= Cardinality(UpTo(x)) /\ IsFiniteSet(UpTo(e))
  BY <1>6, <1>7, FS_Subset
<1>9. Cardinality(UpTo(x)) <= BatchSize
  BY <1>2 DEF NextBatch
<1>10. Cardinality(UpTo(x)) \in Nat /\ Cardinality(UpTo(e)) \in Nat
  BY <1>7, <1>8, FS_CardinalityType
<1>11. Cardinality(UpTo(e)) <= BatchSize
  BY <1>8, <1>9, <1>10, Bounds
<1> QED
  BY <1>5, <1>11 DEF NextBatch

\* An event that has been dealt with, or that a worker holds.
InHand(e) == e \in settled \cup failed \/ \E w \in Workers : e \in batch[w]

\* A worker lets go of an event when it has been dealt with: it is in hand
\* after every step but a skip, which leaves out a malformed one.
LEMMA HandKeeps ==
  ASSUME Inv, NEW w \in Workers, Handle(w) \/ Crash(w),
         NEW e \in Events, code[e] # NoCode, InHand(e)
  PROVE  InHand(e)'
<1>0. /\ pc \in [Workers -> Handling \cup {"down", "idle"}]
      /\ batch \in [Workers -> SUBSET Events]
  BY DEF Inv, TypeOK
<1>1. CASE e \in settled \cup failed
  <2>1. settled \subseteq settled' /\ failed \subseteq failed'
    BY HistoryGrows DEF Step
  <2> QED
    BY <1>1, <2>1 DEF InHand
<1>2. ASSUME NEW v \in Workers, v # w, e \in batch[v] PROVE InHand(e)'
  <2>1. batch'[v] = batch[v]
    BY <1>2, OthersKeep DEF Inv, Keeps
  <2> QED
    BY <1>2, <2>1 DEF InHand
<1>3. CASE e \in batch[w] /\ e \notin settled \cup failed
  <2>1. CASE Crash(w) \/ Abort(w)
    <3>1. e \in failed'
      BY <1>3, <2>1 DEF Crash, Abort
    <3> QED
      BY <3>1 DEF InHand
  <2>2. CASE batch'[w] = batch[w]
    BY <1>3, <2>2 DEF InHand
  <2>3. CASE Skip(w)
    <3>1. e # Current(w)
      BY <2>3 DEF Skip
    <3>2. e \in batch'[w]
      BY <1>0, <1>3, <2>3, <3>1 DEF Skip, Proceed
    <3> QED
      BY <3>2 DEF InHand
  <2>4. CASE Ack(w) /\ Proceed(w)
    <3>1. batch'[w] = batch[w] \ {Current(w)} /\ pc[w] = "ack"
          /\ settled' = settled /\ failed \subseteq failed'
      BY <1>0, <2>4 DEF Ack, Proceed, Abort
    <3>2. CASE e # Current(w)
      BY <1>3, <3>1, <3>2 DEF InHand
    <3>3. CASE e = Current(w)
      <4>1. e \in claimed
        BY <3>1, <3>3 DEF Inv, DealtWithInv
      <4>2. e \in BeingCounted
        BY <1>3, <4>1 DEF Inv, DealtWithInv
      <4>3. PICK v \in Workers : pc[v] \in Counting /\ e = Current(v)
        BY <4>2, BeingCountedIn
      <4>4. v # w /\ pc[v] \in Handling
        BY <3>1, <4>3 DEF Counting, Handling
      <4>5. e \in batch[v]
        BY <4>3, <4>4, CurrentIn DEF Inv, TypeOK, BatchType
      <4> QED
        BY <1>2, <4>4, <4>5
    <3> QED
      BY <3>2, <3>3
  <2>5. Handle(w) => \/ Abort(w) \/ batch'[w] = batch[w] \/ Skip(w)
                     \/ Ack(w) /\ Proceed(w)
    BY DEF Handle, Claim, Lookup, CountTotal, CountRef, Ack, PgError, Refused, Goto
  <2> QED
    BY <2>1, <2>2, <2>3, <2>4, <2>5
<1> QED
  BY <1>1, <1>2, <1>3 DEF InHand

\* A read takes up everything between the old cursor and the new one.
LEMMA ReadDelivers ==
  ASSUME Inv, EntriesInv, DeliveredInv, NEW w \in Workers, Read(w)
  PROVE  DeliveredInv'
<1>0. /\ pc \in [Workers -> Handling \cup {"down", "idle"}]
      /\ batch \in [Workers -> SUBSET Events]
      /\ nextEvent \in 1..(MaxEvent + 1) /\ cursor \in 0..MaxEvent
      /\ TypeOK
  BY DEF Inv, TypeOK
<1>1. /\ pc[w] = "idle" /\ Undelivered # {} /\ cursor' = Max(NextBatch)
      /\ nextEvent' = nextEvent /\ settled' = settled /\ failed \subseteq failed'
      /\ \/ batch' = [batch EXCEPT ![w] = NextBatch]
         \/ NextBatch \subseteq settled' \cup failed' /\ batch' = batch
  BY DEF Read, events
<1>2. batch[w] = {}
  BY <1>0, <1>1 DEF TypeOK, Handling
<1>3. Published' = Published
  BY <1>1 DEF Published
<1>4. \A e \in NextBatch : InHand(e)'
  BY <1>0, <1>1 DEF InHand
<1>5. \A e : InHand(e) => InHand(e)'
  BY <1>0, <1>1, <1>2 DEF InHand
<1>6. \A e \in Published : e <= cursor' => InHand(e)'
  <2>1. \A e \in Published : e <= cursor' => e <= cursor \/ e \in NextBatch
    BY <1>0, <1>1, BatchIsGapless DEF EntriesInv
  <2> QED
    BY <1>4, <1>5, <2>1 DEF DeliveredInv, InHand
<1>7. cursor' < nextEvent'
  <2>1. NextBatch \subseteq Events /\ NextBatch # {} /\ NextBatch \subseteq stream
    BY <1>0, <1>1, NextBatchIn DEF Undelivered
  <2>2. cursor' \in Events /\ cursor' \in Published
    BY <1>1, <2>1, MaxIn DEF EntriesInv
  <2> QED
    BY <1>0, <1>1, <2>2, PublishedIn
<1> QED
  BY <1>3, <1>6, <1>7 DEF DeliveredInv, InHand

\* Entries that are new have not been delivered.
LEMMA EnterDelivers ==
  ASSUME TypeOK, DeliveredInv, NEW c, NEW b, NEW k \in Nat, Publish(c, b, k)
  PROVE  DeliveredInv'
<1>1. /\ nextEvent' = nextEvent + k
      /\ UNCHANGED <<cursor, batch, settled, failed>>
  BY DEF Publish, workers, history
<1>2. nextEvent \in Nat /\ nextEvent >= 1 /\ cursor \in Nat
  BY Bounds DEF TypeOK
<1>3. cursor' < nextEvent'
  BY <1>1, <1>2 DEF DeliveredInv
<1>4. \A e \in Published' : e <= cursor' => e \in Published
  BY <1>1, <1>2 DEF Published, DeliveredInv
<1> QED
  BY <1>1, <1>3, <1>4 DEF DeliveredInv

\* A new group starts at the beginning; without a group nothing was delivered
\* that could be delivered again.
LEMMA StartDelivers ==
  ASSUME TypeOK, DeliveredInv, NEW w \in Workers, Start(w)
  PROVE  DeliveredInv'
<1>1. /\ cursor' \in {0, cursor}
      /\ UNCHANGED <<nextEvent, batch, settled, failed>>
  BY DEF Start, events, history
<1>2. nextEvent \in Nat /\ nextEvent >= 1 /\ cursor \in Nat
  BY Bounds DEF TypeOK
<1>3. cursor' < nextEvent'
  BY <1>1, <1>2 DEF DeliveredInv
<1>4. Published' = Published /\ \A e \in Published : e <= cursor' => e <= cursor
  BY <1>1, <1>2 DEF Published
<1> QED
  BY <1>1, <1>3, <1>4 DEF DeliveredInv

\* A step that leaves cursor, entries and workers alone.
LEMMA DeliveredKept ==
  ASSUME DeliveredInv, UNCHANGED <<nextEvent, cursor, batch, settled, failed>>
  PROVE  DeliveredInv'
BY DEF DeliveredInv, Published

\* Every step of the pipeline keeps the deliveries' part of the invariant.
LEMMA DeliveredStep == PipelineInv /\ [PipelineNext]_pipeline => DeliveredInv'
<1> SUFFICES ASSUME PipelineInv, [PipelineNext]_pipeline PROVE DeliveredInv'
  OBVIOUS
<1>0. Inv /\ TypeOK /\ ServerInv /\ EntriesInv /\ DeliveredInv
  BY DEF PipelineInv, Inv
<1>1. CASE UNCHANGED vars
  BY <1>0, <1>1, DeliveredKept DEF vars, events, redis, workers, history
<1>2. CASE XAdd \/ (Gone /\ cur # 0)
  <2>1. Enter(cur) /\ added'[cur] - added[cur] \in Nat
    BY <1>0, <1>2, Copies
  <2> QED
    BY <1>0, <2>1, EnterDelivers DEF Enter
<1>3. ASSUME NEW w \in Workers, Start(w) PROVE DeliveredInv'
  BY <1>0, <1>3, StartDelivers
<1>4. ASSUME NEW w \in Workers, Read(w) PROVE DeliveredInv'
  BY <1>0, <1>4, ReadDelivers
<1>5. ASSUME NEW w \in Workers, Handle(w) \/ Crash(w) PROVE DeliveredInv'
  <2>1. cursor' = cursor /\ nextEvent' = nextEvent
    BY <1>5 DEF Handle, Skip, Claim, Lookup, CountTotal, CountRef, Ack, Crash, events, redis
  <2>2. Published' = Published /\ Published \subseteq Events
    BY <1>0, <2>1, PublishedIn DEF Published, TypeOK
  <2>3. \A e \in Published : InHand(e) => InHand(e)'
    BY <1>0, <1>5, <2>2, HandKeeps DEF EntriesInv
  <2> QED
    BY <1>0, <2>1, <2>2, <2>3 DEF DeliveredInv, InHand
<1>6. ASSUME NEW c \in Codes, CreateLink(c) \/ DeleteLink(c) PROVE DeliveredInv'
  BY <1>0, <1>6, DeliveredKept DEF CreateLink, DeleteLink, events, redis, workers, history
<1>7. PipelineNext => \/ UNCHANGED vars \/ XAdd \/ (Gone /\ cur # 0) \/ WorkerStep
  BY DEF PipelineNext, ServerStep, Gone
<1>8. UNCHANGED pipeline => UNCHANGED vars
  BY DEF pipeline
<1> QED
  BY <1>1, <1>2, <1>3, <1>4, <1>5, <1>6, <1>7, <1>8 DEF WorkerStep

-----------------------------------------------------------------------------
(* The theorems.                                                           *)

\* Before the first redirect the invariant holds.
LEMMA PipelineInvInit == PipelineInit => PipelineInv
<1> SUFFICES ASSUME PipelineInit PROVE PipelineInv
  OBVIOUS
<1>1. Inv
  BY InvInit DEF PipelineInit
<1>2. /\ proc = "up" /\ nextClick = 1 /\ pending = {} /\ ch = <<>> /\ cur = 0
      /\ added = [k \in Clicks |-> 0]
      /\ dropped = {} /\ gaveUp = {} /\ published = {} /\ stopped = {} /\ died = {}
  BY DEF PipelineInit, Rec!Init, Rec!Events, Clicks
<1>3. Rec!Buffered = {} /\ Seen = {}
  <2>1. DOMAIN <<>> = {}
    OBVIOUS
  <2> QED
    BY <1>2, <2>1 DEF Rec!Buffered, Rec!ToSet, Seen
<1>4. Rec!TypeOK
  <2>1. <<>> \in Seq(Clicks) /\ Len(<<>>) <= BufferSize
        /\ 1 \in 1..(MaxClick + 1) /\ 0 \in 0..MaxClick
    BY ServerBounds
  <2> QED
    BY <1>2, <2>1 DEF Rec!TypeOK, Rec!Events, Clicks
<1>5. ServerInv
  BY <1>2, <1>3, <1>4 DEF ServerInv
<1>6. /\ stream = {} /\ nextEvent = 1 /\ cursor = 0
      /\ visit \in [Clicks -> Visits] /\ of = [e \in Events |-> 0]
  BY DEF PipelineInit, Init
<1>7. Published = {}
  BY <1>6 DEF Published
<1>8. \A k \in Clicks : EntriesOf(k) = {}
  BY <1>6, ServerBounds DEF EntriesOf
<1>9. EntriesInv
  <2>1. 0 \in 0..MaxClick /\ Cardinality({}) = 0
    BY ServerBounds, FS_EmptySet
  <2> QED
    BY <1>2, <1>6, <1>7, <1>8, <2>1 DEF EntriesInv
<1>10. DeliveredInv
  BY <1>6, <1>7 DEF DeliveredInv
<1> QED
  BY <1>1, <1>5, <1>9, <1>10 DEF PipelineInv

\* Every step keeps it.
LEMMA PipelineInvStep == PipelineInv /\ [PipelineNext]_pipeline => PipelineInv'
<1> SUFFICES ASSUME PipelineInv, [PipelineNext]_pipeline PROVE PipelineInv'
  OBVIOUS
<1>1. Inv'
  BY PipelineStep, InvStep DEF PipelineInv
<1> QED
  BY <1>1, ServerStepInv, EntriesStep, DeliveredStep DEF PipelineInv, Inv

\* The invariant holds in every run of the pipeline.
LEMMA PipelineInvHolds == PipelineSpec => []PipelineInv
BY PipelineInvInit, PipelineInvStep, PTL DEF PipelineSpec

\* The pipeline is well typed, and its stream has as many entries for a click
\* as there were XADDs of it, however often Redis is asked again.
THEOREM PipelineTypeCorrect == PipelineSpec => []PipelineTypeOK
<1>1. PipelineInv => PipelineTypeOK
  BY DEF PipelineInv, Inv, ServerInv, EntriesInv, PipelineTypeOK
<1> QED
  BY <1>1, PipelineInvHolds, PTL

\* What is counted as published is in the stream, what is in the stream is counted
\* unless the process ended during its XADD, and what is counted as dropped is
\* not there, and never will be.
THEOREM CountersAreTruthful == PipelineSpec => []CountersTruthful
<1>1. PipelineInv => CountersTruthful
  <2> SUFFICES ASSUME PipelineInv PROVE Rec!CountersTruthful
    BY DEF CountersTruthful
  <2>1. dropped \subseteq Clicks /\ ServerInv
    BY ServerTypes DEF PipelineInv, ServerInv
  <2> QED
    BY <2>1 DEF ServerInv, Rec!CountersTruthful, Rec!Events, Clicks
<1> QED
  BY <1>1, PipelineInvHolds, PTL

\* No click disappears without a reason, on either side of the stream.
THEOREM ClicksAreConserved == PipelineSpec => []ClicksConserved
<1>1. PipelineInv => ClicksConserved
  <2> SUFFICES ASSUME PipelineInv, NEW k \in 1..(nextClick - 1),
                      k \notin pending \cup Rec!Buffered \cup Lost
               PROVE  \E e \in EntriesOf(k) :
                        e > cursor \/ e \in settled \cup failed \/ \E w \in Workers : e \in batch[w]
    BY DEF ClicksConserved
  <2>0. ServerInv /\ EntriesInv /\ DeliveredInv /\ TypeOK
    BY DEF PipelineInv, Inv
  <2>1. k \in Clicks /\ added[k] > 0
    BY <2>0, SeenIn, ServerTypes DEF ServerInv, Seen
  <2>2. EntriesOf(k) # {}
    <3>1. Cardinality(EntriesOf(k)) = added[k] /\ Cardinality({}) = 0
      BY <2>0, <2>1, FS_EmptySet DEF EntriesInv
    <3>2. added[k] # 0
      BY <2>1
    <3> QED
      BY <3>1, <3>2
  <2>3. PICK e \in EntriesOf(k) : TRUE
    BY <2>2
  <2>4. e \in Events /\ e \in Published
    BY <2>0, <2>1, <2>3, ServerBounds DEF EntriesOf, EntriesInv
  <2>5. e > cursor \/ e <= cursor
    BY <2>0, <2>4, Bounds DEF TypeOK
  <2> QED
    BY <2>0, <2>3, <2>4, <2>5 DEF DeliveredInv
<1> QED
  BY <1>1, PipelineInvHolds, PTL

\* What is true of the worker is true of it in the pipeline, where an XADD may
\* add an entry twice: each entry is counted at most once, for the link that the
\* click's code names, and is not lost without a failure.
THEOREM WorkerGuaranteesInPipeline ==
  PipelineSpec =>
    [](AtMostOnce /\ RefsWithinTotal /\ CountsOfStoredLinks /\ LossNeedsFailure)
<1>1. PipelineInv => AtMostOnce /\ RefsWithinTotal /\ CountsOfStoredLinks /\ LossNeedsFailure
  BY InvCounts, InvLoss DEF PipelineInv
<1> QED
  BY <1>1, PipelineInvHolds, PTL

\* In the pipeline, too, the counters implement the ledger.
THEOREM LedgerImplementedInPipeline == PipelineSpec => ImplementsLedger
<1>1. PipelineInit => Ledger!Init
  BY LedgerInit DEF PipelineInit
<1>2. PipelineInv /\ [PipelineNext]_pipeline => [Ledger!Next]_(Ledger!ledger)
  BY PipelineStep, LedgerNext DEF PipelineInv, Inv, LedgerStep, Ledger!ledger
<1> QED
  BY <1>1, <1>2, PipelineInvHolds, PTL DEF PipelineSpec, ImplementsLedger, Ledger!Spec

\* The server's half of the pipeline is the recorder, step by step.
THEOREM RecorderImplemented == PipelineSpec => Rec!Spec
<1>1. PipelineInit => Rec!Init
  BY DEF PipelineInit
<1>2. [PipelineNext]_pipeline => [Rec!Next]_(Rec!vars)
  <2> SUFFICES ASSUME [PipelineNext]_pipeline PROVE [Rec!Next]_(Rec!vars)
    OBVIOUS
  <2>1. CASE ServerStep \/ XAdd \/ Gone
    BY <2>1 DEF ServerStep, XAdd, Gone, Rec!Next, Rec!Events, Clicks
  <2>2. CASE WorkerStep \/ UNCHANGED pipeline
    BY <2>2 DEF WorkerStep, pipeline, server, Rec!vars, Rec!counters, Rec!history
  <2> QED
    BY <2>1, <2>2 DEF PipelineNext
<1> QED
  BY <1>1, <1>2, PTL DEF PipelineSpec, Rec!Spec

=============================================================================
