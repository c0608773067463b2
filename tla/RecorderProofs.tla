---------------------------- MODULE RecorderProofs ----------------------------
(* Proofs about Recorder for any finite set of producers, any callers of       *)
(* stop(), any budget and costs, and a sink that may fail.                     *)
(*                                                                            *)
(* SinkInTurn is not inductive: that nobody else closes the sink rests on      *)
(* `summary.entered` (OneCloser), and that the writer finds it open on how it  *)
(* left its last call (SinkLife).  That notify_one wakes the writer rests on   *)
(* a later caller of stop() sleeping only when nothing is enqueued any more    *)
(* (Sleepers, Ending).                                                         *)
(*                                                                            *)
(* What happens to the messages is Flow.  That the budget is exact needs the   *)
(* sum of a queue with an item put in or taken out, which CostOf computes      *)
(* recursively: a least prefix on which the claim fails refutes it (Least,     *)
(* Climb).  That none is lost needs that none reaches the writer before its    *)
(* channel while the recording is clean (Ordered), and where the recording     *)
(* and its writer stand when a queue is discarded (Phases).                    *)
EXTENDS Recorder, TLAPS, FiniteSetTheorems, SequenceTheorems, WellFoundedInduction

Shape ==
  /\ DOMAIN push = Producers /\ \A p \in Producers : DOMAIN push[p] = {"step", "message", "calls", "kept"}
  /\ DOMAIN stop = Stoppers /\ \A s \in Stoppers : DOMAIN stop[s] = {"step", "only"}
  /\ DOMAIN writer = {"step", "item", "then"}
  /\ DOMAIN sink = {"life", "channels", "file"}
  /\ DOMAIN summary = {"entered", "frozen", "published", "truncated", "incomplete", "messages", "dropped"}
  /\ DOMAIN asleep = {"items", "space"}

Closers == {s \in Stoppers : stop[s].step \in {"joining", "closing"}}

(* One caller of stop() goes on to the join and the close. *)
OneCloser ==
  /\ \A s, t \in Closers : s = t
  /\ Closers # {} => summary.entered /\ sink.life \in {"open", "failed"}
  /\ sink.life = "closed" => summary.entered
  /\ \A s \in Stoppers : stop[s].step = "closing" => writer.step = "gone"

(* The writer goes on only while the sink is open. *)
SinkLife ==
  /\ sink.life \in {"unopened", "refused", "open", "failed", "closed"}
  /\ writer.step \in {"loop", "waiting", "taken", "calling"} => sink.life = "open"
  /\ writer.step \in {"truncating", "notifying"} => sink.life = "open" \/ writer.then = "leaving"
  /\ writer.then \in {"loop", "leaving"}
  /\ sink.life \in {"unopened", "refused"} => state = "idle" /\ writer.step = "none"
  /\ sink.life = "unopened" => ~summary.entered
  /\ writer.step = "none" => sink.life \in {"unopened", "refused", "closed"}

(* Once somebody stops, the recording never runs again, and the writer is     *)
(* told to leave when it ends.                                                *)
Ending ==
  /\ \A s \in Stoppers : stop[s].step # "idle" => state # "running" /\ sink.life # "unopened"
  /\ \A p \in Producers : push[p].step # "idle" => sink.life # "unopened"
  /\ summary.entered => state \notin {"idle", "running"}
  /\ \A s \in Stoppers : stop[s].step \in {"joining", "closing", "publishing", "telling"} => summary.entered

(* Who sleeps on which condition variable. *)
Sleepers ==
  /\ asleep.items \subseteq {Writer} \cup Stoppers
  /\ asleep.space \subseteq Producers
  /\ Writer \in asleep.items => writer.step = "waiting"
  /\ \A s \in Stoppers : s \in asleep.items => stop[s].step = "waiting"

IInv ==
  /\ Shape /\ OneCloser /\ SinkLife /\ Ending /\ Sleepers
  /\ WriterWoken /\ PushesReleased /\ StoppersWoken

-------------------------------------------------------------------------------
LEMMA Initially == Init => IInv
<1> SUFFICES ASSUME Init PROVE IInv
  OBVIOUS
<1>1. Shape
  BY DEF Init, Shape
<1>2. OneCloser /\ SinkLife /\ Ending /\ Sleepers
  BY DEF Init, OneCloser, Closers, SinkLife, Ending, Sleepers
<1>3. WriterWoken /\ PushesReleased /\ StoppersWoken
  BY DEF Init, WriterWoken, PushesReleased, StoppersWoken
<1> QED BY <1>1, <1>2, <1>3 DEF IInv

LEMMA Shaped == ASSUME IInv, [Next]_vars PROVE Shape'
<1> USE DEF IInv, Shape
<1>1. CASE Start
  BY <1>1 DEF Start, StartRuns, StartFails, StartWithoutWriter
<1>2. ASSUME NEW p \in Producers, Push(p) \/ Retry(p)
      PROVE  Shape'
  <2>1. PICK m : Enter(p, m)
    BY <1>2 DEF Push, Retry
  <2>2. DOMAIN push' = Producers /\ \A q \in Producers : DOMAIN push'[q] = {"step", "message", "calls", "kept"}
    BY <2>1 DEF Enter, Admit, Returned
  <2>3. DOMAIN asleep' = {"items", "space"}
    BY <2>1 DEF Enter, Admit, Sleep, NotifyOneItem
  <2> QED BY <1>2, <2>2, <2>3 DEF Push, Retry, UnchangedByPush
<1>3. ASSUME NEW p \in Producers, Enqueue(p)
      PROVE  Shape'
  BY <1>3 DEF Enqueue, Returned, NotifyOneItem, UnchangedByPush
<1>4. ASSUME NEW p \in Producers, CopyThrows(p) \/ Refund(p) \/ PushTruncates(p) \/ PushNotifies(p)
      PROVE  Shape'
  BY <1>4 DEF CopyThrows, Refund, PushTruncates, PushNotifies, Returned, NotifyAll, UnchangedByPush
<1>5. CASE WriterStep
  BY <1>5 DEF WriterStep, Dequeue, NotifySpace, SkipMessage, WriterTruncates, WriterNotifies, Discard, WriterGoes,
              Sleep, NotifyAll, UnchangedBySink
<1>6. CASE SinkStep
  BY <1>6 DEF SinkStep, SinkAddsChannel, SinkTakes, SinkThrows, WriterGoes, UnchangedBySink
<1>7. ASSUME NEW s \in Stoppers, RequestStop(s) \/ StopStep(s) \/ CloseSink(s)
      PROVE  Shape'
  BY <1>7 DEF RequestStop, StopStep, NotifyStop, ReturnFromRequest, EnterStop, AwaitSummary, Freeze, CloseSink,
              Publish, TellSummary, StopGoes, Sleep, NotifyAll, UnchangedByStop
<1>8. CASE UNCHANGED vars
  BY <1>8 DEF vars
<1> QED BY <1>1, <1>2, <1>3, <1>4, <1>5, <1>6, <1>7, <1>8 DEF Next, PushStep

-------------------------------------------------------------------------------
(* The pushes change what the writer and the stops look at only by the sleepers *)
(* they wake and the end they bring.                                            *)
LEMMA PushesKeep ==
  ASSUME IInv, NEW p \in Producers, Push(p) \/ CopyThrows(p) \/ PushStep(p)
  PROVE  /\ UNCHANGED <<stop, writer, sink, summary>>
         /\ state' = state \/ (state \in {"running", "stopping"} /\ state' = "truncated")
<1>1. CASE PushTruncates(p)
  BY <1>1 DEF PushTruncates, Truncated, Truncates
<1>2. CASE ~PushTruncates(p)
  BY <1>2 DEF Push, CopyThrows, PushStep, Retry, Enqueue, Refund, PushNotifies, UnchangedByPush
<1> QED BY <1>1, <1>2

LEMMA Closing == ASSUME IInv, [Next]_vars PROVE OneCloser'
<1> USE DEF IInv, Shape, OneCloser, Closers
<1>1. CASE Start
  BY <1>1 DEF Start, StartRuns, StartFails, StartWithoutWriter, SinkLife, Ending
<1>2. ASSUME NEW p \in Producers, Push(p) \/ CopyThrows(p) \/ PushStep(p)
      PROVE  OneCloser'
  BY <1>2, PushesKeep
<1>3. CASE WriterStep
  <2>1. UNCHANGED <<stop, sink, summary>> /\ writer.step # "gone"
    BY <1>3 DEF WriterStep, Dequeue, NotifySpace, SkipMessage, WriterTruncates, WriterNotifies, Discard, UnchangedBySink
  <2> QED BY <2>1
<1>4. CASE SinkStep
  <2>1. UNCHANGED <<stop, summary>> /\ writer.step = "calling" /\ (sink'.life = sink.life \/ sink'.life = "failed")
    BY <1>4 DEF SinkStep, SinkAddsChannel, SinkTakes, SinkThrows, UnchangedBySink
  <2> QED BY <2>1 DEF SinkLife
<1>5. ASSUME NEW s \in Stoppers, RequestStop(s) \/ NotifyStop(s) \/ ReturnFromRequest(s) \/ AwaitSummary(s)
      PROVE  OneCloser'
  <2>1. UNCHANGED <<writer, sink, summary>>
    BY <1>5 DEF RequestStop, NotifyStop, ReturnFromRequest, AwaitSummary, UnchangedByStop
  <2>2. CASE RequestStop(s)
    BY <2>1, <2>2 DEF RequestStop
  <2>3. CASE NotifyStop(s) \/ ReturnFromRequest(s)
    BY <2>1, <2>3 DEF NotifyStop, ReturnFromRequest, StopGoes
  <2>4. CASE AwaitSummary(s)
    BY <2>1, <2>4 DEF AwaitSummary, StopGoes
  <2> QED BY <1>5, <2>2, <2>3, <2>4
<1>6. ASSUME NEW s \in Stoppers, EnterStop(s)
      PROVE  OneCloser'
  <2>1. CASE stop'[s].step = "joining"
    <3>1. ~summary.entered /\ sink.life \in {"open", "failed"}
      BY <1>6, <2>1 DEF EnterStop, StopGoes, SinkLife
    <3>2. Closers' = {s}
      BY <1>6, <2>1, <3>1 DEF EnterStop, StopGoes
    <3> QED BY <1>6, <2>1, <3>1, <3>2 DEF EnterStop, StopGoes, UnchangedByStop
  <2>2. CASE stop'[s].step # "joining"
    BY <1>6, <2>2 DEF EnterStop, StopGoes, UnchangedByStop
  <2> QED BY <2>1, <2>2
<1>7. ASSUME NEW s \in Stoppers, Freeze(s)
      PROVE  OneCloser'
  BY <1>7 DEF Freeze, StopGoes, UnchangedByStop
<1>8. ASSUME NEW s \in Stoppers, CloseSink(s)
      PROVE  OneCloser'
  BY <1>8 DEF CloseSink, StopGoes, UnchangedByStop
<1>9. ASSUME NEW s \in Stoppers, Publish(s) \/ TellSummary(s)
      PROVE  OneCloser'
  BY <1>9 DEF Publish, TellSummary, StopGoes, UnchangedByStop
<1>10. CASE UNCHANGED vars
  BY <1>10 DEF vars
<1> QED BY <1>1, <1>2, <1>3, <1>4, <1>5, <1>6, <1>7, <1>8, <1>9, <1>10 DEF Next, StopStep

LEMMA Living == ASSUME IInv, [Next]_vars PROVE SinkLife'
<1> USE DEF IInv, Shape, SinkLife
<1>1. CASE Start
  BY <1>1 DEF Start, StartRuns, StartFails, StartWithoutWriter
<1>2. ASSUME NEW p \in Producers, Push(p) \/ CopyThrows(p) \/ PushStep(p)
      PROVE  SinkLife'
  BY <1>2, PushesKeep
<1>3. CASE WriterStep
  BY <1>3 DEF WriterStep, Dequeue, NotifySpace, SkipMessage, WriterTruncates, WriterNotifies, Discard, WriterGoes,
              Truncated, Truncates, UnchangedBySink
<1>4. CASE SinkStep
  <2>1. CASE SinkAddsChannel
    BY <2>1 DEF SinkAddsChannel, WriterGoes, UnchangedBySink
  <2>2. CASE SinkTakes
    BY <2>2 DEF SinkTakes, WriterGoes, UnchangedBySink
  <2>3. CASE SinkThrows
    BY <2>3 DEF SinkThrows, UnchangedBySink
  <2> QED BY <1>4, <2>1, <2>2, <2>3 DEF SinkStep
<1>5. ASSUME NEW s \in Stoppers, RequestStop(s) \/ StopStep(s) \/ CloseSink(s)
      PROVE  SinkLife'
  <2>1. UNCHANGED writer /\ (state = "idle" => state' = "idle" \/ stop[s].step = "publishing")
    BY <1>5 DEF RequestStop, StopStep, NotifyStop, ReturnFromRequest, EnterStop, AwaitSummary, Freeze, CloseSink, Publish,
                TellSummary, UnchangedByStop
  <2>2. sink'.life = sink.life \/ (stop[s].step = "closing" /\ sink'.life = "closed")
    <3>1. CASE CloseSink(s)
      BY <3>1 DEF CloseSink
    <3>2. CASE RequestStop(s) \/ StopStep(s)
      BY <3>2 DEF RequestStop, StopStep, NotifyStop, ReturnFromRequest, EnterStop, AwaitSummary, Freeze, Publish,
                  TellSummary
    <3> QED BY <1>5, <3>1, <3>2
  <2>3. summary'.entered => summary.entered \/ stop[s].step = "entering"
    BY <1>5 DEF RequestStop, StopStep, NotifyStop, ReturnFromRequest, EnterStop, AwaitSummary, Freeze, CloseSink, Publish,
                TellSummary
  <2> QED BY <2>1, <2>2, <2>3 DEF Ending, OneCloser
<1>6. CASE UNCHANGED vars
  BY <1>6 DEF vars
<1> QED BY <1>1, <1>2, <1>3, <1>4, <1>5, <1>6 DEF Next

LEMMA Ends == ASSUME IInv, [Next]_vars PROVE Ending'
<1> USE DEF IInv, Shape, Ending
<1>1. CASE Start
  BY <1>1 DEF Start, StartRuns, StartFails, StartWithoutWriter, SinkLife
<1>2. ASSUME NEW p \in Producers, Push(p) \/ CopyThrows(p) \/ PushStep(p)
      PROVE  Ending'
  <2>1. sink.life # "unopened"
    BY <1>2 DEF Push, CopyThrows, PushStep, Retry, Enqueue, Refund, PushTruncates, PushNotifies
  <2> QED BY <1>2, <2>1, PushesKeep
<1>3. CASE WriterStep
  BY <1>3 DEF WriterStep, Dequeue, NotifySpace, SkipMessage, WriterTruncates, WriterNotifies, Discard,
              Truncated, Truncates, UnchangedBySink
<1>4. CASE SinkStep
  BY <1>4 DEF SinkStep, SinkAddsChannel, SinkTakes, SinkThrows, UnchangedBySink, SinkLife
<1>5. ASSUME NEW s \in Stoppers, RequestStop(s), sink.life # "unopened"
      PROVE  Ending'
  BY <1>5 DEF RequestStop, UnchangedByStop
<1>6. ASSUME NEW s \in Stoppers, NotifyStop(s) \/ ReturnFromRequest(s) \/ EnterStop(s) \/ AwaitSummary(s)
      PROVE  Ending'
  BY <1>6 DEF NotifyStop, ReturnFromRequest, EnterStop, AwaitSummary, StopGoes, UnchangedByStop
<1>7. ASSUME NEW s \in Stoppers, Freeze(s) \/ CloseSink(s) \/ Publish(s) \/ TellSummary(s)
      PROVE  Ending'
  BY <1>7 DEF Freeze, CloseSink, Publish, TellSummary, StopGoes, UnchangedByStop
<1>8. CASE UNCHANGED vars
  BY <1>8 DEF vars
<1> QED BY <1>1, <1>2, <1>3, <1>4, <1>5, <1>6, <1>7, <1>8 DEF Next, StopStep

LEMMA Waking ==
  \A t : /\ Awake(t) <=> t \notin asleep.items /\ t \notin asleep.space
         /\ Awake(t)' <=> t \notin asleep'.items /\ t \notin asleep'.space
  BY DEF Awake

LEMMA Dozing ==
  ASSUME Shape, NEW t, NEW cv \in {"items", "space"}, Sleep(t, cv)
  PROVE  /\ asleep'.items = IF cv = "items" THEN asleep.items \cup {t} ELSE asleep.items
         /\ asleep'.space = IF cv = "space" THEN asleep.space \cup {t} ELSE asleep.space
  BY DEF Sleep, Shape

LEMMA Sleeping == ASSUME IInv, [Next]_vars PROVE Sleepers'
<1> USE DEF IInv, Shape, Sleepers
<1>1. CASE Start
  BY <1>1, RecorderAssumption DEF Start, StartRuns, StartFails, StartWithoutWriter, SinkLife
<1>2. ASSUME NEW p \in Producers, Push(p) \/ CopyThrows(p) \/ PushStep(p)
      PROVE  Sleepers'
  <2>1. asleep'.items \subseteq asleep.items /\ asleep'.space \subseteq asleep.space \cup {p}
    <3>1. CASE Push(p) \/ Retry(p)
      <4>1. PICK m : Enter(p, m)
        BY <3>1 DEF Push, Retry
      <4> QED BY <4>1 DEF Enter, Admit, Sleep, NotifyOneItem
    <3>2. CASE Enqueue(p)
      BY <3>2 DEF Enqueue, NotifyOneItem
    <3>3. CASE CopyThrows(p) \/ Refund(p) \/ PushTruncates(p) \/ PushNotifies(p)
      BY <3>3 DEF CopyThrows, Refund, PushTruncates, PushNotifies, NotifyAll
    <3> QED BY <1>2, <3>1, <3>2, <3>3 DEF PushStep
  <2> QED BY <1>2, <2>1, PushesKeep
<1>3. CASE WriterStep
  <2>1. UNCHANGED stop
    BY <1>3 DEF WriterStep, Dequeue, NotifySpace, SkipMessage, WriterTruncates, WriterNotifies, Discard, UnchangedBySink
  <2>2. CASE Dequeue
    <3>1. Writer \notin asleep.items
      BY <2>2, Waking DEF Dequeue
    <3>2. asleep' = asleep \/ (writer'.step = "waiting" /\ Sleep(Writer, "items"))
      BY <2>2 DEF Dequeue, WriterGoes
    <3> QED BY <2>1, <3>1, <3>2, Dozing, RecorderAssumption
  <2>3. CASE NotifySpace \/ SkipMessage \/ WriterTruncates \/ WriterNotifies \/ Discard
    BY <2>1, <2>3 DEF NotifySpace, SkipMessage, WriterTruncates, WriterNotifies, Discard, WriterGoes, NotifyAll,
                      UnchangedBySink
  <2> QED BY <1>3, <2>2, <2>3 DEF WriterStep
<1>4. CASE SinkStep
  BY <1>4 DEF SinkStep, SinkAddsChannel, SinkTakes, SinkThrows, WriterGoes, UnchangedBySink
<1>5. ASSUME NEW s \in Stoppers, RequestStop(s) \/ StopStep(s) \/ CloseSink(s)
      PROVE  Sleepers'
  <2>1. UNCHANGED writer
    BY <1>5 DEF RequestStop, StopStep, NotifyStop, ReturnFromRequest, EnterStop, AwaitSummary, Freeze, CloseSink, Publish,
                TellSummary, UnchangedByStop
  <2>2. CASE RequestStop(s)
    BY <2>1, <2>2 DEF RequestStop
  <2>3. CASE NotifyStop(s) \/ ReturnFromRequest(s)
    BY <2>1, <2>3 DEF NotifyStop, ReturnFromRequest, StopGoes, NotifyAll
  <2>4. CASE EnterStop(s)
    <3>1. s \notin asleep.items
      BY <2>4 DEF EnterStop
    <3>2. asleep' = asleep \/ (stop'[s].step = "waiting" /\ Sleep(s, "items"))
      BY <2>4 DEF EnterStop, StopGoes
    <3>3. \A t \in Stoppers : t # s => stop'[t] = stop[t]
      BY <2>4 DEF EnterStop, StopGoes
    <3> QED BY <2>1, <3>1, <3>2, <3>3, Dozing, RecorderAssumption
  <2>5. CASE AwaitSummary(s)
    <3>1. s \notin asleep.items
      BY <2>5, Waking DEF AwaitSummary
    <3>2. asleep' = asleep \/ (stop'[s].step = "waiting" /\ Sleep(s, "items"))
      BY <2>5 DEF AwaitSummary, StopGoes
    <3>3. \A t \in Stoppers : t # s => stop'[t] = stop[t]
      BY <2>5 DEF AwaitSummary, StopGoes
    <3> QED BY <2>1, <3>1, <3>2, <3>3, Dozing, RecorderAssumption
  <2>6. CASE Freeze(s) \/ CloseSink(s) \/ Publish(s) \/ TellSummary(s)
    BY <2>1, <2>6 DEF Freeze, CloseSink, Publish, TellSummary, StopGoes
  <2> QED BY <1>5, <2>2, <2>3, <2>4, <2>5, <2>6 DEF StopStep
<1>6. CASE UNCHANGED vars
  BY <1>6 DEF vars
<1> QED BY <1>1, <1>2, <1>3, <1>4, <1>5, <1>6 DEF Next

-------------------------------------------------------------------------------
(* The three wake-ups. *)

(* What makeRoomFor makes of an empty queue. *)
LEMMA NoRoomInEmpty == \A cost : MakeRoomFor(<<>>, cost).queue = <<>>
<1> TAKE cost
<1> DEFINE base == [queue |-> <<>>, freed |-> 0, evicted |-> 0]
           next(r) == IF MustEvict(r, cost) THEN EvictLargest(r) ELSE r
           g == [k \in 0 .. Len(<<>>) |-> base]
           h == CHOOSE f : f = [k \in 0 .. Len(<<>>) |-> IF k = 0 THEN base ELSE next(f[k - 1])]
<1>1. g = [k \in 0 .. Len(<<>>) |-> IF k = 0 THEN base ELSE next(g[k - 1])]
  <2>1. \A k \in 0 .. Len(<<>>) : k = 0
    OBVIOUS
  <2> QED BY <2>1
<1>2. h = [k \in 0 .. Len(<<>>) |-> IF k = 0 THEN base ELSE next(h[k - 1])]
  BY <1>1
<1>3. MakeRoomFor(<<>>, cost) = h[Len(<<>>)]
  BY DEF MakeRoomFor
<1>4. h[Len(<<>>)] = base
  <2> HIDE DEF h, next, base
  <2>1. Len(<<>>) = 0 /\ 0 \in 0 .. Len(<<>>)
    OBVIOUS
  <2> QED BY <1>2, <2>1
<1> QED BY <1>3, <1>4

LEMMA PushesKeepNotice ==
  ASSUME IInv, NEW p \in Producers, Push(p) \/ CopyThrows(p) \/ PushStep(p)
  PROVE  /\ \A q \in Producers \ {p} : push'[q] = push[q]
         /\ Notifying /\ push[p].step # "notifying" => Notifying'
<1> USE DEF IInv, Shape
<1>1. \A q \in Producers \ {p} : push'[q] = push[q]
  <2>1. CASE Push(p) \/ Retry(p)
    <3>1. PICK m : Enter(p, m)
      BY <2>1 DEF Push, Retry
    <3> QED BY <3>1 DEF Enter, Admit, Returned
  <2>2. CASE CopyThrows(p) \/ Enqueue(p) \/ Refund(p) \/ PushTruncates(p) \/ PushNotifies(p)
    BY <2>2 DEF CopyThrows, Enqueue, Refund, PushTruncates, PushNotifies, Returned
  <2> QED BY <2>1, <2>2 DEF PushStep
<1>2. UNCHANGED <<stop, writer>>
  BY PushesKeep
<1> QED BY <1>1, <1>2 DEF Notifying

LEMMA PushesWakeWriter ==
  ASSUME IInv, NEW p \in Producers, Push(p) \/ CopyThrows(p) \/ PushStep(p)
  PROVE  WriterWoken'
<1> USE DEF IInv, Shape, Sleepers
<1>1. UNCHANGED <<stop, writer>>
  BY PushesKeep
<1>2. state = "running" => asleep.items \subseteq {Writer}
  BY DEF Ending
<1> SUFFICES ASSUME writer.step = "waiting", Writer \in asleep'.items, queue' # <<>> \/ leave', ~Notifying'
             PROVE  FALSE
  <2>1. Writer \notin asleep'.space
    BY Sleeping, RecorderAssumption DEF Next
  <2> QED BY <1>1, <2>1, Waking DEF WriterWoken
<1>3. push[p].step # "notifying" => ~Notifying
  BY PushesKeepNotice
<1>4. Writer \in asleep.items /\ push[p].step # "notifying" => queue = <<>> /\ ~leave
  BY <1>3, Waking DEF WriterWoken
<1>5. CASE Push(p) \/ Retry(p)
  <2>1. PICK m : Enter(p, m)
    BY <1>5 DEF Push, Retry
  <2>2. push[p].step # "notifying" /\ leave' = leave
    BY <1>5 DEF Push, Retry, UnchangedByPush
  <2>3. CASE ~(state = "running" /\ Admit(p, m))
    BY <1>4, <2>1, <2>2, <2>3 DEF Enter, Sleep
  <2>4. CASE state = "running" /\ Admit(p, m)
    <3>1. m.binding \in channels /\ asleep' = asleep
      BY <1>2, <2>4 DEF Admit, NotifyOneItem
    <3>2. queue = <<>> /\ ~leave
      BY <1>4, <2>2, <3>1
    <3>3. queue' = <<>>
      BY <2>4, <3>1, <3>2, NoRoomInEmpty DEF Admit
    <3> QED BY <2>2, <3>2, <3>3
  <2> QED BY <2>3, <2>4
<1>6. CASE Enqueue(p)
  BY <1>2, <1>4, <1>6 DEF Enqueue, NotifyOneItem, UnchangedByPush
<1>7. CASE CopyThrows(p) \/ Refund(p)
  BY <1>4, <1>7 DEF CopyThrows, Refund, UnchangedByPush
<1>8. CASE PushTruncates(p)
  BY <1>4, <1>8 DEF PushTruncates, Truncated, Notifying
<1>9. CASE PushNotifies(p)
  BY <1>9 DEF PushNotifies, NotifyAll
<1> QED BY <1>5, <1>6, <1>7, <1>8, <1>9 DEF PushStep

LEMMA StopsKeepNotice ==
  ASSUME IInv, NEW s \in Stoppers, StopStep(s) \/ CloseSink(s), ~NotifyStop(s)
  PROVE  /\ UNCHANGED <<queue, leave, writer, push>>
         /\ \A t \in Stoppers \ {s} : stop'[t] = stop[t]
         /\ stop[s].step # "notifying"
         /\ Notifying => Notifying'
         /\ asleep'.items \subseteq asleep.items \cup {s} /\ asleep'.space \subseteq asleep.space
<1> USE DEF IInv, Shape
<1>1. UNCHANGED <<queue, leave, writer, push>>
  BY DEF StopStep, ReturnFromRequest, EnterStop, AwaitSummary, Freeze, CloseSink, Publish, TellSummary, UnchangedByStop
<1>2. \A t \in Stoppers \ {s} : stop'[t] = stop[t]
  BY DEF StopStep, ReturnFromRequest, EnterStop, AwaitSummary, Freeze, CloseSink, Publish, TellSummary, StopGoes
<1>3. stop[s].step # "notifying"
  BY DEF StopStep, ReturnFromRequest, EnterStop, AwaitSummary, Freeze, CloseSink, Publish, TellSummary
<1>4. Notifying => Notifying'
  BY <1>1, <1>2, <1>3 DEF Notifying
<1>5. asleep'.items \subseteq asleep.items \cup {s} /\ asleep'.space \subseteq asleep.space
  BY DEF StopStep, ReturnFromRequest, EnterStop, AwaitSummary, Freeze, CloseSink, Publish, TellSummary, Sleep
<1> QED BY <1>1, <1>2, <1>3, <1>4, <1>5

LEMMA WritersWaking == ASSUME IInv, [Next]_vars PROVE WriterWoken'
<1> USE DEF IInv, Shape
<1>1. CASE Start
  BY <1>1 DEF Start, StartRuns, StartFails, StartWithoutWriter, SinkLife, WriterWoken
<1>2. ASSUME NEW p \in Producers, Push(p) \/ CopyThrows(p) \/ PushStep(p)
      PROVE  WriterWoken'
  BY <1>2, PushesWakeWriter
<1>3. CASE WriterStep
  <2>1. CASE Dequeue
    BY <2>1 DEF Dequeue, WriterGoes, WriterWoken
  <2>2. CASE NotifySpace \/ SkipMessage \/ WriterTruncates \/ WriterNotifies \/ Discard
    <3>1. writer'.step # "waiting"
      BY <2>2 DEF NotifySpace, SkipMessage, WriterTruncates, WriterNotifies, Discard, WriterGoes, SinkLife
    <3> QED BY <3>1 DEF WriterWoken
  <2> QED BY <1>3, <2>1, <2>2 DEF WriterStep
<1>4. CASE SinkStep
  <2>1. writer'.step # "waiting"
    BY <1>4 DEF SinkStep, SinkAddsChannel, SinkTakes, SinkThrows, WriterGoes
  <2> QED BY <2>1 DEF WriterWoken
<1>5. ASSUME NEW s \in Stoppers, RequestStop(s)
      PROVE  WriterWoken'
  <2>1. UNCHANGED <<asleep, queue, writer, push>>
    BY <1>5 DEF RequestStop, UnchangedByStop
  <2>2. CASE state = "running"
    <3>1. stop'[s].step = "notifying"
      BY <1>5, <2>2 DEF RequestStop
    <3> QED BY <3>1 DEF WriterWoken, Notifying
  <2>3. CASE state # "running"
    <3>1. (leave' <=> leave) /\ (Notifying => Notifying')
      BY <1>5, <2>1, <2>3 DEF RequestStop, Notifying
    <3> QED BY <2>1, <3>1, Waking DEF WriterWoken
  <2> QED BY <2>2, <2>3
<1>6. ASSUME NEW s \in Stoppers, NotifyStop(s)
      PROVE  WriterWoken'
  BY <1>6, Waking DEF NotifyStop, NotifyAll, WriterWoken
<1>7. ASSUME NEW s \in Stoppers, StopStep(s) \/ CloseSink(s), ~NotifyStop(s)
      PROVE  WriterWoken'
  <2>1. UNCHANGED <<queue, leave, writer>> /\ (Notifying => Notifying')
    BY <1>7, StopsKeepNotice
  <2>2. ~Awake(Writer)' => ~Awake(Writer)
    BY <1>7, StopsKeepNotice, Waking, RecorderAssumption
  <2> QED BY <2>1, <2>2 DEF WriterWoken
<1>8. CASE UNCHANGED vars
  BY <1>8 DEF vars, WriterWoken, Notifying, Awake
<1> QED BY <1>1, <1>2, <1>3, <1>4, <1>5, <1>6, <1>7, <1>8 DEF Next

LEMMA Releasing == ASSUME IInv, [Next]_vars PROVE PushesReleased'
<1> USE DEF IInv, Shape
<1> DEFINE Asleep(p) == push[p].step = "waiting" /\ ~Awake(p)
           Told == Notifying \/ writer.step = "taken"
<1>1. \A p \in Producers : Asleep(p) /\ state # "running" => Told
  BY DEF PushesReleased
<1>2. SUFFICES \A p \in Producers : Asleep(p)' /\ state' # "running" => Told'
  BY DEF PushesReleased
<1>3. CASE Start
  <2>1. \A p \in Producers : push'[p].step = "idle"
    BY <1>3 DEF Start, StartRuns, StartFails, StartWithoutWriter, Ending
  <2> QED BY <2>1
<1>4. ASSUME NEW q \in Producers, Push(q) \/ CopyThrows(q) \/ PushStep(q),
             NEW p \in Producers, Asleep(p)', state' # "running"
      PROVE  Told'
  <2>1. UNCHANGED writer /\ (push[q].step # "notifying" => (Notifying => Notifying'))
    BY <1>4, PushesKeep, PushesKeepNotice
  <2>2. CASE Push(q) \/ Retry(q)
    <3>1. state # "running" /\ state' = state
      BY <1>4, <2>2 DEF Push, Retry, UnchangedByPush
    <3>2. PICK m : Enter(q, m)
      BY <2>2 DEF Push, Retry
    <3>3. push' = Returned(q, m, "stop") /\ asleep' = asleep
      BY <3>1, <3>2 DEF Enter
    <3>4. p # q /\ push'[p] = push[p]
      BY <1>4, <3>3 DEF Returned
    <3>5. push[q].step # "notifying"
      BY <2>2 DEF Push, Retry
    <3> QED BY <1>1, <1>4, <2>1, <3>1, <3>3, <3>4, <3>5, Waking
  <2>3. CASE Enqueue(q) \/ CopyThrows(q) \/ Refund(q)
    <3>1. state # "running" /\ state' = state /\ push[q].step # "notifying"
      BY <1>4, <2>3 DEF Enqueue, CopyThrows, Refund, UnchangedByPush
    <3>2. push'[q].step # "waiting"
      BY <2>3 DEF Enqueue, CopyThrows, Refund, Returned
    <3>3. p # q /\ push'[p] = push[p]
      BY <1>4, <3>2, PushesKeepNotice
    <3>4. asleep'.items \subseteq asleep.items /\ asleep'.space \subseteq asleep.space
      BY <2>3 DEF Enqueue, CopyThrows, Refund, NotifyOneItem
    <3> QED BY <1>1, <1>4, <2>1, <3>1, <3>3, <3>4, Waking
  <2>4. CASE PushTruncates(q)
    <3>1. CASE Truncates
      BY <2>4, <3>1 DEF PushTruncates, Notifying
    <3>2. CASE ~Truncates
      <4>1. push'[q].step # "waiting" /\ state' = state /\ asleep' = asleep /\ push[q].step # "notifying"
        BY <2>4, <3>2 DEF PushTruncates, Truncated, Returned
      <4>2. p # q /\ push'[p] = push[p]
        BY <1>4, <4>1, PushesKeepNotice
      <4> QED BY <1>1, <1>4, <2>1, <4>1, <4>2, Waking
    <3> QED BY <3>1, <3>2
  <2>5. CASE PushNotifies(q)
    BY <1>4, <2>5, Waking DEF PushNotifies, NotifyAll
  <2> QED BY <1>4, <2>2, <2>3, <2>4, <2>5 DEF PushStep
<1>5. ASSUME WriterStep, NEW p \in Producers, Asleep(p)', state' # "running"
      PROVE  Told'
  <2>1. UNCHANGED <<push, stop>>
    BY <1>5 DEF WriterStep, Dequeue, NotifySpace, SkipMessage, WriterTruncates, WriterNotifies, Discard, UnchangedBySink
  <2>2. p \notin asleep.items
    BY RecorderAssumption DEF Sleepers
  <2>3. CASE Dequeue
    <3>1. state' = state /\ writer.step \in {"loop", "waiting"}
      BY <2>3 DEF Dequeue
    <3>2. asleep'.space = asleep.space /\ p \notin asleep'.items
      BY <2>2, <2>3, Dozing, RecorderAssumption DEF Dequeue
    <3> QED BY <1>1, <1>5, <2>1, <2>2, <3>1, <3>2, Waking DEF Notifying
  <2>4. CASE NotifySpace
    <3>1. p \notin asleep'.items /\ p \notin asleep'.space
      BY <2>2, <2>4 DEF NotifySpace
    <3> QED BY <1>5, <3>1, Waking
  <2>5. CASE SkipMessage \/ Discard
    <3>1. state' = state /\ asleep' = asleep /\ writer.step \in {"calling", "leaving"}
      BY <2>5 DEF SkipMessage, Discard, UnchangedBySink
    <3> QED BY <1>1, <1>5, <2>1, <3>1, Waking DEF Notifying
  <2>6. CASE WriterTruncates
    <3>1. asleep' = asleep /\ writer.step = "truncating"
      BY <2>6 DEF WriterTruncates
    <3>2. state' = state \/ writer'.step = "notifying"
      BY <2>6 DEF WriterTruncates, Truncated, WriterGoes
    <3> QED BY <1>1, <1>5, <2>1, <3>1, <3>2, Waking DEF Notifying
  <2>7. CASE WriterNotifies
    BY <1>5, <2>7, Waking DEF WriterNotifies, NotifyAll
  <2> QED BY <1>5, <2>3, <2>4, <2>5, <2>6, <2>7 DEF WriterStep
<1>6. ASSUME SinkStep, NEW p \in Producers, Asleep(p)', state' # "running"
      PROVE  Told'
  <2>1. UNCHANGED <<state, asleep, push, stop>> /\ writer.step = "calling"
    BY <1>6 DEF SinkStep, SinkAddsChannel, SinkTakes, SinkThrows, UnchangedBySink
  <2> QED BY <1>1, <1>6, <2>1, Waking DEF Notifying
<1>7. ASSUME NEW s \in Stoppers, RequestStop(s), NEW p \in Producers, Asleep(p)', state' # "running"
      PROVE  Told'
  <2>1. UNCHANGED <<asleep, writer, push>>
    BY <1>7 DEF RequestStop, UnchangedByStop
  <2>2. CASE state = "running"
    <3>1. stop'[s].step = "notifying"
      BY <1>7, <2>2 DEF RequestStop
    <3> QED BY <3>1 DEF Notifying
  <2>3. CASE state # "running"
    <3>1. Notifying => Notifying'
      BY <1>7, <2>1, <2>3 DEF RequestStop, Notifying
    <3> QED BY <1>1, <1>7, <2>1, <2>3, <3>1, Waking
  <2> QED BY <2>2, <2>3
<1>8. ASSUME NEW s \in Stoppers, StopStep(s) \/ CloseSink(s), NEW p \in Producers, Asleep(p)', state' # "running"
      PROVE  Told'
  <2>1. CASE NotifyStop(s)
    BY <1>8, <2>1, Waking DEF NotifyStop, NotifyAll
  <2>2. CASE ~NotifyStop(s)
    <3>1. UNCHANGED <<writer, push>> /\ (Notifying => Notifying')
      BY <1>8, <2>2, StopsKeepNotice
    <3>2. ~Awake(p)
      BY <1>8, <2>2, StopsKeepNotice, Waking, RecorderAssumption
    <3>3. state # "running"
      BY <1>8, <2>2 DEF StopStep, ReturnFromRequest, EnterStop, AwaitSummary, Freeze, CloseSink, Publish, TellSummary,
                        Ending
    <3> QED BY <1>1, <1>8, <3>1, <3>2, <3>3
  <2> QED BY <2>1, <2>2
<1>9. CASE UNCHANGED vars
  BY <1>1, <1>9 DEF vars, Notifying, Awake
<1> QED BY <1>3, <1>4, <1>5, <1>6, <1>7, <1>8, <1>9 DEF Next

LEMMA Publishing == ASSUME IInv, [Next]_vars PROVE StoppersWoken'
<1> USE DEF IInv, Shape
<1> DEFINE Asleep(s) == stop[s].step = "waiting" /\ ~Awake(s)
           Telling == \E t \in Stoppers : stop[t].step = "telling"
<1>1. \A s \in Stoppers : Asleep(s) /\ summary.published => Telling
  BY DEF StoppersWoken
<1>2. SUFFICES \A s \in Stoppers : Asleep(s)' /\ summary'.published => Telling'
  BY DEF StoppersWoken
<1>3. CASE Start
  <2>1. \A s \in Stoppers : stop'[s].step = "idle"
    BY <1>3 DEF Start, StartRuns, StartFails, StartWithoutWriter, Ending
  <2> QED BY <2>1
<1>4. ASSUME NEW p \in Producers, Push(p) \/ CopyThrows(p) \/ PushStep(p), NEW s \in Stoppers, Asleep(s)',
             summary'.published
      PROVE  Telling'
  <2>1. UNCHANGED <<stop, summary>>
    BY <1>4, PushesKeep
  <2>2. asleep'.items \subseteq asleep.items
    <3>1. CASE Push(p) \/ Retry(p)
      <4>1. PICK m : Enter(p, m)
        BY <3>1 DEF Push, Retry
      <4> QED BY <4>1 DEF Enter, Admit, Sleep, NotifyOneItem
    <3>2. CASE Enqueue(p) \/ CopyThrows(p) \/ Refund(p) \/ PushTruncates(p) \/ PushNotifies(p)
      BY <3>2 DEF Enqueue, CopyThrows, Refund, PushTruncates, PushNotifies, NotifyAll, NotifyOneItem
    <3> QED BY <1>4, <3>1, <3>2 DEF PushStep
  <2>3. s \notin asleep'.space
    BY <1>4, Sleeping, RecorderAssumption DEF Sleepers, Next
  <2> QED BY <1>1, <1>4, <2>1, <2>2, <2>3, Waking
<1>5. ASSUME WriterStep \/ SinkStep, NEW s \in Stoppers, Asleep(s)', summary'.published
      PROVE  Telling'
  <2>1. UNCHANGED <<stop, summary>>
    BY <1>5 DEF WriterStep, Dequeue, NotifySpace, SkipMessage, WriterTruncates, WriterNotifies, Discard, SinkStep,
                SinkAddsChannel, SinkTakes, SinkThrows, UnchangedBySink
  <2>2. asleep'.items \subseteq asleep.items \cup {Writer} /\ asleep'.space \subseteq asleep.space
    BY <1>5, Dozing DEF WriterStep, Dequeue, NotifySpace, SkipMessage, WriterTruncates, WriterNotifies, Discard, SinkStep,
                SinkAddsChannel, SinkTakes, SinkThrows, UnchangedBySink, NotifyAll
  <2> QED BY <1>1, <1>5, <2>1, <2>2, Waking, RecorderAssumption
<1>6. ASSUME NEW t \in Stoppers, RequestStop(t), NEW s \in Stoppers, Asleep(s)', summary'.published
      PROVE  Telling'
  <2>1. UNCHANGED <<summary, asleep>> /\ stop[t].step = "idle" /\ stop'[t].step # "waiting"
    BY <1>6 DEF RequestStop
  <2>2. \A u \in Stoppers \ {t} : stop'[u] = stop[u]
    BY <1>6 DEF RequestStop
  <2> QED BY <1>1, <1>6, <2>1, <2>2, Waking
<1>7. ASSUME NEW t \in Stoppers, NotifyStop(t), NEW s \in Stoppers, Asleep(s)', summary'.published
      PROVE  Telling'
  BY <1>7, Waking DEF NotifyStop, NotifyAll
<1>8. ASSUME NEW t \in Stoppers, StopStep(t) \/ CloseSink(t), ~NotifyStop(t),
             NEW s \in Stoppers, Asleep(s)', summary'.published
      PROVE  Telling'
  <2>1. \A u \in Stoppers \ {t} : stop'[u] = stop[u]
    BY <1>8, StopsKeepNotice
  <2>2. CASE Publish(t)
    BY <2>2 DEF Publish, StopGoes
  <2>3. CASE TellSummary(t)
    <3>1. s \notin asleep'.items /\ s \notin asleep'.space
      BY <2>3, RecorderAssumption DEF TellSummary, Sleepers
    <3> QED BY <1>8, <3>1, Waking
  <2>4. CASE ~Publish(t) /\ ~TellSummary(t)
    <3>1. summary.published /\ stop[t].step # "telling"
      BY <1>8, <2>4 DEF StopStep, ReturnFromRequest, EnterStop, AwaitSummary, Freeze, CloseSink
    <3>2. stop'[t].step # "waiting" /\ asleep' = asleep
      <4>1. CASE ReturnFromRequest(t)
        BY <4>1 DEF ReturnFromRequest, StopGoes
      <4>2. CASE EnterStop(t)
        BY <3>1, <4>2 DEF EnterStop, StopGoes
      <4>3. CASE AwaitSummary(t)
        BY <3>1, <4>3 DEF AwaitSummary, StopGoes
      <4>4. CASE Freeze(t)
        BY <4>4 DEF Freeze, StopGoes
      <4>5. CASE CloseSink(t)
        BY <4>5 DEF CloseSink, StopGoes
      <4> QED BY <1>8, <2>4, <4>1, <4>2, <4>3, <4>4, <4>5 DEF StopStep
    <3> QED BY <1>1, <1>8, <2>1, <3>1, <3>2, Waking
  <2> QED BY <2>2, <2>3, <2>4
<1>9. CASE UNCHANGED vars
  BY <1>1, <1>9 DEF vars, Awake
<1> QED BY <1>3, <1>4, <1>5, <1>6, <1>7, <1>8, <1>9 DEF Next

-------------------------------------------------------------------------------
LEMMA Invariance == Spec => []IInv
<1>1. IInv /\ [Next]_vars => IInv'
  BY Shaped, Closing, Living, Ends, Sleeping, WritersWaking, Releasing, Publishing DEF IInv
<1> QED BY Initially, <1>1, PTL DEF Spec

(* The sink needs no lock of its own: the writer calls it only while it is     *)
(* open, never after it failed, and the one close comes after the writer left, *)
(* for any number of producers and of threads that call stop().                *)
THEOREM SinkAlone == Spec => []SinkInTurn
<1>1. IInv => SinkInTurn
  BY DEF IInv, OneCloser, Closers, SinkLife, SinkInTurn
<1> QED BY Invariance, <1>1, PTL

(* notify_one never leaves the writer asleep on an item or on its call to      *)
(* leave, although the later callers of stop() wait on the same condition      *)
(* variable: they only sleep once nothing is enqueued any more.                *)
THEOREM WriterHears == Spec => []WriterWoken
<1>1. IInv => WriterWoken
  BY DEF IInv
<1> QED BY Invariance, <1>1, PTL

(* A push that waits for space is woken when the recording ends, however it    *)
(* ends: a stop, a rejected write or a copy that throws.                       *)
THEOREM PushesHear == Spec => []PushesReleased
<1>1. IInv => PushesReleased
  BY DEF IInv
<1> QED BY Invariance, <1>1, PTL

(* A later caller of stop() is woken when the first one has published the      *)
(* summary.                                                                    *)
THEOREM StoppersHear == Spec => []StoppersWoken
<1>1. IInv => StoppersWoken
  BY DEF IInv
<1> QED BY Invariance, <1>1, PTL

-------------------------------------------------------------------------------
(* Sums.  What the recursive definitions compute follows from the least number *)
(* for which it would not: Least, and Climb, which is induction up to n.       *)

Less == {pair \in Nat \X Nat : pair[1] < pair[2]}

LEMMA Least ==
  ASSUME NEW T, T \subseteq Nat, T # {}
  PROVE  \E x \in T : \A y \in T : x <= y
<1>1. IsWellFoundedOn(OpToRel(<, Nat), Nat)
  BY NatLessThanWellFounded
<1>2. OpToRel(<, Nat) = Less
  BY DEF OpToRel, Less
<1>3. IsWellFoundedOn(Less, Nat)
  BY <1>1, <1>2
<1>4. \E x \in T : \A y \in T : ~(<<y, x>> \in Less)
  BY <1>3, WFMin
<1>5. PICK x \in T : \A y \in T : ~(<<y, x>> \in Less)
  BY <1>4
<1>6. ASSUME NEW y \in T PROVE x <= y
  <2>1. x \in Nat /\ y \in Nat /\ ~(<<y, x>> \in Less)
    BY <1>5
  <2>2. ~(y < x)
    BY <2>1 DEF Less
  <2> QED BY <2>1, <2>2
<1> QED BY <1>6

LEMMA Climb ==
  ASSUME NEW n \in Nat, NEW S, 0 \in S, \A i \in 1..n : i - 1 \in S => i \in S
  PROVE  \A i \in 0..n : i \in S
<1> DEFINE T == {i \in 0..n : i \notin S}
<1> SUFFICES ASSUME T # {} PROVE FALSE
  OBVIOUS
<1>1. T \subseteq Nat
  OBVIOUS
<1>2. PICK x \in T : \A y \in T : x <= y
  <2> HIDE DEF T
  <2> QED BY <1>1, Least
<1>3. x # 0 /\ x - 1 \in 0..n
  OBVIOUS
<1>4. x - 1 \notin T
  BY <1>2, <1>3
<1> QED BY <1>3, <1>4

Message == [kind : {"message"}, binding : Bindings, cost : Costs, from : Producers, n : Nat]
Add == [kind : {"add"}, binding : Bindings]
Item == Message \cup Add

Weight(item) == IF IsMessage(item) THEN item.cost ELSE 0

LEMMA Weights == \A item \in Item : /\ Weight(item) \in Nat
                                    /\ IsMessage(item) => item \in Message /\ item.cost = Weight(item) /\ Weight(item) > 0
                                    /\ ~IsMessage(item) => item \in Add /\ Weight(item) = 0
<1> SUFFICES ASSUME NEW item \in Item
             PROVE  /\ Weight(item) \in Nat
                    /\ IsMessage(item) => item \in Message /\ item.cost = Weight(item) /\ Weight(item) > 0
                    /\ ~IsMessage(item) => item \in Add /\ Weight(item) = 0
  OBVIOUS
<1>1. CASE item \in Message
  <2>1. IsMessage(item) /\ item.cost \in Costs
    BY <1>1 DEF Message, IsMessage
  <2>2. Costs \subseteq Nat \ {0}
    BY RecorderAssumption
  <2>3. item.cost \in Nat \ {0}
    BY <2>1, <2>2
  <2>4. item.cost \in Nat /\ item.cost > 0
    BY <2>3
  <2> QED BY <1>1, <2>1, <2>4 DEF Weight
<1>2. CASE item \in Add
  <2>1. ~IsMessage(item)
    BY <1>2 DEF Add, IsMessage
  <2> QED BY <1>2, <2>1 DEF Weight
<1> QED BY <1>1, <1>2 DEF Item

(* `sum` adds the weights of q up. *)
Adds(sum, q) ==
  /\ sum[0] = 0
  /\ \A i \in 1..Len(q) : sum[i] = sum[i - 1] + Weight(q[i])
  /\ \A i \in 0..Len(q) : sum[i] \in Nat

LEMMA Costing ==
  ASSUME NEW q \in Seq(Item)
  PROVE  \E sum : Adds(sum, q) /\ CostOf(q) = sum[Len(q)]
<1> DEFINE Upto(f, n) == f = [i \in 0 .. n |-> IF i = 0 THEN 0 ELSE f[i - 1] + Weight(q[i])]
           S == {n \in 0..Len(q) : \E f : Upto(f, n)}
           sum == CHOOSE f : Upto(f, Len(q))
<1>1. Len(q) \in Nat
  OBVIOUS
<1>2. 0 \in S
  <2> DEFINE f == [i \in 0..0 |-> 0]
  <2>1. f = [i \in 0..0 |-> IF i = 0 THEN 0 ELSE f[i - 1] + Weight(q[i])]
    OBVIOUS
  <2>2. \E h : Upto(h, 0)
    <3> HIDE DEF f
    <3> QED BY <2>1
  <2> QED BY <1>1, <2>2
<1>3. ASSUME NEW n \in 1..Len(q), n - 1 \in S PROVE n \in S
  <2>1. PICK f : Upto(f, n - 1)
    BY <1>3
  <2> DEFINE g == [i \in 0..n |-> IF i = n THEN f[n - 1] + Weight(q[n]) ELSE f[i]]
  <2>2. \A i \in 0..n - 1 : f[i] = IF i = 0 THEN 0 ELSE f[i - 1] + Weight(q[i])
    BY <2>1
  <2>3. \A i \in 0..n : g[i] = IF i = 0 THEN 0 ELSE g[i - 1] + Weight(q[i])
    <3> SUFFICES ASSUME NEW i \in 0..n PROVE g[i] = IF i = 0 THEN 0 ELSE g[i - 1] + Weight(q[i])
      OBVIOUS
    <3>1. CASE i = n
      BY <3>1
    <3>2. CASE i # n
      BY <2>2, <3>2
    <3> QED BY <3>1, <3>2
  <2>4. Upto(g, n)
    <3>1. g = [i \in 0..n |-> g[i]]
      OBVIOUS
    <3> HIDE DEF g
    <3> QED BY <2>3, <3>1
  <2>5. \E h : Upto(h, n)
    <3> HIDE DEF g
    <3> QED BY <2>4
  <2> QED BY <2>5
<1>4. \E f : Upto(f, Len(q))
  <2>1. \A n \in 0..Len(q) : n \in S
    <3> HIDE DEF S
    <3> QED BY <1>1, <1>2, <1>3, Climb
  <2> QED BY <1>1, <2>1
<1>5. Upto(sum, Len(q))
  BY <1>4
<1>6. CostOf(q) = sum[Len(q)]
  BY DEF CostOf, Weight
<1> HIDE DEF sum
<1>7. sum[0] = 0 /\ \A i \in 1..Len(q) : sum[i] = sum[i - 1] + Weight(q[i])
  <2>1. \A i \in 0..Len(q) : sum[i] = IF i = 0 THEN 0 ELSE sum[i - 1] + Weight(q[i])
    BY <1>5
  <2> QED BY <1>1, <2>1
<1>8. \A i \in 0..Len(q) : sum[i] \in Nat
  <2> DEFINE R == {i \in 0..Len(q) : sum[i] \in Nat}
  <2>1. 0 \in R
    BY <1>1, <1>7
  <2>2. ASSUME NEW i \in 1..Len(q), i - 1 \in R PROVE i \in R
    <3>1. Weight(q[i]) \in Nat
      BY Weights
    <3> QED BY <1>7, <2>2, <3>1
  <2>3. \A i \in 0..Len(q) : i \in R
    <3> HIDE DEF R
    <3> QED BY <1>1, <2>1, <2>2, Climb
  <2> QED BY <2>3
<1> QED BY <1>6, <1>7, <1>8 DEF Adds

LEMMA CostType == ASSUME NEW q \in Seq(Item) PROVE CostOf(q) \in Nat
<1>1. Len(q) \in Nat
  OBVIOUS
<1> QED BY <1>1, Costing DEF Adds

LEMMA CostEmpty == CostOf(<<>>) = 0
<1>1. <<>> \in Seq(Item) /\ Len(<<>>) = 0
  OBVIOUS
<1> QED BY <1>1, Costing DEF Adds

LEMMA CostAppend ==
  ASSUME NEW q \in Seq(Item), NEW x \in Item
  PROVE  CostOf(Append(q, x)) = CostOf(q) + Weight(x)
<1> DEFINE r == Append(q, x)
<1>1. r \in Seq(Item) /\ Len(r) = Len(q) + 1 /\ Len(q) \in Nat /\ r[Len(q) + 1] = x /\ \A i \in 1..Len(q) : r[i] = q[i]
  OBVIOUS
<1> HIDE DEF r
<1>2. PICK sum : Adds(sum, q) /\ CostOf(q) = sum[Len(q)]
  BY Costing
<1>3. PICK more : Adds(more, r) /\ CostOf(r) = more[Len(r)]
  BY <1>1, Costing
<1>4. \A i \in 0..Len(q) : more[i] = sum[i]
  <2> DEFINE S == {i \in 0..Len(q) : more[i] = sum[i]}
  <2>1. 0 \in S
    BY <1>1, <1>2, <1>3 DEF Adds
  <2>2. ASSUME NEW i \in 1..Len(q), i - 1 \in S PROVE i \in S
    BY <1>1, <1>2, <1>3, <2>2 DEF Adds
  <2>3. \A i \in 0..Len(q) : i \in S
    <3> HIDE DEF S
    <3> QED BY <1>1, <2>1, <2>2, Climb
  <2> QED BY <2>3
<1>5. more[Len(q) + 1] = more[Len(q)] + Weight(x)
  <2>1. more[Len(q) + 1] = more[(Len(q) + 1) - 1] + Weight(r[Len(q) + 1])
    BY <1>1, <1>3 DEF Adds
  <2> QED BY <1>1, <2>1
<1>6. CostOf(r) = CostOf(q) + Weight(x)
  BY <1>1, <1>2, <1>3, <1>4, <1>5
<1> QED BY <1>6 DEF r

(* r is q without what was at k. *)
Drops(q, k, r) ==
  /\ r \in Seq(Item) /\ Len(r) = Len(q) - 1
  /\ \A i \in 1..k - 1 : r[i] = q[i]
  /\ \A i \in k..Len(r) : r[i] = q[i + 1]

LEMMA CostDrops ==
  ASSUME NEW q \in Seq(Item), NEW k \in 1..Len(q), NEW r, Drops(q, k, r)
  PROVE  CostOf(q) = CostOf(r) + Weight(q[k])
<1>1. /\ Len(q) \in Nat /\ r \in Seq(Item) /\ Len(r) \in Nat /\ Len(r) = Len(q) - 1
      /\ \A i \in 1..k - 1 : r[i] = q[i]
      /\ \A i \in k..Len(r) : r[i] = q[i + 1]
  BY DEF Drops
<1>2. PICK sum : Adds(sum, q) /\ CostOf(q) = sum[Len(q)]
  BY Costing
<1>3. PICK less : Adds(less, r) /\ CostOf(r) = less[Len(r)]
  BY <1>1, Costing
<1>4. Weight(q[k]) \in Nat
  BY Weights
<1> DEFINE S == {i \in 0..Len(r) : sum[IF i < k THEN i ELSE i + 1] = less[i] + IF i < k THEN 0 ELSE Weight(q[k])}
<1>5. 0 \in S
  <2>1. less[0] = 0 /\ sum[0] = 0
    BY <1>2, <1>3 DEF Adds
  <2>2. CASE k = 1
    <3>1. sum[1] = sum[1 - 1] + Weight(q[1])
      BY <1>1, <1>2, <2>2 DEF Adds
    <3> QED BY <1>1, <1>4, <2>1, <2>2, <3>1
  <2>3. CASE k # 1
    BY <1>1, <2>1, <2>3
  <2> QED BY <2>2, <2>3
<1>6. ASSUME NEW i \in 1..Len(r), i - 1 \in S PROVE i \in S
  <2>1. less[i] = less[i - 1] + Weight(r[i]) /\ less[i - 1] \in Nat /\ Weight(r[i]) \in Nat
    <3>1. r[i] \in Item
      BY <1>1
    <3>2. Weight(r[i]) \in Nat
      BY <3>1, Weights
    <3>3. i - 1 \in 0..Len(r)
      BY <1>1
    <3> QED BY <1>3, <3>2, <3>3 DEF Adds
  <2>2. CASE i < k
    <3>1. r[i] = q[i] /\ sum[i] = sum[i - 1] + Weight(q[i])
      BY <1>1, <1>2, <2>2 DEF Adds
    <3> QED BY <1>6, <2>1, <2>2, <3>1
  <2>3. CASE i = k
    <3>1. r[i] = q[i + 1] /\ i + 1 \in 1..Len(q)
      BY <1>1, <2>3
    <3>2. sum[i + 1] = sum[(i + 1) - 1] + Weight(q[i + 1])
      BY <1>2, <3>1 DEF Adds
    <3>3. sum[i] = sum[i - 1] + Weight(q[i])
      BY <1>2, <2>3 DEF Adds
    <3>4. sum[i - 1] = less[i - 1] + 0
      BY <1>6, <2>3
    <3> QED BY <1>4, <2>1, <2>3, <3>1, <3>2, <3>3, <3>4
  <2>4. CASE i > k
    <3>1. r[i] = q[i + 1] /\ i + 1 \in 1..Len(q)
      BY <1>1, <2>4
    <3>2. sum[i + 1] = sum[(i + 1) - 1] + Weight(q[i + 1])
      BY <1>2, <3>1 DEF Adds
    <3>3. sum[(i - 1) + 1] = less[i - 1] + Weight(q[k])
      BY <1>6, <2>4
    <3> QED BY <1>4, <2>1, <2>4, <3>1, <3>2, <3>3
  <2> QED BY <2>2, <2>3, <2>4
<1>7. Len(r) \in S
  <2>1. \A i \in 0..Len(r) : i \in S
    <3> HIDE DEF S
    <3> QED BY <1>1, <1>5, <1>6, Climb
  <2> QED BY <1>1, <2>1
<1>8. less[Len(r)] \in Nat
  BY <1>1, <1>3 DEF Adds
<1>9. CASE k <= Len(r)
  <2>1. sum[Len(r) + 1] = less[Len(r)] + Weight(q[k])
    BY <1>1, <1>7, <1>9
  <2> QED BY <1>1, <1>2, <1>3, <2>1
<1>10. CASE k = Len(q)
  <2>1. sum[Len(r)] = less[Len(r)] + 0
    BY <1>1, <1>7, <1>10
  <2>2. sum[k] = sum[k - 1] + Weight(q[k])
    BY <1>2 DEF Adds
  <2> QED BY <1>1, <1>2, <1>3, <1>8, <1>10, <2>1, <2>2
<1> QED BY <1>1, <1>9, <1>10

LEMMA CostBounds ==
  ASSUME NEW q \in Seq(Item), NEW i \in 1..Len(q)
  PROVE  Weight(q[i]) <= CostOf(q)
<1>1. Len(q) \in Nat
  OBVIOUS
<1>2. PICK sum : Adds(sum, q) /\ CostOf(q) = sum[Len(q)]
  BY Costing
<1> DEFINE S == {j \in 0..Len(q) : j >= i => Weight(q[i]) <= sum[j]}
<1>3. 0 \in S
  BY <1>1
<1>4. ASSUME NEW j \in 1..Len(q), j - 1 \in S PROVE j \in S
  <2>1. sum[j] = sum[j - 1] + Weight(q[j]) /\ sum[j - 1] \in Nat
    BY <1>2 DEF Adds
  <2>2. Weight(q[j]) \in Nat /\ Weight(q[i]) \in Nat
    BY Weights
  <2> QED BY <1>4, <2>1, <2>2
<1>5. Len(q) \in S
  <2>1. \A j \in 0..Len(q) : j \in S
    <3> HIDE DEF S
    <3> QED BY <1>1, <1>3, <1>4, Climb
  <2> QED BY <1>1, <2>1
<1> QED BY <1>1, <1>2, <1>5

LEMMA CostNone ==
  ASSUME NEW q \in Seq(Item), Messages(q) = {}
  PROVE  CostOf(q) = 0
<1>1. Len(q) \in Nat
  OBVIOUS
<1>2. PICK sum : Adds(sum, q) /\ CostOf(q) = sum[Len(q)]
  BY Costing
<1> DEFINE S == {j \in 0..Len(q) : sum[j] = 0}
<1>3. 0 \in S
  BY <1>1, <1>2 DEF Adds
<1>4. ASSUME NEW j \in 1..Len(q), j - 1 \in S PROVE j \in S
  <2>1. sum[j] = sum[j - 1] + Weight(q[j])
    BY <1>2 DEF Adds
  <2>2. Weight(q[j]) = 0
    BY DEF Messages, Weight
  <2> QED BY <1>4, <2>1, <2>2
<1>5. Len(q) \in S
  <2>1. \A j \in 0..Len(q) : j \in S
    <3> HIDE DEF S
    <3> QED BY <1>1, <1>3, <1>4, Climb
  <2> QED BY <1>1, <2>1
<1> QED BY <1>2, <1>5

(* How many messages there are. *)
LEMMA MessagesFinite ==
  ASSUME NEW q \in Seq(Item)
  PROVE  IsFiniteSet(Messages(q)) /\ Cardinality(Messages(q)) \in Nat
<1>1. Messages(q) \in SUBSET (1..Len(q)) /\ Len(q) \in Nat
  BY DEF Messages
<1>2. IsFiniteSet(1..Len(q))
  BY <1>1, FS_Interval
<1> HIDE DEF Messages
<1>3. IsFiniteSet(Messages(q))
  BY <1>1, <1>2, FS_Subset
<1> QED BY <1>3, FS_CardinalityType

LEMMA MessagesAppend ==
  ASSUME NEW q \in Seq(Item), NEW x \in Item
  PROVE  Cardinality(Messages(Append(q, x))) = Cardinality(Messages(q)) + IF IsMessage(x) THEN 1 ELSE 0
<1> DEFINE r == Append(q, x)
<1>1. Len(r) = Len(q) + 1 /\ Len(q) \in Nat /\ r[Len(q) + 1] = x /\ \A i \in 1..Len(q) : r[i] = q[i]
  OBVIOUS
<1> HIDE DEF r
<1>2. Messages(r) = IF IsMessage(x) THEN Messages(q) \cup {Len(q) + 1} ELSE Messages(q)
  BY <1>1 DEF Messages
<1>3. Len(q) + 1 \notin Messages(q)
  BY <1>1 DEF Messages
<1>4. IsFiniteSet(Messages(q)) /\ Cardinality(Messages(q)) \in Nat
  BY MessagesFinite
<1>5. Cardinality(Messages(q) \cup {Len(q) + 1}) = Cardinality(Messages(q)) + 1
  BY <1>3, <1>4, FS_AddElement
<1>6. Cardinality(Messages(r)) = Cardinality(Messages(q)) + IF IsMessage(x) THEN 1 ELSE 0
  BY <1>2, <1>4, <1>5
<1> QED BY <1>6 DEF r

LEMMA MessagesDrop ==
  ASSUME NEW q \in Seq(Item), NEW k \in 1..Len(q), NEW r, Drops(q, k, r)
  PROVE  Cardinality(Messages(q)) = Cardinality(Messages(r)) + IF IsMessage(q[k]) THEN 1 ELSE 0
<1>1. /\ Len(q) \in Nat /\ r \in Seq(Item) /\ Len(r) \in Nat /\ Len(r) = Len(q) - 1
      /\ \A i \in 1..k - 1 : r[i] = q[i]
      /\ \A i \in k..Len(r) : r[i] = q[i + 1]
  BY DEF Drops
<1> DEFINE kept == Messages(q) \ {k}
           to(i) == IF i < k THEN i ELSE i + 1
           f == [i \in Messages(r) |-> to(i)]
<1>2. \A i \in Messages(r) : to(i) \in kept
  <2> SUFFICES ASSUME NEW i \in Messages(r) PROVE to(i) \in kept
    OBVIOUS
  <2>1. i \in 1..Len(r) /\ IsMessage(r[i])
    BY DEF Messages
  <2>2. to(i) \in 1..Len(q) /\ to(i) # k /\ r[i] = q[to(i)]
    BY <1>1, <2>1
  <2> QED BY <2>1, <2>2 DEF Messages
<1>3. \A j \in kept : \E i \in Messages(r) : to(i) = j
  <2> SUFFICES ASSUME NEW j \in kept PROVE \E i \in Messages(r) : to(i) = j
    OBVIOUS
  <2>1. j \in 1..Len(q) /\ IsMessage(q[j]) /\ j # k
    BY DEF Messages
  <2>2. CASE j < k
    <3>1. j \in 1..Len(r) /\ r[j] = q[j] /\ to(j) = j
      BY <1>1, <2>1, <2>2
    <3>2. j \in Messages(r)
      BY <2>1, <3>1 DEF Messages
    <3> QED BY <3>1, <3>2
  <2>3. CASE j > k
    <3>1. j - 1 \in 1..Len(r) /\ j - 1 \in k..Len(r) /\ (j - 1) + 1 = j /\ ~(j - 1 < k)
      BY <1>1, <2>1, <2>3
    <3>3. r[j - 1] = q[j] /\ to(j - 1) = j
      BY <1>1, <3>1
    <3>2. j - 1 \in Messages(r)
      BY <2>1, <3>1, <3>3 DEF Messages
    <3> QED BY <3>2, <3>3
  <2> QED BY <2>1, <2>2, <2>3
<1>4. \A i, j \in Messages(r) : to(i) = to(j) => i = j
  BY <1>1 DEF Messages
<1>5. f \in Bijection(Messages(r), kept)
  <2> HIDE DEF kept
  <2>1. f \in [Messages(r) -> kept]
    BY <1>2
  <2>2. f \in Injection(Messages(r), kept)
    BY <1>4, <2>1 DEF Injection, IsInjective
  <2>3. f \in Surjection(Messages(r), kept)
    BY <1>3, <2>1 DEF Surjection
  <2> QED BY <2>2, <2>3 DEF Bijection
<1>6. IsFiniteSet(Messages(r)) /\ IsFiniteSet(Messages(q)) /\ Cardinality(Messages(q)) \in Nat
  BY <1>1, MessagesFinite
<1>7. Cardinality(kept) = Cardinality(Messages(r))
  <2> HIDE DEF kept, f
  <2> QED BY <1>5, <1>6, FS_Bijection DEF ExistsBijection
<1>8. Cardinality(kept) = IF k \in Messages(q) THEN Cardinality(Messages(q)) - 1 ELSE Cardinality(Messages(q))
  BY <1>6, FS_RemoveElement
<1>9. k \in Messages(q) <=> IsMessage(q[k])
  BY DEF Messages
<1> HIDE DEF kept
<1> QED BY <1>6, <1>7, <1>8, <1>9

LEMMA Removing ==
  ASSUME NEW q \in Seq(Item), NEW k \in 1..Len(q)
  PROVE  Drops(q, k, RemoveIndex(q, k))
<1> DEFINE a == SubSeq(q, 1, k - 1)
           b == SubSeq(q, k + 1, Len(q))
<1>1. Len(q) \in Nat
  OBVIOUS
<1>2. a \in Seq(Item) /\ Len(a) = k - 1 /\ \A i \in 1..k - 1 : a[i] = q[i]
  <2>1. \A i \in 1..k - 1 : i \in 1..Len(q)
    BY <1>1
  <2>2. a \in Seq(Item) /\ Len(a) = IF 1 <= k - 1 THEN (k - 1) - 1 + 1 ELSE 0
    BY <1>1, <2>1
  <2> QED BY <1>1, <2>1, <2>2
<1>3. b \in Seq(Item) /\ Len(b) = Len(q) - k /\ \A i \in 1..Len(q) - k : b[i] = q[k + i]
  <2>1. \A i \in k + 1..Len(q) : i \in 1..Len(q)
    BY <1>1
  <2>2. b \in Seq(Item) /\ Len(b) = IF k + 1 <= Len(q) THEN Len(q) - (k + 1) + 1 ELSE 0
    BY <1>1, <2>1
  <2> QED BY <1>1, <2>1, <2>2
<1> HIDE DEF a, b
<1>4. /\ a \o b \in Seq(Item) /\ Len(a \o b) = Len(a) + Len(b)
      /\ \A i \in 1..Len(a) + Len(b) : (a \o b)[i] = IF i <= Len(a) THEN a[i] ELSE b[i - Len(a)]
  BY <1>2, <1>3, ConcatProperties
<1>5. RemoveIndex(q, k) = a \o b
  BY DEF RemoveIndex, a, b
<1>6. Len(a \o b) = Len(q) - 1
  BY <1>1, <1>2, <1>3, <1>4
<1>7. ASSUME NEW i \in 1..k - 1 PROVE (a \o b)[i] = q[i]
  BY <1>1, <1>2, <1>3, <1>4
<1>8. ASSUME NEW i \in k..Len(a \o b) PROVE (a \o b)[i] = q[i + 1]
  <2>1. i \in 1..Len(a) + Len(b) /\ ~(i <= Len(a)) /\ i - Len(a) \in 1..Len(q) - k /\ k + (i - Len(a)) = i + 1
    BY <1>1, <1>2, <1>3, <1>6
  <2>2. (a \o b)[i] = b[i - Len(a)]
    BY <1>4, <2>1
  <2>3. b[i - Len(a)] = q[k + (i - Len(a))]
    BY <1>3, <2>1
  <2> QED BY <2>1, <2>2, <2>3
<1> HIDE DEF RemoveIndex
<1>9. Drops(q, k, a \o b)
  BY <1>4, <1>6, <1>7, <1>8 DEF Drops
<1> QED BY <1>5, <1>9

LEMMA TakingHead ==
  ASSUME NEW q \in Seq(Item), q # <<>>
  PROVE  1 \in 1..Len(q) /\ q[1] = Head(q) /\ Head(q) \in Item /\ Drops(q, 1, Tail(q)) /\ CostOf(<<Head(q)>>) = Weight(q[1])
<1>1. Len(q) \in Nat /\ Len(q) # 0 /\ q[1] = Head(q)
  OBVIOUS
<1>2. /\ Tail(q) \in Seq(Item) /\ Len(Tail(q)) = Len(q) - 1
      /\ \A i \in 1..Len(Tail(q)) : Tail(q)[i] = q[i + 1]
  BY HeadTailProperties
<1>3. 1 \in 1..Len(q) /\ Head(q) \in Item
  BY <1>1
<1>4. Drops(q, 1, Tail(q))
  BY <1>2 DEF Drops
<1>5. <<>> \in Seq(Item) /\ <<Head(q)>> = Append(<<>>, Head(q))
  OBVIOUS
<1>6. CostOf(Append(<<>>, Head(q))) = CostOf(<<>>) + Weight(Head(q))
  BY <1>3, <1>5, CostAppend
<1>7. Weight(Head(q)) \in Nat
  BY <1>3, Weights
<1> QED BY <1>1, <1>3, <1>4, <1>5, <1>6, <1>7, CostEmpty

(* What w counts over S, one by one. *)
Units(w, S) == UNION {{x} \X (1..w[x]) : x \in S}
Number(w, S) == Cardinality(Units(w, S))

LEMMA UnitsFinite ==
  ASSUME NEW w, NEW S, IsFiniteSet(S), \A x \in S : w[x] \in Nat
  PROVE  IsFiniteSet(Units(w, S)) /\ Number(w, S) \in Nat
<1> DEFINE of(x) == {x} \X (1..w[x])
           rows == {of(x) : x \in S}
           f == [x \in S |-> of(x)]
<1>1. f \in Surjection(S, rows)
  BY DEF Surjection
<1> HIDE DEF f
<1>2. IsFiniteSet(rows)
  <2> HIDE DEF rows
  <2> QED BY <1>1, FS_Surjection
<1>3. ASSUME NEW x \in S PROVE IsFiniteSet(of(x))
  <2>1. w[x] \in Nat
    OBVIOUS
  <2>2. IsFiniteSet(1..w[x])
    BY <2>1, FS_Interval
  <2>3. IsFiniteSet({x})
    BY FS_Singleton
  <2> QED BY <2>2, <2>3, FS_Product, Zenon
<1>4. \A r \in rows : IsFiniteSet(r)
  BY <1>3
<1>5. Units(w, S) = UNION rows
  BY DEF Units
<1> HIDE DEF rows
<1>6. IsFiniteSet(Units(w, S))
  BY <1>2, <1>4, <1>5, FS_UNION
<1> QED BY <1>6, FS_CardinalityType DEF Number

LEMMA NumberNone == \A w : Number(w, {}) = 0
<1> SUFFICES ASSUME NEW w PROVE Number(w, {}) = 0
  OBVIOUS
<1>1. Units(w, {}) = {}
  BY DEF Units
<1> QED BY <1>1, FS_EmptySet DEF Number

LEMMA NumberAdds ==
  ASSUME NEW w, NEW S, IsFiniteSet(S), NEW x \in S, \A y \in S : w[y] \in Nat
  PROVE  Number(w, S) = Number(w, S \ {x}) + w[x]
<1> DEFINE rest == S \ {x}
           own == {x} \X (1..w[x])
           f == [i \in 1..w[x] |-> <<x, i>>]
<1>1. IsFiniteSet(rest) /\ \A y \in rest : w[y] \in Nat
  BY FS_Subset
<1>2. w[x] \in Nat /\ IsFiniteSet(1..w[x]) /\ Cardinality(1..w[x]) = w[x]
  <2>1. w[x] \in Nat
    OBVIOUS
  <2>2. Cardinality(1..w[x]) = IF 1 > w[x] THEN 0 ELSE w[x] - 1 + 1
    BY <2>1, FS_Interval
  <2>3. IsFiniteSet(1..w[x])
    BY <2>1, FS_Interval
  <2> QED BY <2>1, <2>2, <2>3
<1>3. f \in Bijection(1..w[x], own)
  <2>1. f \in [1..w[x] -> own]
    OBVIOUS
  <2>2. \A i, j \in 1..w[x] : f[i] = f[j] => i = j
    OBVIOUS
  <2>3. \A u \in own : \E i \in 1..w[x] : f[i] = u
    OBVIOUS
  <2> HIDE DEF f
  <2>4. f \in Injection(1..w[x], own)
    BY <2>1, <2>2 DEF Injection, IsInjective
  <2>5. f \in Surjection(1..w[x], own)
    BY <2>1, <2>3 DEF Surjection
  <2> QED BY <2>4, <2>5 DEF Bijection
<1> HIDE DEF f
<1>4. IsFiniteSet(own) /\ Cardinality(own) = w[x]
  <2> HIDE DEF own
  <2> QED BY <1>2, <1>3, FS_Bijection DEF ExistsBijection
<1>5. Units(w, S) = Units(w, rest) \cup own
  BY DEF Units
<1>6. Units(w, rest) \cap own = {}
  BY DEF Units
<1>7. IsFiniteSet(Units(w, rest)) /\ Number(w, rest) \in Nat
  <2> HIDE DEF rest
  <2> QED BY <1>1, UnitsFinite
<1> HIDE DEF rest, own
<1>8. Cardinality(Units(w, rest) \cup own) = Cardinality(Units(w, rest)) + Cardinality(own) - Cardinality(Units(w, rest) \cap own)
  BY <1>4, <1>7, FS_Union
<1>9. Cardinality(Units(w, rest) \cap own) = 0
  BY <1>6, FS_EmptySet
<1>10. Number(w, S) = Number(w, rest) + w[x]
  BY <1>2, <1>4, <1>5, <1>7, <1>8, <1>9 DEF Number
<1> QED BY <1>10 DEF rest

LEMMA NumberSame ==
  ASSUME NEW v, NEW w, NEW S, \A x \in S : v[x] = w[x]
  PROVE  Number(v, S) = Number(w, S)
<1>1. Units(v, S) = Units(w, S)
  BY DEF Units
<1> QED BY <1>1 DEF Number

(* MapThenSumSet's recursion, over the subsets of S. *)
Some(s) == CHOOSE x \in s : TRUE
Folds(h, w, S) == h = [s \in SUBSET S |-> IF s = {} THEN 0 ELSE w[Some(s)] + h[s \ {Some(s)}]]

LEMMA SomeIn == ASSUME NEW s, s # {} PROVE Some(s) \in s
BY DEF Some

LEMMA FoldExists ==
  ASSUME NEW w, NEW S, IsFiniteSet(S), \A x \in S : w[x] \in Nat
  PROVE  \E h : Folds(h, w, S)
<1> DEFINE h == [s \in SUBSET S |-> Number(w, s)]
<1>1. ASSUME NEW s \in SUBSET S PROVE h[s] = IF s = {} THEN 0 ELSE w[Some(s)] + h[s \ {Some(s)}]
  <2>1. CASE s = {}
    BY <2>1, NumberNone
  <2>2. CASE s # {}
    <3>1. Some(s) \in s
      BY <2>2, SomeIn
    <3>2. IsFiniteSet(s) /\ \A x \in s : w[x] \in Nat
      BY FS_Subset
    <3>3. Number(w, s) = Number(w, s \ {Some(s)}) + w[Some(s)]
      BY <3>1, <3>2, NumberAdds
    <3>4. s \ {Some(s)} \in SUBSET S /\ IsFiniteSet(s \ {Some(s)}) /\ \A x \in s \ {Some(s)} : w[x] \in Nat
      BY <3>2, FS_Subset
    <3>5. Number(w, s \ {Some(s)}) \in Nat
      BY <3>4, UnitsFinite
    <3>6. h[s] = Number(w, s) /\ h[s \ {Some(s)}] = Number(w, s \ {Some(s)})
      BY <3>4
    <3>7. w[Some(s)] \in Nat
      BY <3>1, <3>2
    <3> QED BY <2>2, <3>3, <3>5, <3>6, <3>7
  <2> QED BY <2>1, <2>2
<1>2. h = [s \in SUBSET S |-> h[s]]
  OBVIOUS
<1> HIDE DEF h
<1>3. Folds(h, w, S)
  BY <1>1, <1>2 DEF Folds
<1> QED BY <1>3

LEMMA FoldUnique ==
  ASSUME NEW w, NEW S, IsFiniteSet(S), \A x \in S : w[x] \in Nat, NEW h, Folds(h, w, S)
  PROVE  h[S] = Number(w, S)
<1>1. \A s \in SUBSET S : h[s] = IF s = {} THEN 0 ELSE w[Some(s)] + h[s \ {Some(s)}]
  BY DEF Folds
<1>2. \A s \in SUBSET S : IsFiniteSet(s) /\ Cardinality(s) \in Nat
  BY FS_Subset, FS_CardinalityType
<1> DEFINE bad == {s \in SUBSET S : h[s] # Number(w, s)}
           T == {Cardinality(s) : s \in bad}
<1> SUFFICES ASSUME bad # {} PROVE FALSE
  OBVIOUS
<1>3. T \subseteq Nat /\ T # {}
  BY <1>2
<1>4. PICK n \in T : \A m \in T : n <= m
  <2> HIDE DEF T
  <2> QED BY <1>3, Least
<1>5. PICK s \in bad : n = Cardinality(s)
  OBVIOUS
<1>6. \A r \in bad : Cardinality(s) <= Cardinality(r)
  BY <1>4, <1>5
<1>7. s \in SUBSET S /\ h[s] # Number(w, s) /\ s # {}
  BY <1>1, <1>5, NumberNone
<1> DEFINE r == s \ {Some(s)}
<1>8. Some(s) \in s /\ r \in SUBSET S
  BY <1>7, SomeIn
<1>9. Cardinality(r) = Cardinality(s) - 1
  BY <1>2, <1>7, <1>8, FS_RemoveElement
<1>10. h[r] = Number(w, r)
  <2>1. Cardinality(s) \in Nat
    BY <1>2, <1>7
  <2>2. r \notin bad
    BY <1>6, <1>9, <2>1
  <2> QED BY <1>8, <2>2
<1>11. Number(w, s) = Number(w, r) + w[Some(s)]
  <2>1. IsFiniteSet(s) /\ \A x \in s : w[x] \in Nat
    BY <1>2, <1>7
  <2> QED BY <1>8, <2>1, NumberAdds
<1>12. Number(w, r) \in Nat /\ w[Some(s)] \in Nat
  <2>1. IsFiniteSet(r) /\ \A x \in r : w[x] \in Nat
    BY <1>2, <1>8
  <2> QED BY <1>7, <1>8, <2>1, UnitsFinite
<1>13. h[s] = w[Some(s)] + h[r]
  BY <1>1, <1>7
<1> HIDE DEF r
<1> QED BY <1>7, <1>10, <1>11, <1>12, <1>13

(* The two sums, over any `push`. *)
KeptSum(Q) == MapThenSumSet(LAMBDA p : Q[p].kept, Producers)
CostSum(Q, S) == MapThenSumSet(LAMBDA p : Q[p].message.cost, S)

LEMMA KeptIs ==
  ASSUME NEW Q, \A p \in Producers : Q[p].kept \in Nat
  PROVE  KeptSum(Q) = Number([p \in Producers |-> Q[p].kept], Producers)
<1> DEFINE w == [p \in Producers |-> Q[p].kept]
           recurs(h) == h = [s \in SUBSET Producers |-> IF s = {} THEN 0 ELSE Q[Some(s)].kept + h[s \ {Some(s)}]]
           h == CHOOSE h : recurs(h)
<1>1. IsFiniteSet(Producers) /\ \A p \in Producers : w[p] \in Nat
  BY RecorderAssumption
<1>2. \A p \in Producers : w[p] = Q[p].kept
  OBVIOUS
<1>3. KeptSum(Q) = h[Producers]
  BY DEF KeptSum, MapThenSumSet, MapThenFoldSet, Some
<1> HIDE DEF w
<1>4. \A g : recurs(g) <=> Folds(g, w, Producers)
  <2> SUFFICES ASSUME NEW g PROVE recurs(g) <=> Folds(g, w, Producers)
    OBVIOUS
  <2>1. \A s \in SUBSET Producers : s # {} => Some(s) \in Producers
    BY SomeIn
  <2>2. \A s \in SUBSET Producers : (IF s = {} THEN 0 ELSE Q[Some(s)].kept + g[s \ {Some(s)}]) = (IF s = {} THEN 0 ELSE w[Some(s)] + g[s \ {Some(s)}])
    BY <1>2, <2>1
  <2> QED BY <2>2 DEF Folds
<1> HIDE DEF recurs
<1>5. recurs(h)
  BY <1>1, <1>4, FoldExists
<1> HIDE DEF h
<1>6. h[Producers] = Number(w, Producers)
  BY <1>1, <1>4, <1>5, FoldUnique
<1> QED BY <1>3, <1>6 DEF w

LEMMA CostIs ==
  ASSUME NEW Q, NEW S, S \subseteq Producers, \A p \in S : Q[p].message.cost \in Nat
  PROVE  CostSum(Q, S) = Number([p \in Producers |-> Q[p].message.cost], S)
<1> DEFINE w == [p \in Producers |-> Q[p].message.cost]
           recurs(h) == h = [s \in SUBSET S |-> IF s = {} THEN 0 ELSE Q[Some(s)].message.cost + h[s \ {Some(s)}]]
           h == CHOOSE h : recurs(h)
<1>1. IsFiniteSet(S) /\ \A p \in S : w[p] \in Nat
  BY RecorderAssumption, FS_Subset
<1>2. \A p \in S : w[p] = Q[p].message.cost
  OBVIOUS
<1>3. CostSum(Q, S) = h[S]
  BY DEF CostSum, MapThenSumSet, MapThenFoldSet, Some
<1> HIDE DEF w
<1>4. \A g : recurs(g) <=> Folds(g, w, S)
  <2> SUFFICES ASSUME NEW g PROVE recurs(g) <=> Folds(g, w, S)
    OBVIOUS
  <2>1. \A s \in SUBSET S : s # {} => Some(s) \in S
    BY SomeIn
  <2>2. \A s \in SUBSET S : (IF s = {} THEN 0 ELSE Q[Some(s)].message.cost + g[s \ {Some(s)}]) = (IF s = {} THEN 0 ELSE w[Some(s)] + g[s \ {Some(s)}])
    BY <1>2, <2>1
  <2> QED BY <2>2 DEF Folds
<1> HIDE DEF recurs
<1>5. recurs(h)
  BY <1>1, <1>4, FoldExists
<1> HIDE DEF h
<1>6. h[S] = Number(w, S)
  BY <1>1, <1>4, <1>5, FoldUnique
<1> QED BY <1>3, <1>6 DEF w

Holding(Q) == {p \in Producers : Q[p].step \in {"copying", "refunding", "unwinding"}}
HeldCost(Q) == CostSum(Q, Holding(Q))
Priced(Q) == \A p \in Holding(Q) : Q[p].message.cost \in Nat

LEMMA KeptChanges ==
  ASSUME NEW Q, NEW R, NEW p \in Producers, \A q \in Producers : Q[q].kept \in Nat,
         \A q \in Producers : q # p => R[q].kept = Q[q].kept, R[p].kept \in Nat
  PROVE  KeptSum(Q) \in Nat /\ KeptSum(R) = KeptSum(Q) + R[p].kept - Q[p].kept
<1> DEFINE v == [q \in Producers |-> Q[q].kept]
           w == [q \in Producers |-> R[q].kept]
           rest == Producers \ {p}
<1>1. (\A q \in Producers : v[q] \in Nat /\ w[q] \in Nat) /\ v[p] = Q[p].kept /\ w[p] = R[p].kept /\ \A q \in rest : v[q] = w[q]
  OBVIOUS
<1>2. KeptSum(Q) = Number(v, Producers)
  BY KeptIs
<1>3. KeptSum(R) = Number(w, Producers)
  <2>1. \A q \in Producers : R[q].kept \in Nat
    OBVIOUS
  <2> QED BY <2>1, KeptIs
<1> HIDE DEF v, w
<1>4. IsFiniteSet(Producers)
  BY RecorderAssumption
<1>5. Number(v, Producers) = Number(v, rest) + v[p] /\ Number(w, Producers) = Number(w, rest) + w[p]
  BY <1>1, <1>4, NumberAdds
<1>6. Number(v, rest) = Number(w, rest)
  <2> HIDE DEF rest
  <2> QED BY <1>1, NumberSame
<1>7. Number(v, rest) \in Nat
  <2>1. IsFiniteSet(rest) /\ \A q \in rest : v[q] \in Nat
    BY <1>1, <1>4, FS_Subset
  <2> HIDE DEF rest
  <2> QED BY <2>1, UnitsFinite
<1> HIDE DEF rest
<1> QED BY <1>1, <1>2, <1>3, <1>5, <1>6, <1>7

LEMMA KeptAlike ==
  ASSUME NEW Q, NEW R, \A q \in Producers : Q[q].kept \in Nat, \A q \in Producers : R[q].kept = Q[q].kept
  PROVE  KeptSum(R) = KeptSum(Q)
<1> DEFINE v == [q \in Producers |-> Q[q].kept]
           w == [q \in Producers |-> R[q].kept]
<1>1. KeptSum(Q) = Number(v, Producers)
  BY KeptIs
<1>2. KeptSum(R) = Number(w, Producers)
  <2>1. \A q \in Producers : R[q].kept \in Nat
    OBVIOUS
  <2> QED BY <2>1, KeptIs
<1>3. w = v
  OBVIOUS
<1> QED BY <1>1, <1>2, <1>3

LEMMA HoldsMore ==
  ASSUME NEW Q, NEW R, NEW p \in Producers, Priced(Q), Priced(R), p \notin Holding(Q), p \in Holding(R),
         \A q \in Producers : q # p => R[q] = Q[q]
  PROVE  /\ HeldCost(R) = HeldCost(Q) + R[p].message.cost
         /\ Cardinality(Holding(R)) = Cardinality(Holding(Q)) + 1
<1> DEFINE v == [q \in Producers |-> Q[q].message.cost]
           w == [q \in Producers |-> R[q].message.cost]
<1>1. Holding(Q) \subseteq Producers /\ Holding(R) \subseteq Producers
  BY DEF Holding
<1>2. Holding(R) = Holding(Q) \cup {p} /\ Holding(R) \ {p} = Holding(Q)
  BY DEF Holding
<1>3. IsFiniteSet(Holding(Q)) /\ IsFiniteSet(Holding(R))
  BY <1>1, RecorderAssumption, FS_Subset
<1>4. (\A q \in Holding(R) : w[q] \in Nat) /\ w[p] = R[p].message.cost /\ \A q \in Holding(Q) : v[q] = w[q]
  BY <1>1, <1>2 DEF Priced
<1> DEFINE had == Holding(Q)
           has == Holding(R)
<1>5. HeldCost(Q) = Number(v, had) /\ HeldCost(R) = Number(w, has)
  <2>1. HeldCost(Q) = Number(v, had)
    BY <1>1, CostIs DEF HeldCost, Priced
  <2>2. HeldCost(R) = Number(w, has)
    BY <1>1, CostIs DEF HeldCost, Priced
  <2> QED BY <2>1, <2>2
<1> HIDE DEF v, w, had, has
<1>6. IsFiniteSet(has) /\ p \in has /\ has \ {p} = had /\ (\A q \in has : w[q] \in Nat) /\ \A q \in had : v[q] = w[q]
  BY <1>2, <1>3, <1>4 DEF had, has
<1>7. Number(w, has) = Number(w, had) + w[p]
  BY <1>6, NumberAdds
<1>8. Number(v, had) = Number(w, had)
  BY <1>6, NumberSame
<1>9. Cardinality(had \cup {p}) = Cardinality(had) + 1
  <2>1. IsFiniteSet(had) /\ p \notin had
    BY <1>3 DEF had
  <2> QED BY <2>1, FS_AddElement, FS_CardinalityType
<1>10. Cardinality(Holding(R)) = Cardinality(Holding(Q)) + 1
  BY <1>2, <1>9 DEF had
<1> QED BY <1>4, <1>5, <1>7, <1>8, <1>10

LEMMA HoldsAlike ==
  ASSUME NEW Q, NEW R, Priced(Q), Holding(R) = Holding(Q), \A q \in Holding(Q) : R[q].message.cost = Q[q].message.cost
  PROVE  HeldCost(R) = HeldCost(Q) /\ Cardinality(Holding(R)) = Cardinality(Holding(Q)) /\ Priced(R)
<1> DEFINE v == [q \in Producers |-> Q[q].message.cost]
           w == [q \in Producers |-> R[q].message.cost]
           had == Holding(Q)
<1>1. Holding(Q) \subseteq Producers /\ Priced(R)
  BY DEF Holding, Priced
<1>2. HeldCost(Q) = Number(v, had)
  BY <1>1, CostIs DEF HeldCost, Priced
<1>3. HeldCost(R) = Number(w, had)
  BY <1>1, CostIs DEF HeldCost, Priced
<1>4. \A q \in had : v[q] = w[q]
  BY <1>1
<1> HIDE DEF v, w, had
<1>5. Number(v, had) = Number(w, had)
  BY <1>4, NumberSame
<1> QED BY <1>1, <1>2, <1>3, <1>5

LEMMA HeldTyped ==
  ASSUME NEW Q, Priced(Q)
  PROVE  HeldCost(Q) \in Nat /\ Cardinality(Holding(Q)) \in Nat /\ (Holding(Q) = {} => HeldCost(Q) = 0)
<1> DEFINE v == [q \in Producers |-> Q[q].message.cost]
           had == Holding(Q)
<1>1. Holding(Q) \subseteq Producers
  BY DEF Holding
<1>2. HeldCost(Q) = Number(v, had)
  BY <1>1, CostIs DEF HeldCost, Priced
<1>3. IsFiniteSet(had) /\ \A q \in had : v[q] \in Nat
  BY <1>1, RecorderAssumption, FS_Subset DEF Priced
<1>4. Cardinality(had) \in Nat
  BY <1>3, FS_CardinalityType
<1> HIDE DEF v, had
<1>5. Number(v, had) \in Nat
  BY <1>3, UnitsFinite
<1>6. had = {} => Number(v, had) = 0
  BY NumberNone
<1> QED BY <1>2, <1>4, <1>5, <1>6 DEF had

(* Whoever holds a charge makes the sum at least that. *)
LEMMA HeldAtLeast ==
  ASSUME NEW Q, Priced(Q), NEW p \in Holding(Q)
  PROVE  Q[p].message.cost <= HeldCost(Q) /\ Cardinality(Holding(Q)) >= 1
<1> DEFINE v == [q \in Producers |-> Q[q].message.cost]
           had == Holding(Q)
<1>1. Holding(Q) \subseteq Producers
  BY DEF Holding
<1>2. HeldCost(Q) = Number(v, had)
  BY <1>1, CostIs DEF HeldCost, Priced
<1>3. IsFiniteSet(had) /\ (\A q \in had : v[q] \in Nat) /\ p \in had /\ v[p] = Q[p].message.cost
  BY <1>1, RecorderAssumption, FS_Subset DEF Priced
<1>4. Cardinality(had) \in Nat /\ Cardinality(had) # 0
  BY <1>3, FS_CardinalityType, FS_EmptySet
<1> HIDE DEF v, had
<1>5. Number(v, had) = Number(v, had \ {p}) + v[p]
  BY <1>3, NumberAdds
<1>6. Number(v, had \ {p}) \in Nat
  <2> DEFINE rest == had \ {p}
  <2>1. IsFiniteSet(rest) /\ \A q \in rest : v[q] \in Nat
    BY <1>3, FS_Subset
  <2> HIDE DEF rest
  <2>2. Number(v, rest) \in Nat
    BY <2>1, UnitsFinite
  <2> QED BY <2>2 DEF rest
<1> QED BY <1>2, <1>3, <1>4, <1>5, <1>6 DEF had

LEMMA Largest ==
  ASSUME NEW q \in Seq(Item), Messages(q) # {}
  PROVE  LargestOf(q) \in Messages(q)
<1> DEFINE M == Messages(q)
           T == {CostOf(q) - q[i].cost : i \in M}
<1>1. ASSUME NEW i \in M PROVE i \in 1..Len(q) /\ q[i].cost \in Nat /\ q[i].cost <= CostOf(q)
  <2>1. i \in 1..Len(q) /\ IsMessage(q[i])
    BY DEF Messages
  <2>2. q[i] \in Item
    BY <2>1
  <2>3. Weight(q[i]) \in Nat /\ q[i].cost = Weight(q[i])
    BY <2>1, <2>2, Weights
  <2>4. Weight(q[i]) <= CostOf(q)
    BY <2>1, CostBounds
  <2> QED BY <2>1, <2>3, <2>4
<1>2. CostOf(q) \in Nat /\ Len(q) \in Nat
  BY CostType
<1> HIDE DEF M
<1>3. T \subseteq Nat /\ T # {}
  BY <1>1, <1>2 DEF M
<1>4. PICK t \in T : \A u \in T : t <= u
  <2> HIDE DEF T
  <2> QED BY <1>3, Least
<1>5. PICK most \in M : t = CostOf(q) - q[most].cost
  OBVIOUS
<1>6. \A j \in M : q[j].cost <= q[most].cost
  <2> SUFFICES ASSUME NEW j \in M PROVE q[j].cost <= q[most].cost
    OBVIOUS
  <2>1. CostOf(q) - q[most].cost <= CostOf(q) - q[j].cost
    BY <1>4, <1>5
  <2>2. q[j].cost \in Nat /\ q[most].cost \in Nat
    BY <1>1
  <2> QED BY <1>2, <2>1, <2>2
<1> DEFINE E == {i \in M : q[i].cost = q[most].cost}
           U == {Len(q) - i : i \in E}
<1>7. U \subseteq Nat /\ U # {}
  <2>1. \A i \in E : Len(q) - i \in Nat
    BY <1>1, <1>2
  <2>2. most \in E
    OBVIOUS
  <2> QED BY <2>1, <2>2
<1>8. PICK u \in U : \A y \in U : u <= y
  <2> HIDE DEF U
  <2> QED BY <1>7, Least
<1>9. PICK last \in E : u = Len(q) - last
  OBVIOUS
<1>10. \A j \in E : j <= last
  <2> SUFFICES ASSUME NEW j \in E PROVE j <= last
    OBVIOUS
  <2>1. Len(q) - last <= Len(q) - j
    BY <1>8, <1>9
  <2>2. j \in 1..Len(q) /\ last \in 1..Len(q)
    BY <1>1
  <2> QED BY <1>2, <2>1, <2>2
<1>11. \A j \in M : q[j].cost < q[last].cost \/ (q[j].cost = q[last].cost /\ j <= last)
  <2> SUFFICES ASSUME NEW j \in M PROVE q[j].cost < q[last].cost \/ (q[j].cost = q[last].cost /\ j <= last)
    OBVIOUS
  <2>1. q[j].cost \in Nat /\ q[most].cost \in Nat /\ q[j].cost <= q[most].cost /\ q[last].cost = q[most].cost
    BY <1>1, <1>6
  <2>2. CASE j \in E
    BY <1>10, <2>1, <2>2
  <2>3. CASE j \notin E
    BY <2>1, <2>3
  <2> QED BY <2>2, <2>3
<1> HIDE DEF E
<1>12. \E i \in M : \A j \in M : q[j].cost < q[i].cost \/ (q[j].cost = q[i].cost /\ j <= i)
  BY <1>9, <1>11 DEF E
<1>13. LargestOf(q) \in M
  BY <1>12 DEF LargestOf, M
<1> QED BY <1>13 DEF M

(* The channels that q opens, and: a message's channel is opened before it, or *)
(* is one of `have`.                                                           *)
Opens(q) == {q[j].binding : j \in {j \in 1 .. Len(q) : q[j].kind = "add"}}
Ahead(q, have) ==
  \A i \in Messages(q) : q[i].binding \in have \/ \E j \in 1 .. i - 1 : q[j].kind = "add" /\ q[j].binding = q[i].binding

LEMMA KindOf == \A item \in Item : item.kind = "add" <=> ~IsMessage(item)
BY DEF Item, Message, Add, IsMessage

LEMMA OpensDrop ==
  ASSUME NEW q \in Seq(Item), NEW k \in 1..Len(q), NEW r, Drops(q, k, r)
  PROVE  Opens(q) = Opens(r) \cup IF IsMessage(q[k]) THEN {} ELSE {q[k].binding}
<1>1. /\ Len(q) \in Nat /\ r \in Seq(Item) /\ Len(r) \in Nat /\ Len(r) = Len(q) - 1
      /\ \A i \in 1..k - 1 : r[i] = q[i]
      /\ \A i \in k..Len(r) : r[i] = q[i + 1]
  BY DEF Drops
<1>2. q[k] \in Item
  OBVIOUS
<1>3. (q[k].kind = "add") <=> ~IsMessage(q[k])
  BY <1>2, KindOf
<1>4. ASSUME NEW b \in Opens(q) PROVE b \in Opens(r) \/ (~IsMessage(q[k]) /\ b = q[k].binding)
  <2>1. PICK j \in 1..Len(q) : q[j].kind = "add" /\ b = q[j].binding
    BY <1>4 DEF Opens
  <2>2. CASE j < k
    <3>1. j \in 1..Len(r) /\ r[j] = q[j]
      BY <1>1, <2>2
    <3> QED BY <2>1, <3>1 DEF Opens
  <2>3. CASE j = k
    BY <1>3, <2>1, <2>3
  <2>4. CASE j > k
    <3>1. j - 1 \in 1..Len(r) /\ j - 1 \in k..Len(r) /\ (j - 1) + 1 = j
      BY <1>1, <2>4
    <3>2. r[j - 1] = q[j]
      BY <1>1, <3>1
    <3> QED BY <2>1, <3>1, <3>2 DEF Opens
  <2> QED BY <2>2, <2>3, <2>4
<1>5. ASSUME NEW b \in Opens(r) PROVE b \in Opens(q)
  <2>1. PICK j \in 1..Len(r) : r[j].kind = "add" /\ b = r[j].binding
    BY <1>5 DEF Opens
  <2>2. CASE j < k
    <3>1. j \in 1..Len(q) /\ r[j] = q[j]
      BY <1>1, <2>2
    <3> QED BY <2>1, <3>1 DEF Opens
  <2>3. CASE ~(j < k)
    <3>1. j + 1 \in 1..Len(q) /\ r[j] = q[j + 1]
      BY <1>1, <2>3
    <3> QED BY <2>1, <3>1 DEF Opens
  <2> QED BY <2>2, <2>3
<1>6. ~IsMessage(q[k]) => q[k].binding \in Opens(q)
  BY <1>3 DEF Opens
<1> QED BY <1>4, <1>5, <1>6

LEMMA AheadDrop ==
  ASSUME NEW q \in Seq(Item), NEW k \in 1..Len(q), NEW r, Drops(q, k, r), NEW have, Ahead(q, have)
  PROVE  Ahead(r, have \cup IF IsMessage(q[k]) THEN {} ELSE {q[k].binding})
<1>1. /\ Len(q) \in Nat /\ r \in Seq(Item) /\ Len(r) \in Nat /\ Len(r) = Len(q) - 1
      /\ \A i \in 1..k - 1 : r[i] = q[i]
      /\ \A i \in k..Len(r) : r[i] = q[i + 1]
  BY DEF Drops
<1>2. q[k] \in Item
  OBVIOUS
<1>3. (q[k].kind = "add") <=> ~IsMessage(q[k])
  BY <1>2, KindOf
<1> DEFINE more == have \cup IF IsMessage(q[k]) THEN {} ELSE {q[k].binding}
           to(i) == IF i < k THEN i ELSE i + 1
<1>4. \A i \in 1..Len(r) : to(i) \in 1..Len(q) /\ to(i) # k /\ r[i] = q[to(i)]
  BY <1>1
<1> HIDE DEF Messages
<1>5. ASSUME NEW i \in Messages(r)
      PROVE  r[i].binding \in more \/ \E j \in 1..i - 1 : r[j].kind = "add" /\ r[j].binding = r[i].binding
  <2>1. i \in 1..Len(r) /\ IsMessage(r[i])
    BY DEF Messages
  <2>2. to(i) \in Messages(q) /\ r[i] = q[to(i)] /\ to(i) \in 1..Len(q)
    BY <1>4, <2>1 DEF Messages
  <2> DEFINE m == to(i)
  <2>3. m = IF i < k THEN i ELSE i + 1
    OBVIOUS
  <2> HIDE DEF m
  <2>4. m \in Messages(q) /\ r[i] = q[m] /\ m \in 1..Len(q)
    BY <2>2 DEF m
  <2>5. CASE q[m].binding \in have
    BY <2>4, <2>5
  <2>6. CASE \E j \in 1..m - 1 : q[j].kind = "add" /\ q[j].binding = q[m].binding
    <3>1. PICK j \in 1..m - 1 : q[j].kind = "add" /\ q[j].binding = q[m].binding
      BY <2>6
    <3>2. CASE j = k
      BY <1>3, <2>4, <3>1, <3>2
    <3>3. CASE j < k
      <4>1. j \in 1..i - 1 /\ j \in 1..k - 1
        BY <1>1, <2>1, <2>3, <2>4, <3>3
      <4>2. r[j] = q[j]
        BY <1>1, <4>1
      <4> QED BY <2>4, <3>1, <4>1, <4>2
    <3>4. CASE j > k
      <4>1. j - 1 \in 1..i - 1 /\ j - 1 \in k..Len(r) /\ (j - 1) + 1 = j
        BY <1>1, <2>1, <2>3, <2>4, <3>4
      <4>2. r[j - 1] = q[j]
        BY <1>1, <4>1
      <4> QED BY <2>4, <3>1, <4>1, <4>2
    <3> QED BY <3>2, <3>3, <3>4
  <2> QED BY <2>4, <2>5, <2>6 DEF Ahead
<1> QED BY <1>5 DEF Ahead

LEMMA OpensAppend ==
  ASSUME NEW q \in Seq(Item), NEW x \in Item
  PROVE  Opens(Append(q, x)) = Opens(q) \cup IF IsMessage(x) THEN {} ELSE {x.binding}
<1> DEFINE r == Append(q, x)
<1>1. r \in Seq(Item) /\ Len(r) = Len(q) + 1 /\ Len(q) \in Nat /\ r[Len(q) + 1] = x /\ \A i \in 1..Len(q) : r[i] = q[i]
  OBVIOUS
<1>2. (x.kind = "add") <=> ~IsMessage(x)
  BY KindOf
<1> HIDE DEF r
<1>3. Opens(r) = Opens(q) \cup IF IsMessage(x) THEN {} ELSE {x.binding}
  BY <1>1, <1>2 DEF Opens
<1> QED BY <1>3 DEF r

LEMMA AheadAppend ==
  ASSUME NEW q \in Seq(Item), NEW x \in Item, NEW have, Ahead(q, have), IsMessage(x) => x.binding \in have \cup Opens(q)
  PROVE  Ahead(Append(q, x), have)
<1> DEFINE r == Append(q, x)
<1>1. r \in Seq(Item) /\ Len(r) = Len(q) + 1 /\ Len(q) \in Nat /\ r[Len(q) + 1] = x /\ \A i \in 1..Len(q) : r[i] = q[i]
  OBVIOUS
<1> HIDE DEF r
<1>2. ASSUME NEW i \in Messages(r)
      PROVE  r[i].binding \in have \/ \E j \in 1..i - 1 : r[j].kind = "add" /\ r[j].binding = r[i].binding
  <2>1. i \in 1..Len(r) /\ IsMessage(r[i])
    BY DEF Messages
  <2>2. CASE i \in 1..Len(q)
    <3>1. i \in Messages(q) /\ r[i] = q[i] /\ \A j \in 1..i - 1 : r[j] = q[j]
      BY <1>1, <2>1, <2>2 DEF Messages
    <3>2. q[i].binding \in have \/ \E j \in 1..i - 1 : q[j].kind = "add" /\ q[j].binding = q[i].binding
      BY <3>1 DEF Ahead
    <3> QED BY <3>1, <3>2
  <2>3. CASE i = Len(q) + 1
    <3>1. r[i] = x /\ i - 1 = Len(q)
      BY <1>1, <2>3
    <3>2. CASE x.binding \in have
      BY <3>1, <3>2
    <3>3. CASE x.binding \in Opens(q)
      <4>1. PICK j \in 1..Len(q) : q[j].kind = "add" /\ q[j].binding = x.binding
        BY <3>3 DEF Opens
      <4>2. j \in 1..i - 1 /\ r[j] = q[j]
        BY <1>1, <3>1
      <4> QED BY <3>1, <4>1, <4>2
    <3> QED BY <2>1, <3>1, <3>2, <3>3
  <2> QED BY <1>1, <2>1, <2>2, <2>3
<1>3. Ahead(r, have)
  BY <1>2 DEF Ahead
<1> QED BY <1>3 DEF r

(* What makeRoomFor leaves of q, the bytes it frees and what it evicts. *)
Roomed(q, r) ==
  /\ r.queue \in Seq(Item) /\ r.freed \in Nat /\ r.evicted \in Nat
  /\ CostOf(r.queue) + r.freed = CostOf(q)
  /\ Cardinality(Messages(r.queue)) + r.evicted = Cardinality(Messages(q))
  /\ Opens(r.queue) = Opens(q)
  /\ \A have : Ahead(q, have) => Ahead(r.queue, have)

LEMMA Evicts ==
  ASSUME NEW q \in Seq(Item), NEW r, Roomed(q, r), Messages(r.queue) # {}
  PROVE  Roomed(q, EvictLargest(r))
<1> DEFINE k == LargestOf(r.queue)
           old == r.queue
           new == RemoveIndex(old, k)
           e == EvictLargest(r)
<1>1. old \in Seq(Item) /\ r.freed \in Nat /\ r.evicted \in Nat
  BY DEF Roomed
<1>2. k \in Messages(old)
  BY <1>1, Largest
<1>3. k \in 1..Len(old) /\ IsMessage(old[k])
  BY <1>2 DEF Messages
<1>4. e.queue = new /\ e.freed = r.freed + old[k].cost /\ e.evicted = r.evicted + 1
  BY DEF EvictLargest
<1> HIDE DEF k, old, new, e
<1>5. Drops(old, k, new)
  BY <1>1, <1>3, Removing DEF new
<1>6. CostOf(old) = CostOf(new) + Weight(old[k])
  BY <1>1, <1>3, <1>5, CostDrops
<1>7. Cardinality(Messages(old)) = Cardinality(Messages(new)) + 1
  BY <1>1, <1>3, <1>5, MessagesDrop
<1>8. new \in Seq(Item)
  BY <1>5 DEF Drops
<1>9. CostOf(new) \in Nat /\ Cardinality(Messages(new)) \in Nat /\ Cardinality(Messages(old)) \in Nat /\ CostOf(old) \in Nat
  BY <1>1, <1>8, CostType, MessagesFinite
<1>10. old[k] \in Item
  BY <1>1, <1>3
<1>11. Weight(old[k]) \in Nat /\ old[k].cost = Weight(old[k])
  BY <1>3, <1>10, Weights
<1>12. Opens(old) = Opens(new)
  <2>1. Opens(old) = Opens(new) \cup {}
    BY <1>1, <1>3, <1>5, OpensDrop
  <2> QED BY <2>1
<1>13. ASSUME NEW have, Ahead(old, have) PROVE Ahead(new, have)
  <2>1. Ahead(new, have \cup {})
    BY <1>1, <1>3, <1>5, <1>13, AheadDrop
  <2>2. have \cup {} = have
    OBVIOUS
  <2> QED BY <2>1, <2>2
<1>14. /\ CostOf(old) + r.freed = CostOf(q)
       /\ Cardinality(Messages(old)) + r.evicted = Cardinality(Messages(q))
       /\ Opens(old) = Opens(q)
       /\ \A have : Ahead(q, have) => Ahead(old, have)
  BY DEF Roomed, old
<1>15. e.freed \in Nat /\ e.evicted \in Nat
  BY <1>1, <1>4, <1>11
<1>16. CostOf(new) + e.freed = CostOf(q)
  BY <1>1, <1>4, <1>6, <1>9, <1>11, <1>14
<1>17. Cardinality(Messages(new)) + e.evicted = Cardinality(Messages(q))
  <2>1. Cardinality(Messages(old)) + r.evicted = Cardinality(Messages(q))
    BY <1>14
  <2>2. e.evicted = r.evicted + 1
    BY <1>4
  <2> QED BY <1>1, <1>7, <1>9, <2>1, <2>2
<1>18. Opens(new) = Opens(q) /\ \A have : Ahead(q, have) => Ahead(new, have)
  BY <1>12, <1>13, <1>14
<1>19. Roomed(q, e)
  BY <1>4, <1>8, <1>15, <1>16, <1>17, <1>18 DEF Roomed
<1> QED BY <1>19 DEF e

LEMMA MakesRoom ==
  ASSUME NEW q \in Seq(Item), NEW cost
  PROVE  Roomed(q, MakeRoomFor(q, cost))
<1> DEFINE start == [queue |-> q, freed |-> 0, evicted |-> 0]
           Upto(f, n) == f = [k \in 0 .. n |-> IF k = 0 THEN start
                                               ELSE IF MustEvict(f[k - 1], cost) THEN EvictLargest(f[k - 1]) ELSE f[k - 1]]
           S == {n \in 0..Len(q) : \E f : Upto(f, n)}
           loop == CHOOSE f : Upto(f, Len(q))
<1>1. Len(q) \in Nat
  OBVIOUS
<1>2. MakeRoomFor(q, cost) = loop[Len(q)]
  BY DEF MakeRoomFor
<1>3. Roomed(q, start)
  <2>1. CostOf(q) \in Nat /\ Cardinality(Messages(q)) \in Nat
    BY CostType, MessagesFinite
  <2> QED BY <2>1 DEF Roomed
<1> HIDE DEF start
<1> DEFINE goes(r) == IF MustEvict(r, cost) THEN EvictLargest(r) ELSE r
<1>4. 0 \in S
  <2> DEFINE f == [k \in 0..0 |-> start]
  <2>1. f = [k \in 0..0 |-> IF k = 0 THEN start ELSE goes(f[k - 1])]
    OBVIOUS
  <2>2. \E h : Upto(h, 0)
    <3> HIDE DEF f
    <3> QED BY <2>1
  <2> QED BY <1>1, <2>2
<1>5. ASSUME NEW n \in 1..Len(q), n - 1 \in S PROVE n \in S
  <2>1. PICK f : Upto(f, n - 1)
    BY <1>5
  <2> DEFINE g == [k \in 0..n |-> IF k = n THEN goes(f[n - 1]) ELSE f[k]]
  <2>2. \A k \in 0..n - 1 : f[k] = IF k = 0 THEN start ELSE goes(f[k - 1])
    BY <2>1
  <2>3. Upto(g, n)
    <3> HIDE DEF goes
    <3>1. \A k \in 0..n : g[k] = IF k = 0 THEN start ELSE goes(g[k - 1])
      <4> SUFFICES ASSUME NEW k \in 0..n PROVE g[k] = IF k = 0 THEN start ELSE goes(g[k - 1])
        OBVIOUS
      <4>1. CASE k = n
        BY <4>1
      <4>2. CASE k # n
        BY <2>2, <4>2
      <4> QED BY <4>1, <4>2
    <3>2. g = [k \in 0..n |-> g[k]]
      OBVIOUS
    <3> HIDE DEF g
    <3>3. g = [k \in 0..n |-> IF k = 0 THEN start ELSE goes(g[k - 1])]
      BY <3>1, <3>2
    <3> QED BY <3>3 DEF goes
  <2>4. \E h : Upto(h, n)
    <3> HIDE DEF g
    <3> QED BY <2>3
  <2> QED BY <2>4
<1>6. \E f : Upto(f, Len(q))
  <2>1. \A n \in 0..Len(q) : n \in S
    <3> HIDE DEF S
    <3> QED BY <1>1, <1>4, <1>5, Climb
  <2> QED BY <1>1, <2>1
<1>7. Upto(loop, Len(q))
  BY <1>6
<1> HIDE DEF loop
<1>8. \A k \in 0..Len(q) : loop[k] = IF k = 0 THEN start ELSE goes(loop[k - 1])
  BY <1>7
<1> DEFINE R == {k \in 0..Len(q) : Roomed(q, loop[k])}
<1>9. 0 \in R
  BY <1>1, <1>3, <1>8
<1>10. ASSUME NEW k \in 1..Len(q), k - 1 \in R PROVE k \in R
  <2> DEFINE r == loop[k - 1]
  <2>1. Roomed(q, r)
    BY <1>10
  <2>2. loop[k] = IF MustEvict(r, cost) THEN EvictLargest(r) ELSE r
    BY <1>8
  <2> HIDE DEF r
  <2>3. MustEvict(r, cost) => Roomed(q, EvictLargest(r))
    <3>1. MustEvict(r, cost) => Messages(r.queue) # {}
      BY DEF MustEvict
    <3> QED BY <2>1, <3>1, Evicts
  <2>4. Roomed(q, loop[k])
    BY <2>1, <2>2, <2>3
  <2> QED BY <2>4
<1>11. \A k \in 0..Len(q) : k \in R
  <2> HIDE DEF R
  <2> QED BY <1>1, <1>9, <1>10, Climb
<1> QED BY <1>1, <1>2, <1>11

-------------------------------------------------------------------------------
(* What the recorder does with the messages.                                   *)
Handed == writer.step \in {"taken", "calling"}
InHand == IF Handed /\ IsMessage(writer.item) THEN 1 ELSE 0

Typed ==
  /\ queue \in Seq(Item)
  /\ counts \in [written : Nat, pending : Nat, dropped : Nat]
  /\ sink.file \in Seq([from : Producers, n : Nat])
  /\ \A p \in Producers :
       /\ push[p].kept \in Nat /\ push[p].calls \in Nat
       /\ push[p].step \notin {"idle", "detached"} => push[p].message \in Message
  /\ Handed => writer.item \in Item

(* The charge is exact, and within the budget but for a lone oversized message. *)
Exact == bytes = CostOf(queue) + HeldCost(push)
Alone == blocks /\ Cardinality(Messages(queue)) + Cardinality(Holding(push)) = 1
Within == bytes <= Budget \/ Alone

(* Where the recording and the writer stand, and with whom the queue is empty. *)
Phases ==
  /\ leave => state \notin {"idle", "running"}
  /\ state = "idle" => writer.step = "none"
  /\ state = "running" => writer.step \notin {"none", "leaving", "gone"}
  /\ writer.step \in {"none", "gone"} => queue = <<>>
  /\ writer.step = "leaving" /\ state # "truncated" => queue = <<>>
  /\ writer.step = "notifying" => state = "truncated"
  /\ summary.frozen => summary.entered /\ writer.step \in {"none", "gone"}
  /\ summary.published => summary.frozen
  /\ state = "finished" => summary.published
  /\ summary.frozen /\ state = "truncated" => summary.truncated
  /\ \A s \in Stoppers : stop[s].step \in {"closing", "publishing", "telling"} => summary.frozen
  /\ state \in {"idle", "running", "stopping", "truncated", "finished"}

(* The recording is not truncated, nor about to be by the writer. *)
Clean == state # "truncated" /\ writer.step # "truncating"

(* The channels the sink has, or is about to be told of. *)
Have == sink.channels \cup IF Handed /\ ~IsMessage(writer.item) THEN {writer.item.binding} ELSE {}

(* While it is clean, no message reaches the writer before its channel. *)
Ordered ==
  Clean =>
   /\ Ahead(queue, Have)
   /\ channels \subseteq Have \cup Opens(queue)
   /\ Handed /\ IsMessage(writer.item) => writer.item.binding \in sink.channels
   /\ \A p \in Producers : push[p].step = "copying" => push[p].message.binding \in channels

(* Where the messages went whose push was told to continue. *)
Accounted ==
  /\ Clean => KeptSum(push) = counts.written + counts.pending + counts.dropped + Cardinality(Messages(queue)) + InHand
  /\ Len(sink.file) = counts.written + counts.pending
  /\ counts.pending = 0 \/ writer.step = "loop"
  /\ summary.frozen => summary.messages = counts.written /\ summary.dropped = counts.dropped
  /\ ~summary.frozen => summary.messages = 0 /\ summary.dropped = 0
  /\ writer.step = "none" => counts.written = 0 /\ counts.pending = 0 /\ counts.dropped = 0

(* Only the blocking mode makes a push wait, and one that sleeps on space is told. *)
Waits == \A p \in Producers : push[p].step = "waiting" /\ ~Awake(p) => blocks
SpaceHeard ==
  \A p \in Producers :
    push[p].step = "waiting" /\ ~Awake(p) /\ Space(push[p].message.cost) => Notifying \/ writer.step = "taken"

Flow == Typed /\ Exact /\ Within /\ Phases /\ Ordered /\ Accounted /\ Waits /\ SpaceHeard

LEMMA ExactIs == Exact <=> BytesExact
BY DEF Exact, BytesExact, HeldCost, CostSum, Holding, Charged, MapThenSumSet, MapThenFoldSet

LEMMA ReturnsIs == Returns = KeptSum(push)
BY DEF Returns, KeptSum, MapThenSumSet, MapThenFoldSet

LEMMA BytesNat ==
  ASSUME Typed, Exact
  PROVE  /\ Priced(push) /\ bytes \in Nat /\ CostOf(queue) \in Nat /\ HeldCost(push) \in Nat
         /\ Cardinality(Messages(queue)) \in Nat /\ Cardinality(Holding(push)) \in Nat
<1>1. Priced(push)
  <2> SUFFICES ASSUME NEW p \in Holding(push) PROVE push[p].message.cost \in Nat
    BY DEF Priced
  <2>1. p \in Producers /\ push[p].step \notin {"idle", "detached"}
    BY DEF Holding
  <2>2. push[p].message \in Message
    BY <2>1 DEF Typed
  <2>3. push[p].message \in Item /\ IsMessage(push[p].message)
    BY <2>2 DEF Item, Message, IsMessage
  <2> QED BY <2>3, Weights
<1>2. queue \in Seq(Item)
  BY DEF Typed
<1>3. CostOf(queue) \in Nat /\ Cardinality(Messages(queue)) \in Nat
  BY <1>2, CostType, MessagesFinite
<1>4. HeldCost(push) \in Nat /\ Cardinality(Holding(push)) \in Nat
  BY <1>1, HeldTyped
<1> QED BY <1>1, <1>3, <1>4 DEF Exact

LEMMA FlowStarts == Init => Flow
<1> SUFFICES ASSUME Init PROVE Flow
  OBVIOUS
<1>1. queue = <<>> /\ queue \in Seq(Item) /\ Messages(queue) = {} /\ Opens(queue) = {}
  BY DEF Init, Messages, Opens
<1>2. Typed
  BY <1>1 DEF Init, Typed, Handed
<1>3. Holding(push) = {}
  BY DEF Init, Holding
<1>4. Priced(push) /\ HeldCost(push) = 0
  <2>1. Priced(push)
    BY <1>3 DEF Priced
  <2> QED BY <1>3, <2>1, HeldTyped
<1>5. CostOf(queue) = 0
  BY <1>1, CostEmpty
<1>6. Exact /\ Within
  <2>1. bytes = 0 /\ Budget \in Nat
    BY RecorderAssumption DEF Init
  <2> QED BY <1>4, <1>5, <2>1 DEF Exact, Within
<1>7. Phases
  BY DEF Init, Phases
<1>8. Ordered
  <2>1. Ahead(queue, Have)
    BY <1>1 DEF Ahead
  <2>2. channels = {} /\ ~Handed /\ \A p \in Producers : push[p].step = "idle"
    BY DEF Init, Handed
  <2> QED BY <2>1, <2>2 DEF Ordered
<1>9. KeptSum(push) = 0
  <2> DEFINE w == [p \in Producers |-> push[p].kept]
             zero == [p \in Producers |-> 0]
  <2>1. \A p \in Producers : push[p].kept = 0
    BY DEF Init
  <2>2. KeptSum(push) = Number(w, Producers)
    BY <2>1, KeptIs
  <2>3. Units(w, Producers) = {}
    BY <2>1 DEF Units
  <2> QED BY <2>2, <2>3, FS_EmptySet DEF Number
<1>10. Accounted
  <2>1. Cardinality(Messages(queue)) = 0
    BY <1>1, FS_EmptySet
  <2> QED BY <1>9, <2>1 DEF Init, Accounted, InHand, Handed
<1>11. Waits /\ SpaceHeard
  BY DEF Init, Waits, SpaceHeard
<1> QED BY <1>2, <1>6, <1>7, <1>8, <1>10, <1>11 DEF Flow

(* What an admission makes of the queue, the charge and the counts. *)
Admitted(p, m, freed, evicted, fits) ==
  /\ freed \in Nat /\ evicted \in Nat /\ fits \in BOOLEAN
  /\ queue' \in Seq(Item)
  /\ CostOf(queue') + freed = CostOf(queue)
  /\ Cardinality(Messages(queue')) + evicted = Cardinality(Messages(queue))
  /\ Opens(queue') = Opens(queue) \cup IF m.binding \in channels THEN {} ELSE {m.binding}
  /\ \A have : Ahead(queue, have) => Ahead(queue', have)
  /\ bytes' = bytes - freed + IF fits THEN m.cost ELSE 0
  /\ counts' = [counts EXCEPT !.dropped = @ + evicted + IF fits THEN 0 ELSE 1]
  /\ push' = IF fits THEN [push EXCEPT ![p].step = "copying", ![p].message = m] ELSE Returned(p, m, "continue")
  /\ channels' = channels \cup {m.binding}
  /\ blocks => fits /\ freed = 0 /\ evicted = 0
  /\ ~blocks /\ fits => bytes - freed + m.cost <= Budget

LEMMA Admits ==
  ASSUME Typed, bytes \in Nat, NEW p \in Producers, NEW m \in Message, Admit(p, m)
  PROVE  \E freed, evicted, fits : Admitted(p, m, freed, evicted, fits)
<1> DEFINE add == [kind |-> "add", binding |-> m.binding]
           opens == m.binding \notin channels
           opened == IF opens THEN Append(queue, add) ELSE queue
           room == IF blocks THEN [queue |-> opened, freed |-> 0, evicted |-> 0] ELSE MakeRoomFor(opened, m.cost)
           fits == blocks \/ ~Overflows(bytes - room.freed, m.cost)
<1>1. /\ queue' = room.queue
      /\ channels' = channels \cup {m.binding}
      /\ bytes' = bytes - room.freed + IF fits THEN m.cost ELSE 0
      /\ counts' = [counts EXCEPT !.dropped = @ + room.evicted + IF fits THEN 0 ELSE 1]
      /\ push' = IF fits THEN [push EXCEPT ![p].step = "copying", ![p].message = m] ELSE Returned(p, m, "continue")
  BY DEF Admit
<1>2. queue \in Seq(Item) /\ add \in Item /\ ~IsMessage(add) /\ Weight(add) = 0 /\ m.cost \in Nat
  <2>1. m.binding \in Bindings /\ m \in Item /\ IsMessage(m)
    BY DEF Message, Item, IsMessage
  <2>2. add \in Item
    BY <2>1 DEF Item, Add
  <2>3. ~IsMessage(add)
    BY DEF IsMessage
  <2>4. m.cost \in Nat /\ Weight(add) = 0
    BY <2>1, <2>2, <2>3, Weights
  <2> QED BY <2>2, <2>3, <2>4 DEF Typed
<1>3. add.binding = m.binding
  OBVIOUS
<1> HIDE DEF add
<1>4. /\ opened \in Seq(Item) /\ CostOf(opened) = CostOf(queue)
      /\ Cardinality(Messages(opened)) = Cardinality(Messages(queue))
      /\ Opens(opened) = Opens(queue) \cup IF m.binding \in channels THEN {} ELSE {m.binding}
      /\ \A have : Ahead(queue, have) => Ahead(opened, have)
  <2>1. CASE opens
    <3> DEFINE q == Append(queue, add)
    <3>1. q \in Seq(Item)
      BY <1>2
    <3>2. CostOf(q) = CostOf(queue) + Weight(add) /\ CostOf(queue) \in Nat
      BY <1>2, CostAppend, CostType
    <3>3. Cardinality(Messages(q)) = Cardinality(Messages(queue)) + 0 /\ Cardinality(Messages(queue)) \in Nat
      BY <1>2, MessagesAppend, MessagesFinite
    <3>4. Opens(q) = Opens(queue) \cup {add.binding}
      BY <1>2, OpensAppend
    <3>5. \A have : Ahead(queue, have) => Ahead(q, have)
      BY <1>2, AheadAppend
    <3>6. opened = q
      BY <2>1
    <3> HIDE DEF q, opened
    <3> QED BY <1>2, <1>3, <2>1, <3>1, <3>2, <3>3, <3>4, <3>5, <3>6
  <2>2. CASE ~opens
    <3>1. opened = queue
      BY <2>2
    <3> HIDE DEF opened
    <3> QED BY <1>2, <2>2, <3>1
  <2> QED BY <2>1, <2>2
<1> HIDE DEF opened
<1>5. Roomed(opened, room)
  <2>1. CASE blocks
    <3>1. CostOf(opened) \in Nat /\ Cardinality(Messages(opened)) \in Nat
      BY <1>4, CostType, MessagesFinite
    <3>2. room.queue = opened /\ room.freed = 0 /\ room.evicted = 0
      BY <2>1
    <3> HIDE DEF room
    <3> QED BY <1>4, <3>1, <3>2 DEF Roomed
  <2>2. CASE ~blocks
    <3>1. room = MakeRoomFor(opened, m.cost)
      BY <2>2
    <3> HIDE DEF room
    <3> QED BY <1>4, <3>1, MakesRoom
  <2> QED BY <2>1, <2>2
<1>6. blocks => room.freed = 0 /\ room.evicted = 0
  OBVIOUS
<1> HIDE DEF room
<1>7. /\ room.queue \in Seq(Item) /\ room.freed \in Nat /\ room.evicted \in Nat
      /\ CostOf(room.queue) + room.freed = CostOf(opened)
      /\ Cardinality(Messages(room.queue)) + room.evicted = Cardinality(Messages(opened))
      /\ Opens(room.queue) = Opens(opened)
      /\ \A have : Ahead(opened, have) => Ahead(room.queue, have)
  BY <1>5 DEF Roomed
<1>8. ~blocks /\ fits => bytes - room.freed + m.cost <= Budget
  <2>1. Budget \in Nat
    BY RecorderAssumption
  <2> QED BY <1>2, <1>7, <2>1 DEF Overflows
<1>9. fits \in BOOLEAN /\ (blocks => fits)
  BY DEF Overflows
<1> HIDE DEF fits
<1>10. Admitted(p, m, room.freed, room.evicted, fits)
  BY <1>1, <1>4, <1>6, <1>7, <1>8, <1>9 DEF Admitted
<1> QED BY <1>10

-------------------------------------------------------------------------------
(* How the steps change what the flow is about.                                *)

(* Every step but those of the pushes and the writer's two ends of the queue.  *)
LEMMA QueueKept ==
  ASSUME IInv, Start \/ NotifySpace \/ SkipMessage \/ WriterTruncates \/ WriterNotifies \/ SinkStep
                 \/ (\E s \in Stoppers : RequestStop(s) \/ StopStep(s) \/ CloseSink(s)) \/ UNCHANGED vars
  PROVE  UNCHANGED <<queue, bytes, channels, push, blocks>>
<1>1. CASE Start
  BY <1>1 DEF Start, StartRuns, StartFails, StartWithoutWriter
<1>2. CASE NotifySpace \/ SkipMessage \/ WriterTruncates \/ WriterNotifies \/ SinkStep
  BY <1>2 DEF NotifySpace, SkipMessage, WriterTruncates, WriterNotifies, SinkStep, SinkAddsChannel, SinkTakes, SinkThrows,
              UnchangedBySink
<1>3. CASE \E s \in Stoppers : RequestStop(s) \/ StopStep(s) \/ CloseSink(s)
  BY <1>3 DEF RequestStop, StopStep, NotifyStop, ReturnFromRequest, EnterStop, AwaitSummary, Freeze, CloseSink, Publish,
              TellSummary, UnchangedByStop
<1>4. CASE UNCHANGED vars
  BY <1>4 DEF vars
<1> QED BY <1>1, <1>2, <1>3, <1>4

LEMMA ReturnIs ==
  ASSUME Shape, NEW p \in Producers, NEW m, NEW verdict \in {"continue", "stop"}, push' = Returned(p, m, verdict)
  PROVE  /\ push'[p].step = (IF verdict = "continue" THEN "idle" ELSE "detached") /\ push'[p].calls = m.n
         /\ push'[p].kept = IF verdict = "continue" THEN push[p].kept + 1 ELSE push[p].kept
         /\ \A q \in Producers : q # p => push'[q] = push[q]
  BY DEF Shape, Returned

(* A push's step, on its own record: the phase it is in, the message it pushes *)
(* and what was told to continue.                                              *)
Moves(p, from, to, kept) ==
  /\ push[p].step \in from /\ push'[p].step \in to
  /\ push'[p].kept = push[p].kept + kept
  /\ \A q \in Producers : q # p => push'[q] = push[q]

Enters(p, m) ==
  \/ /\ state # "running" /\ UNCHANGED <<queue, bytes, channels, counts, asleep>>
     /\ push[p].step \in {"idle", "waiting"} /\ push'[p].step = "detached" /\ push'[p].kept = push[p].kept
  \/ /\ state = "running" /\ blocks /\ ~Space(m.cost) /\ UNCHANGED <<queue, bytes, channels, counts>>
     /\ push[p].step \in {"idle", "waiting"} /\ push'[p].step = "waiting" /\ push'[p].kept = push[p].kept
     /\ push'[p].message = m /\ push'[p].calls = push[p].calls /\ Sleep(p, "space")
  \/ /\ state = "running" /\ (blocks => Space(m.cost))
     /\ push[p].step \in {"idle", "waiting"} /\ Admit(p, m)

LEMMA Entering ==
  ASSUME IInv, Typed, NEW p \in Producers, Push(p) \/ Retry(p)
  PROVE  \E m \in Message :
           /\ Enters(p, m) /\ Enter(p, m) /\ (push[p].step = "waiting" => m = push[p].message)
           /\ \A q \in Producers : q # p => push'[q] = push[q]
<1> USE DEF IInv, Shape
<1>1. \A q \in Producers : q # p => push'[q] = push[q]
  BY PushesKeepNotice DEF PushStep
<1>2. CASE Push(p)
  <2>1. PICK binding \in Bindings, cost \in Costs :
          Enter(p, [kind |-> "message", binding |-> binding, cost |-> cost, from |-> p, n |-> push[p].calls + 1])
    BY <1>2 DEF Push
  <2> DEFINE m == [kind |-> "message", binding |-> binding, cost |-> cost, from |-> p, n |-> push[p].calls + 1]
  <2>2. m \in Message
    <3>1. push[p].calls \in Nat
      BY DEF Typed
    <3> QED BY <3>1 DEF Message
  <2> HIDE DEF m
  <2>3. Enter(p, m) /\ push[p].step = "idle"
    BY <1>2, <2>1 DEF m, Push
  <2>4. Enters(p, m)
    BY <2>3 DEF Enter, Enters, Returned
  <2> QED BY <1>1, <2>2, <2>3, <2>4
<1>3. CASE Retry(p)
  <2> DEFINE m == push[p].message
  <2>1. Enter(p, m) /\ push[p].step = "waiting"
    BY <1>3 DEF Retry
  <2>2. m \in Message
    BY <2>1 DEF Typed
  <2>3. Enters(p, m)
    BY <2>1 DEF Enter, Enters, Returned
  <2> QED BY <1>1, <2>1, <2>2, <2>3
<1> QED BY <1>2, <1>3

LEMMA Tallied ==
  ASSUME NEW c \in [written : Nat, pending : Nat, dropped : Nat]
  PROVE  /\ c.written \in Nat /\ c.pending \in Nat /\ c.dropped \in Nat
         /\ \A n \in Nat : [c EXCEPT !.dropped = n] \in [written : Nat, pending : Nat, dropped : Nat]
         /\ \A n \in Nat : [c EXCEPT !.written = n, !.pending = 0] \in [written : Nat, pending : Nat, dropped : Nat]
         /\ \A n \in Nat : [c EXCEPT !.pending = n] \in [written : Nat, pending : Nat, dropped : Nat]
  OBVIOUS

LEMMA Typing == ASSUME IInv, Typed, Exact, [Next]_vars PROVE Typed'
<1> USE DEF IInv, Shape
<1>1. bytes \in Nat
  BY BytesNat
<1>2. ASSUME NEW p \in Producers, Push(p) \/ CopyThrows(p) \/ PushStep(p)
      PROVE  Typed'
  <2>1. UNCHANGED <<sink, writer>> /\ \A q \in Producers : q # p => push'[q] = push[q]
    BY <1>2, PushesKeep, PushesKeepNotice
  <2>2. SUFFICES /\ queue' \in Seq(Item) /\ counts' \in [written : Nat, pending : Nat, dropped : Nat]
                 /\ push'[p].kept \in Nat /\ push'[p].calls \in Nat
                 /\ push'[p].step \notin {"idle", "detached"} => push'[p].message \in Message
    BY <2>1 DEF Typed, Handed
  <2>3. /\ queue \in Seq(Item) /\ counts \in [written : Nat, pending : Nat, dropped : Nat]
        /\ push[p].kept \in Nat /\ push[p].calls \in Nat
        /\ push[p].step \notin {"idle", "detached"} => push[p].message \in Message
    BY DEF Typed
  <2>4. CASE Push(p) \/ Retry(p)
    <3>1. PICK m \in Message : Enter(p, m)
      BY <2>4, Entering
    <3>2. m.n \in Nat
      BY DEF Message
    <3>3. CASE Admit(p, m)
      <4>1. PICK freed, evicted, fits : Admitted(p, m, freed, evicted, fits)
        BY <1>1, <3>3, Admits
      <4>2. /\ queue' \in Seq(Item) /\ evicted \in Nat
            /\ counts' = [counts EXCEPT !.dropped = @ + evicted + IF fits THEN 0 ELSE 1]
            /\ push' = IF fits THEN [push EXCEPT ![p].step = "copying", ![p].message = m] ELSE Returned(p, m, "continue")
        BY <4>1 DEF Admitted
      <4>3. counts' \in [written : Nat, pending : Nat, dropped : Nat]
        <5> DEFINE n == counts.dropped + evicted + IF fits THEN 0 ELSE 1
        <5>1. counts' = [counts EXCEPT !.dropped = n]
          BY <4>2
        <5>2. counts \in [written : Nat, pending : Nat, dropped : Nat]
          BY <2>3
        <5>3. counts.dropped \in Nat
          BY <5>2, Tallied
        <5>4. n \in Nat
          BY <4>2, <5>3
        <5> HIDE DEF n
        <5> QED BY <5>1, <5>2, <5>4, Tallied
      <4>4. CASE fits
        <5>1. push' = [push EXCEPT ![p].step = "copying", ![p].message = m]
          BY <4>2, <4>4
        <5>2. /\ push'[p].kept \in Nat /\ push'[p].calls \in Nat
              /\ push'[p].step \notin {"idle", "detached"} => push'[p].message \in Message
          BY <2>3, <5>1
        <5> QED BY <4>2, <4>3, <5>2
      <4>5. CASE ~fits
        <5>1. push' = Returned(p, m, "continue")
          BY <4>2, <4>5
        <5>2. /\ push'[p].kept \in Nat /\ push'[p].calls \in Nat
              /\ push'[p].step \notin {"idle", "detached"} => push'[p].message \in Message
          BY <2>3, <3>2, <5>1, ReturnIs
        <5> QED BY <4>2, <4>3, <5>2
      <4> QED BY <4>4, <4>5
    <3>4. CASE ~Admit(p, m)
      BY <2>3, <3>1, <3>2, <3>4 DEF Enter, Returned
    <3> QED BY <3>3, <3>4
  <2>5. CASE Enqueue(p)
    <3>1. push[p].message \in Message /\ push[p].message.n \in Nat /\ push[p].message \in Item
      BY <2>3, <2>5 DEF Enqueue, Message, Item
    <3>2. Append(queue, push[p].message) \in Seq(Item)
      BY <2>3, <3>1
    <3>3. queue' \in Seq(Item) /\ UNCHANGED counts
      BY <2>3, <2>5, <3>2 DEF Enqueue
    <3>4. push' = Returned(p, push[p].message, "continue") \/ push' = [push EXCEPT ![p].step = "refunding"]
      BY <2>5 DEF Enqueue
    <3>5. CASE push' = Returned(p, push[p].message, "continue")
      BY <2>3, <3>1, <3>3, <3>5, ReturnIs
    <3>6. CASE push' = [push EXCEPT ![p].step = "refunding"]
      BY <2>3, <3>1, <3>3, <3>6
    <3> QED BY <3>4, <3>5, <3>6
  <2>6. CASE CopyThrows(p) \/ Refund(p) \/ PushTruncates(p) \/ PushNotifies(p)
    <3>1. push[p].message \in Message
      BY <2>3, <2>6 DEF CopyThrows, Refund, PushTruncates, PushNotifies
    <3>2. push[p].message.n \in Nat
      BY <3>1 DEF Message
    <3> QED BY <2>3, <2>6, <3>1, <3>2 DEF CopyThrows, Refund, PushTruncates, PushNotifies, Returned, UnchangedByPush
  <2> QED BY <1>2, <2>4, <2>5, <2>6 DEF PushStep
<1>3. CASE Dequeue
  <2>1. UNCHANGED <<push, sink>> /\ counts' = [counts EXCEPT !.written = @ + counts.pending, !.pending = 0]
    BY <1>3 DEF Dequeue
  <2>2. counts' \in [written : Nat, pending : Nat, dropped : Nat]
    <3>1. counts \in [written : Nat, pending : Nat, dropped : Nat]
      BY DEF Typed
    <3> DEFINE n == counts.written + counts.pending
    <3>2. counts' = [counts EXCEPT !.written = n, !.pending = 0]
      BY <2>1
    <3>3. counts.written \in Nat /\ counts.pending \in Nat
      BY <3>1, Tallied
    <3>4. n \in Nat
      BY <3>3
    <3> HIDE DEF n
    <3> QED BY <3>1, <3>2, <3>4, Tallied
  <2>3. CASE queue = <<>>
    <3>1. UNCHANGED queue /\ writer'.step \in {"leaving", "waiting"}
      BY <1>3, <2>3 DEF Dequeue, WriterGoes
    <3> QED BY <2>1, <2>2, <3>1 DEF Typed, Handed
  <2>4. CASE queue # <<>>
    <3>1. queue' = Tail(queue) /\ writer'.item = Head(queue)
      BY <1>3, <2>4 DEF Dequeue
    <3>2. queue \in Seq(Item)
      BY DEF Typed
    <3>3. queue' \in Seq(Item) /\ writer'.item \in Item
      BY <2>4, <3>1, <3>2, TakingHead DEF Drops
    <3> QED BY <2>1, <2>2, <3>3 DEF Typed
  <2> QED BY <2>3, <2>4
<1>4. CASE NotifySpace \/ SkipMessage \/ WriterTruncates \/ WriterNotifies
  <2>1. UNCHANGED <<queue, push>>
    BY <1>4, QueueKept
  <2>2. UNCHANGED <<counts, sink>> /\ writer'.item = writer.item /\ (Handed' => Handed)
    BY <1>4 DEF NotifySpace, SkipMessage, WriterTruncates, WriterNotifies, WriterGoes, Handed, SinkLife, UnchangedBySink
  <2> QED BY <2>1, <2>2 DEF Typed
<1>5. CASE Discard
  <2>1. UNCHANGED <<counts, sink, push>> /\ queue' = <<>> /\ ~Handed'
    BY <1>5 DEF Discard, Handed
  <2> QED BY <2>1 DEF Typed
<1>6. CASE SinkStep
  <2>1. UNCHANGED <<queue, push>>
    BY <1>6, QueueKept
  <2>2. ~Handed'
    BY <1>6 DEF SinkStep, SinkAddsChannel, SinkTakes, SinkThrows, WriterGoes, Handed
  <2>3. CASE SinkTakes
    <3>1. writer.item \in Item /\ IsMessage(writer.item)
      BY <2>3 DEF SinkTakes, Typed, Handed
    <3>2. writer.item \in Message
      BY <3>1, Weights
    <3>3. [from |-> writer.item.from, n |-> writer.item.n] \in [from : Producers, n : Nat]
      BY <3>2 DEF Message
    <3>4. sink'.file = Append(sink.file, [from |-> writer.item.from, n |-> writer.item.n])
      BY <2>3 DEF SinkTakes
    <3>5. sink.file \in Seq([from : Producers, n : Nat]) /\ counts \in [written : Nat, pending : Nat, dropped : Nat]
      BY DEF Typed
    <3>6. sink'.file \in Seq([from : Producers, n : Nat])
      BY <3>3, <3>4, <3>5
    <3>7. counts' \in [written : Nat, pending : Nat, dropped : Nat]
      BY <2>3, <3>5 DEF SinkTakes
    <3> QED BY <2>1, <2>2, <3>6, <3>7 DEF Typed
  <2>4. CASE SinkAddsChannel \/ SinkThrows
    <3>1. UNCHANGED counts /\ sink'.file = sink.file
      BY <2>4 DEF SinkAddsChannel, SinkThrows
    <3> QED BY <2>1, <2>2, <3>1 DEF Typed
  <2> QED BY <1>6, <2>3, <2>4 DEF SinkStep
<1>7. CASE Start
  <2>1. UNCHANGED <<queue, push>>
    BY <1>7, QueueKept
  <2>2. UNCHANGED counts /\ sink'.file = sink.file /\ (Handed' => Handed) /\ writer'.item = writer.item
    BY <1>7 DEF Start, StartRuns, StartFails, StartWithoutWriter, Handed
  <2> QED BY <2>1, <2>2 DEF Typed
<1>8. ASSUME NEW s \in Stoppers, RequestStop(s) \/ StopStep(s) \/ CloseSink(s)
      PROVE  Typed'
  <2>1. UNCHANGED <<queue, push>>
    BY <1>8, QueueKept
  <2>2. UNCHANGED <<counts, writer>> /\ sink'.file = sink.file
    BY <1>8 DEF RequestStop, StopStep, NotifyStop, ReturnFromRequest, EnterStop, AwaitSummary, Freeze, CloseSink, Publish,
                TellSummary, UnchangedByStop
  <2> QED BY <2>1, <2>2 DEF Typed, Handed
<1>9. CASE UNCHANGED vars
  BY <1>9 DEF vars, Typed, Handed
<1> QED BY <1>2, <1>3, <1>4, <1>5, <1>6, <1>7, <1>8, <1>9 DEF Next, WriterStep

LEMMA NothingCharged ==
  ASSUME NEW q \in Seq(Item), NEW Q, Priced(Q), Cardinality(Messages(q)) = 0, Cardinality(Holding(Q)) = 0
  PROVE  CostOf(q) = 0 /\ HeldCost(Q) = 0
<1>1. Messages(q) = {}
  <2> DEFINE M == Messages(q)
  <2>1. IsFiniteSet(M) /\ Cardinality(M) = 0
    BY MessagesFinite
  <2> HIDE DEF M
  <2>2. M = {}
    BY <2>1, FS_EmptySet
  <2> QED BY <2>2 DEF M
<1>2. Holding(Q) = {}
  <2> DEFINE H == Holding(Q)
  <2>1. H \subseteq Producers
    BY DEF Holding
  <2>2. IsFiniteSet(H) /\ Cardinality(H) = 0
    BY <2>1, RecorderAssumption, FS_Subset
  <2> HIDE DEF H
  <2>3. H = {}
    BY <2>2, FS_EmptySet
  <2> QED BY <2>3 DEF H
<1> QED BY <1>1, <1>2, CostNone, HeldTyped

LEMMA AllCharged ==
  ASSUME NEW q \in Seq(Item), NEW Q, \A p \in Holding(Q) : Q[p].message.cost \in Nat /\ Q[p].message.cost > 0,
         CostOf(q) + HeldCost(Q) = 0
  PROVE  Cardinality(Messages(q)) = 0 /\ Cardinality(Holding(Q)) = 0
<1>1. Priced(Q)
  BY DEF Priced
<1>2. CostOf(q) = 0 /\ HeldCost(Q) = 0
  <2>1. CostOf(q) \in Nat /\ HeldCost(Q) \in Nat
    BY <1>1, CostType, HeldTyped
  <2> QED BY <2>1
<1>3. Messages(q) = {}
  <2> SUFFICES ASSUME NEW i \in Messages(q) PROVE FALSE
    OBVIOUS
  <2>1. i \in 1..Len(q) /\ IsMessage(q[i])
    BY DEF Messages
  <2>2. q[i] \in Item
    BY <2>1
  <2>3. Weight(q[i]) \in Nat /\ Weight(q[i]) > 0 /\ Weight(q[i]) <= CostOf(q)
    BY <2>1, <2>2, Weights, CostBounds
  <2> QED BY <1>2, <2>3
<1>4. Holding(Q) = {}
  <2> SUFFICES ASSUME NEW p \in Holding(Q) PROVE FALSE
    OBVIOUS
  <2>1. Q[p].message.cost <= HeldCost(Q)
    BY <1>1, HeldAtLeast
  <2> QED BY <1>2, <2>1
<1> QED BY <1>3, <1>4, FS_EmptySet

LEMMA Pricing ==
  ASSUME NEW Q, \A p \in Producers : Q[p].step \notin {"idle", "detached"} => Q[p].message \in Message
  PROVE  Priced(Q) /\ \A p \in Holding(Q) : Q[p].message.cost \in Nat /\ Q[p].message.cost > 0
<1>1. ASSUME NEW p \in Holding(Q) PROVE Q[p].message.cost \in Nat /\ Q[p].message.cost > 0
  <2>1. p \in Producers /\ Q[p].step \notin {"idle", "detached"}
    BY DEF Holding
  <2>2. Q[p].message \in Message
    BY <2>1
  <2>3. Q[p].message \in Item /\ IsMessage(Q[p].message)
    BY <2>2 DEF Item, Message, IsMessage
  <2> QED BY <2>3, Weights
<1> QED BY <1>1 DEF Priced

LEMMA Charging == ASSUME IInv, Typed, Exact, Within, [Next]_vars PROVE Exact' /\ Within'
<1> DEFINE Goal == /\ bytes' = CostOf(queue') + HeldCost(push')
                   /\ bytes' <= Budget \/ (blocks' /\ Cardinality(Messages(queue')) + Cardinality(Holding(push')) = 1)
<1>1. /\ bytes \in Nat /\ CostOf(queue) \in Nat /\ HeldCost(push) \in Nat /\ Budget \in Nat
      /\ Cardinality(Messages(queue)) \in Nat /\ Cardinality(Holding(push)) \in Nat
  BY BytesNat, RecorderAssumption
<1>2. Priced(push) /\ \A p \in Holding(push) : push[p].message.cost \in Nat /\ push[p].message.cost > 0
  BY Pricing DEF Typed
<1>3. Typed' /\ queue' \in Seq(Item)
  BY Typing DEF Typed
<1>4. Priced(push')
  <2>1. \A p \in Producers : push'[p].step \notin {"idle", "detached"} => push'[p].message \in Message
    BY <1>3 DEF Typed
  <2> QED BY <2>1, Pricing
<1>5. /\ CostOf(queue') \in Nat /\ Cardinality(Messages(queue')) \in Nat
      /\ HeldCost(push') \in Nat /\ Cardinality(Holding(push')) \in Nat
  BY <1>3, <1>4, CostType, MessagesFinite, HeldTyped
<1>6. queue \in Seq(Item) /\ bytes = CostOf(queue) + HeldCost(push)
  BY DEF Typed, Exact
<1>7. bytes <= Budget \/ (blocks /\ Cardinality(Messages(queue)) + Cardinality(Holding(push)) = 1)
  BY DEF Within, Alone
<1>8. SUFFICES Goal
  BY DEF Exact, Within, Alone
<1>0. Shape
  BY DEF IInv
<1>9. UNCHANGED blocks
  BY DEF Next, Start, StartRuns, StartFails, StartWithoutWriter, Push, PushStep, Retry, Enqueue, CopyThrows, Refund,
         PushTruncates, PushNotifies, UnchangedByPush, WriterStep, Dequeue, NotifySpace, SkipMessage, WriterTruncates,
         WriterNotifies, Discard, SinkStep, SinkAddsChannel, SinkTakes, SinkThrows, UnchangedBySink, RequestStop, StopStep,
         NotifyStop, ReturnFromRequest, EnterStop, AwaitSummary, Freeze, CloseSink, Publish, TellSummary, UnchangedByStop, vars
<1>10. Cardinality(Messages(queue')) = 0 /\ Cardinality(Holding(push')) = 0 => CostOf(queue') = 0 /\ HeldCost(push') = 0
  BY <1>3, <1>4, NothingCharged
<1>11. CASE UNCHANGED <<queue, bytes, push>>
  BY <1>6, <1>7, <1>9, <1>11
<1>12. ASSUME NEW p \in Producers, Push(p) \/ Retry(p)
       PROVE  Goal
  <2>1. PICK m \in Message : Enters(p, m) /\ \A q \in Producers : q # p => push'[q] = push[q]
    BY <1>12, Entering
  <2>2. p \notin Holding(push)
    BY <2>1 DEF Enters, Holding
  <2>3. m.cost \in Nat
    BY Weights DEF Message, Item, IsMessage
  <2>4. CASE p \notin Holding(push') /\ UNCHANGED <<queue, bytes>>
    <3>1. Holding(push') = Holding(push) /\ \A q \in Holding(push) : push'[q] = push[q]
      BY <2>1, <2>2, <2>4 DEF Holding
    <3>2. HeldCost(push') = HeldCost(push) /\ Cardinality(Holding(push')) = Cardinality(Holding(push))
      BY <1>2, <3>1, HoldsAlike
    <3> QED BY <1>6, <1>7, <1>9, <2>4, <3>2
  <2>5. CASE ~(p \notin Holding(push') /\ UNCHANGED <<queue, bytes>>)
    <3>1. Admit(p, m) /\ (blocks => Space(m.cost))
      BY <2>1, <2>5 DEF Enters, Holding
    <3>2. PICK freed, evicted, fits : Admitted(p, m, freed, evicted, fits)
      BY <1>1, <3>1, Admits
    <3>3. /\ freed \in Nat /\ evicted \in Nat /\ fits \in BOOLEAN
          /\ CostOf(queue') + freed = CostOf(queue)
          /\ Cardinality(Messages(queue')) + evicted = Cardinality(Messages(queue))
          /\ bytes' = bytes - freed + IF fits THEN m.cost ELSE 0
          /\ blocks => fits /\ freed = 0 /\ evicted = 0
          /\ ~blocks /\ fits => bytes - freed + m.cost <= Budget
      BY <3>2 DEF Admitted
    <3>4. CASE fits
      <4>1. push' = [push EXCEPT ![p].step = "copying", ![p].message = m]
        BY <3>2, <3>4 DEF Admitted
      <4>2. p \in Holding(push') /\ push'[p].message.cost = m.cost
        BY <1>0, <4>1 DEF Holding, Shape
      <4>3. HeldCost(push') = HeldCost(push) + m.cost /\ Cardinality(Holding(push')) = Cardinality(Holding(push)) + 1
        BY <1>2, <1>4, <2>1, <2>2, <4>2, HoldsMore
      <4>4. bytes' = CostOf(queue') + HeldCost(push')
        <5> DEFINE old == CostOf(queue)
                   new == CostOf(queue')
                   held == HeldCost(push)
                   cost == m.cost
        <5>1. /\ old \in Nat /\ new \in Nat /\ held \in Nat /\ cost \in Nat /\ freed \in Nat
              /\ bytes = old + held /\ new + freed = old /\ bytes' = bytes - freed + cost
          BY <1>1, <1>5, <1>6, <2>3, <3>3, <3>4
        <5>2. HeldCost(push') = held + cost
          BY <4>3
        <5> HIDE DEF old, new, held, cost
        <5>3. bytes' = new + (held + cost)
          BY <5>1
        <5> QED BY <5>2, <5>3 DEF new
      <4>5. CASE ~blocks
        BY <3>3, <3>4, <4>4, <4>5
      <4>6. CASE blocks /\ bytes = 0
        <5>1. Cardinality(Messages(queue)) = 0 /\ Cardinality(Holding(push)) = 0
          BY <1>2, <1>6, <4>6, AllCharged
        <5> QED BY <1>5, <1>9, <3>3, <4>3, <4>4, <4>6, <5>1
      <4>7. CASE blocks /\ bytes <= Budget - m.cost
        BY <1>1, <2>3, <3>3, <3>4, <4>4, <4>7
      <4> QED BY <3>1, <4>5, <4>6, <4>7 DEF Space
    <3>5. CASE ~fits
      <4>1. push' = Returned(p, m, "continue")
        BY <3>2, <3>5 DEF Admitted
      <4>2. p \notin Holding(push')
        BY <1>0, <4>1, ReturnIs DEF Holding
      <4>3. Holding(push') = Holding(push) /\ \A q \in Holding(push) : push'[q] = push[q]
        BY <2>1, <2>2, <4>2 DEF Holding
      <4>4. HeldCost(push') = HeldCost(push)
        BY <1>2, <4>3, HoldsAlike
      <4> DEFINE old == CostOf(queue)
                 new == CostOf(queue')
                 held == HeldCost(push)
      <4>5. /\ old \in Nat /\ new \in Nat /\ held \in Nat /\ freed \in Nat
            /\ bytes = old + held /\ new + freed = old /\ bytes' = bytes - freed + 0
        BY <1>1, <1>5, <1>6, <3>3, <3>5
      <4>6. ~blocks
        BY <3>3, <3>5
      <4>7. bytes <= Budget /\ Budget \in Nat
        BY <1>1, <1>7, <4>6
      <4> HIDE DEF old, new, held
      <4>8. bytes' = new + held /\ bytes' <= Budget
        BY <4>5, <4>7
      <4> QED BY <4>4, <4>8 DEF new, held
    <3> QED BY <3>3, <3>4, <3>5
  <2> QED BY <2>4, <2>5
<1>13. ASSUME NEW p \in Producers, Enqueue(p), state = "running"
       PROVE  Goal
  <2> DEFINE m == push[p].message
  <2>1. /\ push' = Returned(p, m, "continue") /\ queue' = Append(queue, m) /\ bytes' = bytes
        /\ push[p].step = "copying"
    BY <1>13 DEF Enqueue
  <2>2. m \in Message /\ m \in Item /\ IsMessage(m)
    BY <2>1 DEF Typed, Message, Item, IsMessage
  <2> HIDE DEF m
  <2>3. p \in Holding(push) /\ p \notin Holding(push') /\ \A q \in Producers : q # p => push[q] = push'[q]
    BY <1>0, <2>1, ReturnIs DEF Holding
  <2>4. HeldCost(push) = HeldCost(push') + push[p].message.cost
        /\ Cardinality(Holding(push)) = Cardinality(Holding(push')) + 1
    BY <1>2, <1>4, <2>3, HoldsMore
  <2>5. Weight(m) \in Nat /\ m.cost = Weight(m)
    BY <2>2, Weights
  <2>6. CostOf(queue') = CostOf(queue) + Weight(m)
    BY <1>6, <2>1, <2>2, CostAppend
  <2>7. Cardinality(Messages(queue')) = Cardinality(Messages(queue)) + 1
    BY <1>6, <2>1, <2>2, MessagesAppend
  <2>8. push[p].message.cost = m.cost
    BY DEF m
  <2>9. bytes' = CostOf(queue') + HeldCost(push')
    BY <1>1, <1>5, <1>6, <2>1, <2>4, <2>5, <2>6, <2>8
  <2>10. Cardinality(Messages(queue')) + Cardinality(Holding(push')) = Cardinality(Messages(queue)) + Cardinality(Holding(push))
    BY <1>1, <1>5, <2>4, <2>7
  <2> QED BY <1>7, <1>9, <2>1, <2>9, <2>10
<1>14. ASSUME NEW p \in Producers, (Enqueue(p) /\ state # "running") \/ CopyThrows(p) \/ PushTruncates(p) \/ PushNotifies(p)
       PROVE  Goal
  <2>1. UNCHANGED <<queue, bytes>>
    BY <1>14 DEF Enqueue, CopyThrows, PushTruncates, PushNotifies, UnchangedByPush
  <2>2. \A q \in Producers : q # p => push'[q] = push[q]
    BY <1>14, PushesKeepNotice DEF PushStep
  <2>3. \/ p \in Holding(push) /\ p \in Holding(push') /\ push'[p].message = push[p].message
        \/ p \notin Holding(push) /\ p \notin Holding(push')
    BY <1>0, <1>14 DEF Enqueue, CopyThrows, PushTruncates, PushNotifies, Returned, Holding, Shape
  <2>4. Holding(push') = Holding(push) /\ \A q \in Holding(push) : push'[q].message = push[q].message
    BY <2>2, <2>3 DEF Holding
  <2>5. HeldCost(push') = HeldCost(push) /\ Cardinality(Holding(push')) = Cardinality(Holding(push))
    BY <1>2, <2>4, HoldsAlike
  <2> QED BY <1>6, <1>7, <1>9, <2>1, <2>5
<1>15. ASSUME NEW p \in Producers, Refund(p)
       PROVE  Goal
  <2>1. /\ UNCHANGED queue /\ bytes' = bytes - push[p].message.cost
        /\ p \in Holding(push) /\ p \notin Holding(push')
    BY <1>0, <1>15 DEF Refund, Returned, Holding, Shape
  <2>2. \A q \in Producers : q # p => push[q] = push'[q]
    BY <1>15, PushesKeepNotice DEF PushStep
  <2>3. HeldCost(push) = HeldCost(push') + push[p].message.cost
        /\ Cardinality(Holding(push)) = Cardinality(Holding(push')) + 1
    BY <1>2, <1>4, <2>1, <2>2, HoldsMore
  <2>4. push[p].message.cost \in Nat
    BY <1>2, <2>1
  <2>5. bytes' = CostOf(queue') + HeldCost(push')
    <3> DEFINE c == push[p].message.cost
               left == HeldCost(push')
               all == HeldCost(push)
               q == CostOf(queue)
    <3>1. c \in Nat /\ left \in Nat /\ all \in Nat /\ q \in Nat /\ all = left + c /\ bytes = q + all /\ bytes' = bytes - c
      BY <1>1, <1>5, <1>6, <2>1, <2>3, <2>4
    <3>2. CostOf(queue') = q
      BY <2>1
    <3> HIDE DEF c, left, all, q
    <3>3. bytes' = q + left
      BY <3>1
    <3> QED BY <3>2, <3>3 DEF left
  <2>6. CASE bytes <= Budget
    BY <1>1, <2>1, <2>4, <2>5, <2>6
  <2>7. CASE Cardinality(Messages(queue)) + Cardinality(Holding(push)) = 1
    <3>1. Cardinality(Messages(queue')) = 0 /\ Cardinality(Holding(push')) = 0
      BY <1>1, <1>5, <2>1, <2>3, <2>7
    <3> QED BY <1>1, <1>10, <2>5, <3>1
  <2> QED BY <1>7, <2>6, <2>7
<1>16. CASE Dequeue /\ queue # <<>>
  <2>1. queue' = Tail(queue) /\ bytes' = bytes - CostOf(<<Head(queue)>>) /\ UNCHANGED push
    BY <1>16 DEF Dequeue
  <2>2. /\ 1 \in 1..Len(queue) /\ queue[1] = Head(queue) /\ Head(queue) \in Item
        /\ Drops(queue, 1, Tail(queue)) /\ CostOf(<<Head(queue)>>) = Weight(queue[1])
    BY <1>6, <1>16, TakingHead
  <2>3. CostOf(queue) = CostOf(queue') + Weight(queue[1])
    BY <1>6, <2>1, <2>2, CostDrops
  <2>4. Cardinality(Messages(queue)) = Cardinality(Messages(queue')) + IF IsMessage(queue[1]) THEN 1 ELSE 0
    BY <1>6, <2>1, <2>2, MessagesDrop
  <2>5. Weight(queue[1]) \in Nat
    BY <2>2, Weights
  <2>6. bytes' = CostOf(queue') + HeldCost(push')
    BY <1>1, <1>5, <1>6, <2>1, <2>2, <2>3, <2>5
  <2>7. CASE bytes <= Budget
    BY <1>1, <2>1, <2>2, <2>5, <2>6, <2>7
  <2>8. CASE blocks /\ Cardinality(Messages(queue)) + Cardinality(Holding(push)) = 1
    <3>1. Cardinality(Holding(push')) = Cardinality(Holding(push))
      BY <2>1
    <3>2. CASE IsMessage(queue[1])
      <4>1. Cardinality(Messages(queue')) = 0 /\ Cardinality(Holding(push')) = 0
        BY <1>1, <1>5, <2>4, <2>8, <3>1, <3>2
      <4> QED BY <1>1, <1>10, <2>6, <4>1
    <3>3. CASE ~IsMessage(queue[1])
      BY <1>1, <1>5, <1>9, <2>4, <2>6, <2>8, <3>1, <3>3
    <3> QED BY <3>2, <3>3
  <2> QED BY <1>7, <2>7, <2>8
<1>17. CASE Discard
  <2>1. queue' = <<>> /\ bytes' = bytes - CostOf(queue) /\ UNCHANGED push
    BY <1>17 DEF Discard
  <2>2. CostOf(queue') = 0
    BY <2>1, CostEmpty
  <2>3. Cardinality(Messages(queue')) = 0
    <3>1. Messages(queue') = {}
      BY <2>1 DEF Messages
    <3> QED BY <3>1, FS_EmptySet
  <2>4. bytes' = CostOf(queue') + HeldCost(push')
    BY <1>1, <1>5, <1>6, <2>1, <2>2
  <2>5. CASE bytes <= Budget
    BY <1>1, <2>1, <2>4, <2>5
  <2>6. CASE blocks /\ Cardinality(Messages(queue)) + Cardinality(Holding(push)) = 1
    <3>1. Cardinality(Holding(push')) = Cardinality(Holding(push))
      BY <2>1
    <3>2. CASE Cardinality(Holding(push)) = 0
      BY <1>1, <1>10, <2>3, <2>4, <3>1, <3>2
    <3>3. CASE Cardinality(Holding(push)) # 0
      BY <1>1, <1>9, <2>3, <2>4, <2>6, <3>1, <3>3
    <3> QED BY <3>2, <3>3
  <2> QED BY <1>7, <2>5, <2>6
<1>18. CASE Dequeue /\ queue = <<>>
  <2>1. UNCHANGED <<queue, bytes, push>>
    BY <1>18 DEF Dequeue
  <2> QED BY <1>11, <2>1
<1>19. CASE Start \/ NotifySpace \/ SkipMessage \/ WriterTruncates \/ WriterNotifies \/ SinkStep
              \/ (\E s \in Stoppers : RequestStop(s) \/ StopStep(s) \/ CloseSink(s)) \/ UNCHANGED vars
  <2>1. UNCHANGED <<queue, bytes, push>>
    BY <1>19, QueueKept
  <2> QED BY <1>11, <2>1
<1> QED BY <1>12, <1>13, <1>14, <1>15, <1>16, <1>17, <1>18, <1>19 DEF Next, PushStep, WriterStep

LEMMA PushesPhase ==
  ASSUME IInv, NEW p \in Producers, Push(p) \/ CopyThrows(p) \/ PushStep(p)
  PROVE  /\ UNCHANGED queue \/ (state = "running" /\ state' = "running")
         /\ \/ state' = state /\ (leave' => leave)
            \/ ~summary.frozen /\ state \in {"running", "stopping"} /\ state' = "truncated"
<1>1. CASE Push(p) \/ Retry(p)
  <2>1. PICK m : Enter(p, m)
    BY <1>1 DEF Push, Retry
  <2>2. UNCHANGED <<leave, state>>
    BY <1>1 DEF Push, Retry, UnchangedByPush
  <2> QED BY <2>1, <2>2 DEF Enter
<1>2. CASE Enqueue(p) \/ CopyThrows(p) \/ Refund(p) \/ PushNotifies(p)
  BY <1>2 DEF Enqueue, CopyThrows, Refund, PushNotifies, UnchangedByPush
<1>3. CASE PushTruncates(p)
  BY <1>3 DEF PushTruncates, Truncated, Truncates
<1> QED BY <1>1, <1>2, <1>3 DEF PushStep

LEMMA Phasing == ASSUME IInv, Phases, [Next]_vars PROVE Phases'
<1>0. Shape /\ Ending /\ SinkLife
  BY DEF IInv
<1>1. ASSUME NEW p \in Producers, Push(p) \/ CopyThrows(p) \/ PushStep(p)
      PROVE  Phases'
  <2>1. UNCHANGED <<stop, writer, sink, summary>>
    BY <1>1, PushesKeep
  <2> QED BY <1>1, <2>1, PushesPhase DEF Phases
<1>2. CASE Dequeue
  <2>1. UNCHANGED <<state, leave, summary, stop>> /\ writer.step \in {"loop", "waiting"}
    BY <1>2 DEF Dequeue
  <2>2. CASE queue = <<>>
    <3>1. UNCHANGED queue /\ (writer'.step = "waiting" \/ (writer'.step = "leaving" /\ leave))
      BY <1>0, <1>2, <2>2 DEF Dequeue, WriterGoes, Shape
    <3> QED BY <2>1, <2>2, <3>1 DEF Phases
  <2>3. CASE queue # <<>>
    <3>1. writer'.step = "taken"
      BY <1>0, <1>2, <2>3 DEF Dequeue, Shape
    <3> QED BY <2>1, <3>1 DEF Phases
  <2> QED BY <2>2, <2>3
<1>3. CASE NotifySpace \/ SkipMessage
  <2>1. UNCHANGED <<state, leave, summary, stop, queue>> /\ writer.step \in {"taken", "calling"} /\ writer'.step \in {"calling", "loop"}
    BY <1>0, <1>3 DEF NotifySpace, SkipMessage, WriterGoes, UnchangedBySink, Shape
  <2> QED BY <2>1 DEF Phases
<1>4. CASE WriterTruncates
  <2>1. UNCHANGED <<summary, stop, queue>> /\ writer.step = "truncating"
    BY <1>4 DEF WriterTruncates
  <2>2. state # "idle" /\ ~summary.frozen /\ state # "finished"
    BY <2>1 DEF Phases
  <2>3. CASE Truncates
    <3>1. state' = "truncated" /\ writer'.step = "notifying"
      BY <1>0, <1>4, <2>3 DEF WriterTruncates, Truncated, WriterGoes, Shape
    <3> QED BY <2>1, <2>2, <3>1 DEF Phases
  <2>4. CASE ~Truncates
    <3>1. state = "truncated"
      BY <2>2, <2>4 DEF Truncates, Phases
    <3>2. state' = state /\ writer'.step \in {"loop", "leaving"} /\ (leave' => leave)
      BY <1>0, <1>4, <2>4 DEF WriterTruncates, Truncated, WriterGoes, Shape, SinkLife, Truncates
    <3> QED BY <2>1, <2>2, <3>1, <3>2 DEF Phases
  <2> QED BY <2>3, <2>4
<1>5. CASE WriterNotifies
  <2>1. UNCHANGED <<state, leave, summary, stop, queue>> /\ writer.step = "notifying" /\ writer'.step \in {"loop", "leaving"}
    BY <1>0, <1>5 DEF WriterNotifies, WriterGoes, Shape, SinkLife
  <2> QED BY <2>1 DEF Phases
<1>6. CASE Discard
  <2>1. UNCHANGED <<state, leave, summary, stop>> /\ writer.step = "leaving" /\ writer'.step = "gone" /\ queue' = <<>>
    BY <1>0, <1>6 DEF Discard, Shape
  <2> QED BY <2>1 DEF Phases
<1>7. CASE SinkStep
  <2>1. UNCHANGED <<state, leave, summary, stop, queue>> /\ writer.step = "calling" /\ writer'.step \in {"loop", "truncating"}
    BY <1>0, <1>7 DEF SinkStep, SinkAddsChannel, SinkTakes, SinkThrows, WriterGoes, UnchangedBySink, Shape
  <2> QED BY <2>1 DEF Phases
<1>8. CASE StartRuns
  <2>1. UNCHANGED <<leave, summary, stop, queue>> /\ state = "idle" /\ state' = "running" /\ writer'.step = "loop" /\ ~summary.entered
    BY <1>0, <1>8 DEF StartRuns, Shape, Ending
  <2>2. ~leave
    BY <1>0, <1>8 DEF StartRuns, Phases
  <2> QED BY <2>1, <2>2 DEF Phases
<1>9. CASE StartFails
  BY <1>9 DEF StartFails, Phases
<1>10. CASE StartWithoutWriter
  <2>1. UNCHANGED <<leave, stop, queue, writer>> /\ state = "idle" /\ state' = "truncated"
    BY <1>10 DEF StartWithoutWriter
  <2>2. summary'.entered /\ summary'.frozen /\ summary'.published /\ summary'.truncated
    BY <1>0, <1>10 DEF StartWithoutWriter, Shape
  <2> QED BY <2>1, <2>2 DEF Phases
<1>11. ASSUME NEW s \in Stoppers, RequestStop(s)
       PROVE  Phases'
  <2>1. UNCHANGED <<summary, writer, queue>>
    BY <1>11 DEF RequestStop, UnchangedByStop
  <2>2. \A t \in Stoppers : stop'[t].step \in {"closing", "publishing", "telling"} => stop[t].step \in {"closing", "publishing", "telling"}
    BY <1>0, <1>11 DEF RequestStop, Shape
  <2>3. (state = "running" /\ state' = "stopping") \/ (state # "running" /\ state' = state /\ (leave' => leave))
    BY <1>11 DEF RequestStop
  <2> QED BY <2>1, <2>2, <2>3 DEF Phases
<1>12. ASSUME NEW s \in Stoppers, NotifyStop(s) \/ ReturnFromRequest(s) \/ EnterStop(s) \/ AwaitSummary(s)
       PROVE  Phases'
  <2>1. UNCHANGED <<state, leave, writer, queue>>
    BY <1>12 DEF NotifyStop, ReturnFromRequest, EnterStop, AwaitSummary, UnchangedByStop
  <2>2. \A t \in Stoppers : stop'[t].step \in {"closing", "publishing", "telling"} => stop[t].step \in {"closing", "publishing", "telling"}
    BY <1>0, <1>12 DEF NotifyStop, ReturnFromRequest, EnterStop, AwaitSummary, StopGoes, Shape
  <2>3. /\ summary.entered => summary'.entered
        /\ summary'.frozen = summary.frozen /\ summary'.published = summary.published /\ summary'.truncated = summary.truncated
    BY <1>0, <1>12 DEF NotifyStop, ReturnFromRequest, EnterStop, AwaitSummary, Shape
  <2> QED BY <2>1, <2>2, <2>3 DEF Phases
<1>13. ASSUME NEW s \in Stoppers, Freeze(s)
       PROVE  Phases'
  <2>1. UNCHANGED <<state, leave, writer, queue>> /\ writer.step = "gone" /\ summary.entered
    BY <1>0, <1>13 DEF Freeze, UnchangedByStop, Ending
  <2>2. /\ summary'.entered /\ summary'.frozen /\ summary'.published = summary.published
        /\ summary'.truncated = (state = "truncated")
    BY <1>0, <1>13, <2>1 DEF Freeze, Shape
  <2> QED BY <2>1, <2>2 DEF Phases
<1>14. ASSUME NEW s \in Stoppers, CloseSink(s)
       PROVE  Phases'
  <2>1. UNCHANGED <<state, leave, writer, queue>> /\ summary.frozen
    BY <1>14 DEF CloseSink, UnchangedByStop, Phases
  <2>2. /\ summary'.entered = summary.entered /\ summary'.frozen = summary.frozen /\ summary'.published = summary.published
        /\ summary.truncated => summary'.truncated
    BY <1>0, <1>14 DEF CloseSink, Shape
  <2> QED BY <2>1, <2>2 DEF Phases
<1>15. ASSUME NEW s \in Stoppers, Publish(s)
       PROVE  Phases'
  <2>1. UNCHANGED <<leave, writer, queue>> /\ summary.frozen /\ state' = IF summary.truncated THEN "truncated" ELSE "finished"
    BY <1>15 DEF Publish, UnchangedByStop, Phases
  <2>2. /\ summary'.entered = summary.entered /\ summary'.frozen = summary.frozen /\ summary'.published
        /\ summary'.truncated = summary.truncated
    BY <1>0, <1>15 DEF Publish, Shape
  <2>3. summary.entered /\ state \notin {"idle", "running"}
    BY <1>0, <2>1 DEF Phases, Ending
  <2>4. summary.truncated \/ state # "truncated"
    BY <2>1 DEF Phases
  <2> QED BY <2>1, <2>2, <2>3, <2>4 DEF Phases
<1>16. ASSUME NEW s \in Stoppers, TellSummary(s)
       PROVE  Phases'
  <2>1. UNCHANGED <<state, leave, summary, writer, queue>>
    BY <1>16 DEF TellSummary, UnchangedByStop
  <2>2. \A t \in Stoppers : stop'[t].step \in {"closing", "publishing", "telling"} => stop[t].step \in {"closing", "publishing", "telling"}
    BY <1>0, <1>16 DEF TellSummary, StopGoes, Shape
  <2> QED BY <2>1, <2>2 DEF Phases
<1>17. CASE UNCHANGED vars
  BY <1>17 DEF vars, Phases
<1> QED BY <1>1, <1>2, <1>3, <1>4, <1>5, <1>6, <1>7, <1>8, <1>9, <1>10, <1>11, <1>12, <1>13, <1>14, <1>15, <1>16, <1>17
        DEF Next, Start, WriterStep, StopStep

(* A truncated recording stays truncated. *)
LEMMA CleanBefore == ASSUME IInv, Phases, [Next]_vars, Clean' PROVE Clean
<1>0. Shape /\ Ending /\ SinkLife
  BY DEF IInv
<1>1. SUFFICES state = "truncated" \/ writer.step = "truncating" => state' = "truncated" \/ writer'.step = "truncating"
  BY DEF Clean
<1>2. ASSUME NEW p \in Producers, Push(p) \/ CopyThrows(p) \/ PushStep(p)
      PROVE  state = "truncated" \/ writer.step = "truncating" => state' = "truncated" \/ writer'.step = "truncating"
  BY <1>2, PushesKeep, PushesPhase
<1>3. CASE WriterTruncates
  <2>1. writer.step = "truncating"
    BY <1>3 DEF WriterTruncates
  <2>2. state # "idle" /\ ~summary.frozen /\ state # "finished"
    BY <2>1 DEF Phases
  <2>3. state' = "truncated"
    BY <1>3, <2>2 DEF WriterTruncates, Truncated, Truncates, Phases
  <2> QED BY <2>3
<1>4. CASE Dequeue \/ NotifySpace \/ SkipMessage \/ WriterNotifies \/ Discard \/ SinkStep
  BY <1>4 DEF Dequeue, NotifySpace, SkipMessage, WriterNotifies, Discard, SinkStep, SinkAddsChannel, SinkTakes, SinkThrows,
              UnchangedBySink
<1>5. CASE Start
  BY <1>5 DEF Start, StartRuns, StartFails, StartWithoutWriter, Phases
<1>6. ASSUME NEW s \in Stoppers, RequestStop(s) \/ NotifyStop(s) \/ ReturnFromRequest(s) \/ EnterStop(s) \/ AwaitSummary(s)
                                   \/ Freeze(s) \/ CloseSink(s) \/ TellSummary(s)
      PROVE  state = "truncated" \/ writer.step = "truncating" => state' = "truncated" \/ writer'.step = "truncating"
  BY <1>6 DEF RequestStop, NotifyStop, ReturnFromRequest, EnterStop, AwaitSummary, Freeze, CloseSink, TellSummary, UnchangedByStop
<1>7. ASSUME NEW s \in Stoppers, Publish(s)
      PROVE  state = "truncated" \/ writer.step = "truncating" => state' = "truncated" \/ writer'.step = "truncating"
  <2>1. summary.frozen /\ UNCHANGED writer /\ state' = IF summary.truncated THEN "truncated" ELSE "finished"
    BY <1>7 DEF Publish, Phases, UnchangedByStop
  <2> QED BY <2>1 DEF Phases
<1>8. CASE UNCHANGED vars
  BY <1>8 DEF vars
<1> QED BY <1>2, <1>3, <1>4, <1>5, <1>6, <1>7, <1>8 DEF Next, WriterStep, StopStep

LEMMA Ordering == ASSUME IInv, Typed, Exact, Phases, Ordered, [Next]_vars PROVE Ordered'
<1>0. Shape /\ SinkLife /\ queue \in Seq(Item) /\ bytes \in Nat
  BY BytesNat DEF IInv, Typed
<1> SUFFICES ASSUME Clean' PROVE Ordered'
  BY DEF Ordered
<1>1. Clean
  BY CleanBefore
<1>2. /\ Ahead(queue, Have)
      /\ channels \subseteq Have \cup Opens(queue)
      /\ Handed /\ IsMessage(writer.item) => writer.item.binding \in sink.channels
      /\ \A p \in Producers : push[p].step = "copying" => push[p].message.binding \in channels
  BY <1>1 DEF Ordered
<1>3. ASSUME UNCHANGED <<queue, channels, push>>, UNCHANGED <<writer, sink>> PROVE Ordered'
  BY <1>2, <1>3 DEF Ordered, Have, Handed
<1>4. ASSUME NEW p \in Producers, Push(p) \/ CopyThrows(p) \/ PushStep(p)
      PROVE  Ordered'
  <2>1. UNCHANGED <<writer, sink>> /\ \A q \in Producers : q # p => push'[q] = push[q]
    BY <1>4, PushesKeep, PushesKeepNotice
  <2>2. Have' = Have /\ (Handed' <=> Handed)
    BY <2>1 DEF Have, Handed
  <2>3. ASSUME UNCHANGED <<queue, channels>>, push'[p].step # "copying" PROVE Ordered'
    BY <1>2, <2>1, <2>2, <2>3 DEF Ordered
  <2>4. CASE Push(p) \/ Retry(p)
    <3>1. PICK m \in Message : Enters(p, m)
      BY <2>4, Entering
    <3>2. CASE ~Admit(p, m)
      <4>1. UNCHANGED <<queue, channels>> /\ push'[p].step # "copying"
        BY <3>1, <3>2 DEF Enters
      <4> QED BY <2>3, <4>1
    <3>3. CASE Admit(p, m)
      <4>1. PICK freed, evicted, fits : Admitted(p, m, freed, evicted, fits)
        BY <1>0, <3>3, Admits
      <4>2. /\ Opens(queue') = Opens(queue) \cup IF m.binding \in channels THEN {} ELSE {m.binding}
            /\ \A have : Ahead(queue, have) => Ahead(queue', have)
            /\ push' = IF fits THEN [push EXCEPT ![p].step = "copying", ![p].message = m] ELSE Returned(p, m, "continue")
            /\ channels' = channels \cup {m.binding}
        BY <4>1 DEF Admitted
      <4>3. Ahead(queue', Have')
        BY <1>2, <2>2, <4>2
      <4>4. channels' \subseteq Have' \cup Opens(queue')
        BY <1>2, <2>2, <4>2
      <4>5. push'[p].step = "copying" => push'[p].message.binding \in channels'
        BY <1>0, <4>2 DEF Shape, Returned
      <4>6. \A q \in Producers : push'[q].step = "copying" => push'[q].message.binding \in channels'
        <5>1. channels \subseteq channels'
          BY <4>2
        <5> QED BY <1>2, <2>1, <4>5, <5>1
      <4>7. Handed' /\ IsMessage(writer'.item) => writer'.item.binding \in sink'.channels
        BY <1>2, <2>1, <2>2
      <4> QED BY <4>3, <4>4, <4>6, <4>7 DEF Ordered
    <3> QED BY <3>2, <3>3
  <2>5. CASE Enqueue(p)
    <3> DEFINE m == push[p].message
    <3>1. m \in Message /\ m \in Item /\ IsMessage(m) /\ m.binding \in channels
      BY <1>2, <2>5 DEF Enqueue, Typed, Message, Item, IsMessage
    <3>2. push'[p].step # "copying" /\ UNCHANGED channels
      BY <1>0, <2>5 DEF Enqueue, Returned, Shape
    <3>3. CASE UNCHANGED queue
      BY <2>3, <3>2, <3>3
    <3>4. CASE queue' = Append(queue, m)
      <4> HIDE DEF m
      <4>1. Ahead(queue', Have)
        BY <1>0, <1>2, <3>1, <3>4, AheadAppend
      <4>2. Opens(queue') = Opens(queue) \cup {}
        BY <1>0, <3>1, <3>4, OpensAppend
      <4> QED BY <1>2, <2>1, <2>2, <3>2, <4>1, <4>2 DEF Ordered
    <3> QED BY <2>5, <3>3, <3>4 DEF Enqueue
  <2>6. CASE CopyThrows(p) \/ Refund(p) \/ PushTruncates(p) \/ PushNotifies(p)
    <3>1. UNCHANGED <<queue, channels>> /\ push'[p].step # "copying"
      BY <1>0, <2>6 DEF CopyThrows, Refund, PushTruncates, PushNotifies, Returned, Shape
    <3> QED BY <2>3, <3>1
  <2> QED BY <1>4, <2>4, <2>5, <2>6 DEF PushStep
<1>5. CASE Dequeue
  <2>1. UNCHANGED <<channels, sink, push>> /\ ~Handed
    BY <1>5 DEF Dequeue, Handed
  <2>2. Have = sink.channels
    BY <2>1 DEF Have
  <2>3. CASE queue = <<>>
    <3>1. UNCHANGED queue /\ ~Handed'
      BY <1>0, <1>5, <2>3 DEF Dequeue, WriterGoes, Handed, Shape
    <3>2. Have' = Have
      BY <2>1, <2>2, <3>1 DEF Have
    <3> QED BY <1>2, <2>1, <3>1, <3>2 DEF Ordered
  <2>4. CASE queue # <<>>
    <3>1. queue' = Tail(queue) /\ writer'.item = Head(queue) /\ Handed'
      BY <1>0, <1>5, <2>4 DEF Dequeue, Handed, Shape
    <3>2. /\ 1 \in 1..Len(queue) /\ queue[1] = Head(queue) /\ Head(queue) \in Item
          /\ Drops(queue, 1, queue')
      BY <1>0, <2>4, <3>1, TakingHead
    <3> DEFINE item == queue[1]
               more == IF IsMessage(item) THEN {} ELSE {item.binding}
    <3>3. Have' = Have \cup more
      BY <2>1, <2>2, <3>1, <3>2 DEF Have
    <3>4. Opens(queue) = Opens(queue') \cup more
      BY <1>0, <3>2, OpensDrop
    <3>5. Ahead(queue', Have \cup more)
      <4> DEFINE have == Have
      <4>1. Ahead(queue, have)
        BY <1>2
      <4> HIDE DEF have
      <4>2. Ahead(queue', have \cup more)
        BY <1>0, <3>2, <4>1, AheadDrop
      <4> QED BY <4>2 DEF have
    <3>6. IsMessage(item) => item.binding \in sink.channels
      <4> SUFFICES ASSUME IsMessage(item) PROVE item.binding \in sink.channels
        OBVIOUS
      <4>1. 1 \in Messages(queue)
        BY <3>2 DEF Messages
      <4>2. item.binding \in Have
        BY <1>2, <4>1 DEF Ahead
      <4> QED BY <2>2, <4>2
    <3> HIDE DEF more
    <3>7. channels' \subseteq Have' \cup Opens(queue')
      BY <1>2, <2>1, <3>3, <3>4
    <3>8. Ahead(queue', Have')
      BY <3>3, <3>5
    <3> QED BY <1>2, <2>1, <3>1, <3>2, <3>6, <3>7, <3>8 DEF Ordered
  <2> QED BY <2>3, <2>4
<1>6. CASE NotifySpace
  <2>1. UNCHANGED <<queue, channels, push, sink>> /\ Handed /\ Handed' /\ writer'.item = writer.item
    BY <1>0, <1>6 DEF NotifySpace, WriterGoes, Handed, Shape
  <2>2. Have' = Have
    BY <2>1 DEF Have
  <2> QED BY <1>2, <2>1, <2>2 DEF Ordered
<1>7. CASE SkipMessage
  <2>1. Handed /\ IsMessage(writer.item) /\ writer.item.binding \notin sink.channels
    BY <1>7 DEF SkipMessage, Handed
  <2> QED BY <1>2, <2>1
<1>8. CASE WriterTruncates \/ WriterNotifies
  BY <1>1, <1>8 DEF WriterTruncates, WriterNotifies, Clean, Phases
<1>9. CASE Discard
  <2>1. queue = <<>> /\ queue' = <<>> /\ UNCHANGED <<channels, push, sink>> /\ ~Handed /\ ~Handed'
    BY <1>0, <1>1, <1>9 DEF Discard, Handed, Phases, Clean, Shape
  <2>2. Have' = Have
    BY <2>1 DEF Have
  <2> QED BY <1>2, <2>1, <2>2 DEF Ordered
<1>10. CASE SinkStep
  <2>1. UNCHANGED <<queue, channels, push>>
    BY <1>10, QueueKept
  <2>2. CASE SinkThrows
    BY <1>0, <2>2 DEF SinkThrows, Clean, Shape
  <2>3. CASE SinkTakes
    <3>1. Handed /\ IsMessage(writer.item) /\ ~Handed' /\ sink'.channels = sink.channels
      BY <1>0, <2>3 DEF SinkTakes, Handed, WriterGoes, Shape
    <3>2. Have' = Have
      BY <3>1 DEF Have
    <3> QED BY <1>2, <2>1, <3>1, <3>2 DEF Ordered
  <2>4. CASE SinkAddsChannel
    <3>1. Handed /\ ~IsMessage(writer.item)
      BY <2>4 DEF SinkAddsChannel, Handed, IsMessage
    <3>2. ~Handed' /\ sink'.channels = sink.channels \cup {writer.item.binding}
      BY <1>0, <2>4 DEF SinkAddsChannel, Handed, WriterGoes, Clean, Shape
    <3>3. Have' = Have
      BY <3>1, <3>2 DEF Have
    <3> QED BY <1>2, <2>1, <3>1, <3>2, <3>3 DEF Ordered
  <2> QED BY <1>10, <2>2, <2>3, <2>4 DEF SinkStep
<1>11. CASE Start
  <2>1. UNCHANGED <<queue, channels, push>>
    BY <1>11, QueueKept DEF Start
  <2>2. CASE StartWithoutWriter
    BY <2>2 DEF StartWithoutWriter, Clean
  <2>3. CASE StartRuns \/ StartFails
    <3>1. ~Handed /\ ~Handed' /\ sink'.channels = sink.channels
      BY <1>0, <2>3 DEF StartRuns, StartFails, Handed, Phases, Shape
    <3>2. Have' = Have
      BY <3>1 DEF Have
    <3> QED BY <1>2, <2>1, <3>1, <3>2 DEF Ordered
  <2> QED BY <1>11, <2>2, <2>3 DEF Start
<1>12. ASSUME NEW s \in Stoppers, RequestStop(s) \/ StopStep(s) \/ CloseSink(s)
       PROVE  Ordered'
  <2>1. UNCHANGED <<queue, channels, push>>
    BY <1>12, QueueKept
  <2>2. UNCHANGED writer /\ sink'.channels = sink.channels
    BY <1>0, <1>12 DEF RequestStop, StopStep, NotifyStop, ReturnFromRequest, EnterStop, AwaitSummary, Freeze, CloseSink,
                       Publish, TellSummary, UnchangedByStop, Shape
  <2>3. Have' = Have /\ (Handed' <=> Handed)
    BY <2>2 DEF Have, Handed
  <2> QED BY <1>2, <2>1, <2>2, <2>3 DEF Ordered
<1>13. CASE UNCHANGED vars
  <2>1. UNCHANGED <<queue, channels, push, writer, sink>>
    BY <1>13 DEF vars
  <2> QED BY <1>3, <2>1
<1> QED BY <1>4, <1>5, <1>6, <1>7, <1>8, <1>9, <1>10, <1>11, <1>12, <1>13 DEF Next, WriterStep

LEMMA Tallying == ASSUME IInv, Typed, Exact, Phases, Ordered, Accounted, [Next]_vars PROVE Accounted'
<1> DEFINE Total(c, n, h) == c.written + c.pending + c.dropped + n + h
           Kept == Clean' => KeptSum(push') = Total(counts', Cardinality(Messages(queue')), InHand')
           Books == /\ Len(sink'.file) = counts'.written + counts'.pending
                    /\ counts'.pending = 0 \/ writer'.step = "loop"
                    /\ summary'.frozen => summary'.messages = counts'.written /\ summary'.dropped = counts'.dropped
                    /\ ~summary'.frozen => summary'.messages = 0 /\ summary'.dropped = 0
                    /\ writer'.step = "none" => counts'.written = 0 /\ counts'.pending = 0 /\ counts'.dropped = 0
<1>1. Shape /\ SinkLife /\ Ending /\ queue \in Seq(Item) /\ bytes \in Nat /\ Cardinality(Messages(queue)) \in Nat
  BY BytesNat DEF IInv, Typed
<1>2. counts \in [written : Nat, pending : Nat, dropped : Nat] /\ \A p \in Producers : push[p].kept \in Nat
  BY DEF Typed
<1>3. counts.written \in Nat /\ counts.pending \in Nat /\ counts.dropped \in Nat
  BY <1>2, Tallied
<1>4. Clean => KeptSum(push) = Total(counts, Cardinality(Messages(queue)), InHand)
  BY DEF Accounted
<1>5. /\ Len(sink.file) = counts.written + counts.pending
      /\ counts.pending = 0 \/ writer.step = "loop"
      /\ summary.frozen => summary.messages = counts.written /\ summary.dropped = counts.dropped
      /\ ~summary.frozen => summary.messages = 0 /\ summary.dropped = 0
      /\ writer.step = "none" => counts.written = 0 /\ counts.pending = 0 /\ counts.dropped = 0
  BY DEF Accounted
<1>6. InHand \in {0, 1} /\ (~Handed => InHand = 0)
  BY DEF InHand
<1>7. KeptSum(push) \in Nat
  <2> DEFINE w == [p \in Producers |-> push[p].kept]
  <2>1. KeptSum(push) = Number(w, Producers)
    BY <1>2, KeptIs
  <2>2. IsFiniteSet(Producers) /\ \A p \in Producers : w[p] \in Nat
    BY <1>2, RecorderAssumption
  <2> HIDE DEF w
  <2> QED BY <2>1, <2>2, UnitsFinite
<1>8. Clean' => Clean
  BY CleanBefore
<1>9. state \in {"idle", "running"} => ~summary.frozen
  BY <1>1 DEF Phases, Ending
<1>10. SUFFICES Kept /\ Books
  BY DEF Accounted
<1>11. ASSUME NEW p \in Producers, Push(p) \/ CopyThrows(p) \/ PushStep(p)
       PROVE  Kept /\ Books
  <2>1. UNCHANGED <<writer, sink, summary>> /\ \A q \in Producers : q # p => push'[q] = push[q]
    BY <1>11, PushesKeep, PushesKeepNotice
  <2>2. InHand' = InHand
    BY <2>1 DEF InHand, Handed
  <2>3. ASSUME UNCHANGED <<queue, counts>>, push'[p].kept = push[p].kept PROVE Kept /\ Books
    <3>1. \A q \in Producers : push'[q].kept = push[q].kept
      BY <2>1, <2>3
    <3>2. KeptSum(push') = KeptSum(push)
      BY <1>2, <3>1, KeptAlike
    <3>3. Kept
      BY <1>4, <1>8, <2>2, <2>3, <3>2
    <3> QED BY <1>5, <2>1, <2>3, <3>3
  <2>4. ASSUME push'[p].kept = push[p].kept + 1 PROVE KeptSum(push') = KeptSum(push) + 1
    <3>1. push'[p].kept \in Nat /\ \A q \in Producers : q # p => push'[q].kept = push[q].kept
      BY <1>2, <2>1, <2>4
    <3>2. KeptSum(push') = KeptSum(push) + push'[p].kept - push[p].kept
      BY <1>2, <3>1, KeptChanges
    <3>3. push[p].kept \in Nat
      BY <1>2
    <3> QED BY <1>7, <2>4, <3>2, <3>3
  <2>5. CASE Push(p) \/ Retry(p)
    <3>1. PICK m \in Message : Enters(p, m)
      BY <2>5, Entering
    <3>2. CASE ~(state = "running" /\ Admit(p, m))
      <4>1. UNCHANGED <<queue, counts>> /\ push'[p].kept = push[p].kept
        BY <3>1, <3>2 DEF Enters
      <4> QED BY <2>3, <4>1
    <3>3. CASE state = "running" /\ Admit(p, m)
      <4>1. PICK freed, evicted, fits : Admitted(p, m, freed, evicted, fits)
        BY <1>1, <3>3, Admits
      <4> DEFINE lost == IF fits THEN 0 ELSE 1
      <4>2. /\ evicted \in Nat /\ fits \in BOOLEAN
            /\ Cardinality(Messages(queue')) + evicted = Cardinality(Messages(queue))
            /\ counts' = [counts EXCEPT !.dropped = @ + evicted + lost]
            /\ push' = IF fits THEN [push EXCEPT ![p].step = "copying", ![p].message = m] ELSE Returned(p, m, "continue")
            /\ queue' \in Seq(Item)
        BY <4>1 DEF Admitted
      <4>3. lost \in Nat
        OBVIOUS
      <4>4. KeptSum(push') = KeptSum(push) + lost
        <5>1. CASE fits
          <6>1. \A q \in Producers : push'[q].kept = push[q].kept
            BY <1>1, <4>2, <5>1 DEF Shape
          <6>2. KeptSum(push') = KeptSum(push)
            BY <1>2, <6>1, KeptAlike
          <6> QED BY <1>7, <5>1, <6>2
        <5>2. CASE ~fits
          <6>1. push'[p].kept = push[p].kept + 1
            BY <1>1, <4>2, <5>2, ReturnIs
          <6> QED BY <2>4, <5>2, <6>1
        <5> QED BY <5>1, <5>2
      <4> HIDE DEF lost
      <4>5. counts'.written = counts.written /\ counts'.pending = counts.pending /\ counts'.dropped = counts.dropped + evicted + lost
        BY <1>2, <4>2
      <4>6. Kept
        <5> DEFINE n == Cardinality(Messages(queue))
                   n2 == Cardinality(Messages(queue'))
        <5>1. n2 \in Nat /\ n \in Nat /\ n2 + evicted = n
          BY <1>1, <4>2, MessagesFinite
        <5> HIDE DEF n, n2
        <5>2. Clean => KeptSum(push) = Total(counts, n, InHand)
          BY <1>4 DEF n
        <5>3. Clean => KeptSum(push) + lost = Total(counts', n2, InHand)
          <6>1. evicted \in Nat
            BY <4>2
          <6> QED BY <1>3, <1>6, <4>3, <4>5, <5>1, <5>2, <6>1
        <5> QED BY <1>8, <2>2, <4>4, <5>3 DEF n2
      <4>7. ~summary.frozen /\ writer.step # "none"
        BY <1>9, <3>3 DEF Phases
      <4> QED BY <1>5, <2>1, <4>5, <4>6, <4>7
    <3> QED BY <3>2, <3>3
  <2>6. CASE Enqueue(p)
    <3> DEFINE m == push[p].message
    <3>1. m \in Item /\ IsMessage(m)
      BY <2>6 DEF Enqueue, Typed, Message, Item, IsMessage
    <3>2. UNCHANGED counts
      BY <2>6 DEF Enqueue
    <3>3. CASE push' = [push EXCEPT ![p].step = "refunding"] /\ UNCHANGED queue
      <4>1. push'[p].kept = push[p].kept
        BY <1>1, <3>3 DEF Shape
      <4> QED BY <2>3, <3>2, <3>3, <4>1
    <3>4. CASE push' = Returned(p, m, "continue") /\ queue' = Append(queue, m)
      <4>1. push'[p].kept = push[p].kept + 1
        BY <1>1, <3>4, ReturnIs
      <4> HIDE DEF m
      <4>2. Cardinality(Messages(queue')) = Cardinality(Messages(queue)) + 1
        BY <1>1, <3>1, <3>4, MessagesAppend
      <4>3. KeptSum(push') = KeptSum(push) + 1
        BY <2>4, <4>1
      <4>4. Kept
        <5> DEFINE n == Cardinality(Messages(queue))
        <5>1. n \in Nat /\ Cardinality(Messages(queue')) = n + 1
          BY <1>1, <4>2
        <5> HIDE DEF n
        <5>2. Clean => KeptSum(push) = Total(counts, n, InHand)
          BY <1>4 DEF n
        <5>3. Clean => KeptSum(push) + 1 = Total(counts, n + 1, InHand)
          BY <1>3, <1>6, <5>1, <5>2
        <5> QED BY <1>8, <2>2, <3>2, <4>3, <5>1, <5>3
      <4> QED BY <1>5, <2>1, <3>2, <4>4
    <3> QED BY <2>6, <3>3, <3>4 DEF Enqueue
  <2>7. CASE CopyThrows(p) \/ Refund(p) \/ PushTruncates(p) \/ PushNotifies(p)
    <3>1. UNCHANGED <<queue, counts>> /\ push'[p].kept = push[p].kept
      BY <1>1, <2>7 DEF CopyThrows, Refund, PushTruncates, PushNotifies, Returned, Shape
    <3> QED BY <2>3, <3>1
  <2> QED BY <1>11, <2>5, <2>6, <2>7 DEF PushStep
<1>12. ASSUME UNCHANGED <<queue, push, counts>>, sink'.file = sink.file, Clean => InHand' = InHand,
              writer.step # "loop" \/ writer'.step = "loop", writer'.step = "none" => writer.step = "none",
              \/ summary'.frozen = summary.frozen /\ summary'.messages = summary.messages /\ summary'.dropped = summary.dropped
              \/ summary'.frozen /\ summary'.messages = counts.written /\ summary'.dropped = counts.dropped
       PROVE  Kept /\ Books
  <2>1. Kept
    BY <1>4, <1>8, <1>12
  <2> QED BY <1>5, <1>12, <2>1
<1>13. CASE Dequeue
  <2>1. UNCHANGED <<push, sink, summary>> /\ ~Handed /\ counts' = [counts EXCEPT !.written = @ + counts.pending, !.pending = 0]
        /\ writer.step \in {"loop", "waiting"}
    BY <1>13 DEF Dequeue, Handed
  <2>2. counts'.written = counts.written + counts.pending /\ counts'.pending = 0 /\ counts'.dropped = counts.dropped
    BY <1>2, <2>1
  <2>3. ~summary.frozen /\ writer'.step # "none"
    BY <1>1, <1>13, <2>1 DEF Phases, Dequeue, WriterGoes, Shape
  <2>4. Books
    BY <1>3, <1>5, <2>1, <2>2, <2>3
  <2>5. InHand = 0
    BY <1>6, <2>1
  <2>6. CASE queue = <<>>
    <3>1. UNCHANGED queue /\ InHand' = 0
      BY <1>1, <1>13, <2>6 DEF Dequeue, WriterGoes, InHand, Handed, Shape
    <3>2. Kept
      <4> DEFINE n == Cardinality(Messages(queue))
      <4>1. n \in Nat /\ n = Cardinality(Messages(queue'))
        BY <1>1, <3>1
      <4>2. Clean => KeptSum(push) = Total(counts, n, 0)
        BY <1>4, <2>5
      <4> HIDE DEF n
      <4>3. Clean => KeptSum(push) = Total(counts', n, 0)
        BY <1>3, <2>2, <4>1, <4>2
      <4> QED BY <1>8, <2>1, <3>1, <4>1, <4>3
    <3> QED BY <2>4, <3>2
  <2>7. CASE queue # <<>>
    <3> DEFINE took == IF IsMessage(queue[1]) THEN 1 ELSE 0
    <3>1. queue' = Tail(queue) /\ writer'.item = Head(queue) /\ Handed'
      BY <1>1, <1>13, <2>7 DEF Dequeue, Handed, Shape
    <3>2. 1 \in 1..Len(queue) /\ queue[1] = Head(queue) /\ Drops(queue, 1, queue')
      BY <1>1, <2>7, <3>1, TakingHead
    <3>3. InHand' = took
      BY <3>1, <3>2 DEF InHand
    <3>4. Cardinality(Messages(queue)) = Cardinality(Messages(queue')) + took
      BY <1>1, <3>2, MessagesDrop
    <3>5. queue' \in Seq(Item) /\ took \in Nat
      BY <3>2 DEF Drops
    <3> HIDE DEF took
    <3>6. Kept
      <4> DEFINE n == Cardinality(Messages(queue'))
      <4>1. n \in Nat
        BY <3>5, MessagesFinite
      <4>2. Clean => KeptSum(push) = Total(counts, n + took, 0)
        BY <1>4, <2>5, <3>4
      <4> HIDE DEF n
      <4>3. Clean => KeptSum(push) = Total(counts', n, took)
        BY <1>3, <2>2, <3>5, <4>1, <4>2
      <4> QED BY <1>8, <2>1, <3>3, <4>3 DEF n
    <3> QED BY <2>4, <3>6
  <2> QED BY <2>6, <2>7
<1>14. CASE SinkTakes
  <2>1. UNCHANGED <<queue, push, summary>> /\ counts' = [counts EXCEPT !.pending = @ + 1] /\ writer.step = "calling"
        /\ writer'.step = "loop" /\ IsMessage(writer.item)
    BY <1>1, <1>14 DEF SinkTakes, UnchangedBySink, WriterGoes, Shape
  <2>2. counts'.written = counts.written /\ counts'.pending = counts.pending + 1 /\ counts'.dropped = counts.dropped
    BY <1>2, <2>1
  <2>3. InHand = 1 /\ InHand' = 0
    BY <2>1 DEF InHand, Handed
  <2>4. sink.file \in Seq([from : Producers, n : Nat])
    BY DEF Typed
  <2>5. sink'.file = Append(sink.file, [from |-> writer.item.from, n |-> writer.item.n])
    BY <1>1, <1>14 DEF SinkTakes, Shape
  <2>6. Len(sink'.file) = Len(sink.file) + 1
    BY <2>4, <2>5
  <2>7. ~summary.frozen
    BY <2>1 DEF Phases
  <2>8. Books
    BY <1>3, <1>5, <2>1, <2>2, <2>6, <2>7
  <2>9. Kept
    <3> DEFINE n == Cardinality(Messages(queue))
    <3>1. n \in Nat /\ n = Cardinality(Messages(queue'))
      BY <1>1, <2>1
    <3>2. Clean => KeptSum(push) = Total(counts, n, 1)
      BY <1>4, <2>3
    <3> HIDE DEF n
    <3>3. Clean => KeptSum(push) = Total(counts', n, 0)
      BY <1>3, <2>2, <3>1, <3>2
    <3> QED BY <1>8, <2>1, <2>3, <3>1, <3>3
  <2> QED BY <2>8, <2>9
<1>15. CASE NotifySpace
  <2>1. UNCHANGED <<queue, push, counts, sink, summary>> /\ writer.step = "taken" /\ writer'.step = "calling" /\ writer'.item = writer.item
    BY <1>1, <1>15 DEF NotifySpace, WriterGoes, Shape
  <2>2. InHand' = InHand
    BY <2>1 DEF InHand, Handed
  <2> QED BY <1>12, <2>1, <2>2
<1>16. CASE SkipMessage
  <2>1. UNCHANGED <<queue, push, counts, sink, summary>> /\ writer.step = "calling" /\ writer'.step = "loop"
    BY <1>1, <1>16 DEF SkipMessage, WriterGoes, UnchangedBySink, Shape
  <2>2. ~Clean
    BY <1>16 DEF SkipMessage, Ordered, Handed
  <2> QED BY <1>12, <2>1, <2>2
<1>17. CASE WriterTruncates \/ WriterNotifies
  <2>1. UNCHANGED <<queue, push, counts, sink, summary>> /\ writer.step \in {"truncating", "notifying"}
        /\ writer'.step \in {"notifying", "loop", "leaving"}
    BY <1>1, <1>17 DEF WriterTruncates, WriterNotifies, WriterGoes, Shape, SinkLife
  <2>2. ~Clean
    BY <2>1 DEF Clean, Phases
  <2> QED BY <1>12, <2>1, <2>2
<1>18. CASE Discard
  <2>1. UNCHANGED <<push, counts, sink, summary>> /\ queue' = <<>> /\ writer.step = "leaving" /\ writer'.step = "gone"
    BY <1>1, <1>18 DEF Discard, Shape
  <2>2. Books
    BY <1>5, <2>1
  <2>3. Kept
    <3>1. Clean => queue' = queue
      BY <2>1 DEF Clean, Phases
    <3>2. InHand' = InHand
      BY <2>1 DEF InHand, Handed
    <3> QED BY <1>4, <1>8, <2>1, <3>1, <3>2
  <2> QED BY <2>2, <2>3
<1>19. CASE SinkAddsChannel \/ SinkThrows
  <2>1. UNCHANGED <<queue, push, counts, summary>> /\ sink'.file = sink.file /\ writer.step = "calling"
        /\ writer'.step \in {"loop", "truncating"}
    BY <1>1, <1>19 DEF SinkAddsChannel, SinkThrows, WriterGoes, UnchangedBySink, Shape
  <2>2. CASE SinkAddsChannel
    <3>1. InHand = 0 /\ InHand' = 0
      BY <2>1, <2>2 DEF SinkAddsChannel, InHand, Handed, IsMessage
    <3> QED BY <1>12, <2>1, <3>1
  <2>3. CASE SinkThrows
    <3>1. ~Clean'
      BY <1>1, <2>3 DEF SinkThrows, Clean, Shape
    <3>2. Books
      BY <1>5, <2>1
    <3> QED BY <3>1, <3>2
  <2> QED BY <1>19, <2>2, <2>3
<1>20. CASE StartRuns \/ StartFails
  <2>1. UNCHANGED <<queue, push, counts, summary>> /\ sink'.file = sink.file /\ writer.step = "none"
        /\ writer'.step \in {"loop", "none"}
    BY <1>1, <1>20 DEF StartRuns, StartFails, Shape, Phases
  <2>2. InHand' = InHand
    BY <2>1 DEF InHand, Handed
  <2> QED BY <1>12, <2>1, <2>2
<1>21. CASE StartWithoutWriter
  <2>1. UNCHANGED <<counts, writer>> /\ sink'.file = sink.file /\ writer.step = "none" /\ ~summary.frozen /\ ~Clean'
    BY <1>1, <1>9, <1>21 DEF StartWithoutWriter, Shape, Phases, Clean
  <2>2. summary'.frozen /\ summary'.messages = summary.messages /\ summary'.dropped = summary.dropped
    BY <1>1, <1>21 DEF StartWithoutWriter, Shape
  <2>3. Books
    BY <1>5, <2>1, <2>2
  <2> QED BY <2>1, <2>3
<1>22. ASSUME NEW s \in Stoppers, RequestStop(s) \/ StopStep(s) \/ CloseSink(s)
       PROVE  Kept /\ Books
  <2>1. UNCHANGED <<queue, push>>
    BY <1>22, QueueKept
  <2>2. UNCHANGED <<counts, writer>> /\ sink'.file = sink.file
    BY <1>1, <1>22 DEF RequestStop, StopStep, NotifyStop, ReturnFromRequest, EnterStop, AwaitSummary, Freeze, CloseSink,
                       Publish, TellSummary, UnchangedByStop, Shape
  <2>3. InHand' = InHand
    BY <2>2 DEF InHand, Handed
  <2>4. \/ summary'.frozen = summary.frozen /\ summary'.messages = summary.messages /\ summary'.dropped = summary.dropped
        \/ summary'.frozen /\ summary'.messages = counts.written /\ summary'.dropped = counts.dropped
    <3>1. CASE Freeze(s)
      BY <1>1, <3>1 DEF Freeze, Shape
    <3>2. CASE EnterStop(s) \/ CloseSink(s) \/ Publish(s)
      BY <1>1, <3>2 DEF EnterStop, CloseSink, Publish, Shape
    <3>3. CASE RequestStop(s) \/ NotifyStop(s) \/ ReturnFromRequest(s) \/ AwaitSummary(s) \/ TellSummary(s)
      BY <3>3 DEF RequestStop, NotifyStop, ReturnFromRequest, AwaitSummary, TellSummary
    <3> QED BY <1>22, <3>1, <3>2, <3>3 DEF StopStep
  <2> QED BY <1>12, <2>1, <2>2, <2>3, <2>4
<1>23. CASE UNCHANGED vars
  <2>1. UNCHANGED <<queue, push, counts, sink, writer, summary>>
    BY <1>23 DEF vars
  <2>2. InHand' = InHand
    BY <2>1 DEF InHand, Handed
  <2> QED BY <1>12, <2>1, <2>2
<1> QED BY <1>11, <1>13, <1>14, <1>15, <1>16, <1>17, <1>18, <1>19, <1>20, <1>21, <1>22, <1>23
        DEF Next, Start, WriterStep, SinkStep

LEMMA Waiting == ASSUME IInv, Typed, Exact, Phases, Waits, SpaceHeard, [Next]_vars PROVE Waits' /\ SpaceHeard'
<1> DEFINE Asleep(p) == push[p].step = "waiting" /\ ~Awake(p)
           Told == Notifying \/ writer.step = "taken"
           Goal == \A p \in Producers : Asleep(p)' => blocks' /\ (Space(push[p].message.cost)' => Told')
<1>1. Shape /\ SinkLife /\ Ending /\ Sleepers /\ bytes \in Nat /\ CostOf(queue) \in Nat /\ PushesReleased
  BY BytesNat DEF IInv
<1>2. \A p \in Producers : Asleep(p) => blocks /\ (Space(push[p].message.cost) => Told)
  BY DEF Waits, SpaceHeard
<1>3. SUFFICES Goal
  BY DEF Waits, SpaceHeard
<1>4. ASSUME NEW p \in Producers, Asleep(p), push'[p] = push[p], UNCHANGED <<bytes, blocks>>, Told => Told'
      PROVE  blocks' /\ (Space(push[p].message.cost)' => Told')
  BY <1>2, <1>4 DEF Space
<1>5. \A p \in Producers : p \notin asleep.items /\ (~Awake(p) <=> p \in asleep.space)
  BY <1>1, RecorderAssumption, Waking DEF Sleepers
<1>6. \A p \in Producers : p \notin asleep'.items /\ (~Awake(p)' <=> p \in asleep'.space)
  BY Sleeping, RecorderAssumption, Waking DEF Sleepers
<1>7. ASSUME NEW q \in Producers, Push(q) \/ CopyThrows(q) \/ PushStep(q), NEW p \in Producers, Asleep(p)'
      PROVE  blocks' /\ (Space(push[p].message.cost)' => Told')
  <2>1. UNCHANGED <<writer, blocks>> /\ (push[q].step # "notifying" => (Notifying => Notifying'))
        /\ \A r \in Producers : r # q => push'[r] = push[r]
    <3>1. UNCHANGED blocks
      BY <1>7 DEF Push, CopyThrows, PushStep, Retry, Enqueue, Refund, PushTruncates, PushNotifies, UnchangedByPush
    <3> QED BY <1>7, <3>1, PushesKeep, PushesKeepNotice
  <2>2. push[q].step # "notifying" => (Told => Told')
    BY <2>1
  <2>3. p \in asleep'.space /\ push'[p].step = "waiting"
    BY <1>6, <1>7
  <2>4. CASE Push(q) \/ Retry(q)
    <3>1. PICK m \in Message : Enters(q, m) /\ Enter(q, m)
      BY <2>4, Entering
    <3>2. push[q].step # "notifying"
      BY <2>4 DEF Push, Retry
    <3>3. CASE state # "running"
      <4>1. push'[q].step = "detached" /\ UNCHANGED <<bytes, asleep>>
        BY <3>1, <3>3 DEF Enters
      <4>2. p # q /\ p \in asleep.space
        BY <2>3, <4>1
      <4>3. Asleep(p)
        BY <1>5, <2>1, <2>3, <4>2
      <4> QED BY <1>4, <2>1, <2>2, <3>2, <4>1, <4>2, <4>3
    <3>4. CASE state = "running" /\ blocks /\ ~Space(m.cost)
      <4>1. push'[q].message = m /\ UNCHANGED bytes /\ Sleep(q, "space")
        BY <3>1, <3>4 DEF Enters
      <4>2. CASE p = q
        BY <2>1, <3>4, <4>1, <4>2 DEF Space
      <4>3. CASE p # q
        <5>1. p \in asleep.space
          BY <1>1, <2>3, <4>1, <4>3, Dozing
        <5>2. Asleep(p)
          BY <1>5, <2>1, <2>3, <4>3, <5>1
        <5> QED BY <1>4, <2>1, <2>2, <3>2, <4>1, <4>3, <5>2
      <4> QED BY <4>2, <4>3
    <3>5. CASE state = "running" /\ (blocks => Space(m.cost)) /\ Admit(q, m)
      <4>1. PICK freed, evicted, fits : Admitted(q, m, freed, evicted, fits)
        BY <1>1, <3>5, Admits
      <4>2. /\ bytes' = bytes - freed + IF fits THEN m.cost ELSE 0
            /\ push' = IF fits THEN [push EXCEPT ![q].step = "copying", ![q].message = m] ELSE Returned(q, m, "continue")
            /\ blocks => fits /\ freed = 0
        BY <4>1 DEF Admitted
      <4>3. push'[q].step # "waiting"
        BY <1>1, <4>2 DEF Shape, Returned
      <4>4. p # q /\ p \in asleep.space
        <5>1. p # q
          BY <2>3, <4>3
        <5>2. asleep'.space = asleep.space
          BY <1>1, <3>5 DEF Admit, NotifyOneItem, Shape
        <5> QED BY <2>3, <5>1, <5>2
      <4>5. Asleep(p)
        BY <1>5, <2>1, <2>3, <4>4
      <4>6. blocks
        BY <1>2, <4>5
      <4>7. m.cost \in Nat /\ push[p].message.cost \in Nat /\ push'[p] = push[p] /\ Budget \in Nat
        <5>1. m.cost \in Nat
          BY Weights DEF Message, Item, IsMessage
        <5>2. push[p].message \in Message
          BY <4>5 DEF Typed
        <5>3. push[p].message.cost \in Nat
          BY <5>2, Weights DEF Message, Item, IsMessage
        <5> QED BY <2>1, <4>4, <5>1, <5>3, RecorderAssumption
      <4>8. bytes' >= bytes /\ bytes' \in Nat
        BY <1>1, <4>2, <4>6, <4>7
      <4>9. Space(push[p].message.cost)' => Space(push[p].message.cost)
        BY <1>1, <4>7, <4>8 DEF Space
      <4> QED BY <1>2, <2>1, <2>2, <3>2, <4>5, <4>6, <4>9
    <3>6. \/ state # "running"
          \/ state = "running" /\ blocks /\ ~Space(m.cost)
          \/ state = "running" /\ (blocks => Space(m.cost)) /\ Admit(q, m)
      BY <3>1 DEF Enters
    <3> QED BY <3>3, <3>4, <3>5, <3>6
  <2>5. CASE Enqueue(q) \/ CopyThrows(q) \/ PushTruncates(q)
    <3>1. push[q].step # "notifying" /\ push'[q].step # "waiting" /\ UNCHANGED bytes /\ asleep'.space = asleep.space
      BY <1>1, <2>5 DEF Enqueue, CopyThrows, PushTruncates, Returned, NotifyOneItem, Shape
    <3>2. p # q /\ Asleep(p)
      BY <1>5, <2>1, <2>3, <3>1
    <3> QED BY <1>4, <2>1, <2>2, <3>1, <3>2
  <2>6. CASE Refund(q) \/ PushNotifies(q)
    <3>1. asleep'.space = {}
      BY <1>1, <2>6 DEF Refund, PushNotifies, NotifyAll, Shape
    <3> QED BY <2>3, <3>1
  <2> QED BY <1>7, <2>4, <2>5, <2>6 DEF PushStep
<1>8. ASSUME Dequeue, NEW p \in Producers, Asleep(p)'
      PROVE  blocks' /\ (Space(push[p].message.cost)' => Told')
  <2>1. UNCHANGED <<push, stop, blocks>> /\ writer.step \in {"loop", "waiting"}
    BY <1>8 DEF Dequeue
  <2>2. asleep'.space = asleep.space
    BY <1>1, <1>8, Dozing DEF Dequeue
  <2>3. Asleep(p)
    BY <1>5, <1>6, <1>8, <2>1, <2>2
  <2>4. Told => Told'
    BY <2>1 DEF Notifying
  <2>5. CASE queue = <<>>
    <3>1. UNCHANGED bytes
      BY <1>8, <2>5 DEF Dequeue
    <3> QED BY <1>4, <2>1, <2>3, <2>4, <3>1
  <2>6. CASE queue # <<>>
    <3>1. writer'.step = "taken"
      BY <1>1, <1>8, <2>6 DEF Dequeue, Shape
    <3> QED BY <1>2, <2>1, <2>3, <3>1
  <2> QED BY <2>5, <2>6
<1>9. ASSUME Discard, NEW p \in Producers, Asleep(p)'
      PROVE  blocks' /\ (Space(push[p].message.cost)' => Told')
  <2>1. UNCHANGED <<push, stop, blocks, asleep>> /\ writer.step = "leaving"
    BY <1>9 DEF Discard
  <2>2. Asleep(p)
    BY <1>5, <1>6, <1>9, <2>1
  <2>3. state # "running"
    BY <2>1 DEF Phases
  <2>4. Notifying
    BY <1>1, <2>1, <2>2, <2>3 DEF PushesReleased
  <2>5. Notifying'
    BY <2>1, <2>4 DEF Notifying
  <2> QED BY <1>2, <2>1, <2>2, <2>5
<1>10. ASSUME SkipMessage \/ SinkStep \/ WriterTruncates, NEW p \in Producers, Asleep(p)'
       PROVE  blocks' /\ (Space(push[p].message.cost)' => Told')
  <2>1. UNCHANGED <<push, bytes, blocks>>
    BY <1>10, QueueKept
  <2>2. UNCHANGED <<stop, asleep>> /\ writer.step \in {"calling", "truncating"}
    BY <1>10 DEF SkipMessage, SinkStep, SinkAddsChannel, SinkTakes, SinkThrows, WriterTruncates, UnchangedBySink
  <2>3. Asleep(p) /\ (Told => Told')
    BY <1>5, <1>6, <1>10, <2>1, <2>2 DEF Notifying
  <2> QED BY <1>4, <2>1, <2>3
<1>11. ASSUME NotifySpace \/ WriterNotifies, NEW p \in Producers, Asleep(p)'
       PROVE  FALSE
  <2>1. asleep'.space = {}
    BY <1>1, <1>11 DEF NotifySpace, WriterNotifies, NotifyAll, Shape
  <2> QED BY <1>6, <1>11, <2>1
<1>12. ASSUME Start, NEW p \in Producers, Asleep(p)'
       PROVE  FALSE
  <2>1. UNCHANGED push /\ sink.life = "unopened"
    BY <1>12 DEF Start, StartRuns, StartFails, StartWithoutWriter
  <2> QED BY <1>1, <1>12, <2>1 DEF Ending
<1>13. ASSUME NEW s \in Stoppers, RequestStop(s) \/ StopStep(s) \/ CloseSink(s), NEW p \in Producers, Asleep(p)'
       PROVE  blocks' /\ (Space(push[p].message.cost)' => Told')
  <2>1. UNCHANGED <<push, bytes, blocks>>
    BY <1>13, QueueKept
  <2>2. CASE NotifyStop(s)
    <3>1. asleep'.space = {}
      BY <2>2 DEF NotifyStop, NotifyAll
    <3> QED BY <1>6, <1>13, <3>1
  <2>3. CASE RequestStop(s)
    <3>1. UNCHANGED <<asleep, writer>> /\ stop[s].step = "idle" /\ \A t \in Stoppers : t # s => stop'[t] = stop[t]
      BY <1>1, <2>3 DEF RequestStop, UnchangedByStop, Shape
    <3>2. Asleep(p) /\ (Told => Told')
      BY <1>5, <1>6, <1>13, <2>1, <3>1 DEF Notifying
    <3> QED BY <1>4, <2>1, <3>2
  <2>4. CASE (StopStep(s) \/ CloseSink(s)) /\ ~NotifyStop(s)
    <3>1. UNCHANGED writer /\ (Notifying => Notifying') /\ asleep'.space \subseteq asleep.space
      BY <2>4, StopsKeepNotice
    <3>2. Asleep(p) /\ (Told => Told')
      BY <1>5, <1>6, <1>13, <2>1, <3>1
    <3> QED BY <1>4, <2>1, <3>2
  <2> QED BY <1>13, <2>2, <2>3, <2>4
<1>14. ASSUME UNCHANGED vars, NEW p \in Producers, Asleep(p)'
       PROVE  blocks' /\ (Space(push[p].message.cost)' => Told')
  <2>1. UNCHANGED <<push, bytes, blocks, asleep, stop, writer>>
    BY <1>14 DEF vars
  <2>2. Asleep(p) /\ (Told => Told')
    BY <1>5, <1>6, <1>14, <2>1 DEF Notifying
  <2> QED BY <1>4, <2>1, <2>2
<1>15. ASSUME NEW p \in Producers, Asleep(p)'
       PROVE  blocks' /\ (Space(push[p].message.cost)' => Told')
  <2> HIDE DEF Asleep, Told
  <2> QED BY <1>7, <1>8, <1>9, <1>10, <1>11, <1>12, <1>13, <1>14, <1>15 DEF Next, WriterStep
<1> QED BY <1>15

-------------------------------------------------------------------------------
LEMMA Flowing == Spec => [](IInv /\ Flow)
<1>1. IInv /\ Flow /\ [Next]_vars => Flow'
  BY Typing, Charging, Phasing, Ordering, Tallying, Waiting DEF Flow
<1>2. IInv /\ [Next]_vars => IInv'
  BY Shaped, Closing, Living, Ends, Sleeping, WritersWaking, Releasing, Publishing DEF IInv
<1> QED BY Initially, FlowStarts, <1>1, <1>2, PTL DEF Spec

(* Between evictions, refunds, throws and discards the budget is charged for   *)
(* exactly what is queued or being copied, and it holds, but for a message      *)
(* larger than the budget that blocking mode admits alone.                     *)
THEOREM BudgetKept == Spec => []WithinBudget
<1>1. Flow => WithinBudget
  BY ExactIs DEF Flow, WithinBudget, Within, Alone, Charged, Holding
<1> QED BY Flowing, <1>1, PTL

(* A recording that ends clean has in its file, or among the messages it        *)
(* counts as dropped, each message whose push was told to continue.            *)
THEOREM LosesNothing == Spec => []NothingLost
<1>1. IInv /\ Flow => NothingLost
  <2> SUFFICES ASSUME IInv, Flow, summary.published
               PROVE  /\ summary.messages = Len(sink.file)
                      /\ ~summary.truncated => summary.messages + summary.dropped = Returns
    BY DEF NothingLost
  <2>1. summary.frozen /\ writer.step \in {"none", "gone"} /\ queue = <<>>
    BY DEF Flow, Phases
  <2>2. counts.pending = 0 /\ counts.written \in Nat /\ counts.dropped \in Nat
    <3>1. counts \in [written : Nat, pending : Nat, dropped : Nat] /\ counts.pending = 0
      BY <2>1 DEF Flow, Typed, Accounted
    <3> QED BY <3>1, Tallied
  <2>3. summary.messages = counts.written /\ summary.dropped = counts.dropped /\ Len(sink.file) = counts.written + counts.pending
    BY <2>1 DEF Flow, Accounted
  <2>4. ASSUME ~summary.truncated PROVE counts.written + counts.dropped = Returns
    <3>1. Clean
      BY <2>1, <2>4 DEF Flow, Phases, Clean
    <3>2. InHand = 0
      BY <2>1 DEF InHand, Handed
    <3>3. Cardinality(Messages(queue)) = 0
      <4>1. Messages(queue) = {}
        BY <2>1 DEF Messages
      <4> QED BY <4>1, FS_EmptySet
    <3>4. KeptSum(push) = counts.written + counts.pending + counts.dropped + 0 + 0
      BY <3>1, <3>2, <3>3 DEF Flow, Accounted
    <3> QED BY <2>2, <3>4, ReturnsIs
  <2> QED BY <2>2, <2>3, <2>4
<1> QED BY Flowing, <1>1, PTL

(* Who sleeps on a predicate that holds is about to be notified: the writer,    *)
(* the later callers of stop(), and the pushes that wait for space or for the   *)
(* end, although a notification comes after the unlock.                        *)
THEOREM NoWakeUpLost == Spec => []NoLostWakeUp
<1>1. IInv /\ Flow => NoLostWakeUp
  BY DEF IInv, Flow, NoLostWakeUp, SpaceHeard
<1> QED BY Flowing, <1>1, PTL

===============================================================================
