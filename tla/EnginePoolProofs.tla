-------------------------- MODULE EnginePoolProofs --------------------------
(***************************************************************************)
(* Proofs about EnginePool for every set of runs, number of threads, bound *)
(* on a pass and depth of the call stack.  The inductive invariant says    *)
(* what the frames of the GUI thread know of the runs and of the posted    *)
(* drain: nested passes never publish one run twice, only the innermost    *)
(* pass takes results, and a loop that must exit is told of it by a pass   *)
(* still above it.                                                         *)
(***************************************************************************)
EXTENDS EnginePool, TLAPS, FiniteSetTheorems, SequenceTheorems

(* finished_ holds finished runs, each once. *)
FinishedOnce ==
  /\ \A i \in 1 .. Len(finished) : place[finished[i]] = "finished"
  /\ \A i, j \in 1 .. Len(finished) : finished[i] = finished[j] => i = j

(* A pass between two publishes is the innermost frame of a living pool. *)
IdlePassOnTop ==
  \A i \in 1 .. Len(stack) :
    stack[i].kind = "drain" /\ stack[i].run = NoRun => i = Len(stack) /\ phase = "up"

(* Each pass that publishes has a run of its own, and room for it. *)
PublishingOnce ==
  /\ \A i \in 1 .. Len(stack) :
       stack[i].kind = "drain" /\ stack[i].run # NoRun =>
         place[stack[i].run] = "publishing" /\ stack[i].published < MaxPublishes
  /\ \A i, j \in 1 .. Len(stack) :
       /\ stack[i].kind = "drain" /\ stack[j].kind = "drain"
       /\ stack[i].run # NoRun /\ stack[i].run = stack[j].run
       => i = j

(* A finished run has a drain posted, or a pass that has taken nothing yet. *)
Posted == phase = "up" /\ finished # <<>> /\ ~drainPosted => Draining /\ Top.published = 0

(* A pass that emits drained when it ends. *)
WillTell(frame) == frame.kind = "drain" /\ (frame.published > 0 \/ frame.run # NoRun)

(* With nothing outstanding, a loop not asked to exit has such a pass above. *)
Asked ==
  phase = "up" /\ outstanding = 0 =>
    \A i \in 1 .. Len(stack) : stack[i].kind = "wait" /\ ~stack[i].quit =>
      \E j \in i + 1 .. Len(stack) : WillTell(stack[j])

(* Only a cancel makes a worker skip a compute while the pool lives. *)
SkippedWasCancelled ==
  phase = "up" => \A t \in Tasks :
    place[t] \in {"computing", "finished"} /\ ~computed[t] => cancelled[t]

IInv ==
  /\ TypeOK /\ OutstandingExact /\ FinishedOnce /\ IdlePassOnTop /\ PublishingOnce
  /\ Posted /\ Asked /\ SkippedWasCancelled /\ SkippedIsCancelled

-----------------------------------------------------------------------------
(* The GUI thread's call stack. *)

LEMMA StackFacts ==
  ASSUME TypeOK
  PROVE  /\ stack \in Seq(Frame) /\ Len(stack) \in Nat
         /\ \A i \in 1 .. Len(stack) : stack[i] \in Frame
         /\ stack # <<>> => Len(stack) \in 1 .. Len(stack) /\ Top \in Frame
<1>1. stack \in Seq(Frame) /\ Len(stack) \in Nat
  BY LenProperties DEF TypeOK
<1>2. \A i \in 1 .. Len(stack) : stack[i] \in Frame
  BY <1>1, ElementOfSeq
<1>3. stack # <<>> => Len(stack) \in 1 .. Len(stack)
  BY <1>1, EmptySeq
<1> QED
  BY <1>1, <1>2, <1>3 DEF Top

LEMMA PopFacts ==
  ASSUME TypeOK, stack # <<>>
  PROVE  /\ Pop \in Seq(Frame) /\ Len(Pop) = Len(stack) - 1
         /\ \A i \in 1 .. Len(stack) - 1 : Pop[i] = stack[i]
<1>1. /\ Len(stack) \in 1 .. Len(stack)
      /\ \A i \in 1 .. Len(stack) - 1 : stack[i] \in Frame
  BY StackFacts
<1> DEFINE n == Len(stack) - 1
<1>2. n \in Nat /\ \A i \in 1 .. n : stack[i] \in Frame
  BY <1>1
<1> HIDE DEF n
<1>3. /\ SubSeq(stack, 1, n) \in Seq(Frame)
      /\ Len(SubSeq(stack, 1, n)) = IF 1 <= n THEN n - 1 + 1 ELSE 0
      /\ \A i \in 1 .. n - 1 + 1 : SubSeq(stack, 1, n)[i] = stack[1 + i - 1]
  BY <1>2, SubSeqProperties
<1>4. Len(SubSeq(stack, 1, n)) = n
  BY <1>2, <1>3
<1>5. \A i \in 1 .. n : SubSeq(stack, 1, n)[i] = stack[i]
  BY <1>2, <1>3
<1> QED
  BY <1>3, <1>4, <1>5 DEF Pop, n

LEMMA PushFacts ==
  ASSUME TypeOK, NEW f \in Frame, Push(f)
  PROVE  /\ stack' \in Seq(Frame) /\ Len(stack') = Len(stack) + 1 /\ stack' # <<>>
         /\ \A i \in 1 .. Len(stack) : stack'[i] = stack[i]
         /\ stack'[Len(stack) + 1] = f
BY StackFacts, AppendProperties DEF Push

LEMMA ReplaceFacts ==
  ASSUME TypeOK, stack # <<>>, NEW f \in Frame, stack' = Append(Pop, f)
  PROVE  /\ stack' \in Seq(Frame) /\ Len(stack') = Len(stack) /\ stack' # <<>>
         /\ \A i \in 1 .. Len(stack) - 1 : stack'[i] = stack[i]
         /\ stack'[Len(stack)] = f
<1>1. Pop \in Seq(Frame) /\ Len(Pop) = Len(stack) - 1 /\ \A i \in 1 .. Len(stack) - 1 : Pop[i] = stack[i]
  BY PopFacts
<1>2. /\ Append(Pop, f) \in Seq(Frame) /\ Append(Pop, f) # <<>>
      /\ Len(Append(Pop, f)) = Len(Pop) + 1
      /\ \A i \in 1 .. Len(Pop) : Append(Pop, f)[i] = Pop[i]
      /\ Append(Pop, f)[Len(Pop) + 1] = f
  BY <1>1, AppendProperties
<1>3. Len(stack) \in Nat
  BY StackFacts
<1> QED
  BY <1>1, <1>2, <1>3

LEMMA NewFrameType ==
  ASSUME NEW kind \in {"drain", "wait", "dialog", "destroy"}
  PROVE  /\ NewFrame(kind) \in Frame /\ NewFrame(kind).kind = kind /\ NewFrame(kind).run = NoRun
         /\ NewFrame(kind).published = 0 /\ NewFrame(kind).quit = FALSE
BY PoolAssumption DEF NewFrame, Frame

(* The end of a pass changes nothing of the frames below but the exits asked. *)
LEMMA DrainEndFacts ==
  ASSUME TypeOK, DrainEnd
  PROVE  /\ stack' \in Seq(Frame) /\ Len(stack') = Len(stack) - 1
         /\ \A i \in 1 .. Len(stack) - 1 :
              /\ stack'[i].kind = stack[i].kind /\ stack'[i].run = stack[i].run
              /\ stack'[i].published = stack[i].published
              /\ stack'[i].quit = (stack[i].quit \/ (stack[i].kind = "wait" /\ Top.published > 0 /\ outstanding = 0))
<1>0. stack # <<>> /\ stack' = Drained(Pop, Top.published)
  BY DEF DrainEnd, Draining, OnTop
<1>1. /\ Pop \in Seq(Frame) /\ Len(Pop) = Len(stack) - 1
      /\ \A i \in 1 .. Len(stack) - 1 : Pop[i] = stack[i]
  BY <1>0, PopFacts
<1>2. \A i \in 1 .. Len(stack) - 1 : Pop[i] \in Frame
  BY <1>1, ElementOfSeq
<1>3. Len(Pop) \in Nat
  BY <1>1, LenProperties
<1> DEFINE told(i) == IF Pop[i].kind = "wait" /\ Top.published > 0 /\ outstanding = 0
                        THEN [Pop[i] EXCEPT !.quit = TRUE] ELSE Pop[i]
<1>4. stack' = [i \in 1 .. Len(Pop) |-> told(i)]
  BY <1>0 DEF Drained
<1>5. \A i \in 1 .. Len(Pop) : told(i) \in Frame
  BY <1>1, <1>2 DEF Frame
<1>6. stack' \in Seq(Frame) /\ Len(stack') = Len(Pop)
  <2> HIDE DEF told
  <2> QED
    BY <1>3, <1>4, <1>5
<1>7. ASSUME NEW i \in 1 .. Len(stack) - 1
      PROVE  /\ stack'[i].kind = stack[i].kind /\ stack'[i].run = stack[i].run
             /\ stack'[i].published = stack[i].published
             /\ stack'[i].quit = (stack[i].quit \/ (stack[i].kind = "wait" /\ Top.published > 0 /\ outstanding = 0))
  <2>1. stack'[i] = told(i) /\ Pop[i] = stack[i] /\ stack[i] \in Frame
    <3> HIDE DEF told
    <3> QED
      BY <1>1, <1>2, <1>4
  <2> QED
    BY <2>1 DEF Frame
<1> QED
  BY <1>1, <1>6, <1>7

-----------------------------------------------------------------------------
(* The runs pending, counted. *)

LEMMA InFinite ==
  ASSUME NEW S PROVE IsFiniteSet(In(S)) /\ Cardinality(In(S)) \in Nat
<1>1. In(S) \subseteq Tasks
  BY DEF In
<1>2. IsFiniteSet(In(S))
  BY <1>1, PoolAssumption, FS_Subset
<1> QED
  BY <1>2, FS_CardinalityType

LEMMA OneMorePending ==
  ASSUME NEW t \in Tasks, place \in [Tasks -> Place], place[t] = "new",
         place' = [place EXCEPT ![t] = "queued"]
  PROVE  Cardinality(In(Pending)') = Cardinality(In(Pending)) + 1
<1>1. In(Pending)' = In(Pending) \cup {t}
  BY DEF In, Pending
<1>2. t \notin In(Pending)
  BY DEF In, Pending
<1>3. IsFiniteSet(In(Pending))
  BY InFinite
<1>4. Cardinality(In(Pending) \cup {t}) = Cardinality(In(Pending)) + 1
  BY <1>2, <1>3, FS_AddElement, Zenon
<1> QED
  BY <1>1, <1>4

LEMMA OneLessPending ==
  ASSUME NEW t \in Tasks, place \in [Tasks -> Place], place[t] = "finished",
         place' = [place EXCEPT ![t] = "publishing"]
  PROVE  Cardinality(In(Pending)') = Cardinality(In(Pending)) - 1 /\ Cardinality(In(Pending)) >= 1
<1>1. In(Pending)' = In(Pending) \ {t}
  BY DEF In, Pending
<1>2. t \in In(Pending)
  BY DEF In, Pending
<1>3. IsFiniteSet(In(Pending)) /\ Cardinality(In(Pending)) \in Nat
  BY InFinite
<1>4. Cardinality(In(Pending) \ {t}) = Cardinality(In(Pending)) - 1
  BY <1>2, <1>3, FS_RemoveElement, Zenon
<1>5. IsFiniteSet(In(Pending) \ {t}) /\ Cardinality(In(Pending) \ {t}) \in Nat
  BY <1>3, FS_RemoveElement, FS_CardinalityType
<1> QED
  BY <1>1, <1>3, <1>4, <1>5

LEMMA SamePending ==
  ASSUME \A t \in Tasks : place'[t] \in Pending <=> place[t] \in Pending
  PROVE  Cardinality(In(Pending)') = Cardinality(In(Pending))
<1>1. In(Pending)' = In(Pending)
  BY DEF In, Pending
<1> QED
  BY <1>1

(* The innermost pass: it is alone in its state, and what it takes is due. *)
LEMMA TakeFacts ==
  ASSUME IInv, Take
  PROVE  /\ stack # <<>> /\ phase = "up" /\ Top.kind = "drain" /\ Top.run = NoRun
         /\ Head(finished) \in Tasks /\ Head(finished) = finished[1]
         /\ place[Head(finished)] = "finished"
         /\ Tail(finished) \in Seq(Tasks) /\ Len(Tail(finished)) = Len(finished) - 1
         /\ \A i \in 1 .. Len(finished) - 1 : Tail(finished)[i] = finished[i + 1]
         /\ Len(finished) \in Nat \ {0}
         /\ [Top EXCEPT !.run = Head(finished)] \in Frame
         /\ outstanding \in Nat \ {0}
<1>0. TypeOK /\ IdlePassOnTop /\ FinishedOnce /\ OutstandingExact
  BY DEF IInv
<1>1. stack # <<>> /\ Top.kind = "drain" /\ Top.run = NoRun /\ finished # <<>> /\ finished \in Seq(Tasks)
  BY <1>0 DEF Take, Draining, OnTop, TypeOK
<1>2. Len(stack) \in 1 .. Len(stack) /\ Top \in Frame
  BY <1>0, <1>1, StackFacts
<1>3. phase = "up"
  BY <1>0, <1>1, <1>2 DEF IdlePassOnTop, Top
<1>4. /\ Head(finished) \in Tasks /\ Tail(finished) \in Seq(Tasks)
      /\ Len(Tail(finished)) = Len(finished) - 1
      /\ \A i \in 1 .. Len(Tail(finished)) : Tail(finished)[i] = finished[i + 1]
      /\ Len(finished) \in Nat \ {0}
  BY <1>1, HeadTailProperties, EmptySeq
<1>5. Head(finished) = finished[1]
  BY <1>1
<1>6. place[Head(finished)] = "finished"
  BY <1>0, <1>4, <1>5 DEF FinishedOnce
<1>7. [Top EXCEPT !.run = Head(finished)] \in Frame
  BY <1>2, <1>4 DEF Frame
<1>8. outstanding \in Nat \ {0}
  <2>1. outstanding = Cardinality(In(Pending))
    BY <1>0, <1>3 DEF OutstandingExact
  <2>2. place' = [place EXCEPT ![Head(finished)] = "publishing"] /\ place \in [Tasks -> Place]
    BY <1>0 DEF Take, TypeOK
  <2>3. Cardinality(In(Pending)) >= 1
    BY <1>4, <1>6, <2>2, OneLessPending
  <2>4. Cardinality(In(Pending)) \in Nat
    BY InFinite
  <2> QED
    BY <2>1, <2>3, <2>4
<1> QED
  BY <1>1, <1>3, <1>4, <1>5, <1>6, <1>7, <1>8

LEMMA PublishFacts ==
  ASSUME IInv, PublishReturns
  PROVE  /\ stack # <<>> /\ Top.kind = "drain" /\ Top.run \in Tasks
         /\ Top = stack[Len(stack)] /\ Len(stack) \in 1 .. Len(stack)
         /\ place[Top.run] = "publishing"
         /\ [Top EXCEPT !.run = NoRun, !.published = @ + 1] \in Frame
         /\ Top.published \in Nat
<1>0. TypeOK /\ PublishingOnce
  BY DEF IInv
<1>1. stack # <<>> /\ Top.kind = "drain" /\ Top.run # NoRun
  BY DEF PublishReturns, Publishing, OnTop
<1>2. Len(stack) \in 1 .. Len(stack) /\ Top \in Frame
  BY <1>0, <1>1, StackFacts
<1>3. Top.run \in Tasks /\ Top.published \in 0 .. MaxPublishes
  BY <1>1, <1>2 DEF Frame
<1>4. place[Top.run] = "publishing" /\ Top.published < MaxPublishes
  BY <1>0, <1>1, <1>2 DEF PublishingOnce, Top
<1>5. Top.published + 1 \in 0 .. MaxPublishes
  BY <1>3, <1>4, PoolAssumption
<1>6. [Top EXCEPT !.run = NoRun, !.published = @ + 1] \in Frame
  BY <1>2, <1>5 DEF Frame
<1> QED
  BY <1>1, <1>2, <1>3, <1>4, <1>6 DEF Top

-----------------------------------------------------------------------------
(* Type correctness. *)

LEMMA TypeStep == IInv /\ [Next]_vars => TypeOK'
<1> SUFFICES ASSUME IInv, [Next]_vars PROVE TypeOK'
  OBVIOUS
<1>0. TypeOK
  BY DEF IInv
<1>1. ASSUME NEW t \in Tasks, Submit(t) PROVE TypeOK'
  BY <1>0, <1>1 DEF TypeOK, Submit, Place
<1>2. ASSUME NEW t \in Tasks, Cancel(t) PROVE TypeOK'
  BY <1>0, <1>2 DEF TypeOK, Cancel
<1>3. ASSUME NEW t \in Tasks, Start(t) PROVE TypeOK'
  BY <1>0, <1>3 DEF TypeOK, Start, Place
<1>4. ASSUME NEW t \in Tasks, Finish(t) PROVE TypeOK'
  <2>1. finished' \in Seq(Tasks)
    BY <1>0, <1>4, AppendProperties DEF TypeOK, Finish
  <2> QED
    BY <1>0, <1>4, <2>1 DEF TypeOK, Finish, Place, Status
<1>5. CASE DrainBegin
  BY <1>0, <1>5, NewFrameType, PushFacts DEF TypeOK, DrainBegin
<1>6. CASE Take
  <2>1. stack' \in Seq(Frame)
    BY <1>0, <1>6, TakeFacts, ReplaceFacts DEF Take
  <2>2. place' \in [Tasks -> Place] /\ outcome' \in [Tasks -> Status]
    BY <1>0, <1>6, TakeFacts DEF TypeOK, Take, Place, Status
  <2>3. finished' \in Seq(Tasks) /\ outstanding' \in Nat /\ drainPosted' \in BOOLEAN
    BY <1>0, <1>6, TakeFacts DEF TypeOK, Take
  <2> QED
    BY <1>0, <1>6, <2>1, <2>2, <2>3 DEF TypeOK, Take
<1>7. CASE PublishReturns
  <2>1. stack' \in Seq(Frame)
    BY <1>0, <1>7, PublishFacts, ReplaceFacts, PopFacts DEF PublishReturns
  <2> QED
    BY <1>0, <1>7, <2>1 DEF TypeOK, PublishReturns, Place
<1>8. CASE DrainEnd
  BY <1>0, <1>8, DrainEndFacts DEF TypeOK, DrainEnd
<1>9. CASE WaitIdle
  BY <1>0, <1>9, NewFrameType, PushFacts DEF TypeOK, WaitIdle
<1>10. CASE WaitExits
  <2>1. stack # <<>> /\ [Top EXCEPT !.quit = FALSE] \in Frame
    BY <1>0, <1>10, StackFacts DEF WaitExits, OnTop, Frame
  <2>2. stack' \in Seq(Frame)
    BY <1>0, <1>10, <2>1, ReplaceFacts, PopFacts DEF WaitExits
  <2> QED
    BY <1>0, <1>10, <2>2 DEF TypeOK, WaitExits
<1>11. CASE OpenDialog
  BY <1>0, <1>11, NewFrameType, PushFacts DEF TypeOK, OpenDialog
<1>12. CASE CloseDialog
  BY <1>0, <1>12, PopFacts DEF TypeOK, CloseDialog, OnTop
<1>13. CASE DestroyBegin
  <2>1. stack' \in Seq(Frame)
    BY <1>0, <1>13, NewFrameType, PushFacts DEF DestroyBegin
  <2> QED
    BY <1>0, <1>13, <2>1 DEF TypeOK, DestroyBegin, Place
<1>14. CASE DestroyEnd
  <2>1. stack' \in Seq(Frame)
    BY <1>0, <1>14, PopFacts DEF DestroyEnd, OnTop
  <2>2. finished' \in Seq(Tasks)
    BY <1>14 DEF DestroyEnd
  <2> QED
    BY <1>0, <1>14, <2>1, <2>2 DEF TypeOK, DestroyEnd, Place
<1>15. CASE UNCHANGED vars
  BY <1>0, <1>15 DEF TypeOK, vars
<1> QED
  BY <1>1, <1>2, <1>3, <1>4, <1>5, <1>6, <1>7, <1>8, <1>9, <1>10, <1>11, <1>12, <1>13, <1>14, <1>15
     DEF Next, Worker, Drain, Consumer

-----------------------------------------------------------------------------
(* The count of what is outstanding. *)

LEMMA OutstandingStep == IInv /\ [Next]_vars => OutstandingExact'
<1> SUFFICES ASSUME IInv, [Next]_vars, phase' = "up"
             PROVE  outstanding' = Cardinality(In(Pending)')
  BY DEF OutstandingExact, In, Pending
<1>0. place \in [Tasks -> Place] /\ (phase = "up" => outstanding = Cardinality(In(Pending)))
  BY DEF IInv, TypeOK, OutstandingExact
<1>a. Cardinality(In(Pending)) \in Nat
  BY InFinite
<1>1. ASSUME NEW t \in Tasks, Submit(t) PROVE outstanding' = Cardinality(In(Pending)')
  BY <1>0, <1>1, OneMorePending DEF Submit, ConsumerRuns
<1>2. ASSUME NEW t \in Tasks, Start(t) PROVE outstanding' = Cardinality(In(Pending)')
  BY <1>0, <1>2, SamePending DEF Start, Pending
<1>3. ASSUME NEW t \in Tasks, Finish(t) PROVE outstanding' = Cardinality(In(Pending)')
  BY <1>0, <1>3, SamePending DEF Finish, Pending
<1>4. CASE Take
  BY <1>0, <1>4, TakeFacts, OneLessPending DEF Take
<1>5. CASE PublishReturns
  BY <1>0, <1>5, PublishFacts, SamePending DEF PublishReturns, Pending
<1>6. CASE /\ UNCHANGED <<place, phase, outstanding>>
  BY <1>0, <1>6, SamePending
<1>7. CASE DestroyBegin \/ DestroyEnd
  BY <1>7 DEF DestroyBegin, DestroyEnd
<1> QED
  BY <1>1, <1>2, <1>3, <1>4, <1>5, <1>6, <1>7
     DEF Next, Worker, Drain, Consumer, Cancel, DrainBegin, DrainEnd, WaitIdle, WaitExits,
         OpenDialog, CloseDialog, vars

-----------------------------------------------------------------------------
(* What finished_ holds. *)

LEMMA FinishedStep == IInv /\ [Next]_vars => FinishedOnce'
<1> SUFFICES ASSUME IInv, [Next]_vars PROVE FinishedOnce'
  OBVIOUS
<1>0. /\ place \in [Tasks -> Place] /\ finished \in Seq(Tasks) /\ Len(finished) \in Nat
      /\ \A i \in 1 .. Len(finished) : finished[i] \in Tasks
      /\ FinishedOnce
  BY LenProperties, ElementOfSeq DEF IInv, TypeOK
<1>1. ASSUME NEW t \in Tasks, Finish(t) PROVE FinishedOnce'
  <2>1. /\ Len(finished') = Len(finished) + 1 /\ finished'[Len(finished) + 1] = t
        /\ \A i \in 1 .. Len(finished) : finished'[i] = finished[i]
    BY <1>0, <1>1, AppendProperties DEF Finish
  <2>2. \A i \in 1 .. Len(finished) : finished[i] # t
    BY <1>0, <1>1 DEF FinishedOnce, Finish
  <2>3. /\ place'[t] = "finished"
        /\ \A i \in 1 .. Len(finished) : place'[finished[i]] = "finished"
    BY <1>0, <1>1 DEF FinishedOnce, Finish
  <2>4. \A i \in 1 .. Len(finished') : place'[finished'[i]] = "finished"
    BY <1>0, <2>1, <2>3
  <2>5. \A i, j \in 1 .. Len(finished') : finished'[i] = finished'[j] => i = j
    BY <1>0, <2>1, <2>2 DEF FinishedOnce
  <2> QED
    BY <2>4, <2>5 DEF FinishedOnce
<1>2. CASE Take
  <2>1. /\ Len(finished') = Len(finished) - 1 /\ Head(finished) = finished[1] /\ 1 \in 1 .. Len(finished)
        /\ \A i \in 1 .. Len(finished) - 1 : finished'[i] = finished[i + 1]
    BY <1>0, <1>2, TakeFacts DEF Take
  <2>2. \A i \in 1 .. Len(finished) - 1 : i + 1 \in 1 .. Len(finished) /\ finished[i + 1] # Head(finished)
    BY <1>0, <2>1 DEF FinishedOnce
  <2>3. place' = [place EXCEPT ![Head(finished)] = "publishing"]
    BY <1>2 DEF Take
  <2>4. \A i \in 1 .. Len(finished') : place'[finished'[i]] = "finished"
    BY <1>0, <2>1, <2>2, <2>3 DEF FinishedOnce
  <2>5. \A i, j \in 1 .. Len(finished') : finished'[i] = finished'[j] => i = j
    BY <1>0, <2>1, <2>2 DEF FinishedOnce
  <2> QED
    BY <2>4, <2>5 DEF FinishedOnce
<1>3. CASE DestroyEnd
  BY <1>3 DEF FinishedOnce, DestroyEnd
<1>4. CASE /\ finished' = finished
           /\ \A t \in Tasks : place[t] = "finished" => place'[t] = "finished"
  BY <1>0, <1>4 DEF FinishedOnce
<1>5. ASSUME NEW t \in Tasks, Submit(t) \/ Start(t) PROVE FinishedOnce'
  BY <1>0, <1>4, <1>5 DEF Submit, Start
<1>6. CASE PublishReturns
  BY <1>0, <1>4, <1>6, PublishFacts DEF PublishReturns
<1>7. CASE DestroyBegin
  BY <1>0, <1>4, <1>7 DEF DestroyBegin
<1> QED
  BY <1>1, <1>2, <1>3, <1>4, <1>5, <1>6, <1>7
     DEF Next, Worker, Drain, Consumer, Cancel, DrainBegin, DrainEnd, WaitIdle, WaitExits,
         OpenDialog, CloseDialog, vars

-----------------------------------------------------------------------------
(* The passes on the stack. *)

(* A frame may be put on the stack only above no idle pass. *)
LEMMA NoIdlePass ==
  ASSUME IInv, EventLoop \/ Publishing
  PROVE  \A i \in 1 .. Len(stack) : ~(stack[i].kind = "drain" /\ stack[i].run = NoRun)
<1> SUFFICES ASSUME NEW i \in 1 .. Len(stack), stack[i].kind = "drain", stack[i].run = NoRun
             PROVE  FALSE
  OBVIOUS
<1>1. TypeOK /\ stack \in Seq(Frame) /\ Len(stack) \in Nat
  BY StackFacts DEF IInv
<1>2. i = Len(stack)
  BY DEF IInv, IdlePassOnTop
<1>3. stack # <<>>
  BY <1>1, <1>2
<1> QED
  BY <1>2, <1>3 DEF EventLoop, Publishing, OnTop, Top

LEMMA IdlePassStep == IInv /\ [Next]_vars => IdlePassOnTop'
<1> SUFFICES ASSUME IInv, [Next]_vars PROVE IdlePassOnTop'
  OBVIOUS
<1>0. TypeOK /\ IdlePassOnTop
  BY DEF IInv
<1>a. /\ stack \in Seq(Frame) /\ Len(stack) \in Nat
      /\ (stack # <<>> => Len(stack) \in 1 .. Len(stack))
  BY <1>0, StackFacts
<1>1. CASE stack' = stack /\ phase' = phase
  BY <1>0, <1>1 DEF IdlePassOnTop
<1>2. CASE DrainBegin
  <2>1. /\ Len(stack') = Len(stack) + 1 /\ phase' = "up"
        /\ \A i \in 1 .. Len(stack) : stack'[i] = stack[i]
    BY <1>0, <1>2, NewFrameType, PushFacts DEF DrainBegin
  <2> QED
    BY <1>a, <1>2, <2>1, NoIdlePass DEF IdlePassOnTop, DrainBegin
<1>3. ASSUME NEW kind \in {"wait", "dialog", "destroy"}, Push(NewFrame(kind)), ConsumerRuns
      PROVE  IdlePassOnTop'
  <2>1. /\ Len(stack') = Len(stack) + 1 /\ stack'[Len(stack) + 1].kind = kind
        /\ \A i \in 1 .. Len(stack) : stack'[i] = stack[i]
    BY <1>0, <1>3, NewFrameType, PushFacts
  <2> QED
    BY <1>a, <1>3, <2>1, NoIdlePass DEF IdlePassOnTop, ConsumerRuns
<1>4. ASSUME stack # <<>>, stack' = Pop PROVE IdlePassOnTop'
  <2>1. Len(stack') = Len(stack) - 1 /\ \A i \in 1 .. Len(stack) - 1 : stack'[i] = stack[i]
    BY <1>0, <1>4, PopFacts
  <2> QED
    BY <1>0, <1>a, <2>1 DEF IdlePassOnTop
<1>5. CASE Take
  <2>1. stack # <<>> /\ [Top EXCEPT !.run = Head(finished)] \in Frame /\ Head(finished) # NoRun /\ Top \in Frame
    BY <1>0, <1>5, TakeFacts, StackFacts, PoolAssumption
  <2>2. /\ Len(stack') = Len(stack) /\ stack'[Len(stack)].run = Head(finished)
        /\ \A i \in 1 .. Len(stack) - 1 : stack'[i] = stack[i]
    BY <1>0, <1>5, <2>1, ReplaceFacts DEF Take, Frame
  <2> QED
    BY <1>0, <1>a, <2>1, <2>2 DEF IdlePassOnTop
<1>6. CASE PublishReturns
  <2>1. CASE phase = "up"
    <3>1. /\ Len(stack') = Len(stack) /\ phase' = "up"
          /\ \A i \in 1 .. Len(stack) - 1 : stack'[i] = stack[i]
      BY <1>0, <1>6, <2>1, PublishFacts, ReplaceFacts DEF PublishReturns
    <3> QED
      BY <1>0, <1>a, <3>1 DEF IdlePassOnTop
  <2>2. CASE phase # "up"
    BY <1>4, <1>6, <2>2, PublishFacts DEF PublishReturns
  <2> QED
    BY <2>1, <2>2
<1>7. CASE DrainEnd
  BY <1>0, <1>a, <1>7, DrainEndFacts DEF IdlePassOnTop
<1>8. CASE WaitExits
  <2>0. stack # <<>> /\ Top.kind = "wait" /\ Top \in Frame
    BY <1>0, <1>8, StackFacts DEF WaitExits, OnTop
  <2>1. CASE outstanding > 0
    <3>1. [Top EXCEPT !.quit = FALSE] \in Frame /\ [Top EXCEPT !.quit = FALSE].kind = "wait"
      BY <2>0 DEF Frame
    <3>2. /\ Len(stack') = Len(stack) /\ stack'[Len(stack)].kind = "wait"
          /\ \A i \in 1 .. Len(stack) - 1 : stack'[i] = stack[i]
      BY <1>0, <1>8, <2>0, <2>1, <3>1, ReplaceFacts DEF WaitExits
    <3> QED
      BY <1>0, <1>a, <3>2 DEF IdlePassOnTop
  <2>2. CASE ~(outstanding > 0)
    BY <1>4, <1>8, <2>0, <2>2 DEF WaitExits
  <2> QED
    BY <2>1, <2>2
<1>9. CASE CloseDialog \/ DestroyEnd
  BY <1>4, <1>9 DEF CloseDialog, DestroyEnd, OnTop
<1> QED
  BY <1>1, <1>2, <1>3, <1>5, <1>6, <1>7, <1>8, <1>9
     DEF Next, Worker, Drain, Consumer, Submit, Cancel, Start, Finish, WaitIdle, OpenDialog,
         DestroyBegin, vars

LEMMA PublishingStep == IInv /\ [Next]_vars => PublishingOnce'
<1> SUFFICES ASSUME IInv, [Next]_vars PROVE PublishingOnce'
  OBVIOUS
<1>0. TypeOK /\ PublishingOnce /\ place \in [Tasks -> Place]
  BY DEF IInv, TypeOK
<1>a. /\ Len(stack) \in Nat
      /\ (stack # <<>> => Len(stack) \in 1 .. Len(stack) /\ Top \in Frame)
      /\ \A i \in 1 .. Len(stack) : stack[i] \in Frame
  BY <1>0, StackFacts
<1>b. \A i \in 1 .. Len(stack) : stack[i].run # NoRun => stack[i].run \in Tasks
  BY <1>a DEF Frame
(* The passes of the new stack are passes of the old one, their runs untouched. *)
<1>1. ASSUME Len(stack') \in Nat,
             \A i \in 1 .. Len(stack') : stack'[i].kind = "drain" /\ stack'[i].run # NoRun =>
               /\ i \in 1 .. Len(stack) /\ stack[i].kind = "drain"
               /\ stack'[i].run = stack[i].run /\ stack'[i].published = stack[i].published
               /\ place'[stack[i].run] = place[stack[i].run]
      PROVE  PublishingOnce'
  BY <1>0, <1>1 DEF PublishingOnce
<1>2. CASE stack' = stack /\ \A t \in Tasks : place[t] = "publishing" => place'[t] = place[t]
  <2>1. \A i \in 1 .. Len(stack) : stack[i].kind = "drain" /\ stack[i].run # NoRun =>
          place'[stack[i].run] = place[stack[i].run]
    BY <1>0, <1>b, <1>2 DEF PublishingOnce
  <2> QED
    BY <1>1, <1>a, <1>2, <2>1
<1>3. ASSUME NEW kind \in {"drain", "wait", "dialog", "destroy"}, Push(NewFrame(kind)),
             \A t \in Tasks : place[t] = "publishing" => place'[t] = place[t]
      PROVE  PublishingOnce'
  <2>1. /\ Len(stack') = Len(stack) + 1 /\ stack'[Len(stack) + 1].run = NoRun
        /\ \A i \in 1 .. Len(stack) : stack'[i] = stack[i]
    BY <1>0, <1>3, NewFrameType, PushFacts
  <2>2. \A i \in 1 .. Len(stack) : stack[i].kind = "drain" /\ stack[i].run # NoRun =>
          place'[stack[i].run] = place[stack[i].run]
    BY <1>0, <1>b, <1>3 DEF PublishingOnce
  <2> QED
    BY <1>1, <1>a, <2>1, <2>2
<1>4. ASSUME stack # <<>>, stack' = Pop,
             \A t \in Tasks : place[t] = "publishing" => place'[t] = place[t]
      PROVE  PublishingOnce'
  <2>1. Len(stack') = Len(stack) - 1 /\ \A i \in 1 .. Len(stack) - 1 : stack'[i] = stack[i]
    BY <1>0, <1>4, PopFacts
  <2>2. \A i \in 1 .. Len(stack) : stack[i].kind = "drain" /\ stack[i].run # NoRun =>
          place'[stack[i].run] = place[stack[i].run]
    BY <1>0, <1>b, <1>4 DEF PublishingOnce
  <2> QED
    BY <1>1, <1>a, <1>4, <2>1, <2>2
<1>5. CASE Take
  <2> DEFINE t == Head(finished)
             f == [Top EXCEPT !.run = t]
  <2>1. /\ stack # <<>> /\ f \in Frame /\ t \in Tasks /\ place[t] = "finished" /\ t # NoRun
        /\ f.run = t /\ f.kind = "drain" /\ f.published = Top.published
        /\ Top.published < MaxPublishes
    BY <1>5, <1>a, TakeFacts, PoolAssumption DEF Take, Frame
  <2>2. place' = [place EXCEPT ![t] = "publishing"] /\ stack' = Append(Pop, f)
    BY <1>5 DEF Take
  <2> HIDE DEF t, f
  <2>3. /\ Len(stack') = Len(stack) /\ stack'[Len(stack)] = f
        /\ \A i \in 1 .. Len(stack) - 1 : stack'[i] = stack[i]
    BY <1>0, <2>1, <2>2, ReplaceFacts
  <2>4. \A i \in 1 .. Len(stack) : stack[i].kind = "drain" /\ stack[i].run # NoRun =>
          stack[i].run # t /\ place'[stack[i].run] = "publishing"
    BY <1>0, <1>b, <2>1, <2>2 DEF PublishingOnce
  <2>5. place'[t] = "publishing"
    BY <1>0, <2>1, <2>2
  <2>6. ASSUME NEW i \in 1 .. Len(stack'), stack'[i].kind = "drain", stack'[i].run # NoRun
        PROVE  place'[stack'[i].run] = "publishing" /\ stack'[i].published < MaxPublishes
    <3>1. CASE i = Len(stack)
      BY <2>1, <2>3, <2>5, <3>1
    <3>2. CASE i # Len(stack)
      BY <1>0, <1>a, <2>3, <2>4, <2>6, <3>2 DEF PublishingOnce
    <3> QED
      BY <3>1, <3>2
  <2>7. ASSUME NEW i \in 1 .. Len(stack'), NEW j \in 1 .. Len(stack'),
               stack'[i].kind = "drain", stack'[j].kind = "drain",
               stack'[i].run # NoRun, stack'[i].run = stack'[j].run
        PROVE  i = j
    <3>1. i # Len(stack) => i \in 1 .. Len(stack) - 1 /\ stack'[i] = stack[i]
      BY <1>a, <2>3
    <3>2. j # Len(stack) => j \in 1 .. Len(stack) - 1 /\ stack'[j] = stack[j]
      BY <1>a, <2>3
    <3>3. CASE i = Len(stack)
      BY <1>a, <2>1, <2>3, <2>4, <2>7, <3>2, <3>3
    <3>4. CASE j = Len(stack)
      BY <1>a, <2>1, <2>3, <2>4, <2>7, <3>1, <3>4
    <3>5. CASE i # Len(stack) /\ j # Len(stack)
      BY <1>0, <1>a, <2>3, <2>7, <3>1, <3>2, <3>5 DEF PublishingOnce
    <3> QED
      BY <3>3, <3>4, <3>5
  <2> QED
    BY <2>6, <2>7 DEF PublishingOnce
<1>6. CASE PublishReturns
  <2> DEFINE f == [Top EXCEPT !.run = NoRun, !.published = @ + 1]
  <2>1. /\ stack # <<>> /\ f \in Frame /\ Top.run \in Tasks /\ Top.run # NoRun
        /\ Top.kind = "drain" /\ Top = stack[Len(stack)]
        /\ place' = [place EXCEPT ![Top.run] = "published"]
    BY <1>6, PublishFacts, PoolAssumption DEF PublishReturns
  <2>2. f.run = NoRun
    BY <1>a, <2>1 DEF Frame
  <2>3. /\ Len(stack') \in {Len(stack), Len(stack) - 1}
        /\ \A i \in 1 .. Len(stack) - 1 : stack'[i] = stack[i]
        /\ Len(stack') = Len(stack) => stack'[Len(stack)].run = NoRun
    <3> HIDE DEF f
    <3>1. stack' = Append(Pop, f) \/ stack' = Pop
      BY <1>6 DEF PublishReturns, f
    <3>2. CASE stack' = Append(Pop, f)
      BY <1>0, <2>1, <2>2, <3>2, ReplaceFacts
    <3>3. CASE stack' = Pop
      BY <1>0, <1>a, <2>1, <3>3, PopFacts
    <3> QED
      BY <3>1, <3>2, <3>3
  <2>4. \A i \in 1 .. Len(stack) - 1 : stack[i].kind = "drain" /\ stack[i].run # NoRun =>
          place'[stack[i].run] = place[stack[i].run]
    BY <1>0, <1>a, <1>b, <2>1 DEF PublishingOnce
  <2> QED
    BY <1>1, <1>a, <2>3, <2>4
<1>7. CASE DrainEnd
  <2>1. \A i \in 1 .. Len(stack) - 1 : stack'[i].kind = stack[i].kind /\ stack'[i].run = stack[i].run
                                       /\ stack'[i].published = stack[i].published
    BY <1>0, <1>7, DrainEndFacts
  <2>2. Len(stack') = Len(stack) - 1 /\ stack # <<>> /\ place' = place
    BY <1>0, <1>7, DrainEndFacts DEF DrainEnd, Draining, OnTop
  <2> QED
    BY <1>1, <1>a, <2>1, <2>2
<1>8. CASE WaitExits
  <2>0. stack # <<>> /\ Top.kind = "wait" /\ Top \in Frame /\ place' = place
    BY <1>a, <1>8 DEF WaitExits, OnTop
  <2>1. CASE outstanding > 0
    <3>1. [Top EXCEPT !.quit = FALSE] \in Frame /\ [Top EXCEPT !.quit = FALSE].kind = "wait"
      BY <2>0 DEF Frame
    <3>2. /\ Len(stack') = Len(stack) /\ stack'[Len(stack)].kind = "wait"
          /\ \A i \in 1 .. Len(stack) - 1 : stack'[i] = stack[i]
      BY <1>0, <1>8, <2>0, <2>1, <3>1, ReplaceFacts DEF WaitExits
    <3> QED
      BY <1>1, <1>a, <2>0, <3>2
  <2>2. CASE ~(outstanding > 0)
    BY <1>4, <1>8, <2>0, <2>2 DEF WaitExits
  <2> QED
    BY <2>1, <2>2
<1>9. CASE CloseDialog \/ DestroyEnd
  BY <1>0, <1>4, <1>9 DEF CloseDialog, DestroyEnd, OnTop
<1>10. CASE DrainBegin \/ WaitIdle \/ OpenDialog
  BY <1>3, <1>10 DEF DrainBegin, WaitIdle, OpenDialog
<1>11. CASE DestroyBegin
  BY <1>0, <1>3, <1>11 DEF DestroyBegin
<1>12. ASSUME NEW t \in Tasks, Submit(t) \/ Cancel(t) \/ Start(t) \/ Finish(t) PROVE PublishingOnce'
  BY <1>0, <1>2, <1>12 DEF Submit, Cancel, Start, Finish
<1>13. CASE UNCHANGED vars
  BY <1>2, <1>13 DEF vars
<1> QED
  BY <1>5, <1>6, <1>7, <1>8, <1>9, <1>10, <1>11, <1>12, <1>13 DEF Next, Worker, Drain, Consumer

-----------------------------------------------------------------------------
(* The drain that is posted. *)

LEMMA PostedStep == IInv /\ [Next]_vars => Posted'
<1> SUFFICES ASSUME IInv, [Next]_vars, phase' = "up", finished' # <<>>, drainPosted' = FALSE
             PROVE  (Draining /\ Top.published = 0)'
  BY TypeStep DEF Posted, TypeOK
<1>0. TypeOK /\ Posted
  BY DEF IInv
<1>1. CASE DrainBegin
  <2>1. /\ stack' # <<>> /\ Len(stack') = Len(stack) + 1
        /\ stack'[Len(stack) + 1] = NewFrame("drain")
    BY <1>0, <1>1, NewFrameType, PushFacts DEF DrainBegin
  <2> QED
    BY <2>1, NewFrameType DEF Draining, OnTop, Top
<1>2. CASE Take
  <2>1. Tail(finished) # <<>> /\ drainPosted' = (drainPosted \/ Tail(finished) # <<>>)
    BY <1>2 DEF Take
  <2> QED
    BY <2>1, <1>0 DEF TypeOK
<1>3. ASSUME phase = "up", finished # <<>>, drainPosted = FALSE, stack' # stack, ~Take, ~DrainBegin
      PROVE  FALSE
  <2>1. Draining /\ Top.published = 0
    BY <1>0, <1>3 DEF Posted
  <2>2. /\ Top.kind = "drain" /\ Top.run = NoRun /\ stack # <<>>
        /\ ~EventLoop /\ ~Publishing /\ ~OnTop("wait") /\ ~OnTop("dialog") /\ ~OnTop("destroy")
    BY <2>1 DEF Draining, EventLoop, Publishing, OnTop
  <2>3. ~DrainEnd
    BY <1>3, <2>1, PoolAssumption DEF DrainEnd
  <2> QED
    BY <1>3, <2>2, <2>3
       DEF Next, Worker, Drain, Consumer, Submit, Cancel, Start, Finish, PublishReturns,
           WaitIdle, WaitExits, OpenDialog, CloseDialog, DestroyBegin, DestroyEnd, ConsumerRuns, vars
<1>4. ASSUME NEW t \in Tasks, Submit(t) \/ Cancel(t) \/ Start(t)
      PROVE  phase' = phase /\ finished' = finished /\ drainPosted' = drainPosted
  BY <1>4 DEF Submit, Cancel, Start
<1>5. ASSUME NEW t \in Tasks, Finish(t) PROVE FALSE
  BY <1>5 DEF Finish
<1>6. CASE DestroyBegin \/ DestroyEnd
  BY <1>6 DEF DestroyBegin, DestroyEnd
<1>7. ASSUME phase' = phase, finished' = finished, drainPosted' = drainPosted
      PROVE  (Draining /\ Top.published = 0)'
  <2>1. CASE stack' = stack
    <3>1. Draining /\ Top.published = 0
      BY <1>0, <1>7 DEF Posted
    <3> QED
      BY <2>1, <3>1 DEF Draining, OnTop, Top
  <2>2. CASE stack' # stack
    BY <1>1, <1>2, <1>3, <1>7, <2>2
  <2> QED
    BY <2>1, <2>2
<1>8. CASE PublishReturns \/ DrainEnd \/ WaitIdle \/ WaitExits \/ OpenDialog \/ CloseDialog \/ UNCHANGED vars
  BY <1>7, <1>8 DEF PublishReturns, DrainEnd, WaitIdle, WaitExits, OpenDialog, CloseDialog, vars
<1>9. ASSUME NEW t \in Tasks, Submit(t) \/ Cancel(t) \/ Start(t) PROVE (Draining /\ Top.published = 0)'
  BY <1>4, <1>7, <1>9
<1> QED
  BY <1>1, <1>2, <1>5, <1>6, <1>8, <1>9 DEF Next, Worker, Drain, Consumer

-----------------------------------------------------------------------------
(* The loops that must exit. *)

LEMMA AskedStep == IInv /\ [Next]_vars => Asked'
<1> SUFFICES ASSUME IInv, [Next]_vars, phase' = "up", outstanding' = 0,
                    NEW i \in 1 .. Len(stack'), stack'[i].kind = "wait", stack'[i].quit = FALSE
             PROVE  \E j \in i + 1 .. Len(stack') : WillTell(stack'[j])
  <2>1. ASSUME IInv, [Next]_vars PROVE \A k \in 1 .. Len(stack') : stack'[k].quit \in BOOLEAN
    <3>1. stack' \in Seq(Frame)
      BY <2>1, TypeStep DEF TypeOK
    <3>2. \A k \in 1 .. Len(stack') : stack'[k] \in Frame
      BY <3>1, ElementOfSeq
    <3> QED
      BY <3>2 DEF Frame
  <2> QED
    BY <2>1 DEF Asked, WillTell
<1>0. TypeOK /\ Asked /\ outstanding \in Nat
  BY DEF IInv, TypeOK
<1>a. /\ Len(stack) \in Nat
      /\ (stack # <<>> => Len(stack) \in 1 .. Len(stack) /\ Top \in Frame /\ Top = stack[Len(stack)])
      /\ \A k \in 1 .. Len(stack) : stack[k] \in Frame /\ stack[k].quit \in BOOLEAN
  <2>1. \A k \in 1 .. Len(stack) : stack[k] \in Frame
    BY <1>0, StackFacts
  <2> QED
    BY <1>0, <2>1, StackFacts DEF Frame, Top
(* Steps that leave the stack alone. *)
<1>1. CASE stack' = stack /\ phase' = phase /\ outstanding' = outstanding
  BY <1>0, <1>1 DEF Asked
(* A new frame above: a waitIdle begins with work outstanding. *)
<1>2. ASSUME NEW kind \in {"drain", "dialog"}, Push(NewFrame(kind)),
             phase = "up", outstanding' = outstanding
      PROVE  \E j \in i + 1 .. Len(stack') : WillTell(stack'[j])
  <2>1. /\ Len(stack') = Len(stack) + 1 /\ stack'[Len(stack) + 1].kind = kind
        /\ \A k \in 1 .. Len(stack) : stack'[k] = stack[k]
    BY <1>0, <1>2, NewFrameType, PushFacts
  <2>2. i \in 1 .. Len(stack)
    BY <1>a, <2>1
  <2>3. PICK j \in i + 1 .. Len(stack) : WillTell(stack[j])
    BY <1>0, <1>2, <2>1, <2>2 DEF Asked
  <2>4. j \in i + 1 .. Len(stack') /\ stack'[j] = stack[j]
    BY <1>a, <2>1, <2>2, <2>3
  <2> QED
    BY <2>3, <2>4
(* The frame that went tells no loop. *)
<1>3. ASSUME stack # <<>>, stack' = Pop, Top.kind # "drain", phase = "up", outstanding' = outstanding
      PROVE  \E j \in i + 1 .. Len(stack') : WillTell(stack'[j])
  <2>1. /\ Len(stack') = Len(stack) - 1
        /\ \A k \in 1 .. Len(stack) - 1 : stack'[k] = stack[k]
    BY <1>0, <1>3, PopFacts
  <2>2. i \in 1 .. Len(stack) /\ i \in 1 .. Len(stack) - 1
    BY <1>a, <2>1
  <2>3. PICK j \in i + 1 .. Len(stack) : WillTell(stack[j])
    BY <1>0, <1>3, <2>1, <2>2 DEF Asked
  <2>4. j # Len(stack)
    BY <1>a, <1>3, <2>3 DEF WillTell
  <2>5. j \in i + 1 .. Len(stack') /\ stack'[j] = stack[j]
    BY <1>a, <2>1, <2>2, <2>3, <2>4
  <2> QED
    BY <2>3, <2>5
(* The pass that goes on will tell, whatever it told before. *)
<1>4. ASSUME stack # <<>>, NEW f \in Frame, stack' = Append(Pop, f), WillTell(f)
      PROVE  \E j \in i + 1 .. Len(stack') : WillTell(stack'[j])
  <2>1. Len(stack') = Len(stack) /\ stack'[Len(stack)] = f
    BY <1>0, <1>4, ReplaceFacts
  <2>2. i # Len(stack)
    BY <1>4, <2>1 DEF WillTell
  <2>3. Len(stack) \in i + 1 .. Len(stack')
    BY <1>a, <2>1, <2>2
  <2> QED
    BY <1>4, <2>1, <2>3
<1>5. CASE Take
  <2>1. /\ stack # <<>> /\ [Top EXCEPT !.run = Head(finished)] \in Frame
        /\ Top.kind = "drain" /\ Head(finished) # NoRun
    BY <1>5, TakeFacts, PoolAssumption
  <2>2. WillTell([Top EXCEPT !.run = Head(finished)])
    BY <1>a, <2>1 DEF WillTell, Frame
  <2> QED
    BY <1>4, <1>5, <2>1, <2>2 DEF Take
<1>6. CASE PublishReturns
  <2>1. /\ stack # <<>> /\ [Top EXCEPT !.run = NoRun, !.published = @ + 1] \in Frame
        /\ Top.kind = "drain" /\ Top.published \in Nat
    BY <1>6, PublishFacts
  <2>2. WillTell([Top EXCEPT !.run = NoRun, !.published = @ + 1])
    BY <1>a, <2>1 DEF WillTell, Frame
  <2> QED
    BY <1>4, <1>6, <2>1, <2>2 DEF PublishReturns
<1>7. CASE DrainEnd
  <2>1. /\ Len(stack') = Len(stack) - 1 /\ stack # <<>> /\ phase = "up" /\ outstanding = 0
        /\ Top.run = NoRun
    BY <1>0, <1>7, DrainEndFacts DEF DrainEnd, Draining, OnTop
  <2>2. \A k \in 1 .. Len(stack) - 1 :
          /\ stack'[k].kind = stack[k].kind /\ stack'[k].run = stack[k].run
          /\ stack'[k].published = stack[k].published
          /\ stack'[k].quit = (stack[k].quit \/ (stack[k].kind = "wait" /\ Top.published > 0 /\ outstanding = 0))
    BY <1>0, <1>7, DrainEndFacts
  <2>3. i \in 1 .. Len(stack) - 1 /\ i \in 1 .. Len(stack)
    BY <1>a, <2>1
  <2>4. stack[i].kind = "wait" /\ stack[i].quit = FALSE /\ ~(Top.published > 0)
    BY <1>a, <2>1, <2>2, <2>3
  <2>5. PICK j \in i + 1 .. Len(stack) : WillTell(stack[j])
    BY <1>0, <2>1, <2>3, <2>4 DEF Asked
  <2>6. j # Len(stack)
    BY <1>a, <2>1, <2>4, <2>5 DEF WillTell
  <2>7. j \in 1 .. Len(stack) - 1 /\ j \in i + 1 .. Len(stack')
    BY <1>a, <2>1, <2>3, <2>5, <2>6
  <2> QED
    BY <2>2, <2>5, <2>7 DEF WillTell
<1>8. CASE WaitExits
  BY <1>0, <1>3, <1>8 DEF WaitExits, OnTop
<1>9. CASE CloseDialog
  BY <1>3, <1>9 DEF CloseDialog, OnTop
<1>10. CASE DrainBegin \/ OpenDialog
  BY <1>2, <1>10 DEF DrainBegin, OpenDialog, ConsumerRuns
<1>11. CASE WaitIdle
  BY <1>0, <1>11 DEF WaitIdle
<1>12. ASSUME NEW t \in Tasks, Submit(t) PROVE FALSE
  BY <1>0, <1>12 DEF Submit
<1>13. ASSUME NEW t \in Tasks, Cancel(t) \/ Start(t) \/ Finish(t)
       PROVE  \E j \in i + 1 .. Len(stack') : WillTell(stack'[j])
  BY <1>1, <1>13 DEF Cancel, Start, Finish
<1>14. CASE DestroyBegin \/ DestroyEnd
  BY <1>14 DEF DestroyBegin, DestroyEnd
<1>15. CASE UNCHANGED vars
  BY <1>1, <1>15 DEF vars
<1> QED
  BY <1>5, <1>6, <1>7, <1>8, <1>9, <1>10, <1>11, <1>12, <1>13, <1>14, <1>15
     DEF Next, Worker, Drain, Consumer

-----------------------------------------------------------------------------
(* The runs whose compute was skipped. *)

LEMMA SkippingStep == IInv /\ [Next]_vars => SkippedWasCancelled' /\ SkippedIsCancelled'
<1> SUFFICES ASSUME IInv, [Next]_vars PROVE SkippedWasCancelled' /\ SkippedIsCancelled'
  OBVIOUS
<1>0. /\ place \in [Tasks -> Place] /\ cancelled \in [Tasks -> BOOLEAN]
      /\ computed \in [Tasks -> BOOLEAN] /\ outcome \in [Tasks -> Status]
      /\ SkippedWasCancelled /\ SkippedIsCancelled
  BY DEF IInv, TypeOK
<1>1. ASSUME NEW t \in Tasks, Submit(t) PROVE SkippedWasCancelled' /\ SkippedIsCancelled'
  BY <1>0, <1>1 DEF SkippedWasCancelled, SkippedIsCancelled, Submit
<1>2. ASSUME NEW t \in Tasks, Cancel(t) PROVE SkippedWasCancelled' /\ SkippedIsCancelled'
  BY <1>0, <1>2 DEF SkippedWasCancelled, SkippedIsCancelled, Cancel
<1>3. ASSUME NEW t \in Tasks, Start(t) PROVE SkippedWasCancelled' /\ SkippedIsCancelled'
  BY <1>0, <1>3 DEF SkippedWasCancelled, SkippedIsCancelled, Start
<1>4. ASSUME NEW t \in Tasks, Finish(t) PROVE SkippedWasCancelled' /\ SkippedIsCancelled'
  <2>1. \A u \in Tasks : u # t => place'[u] = place[u] /\ outcome'[u] = outcome[u]
    BY <1>0, <1>4 DEF Finish
  <2>2. place'[t] = "finished" /\ place[t] = "computing"
    BY <1>0, <1>4 DEF Finish
  <2>3. cancelled' = cancelled /\ computed' = computed /\ phase' = phase
    BY <1>4 DEF Finish
  <2> QED
    BY <1>0, <2>1, <2>2, <2>3 DEF SkippedWasCancelled, SkippedIsCancelled
<1>5. CASE Take
  <2>1. /\ Head(finished) \in Tasks /\ place[Head(finished)] = "finished" /\ phase = "up"
    BY <1>5, TakeFacts
  <2> QED
    BY <1>0, <1>5, <2>1 DEF SkippedWasCancelled, SkippedIsCancelled, Take
<1>6. CASE PublishReturns
  <2>1. Top.run \in Tasks /\ place[Top.run] = "publishing"
    BY <1>6, PublishFacts
  <2> QED
    BY <1>0, <1>6, <2>1 DEF SkippedWasCancelled, SkippedIsCancelled, PublishReturns
<1>7. CASE DestroyBegin
  BY <1>0, <1>7 DEF SkippedWasCancelled, SkippedIsCancelled, DestroyBegin
<1>8. CASE DestroyEnd
  BY <1>0, <1>8 DEF SkippedWasCancelled, SkippedIsCancelled, DestroyEnd
<1>9. CASE UNCHANGED <<place, cancelled, computed, outcome, phase>>
  BY <1>0, <1>9 DEF SkippedWasCancelled, SkippedIsCancelled
<1> QED
  BY <1>1, <1>2, <1>3, <1>4, <1>5, <1>6, <1>7, <1>8, <1>9
     DEF Next, Worker, Drain, Consumer, DrainBegin, DrainEnd, WaitIdle, WaitExits,
         OpenDialog, CloseDialog, vars

-----------------------------------------------------------------------------
LEMMA Initially == Init => IInv
<1> SUFFICES ASSUME Init PROVE IInv
  OBVIOUS
<1>1. TypeOK
  <2>1. finished \in Seq(Tasks) /\ stack \in Seq(Frame)
    BY EmptySeq DEF Init
  <2>2. place \in [Tasks -> Place] /\ outcome \in [Tasks -> Status]
    BY DEF Init, Place, Status
  <2>3. /\ cancelled \in [Tasks -> BOOLEAN] /\ computed \in [Tasks -> BOOLEAN]
        /\ drainPosted \in BOOLEAN /\ outstanding \in Nat
    BY DEF Init
  <2>4. phase \in {"up", "stopping", "gone"}
    BY DEF Init
  <2> QED
    BY <2>1, <2>2, <2>3, <2>4 DEF TypeOK
<1>2. OutstandingExact
  <2>1. In(Pending) = {}
    BY DEF Init, In, Pending
  <2>2. Cardinality(In(Pending)) = 0
    BY <2>1, FS_EmptySet
  <2> QED
    BY <2>2 DEF Init, OutstandingExact
<1>3. Len(finished) = 0 /\ Len(stack) = 0 /\ finished = <<>>
  BY DEF Init
<1>4. FinishedOnce /\ IdlePassOnTop /\ PublishingOnce /\ Posted /\ Asked
  BY <1>3 DEF FinishedOnce, IdlePassOnTop, PublishingOnce, Posted, Asked
<1>5. SkippedWasCancelled /\ SkippedIsCancelled
  BY DEF Init, SkippedWasCancelled, SkippedIsCancelled
<1> QED
  BY <1>1, <1>2, <1>4, <1>5 DEF IInv

(* The inductive invariant holds of every state of the pool. *)
THEOREM Invariance == Spec => []IInv
<1>1. IInv /\ [Next]_vars => IInv'
  BY TypeStep, OutstandingStep, FinishedStep, IdlePassStep, PublishingStep, PostedStep,
     AskedStep, SkippingStep DEF IInv
<1> QED
  BY <1>1, Initially, PTL DEF Spec

(* Every variable keeps its type: the count of the outstanding runs never   *)
(* passes below zero, and no pass publishes more than it may.               *)
THEOREM TypeCorrect == Spec => []TypeOK
<1>1. IInv => TypeOK
  BY DEF IInv
<1> QED
  BY <1>1, Invariance, PTL

(* outstanding_ is the number of runs submitted and not yet published, for  *)
(* any number of runs and threads, whatever passes nest in one another:     *)
(* submit counts each once, and drain takes each off once.                  *)
THEOREM Counted == Spec => []OutstandingExact
<1>1. IInv => OutstandingExact
  BY DEF IInv
<1> QED
  BY <1>1, Invariance, PTL

(* A pass that ends, or whose publish opens a dialog, leaves no finished    *)
(* run without a posted drain, whatever the bound on a pass.                *)
THEOREM NothingStranded == Spec => []NoStrandedResult
<1>1. IInv => NoStrandedResult
  BY DEF IInv, Posted, NoStrandedResult, EventLoop, Draining, OnTop
<1> QED
  BY <1>1, Invariance, PTL

(* waitIdle's loop has been asked to exit whenever it turns with nothing    *)
(* outstanding, however deep the passes and the dialogs above it nested:    *)
(* the pass that took the last run is above every loop that waits for it.   *)
THEOREM NothingHung == Spec => []NoHungWait
<1>1. IInv => NoHungWait
  <2> SUFFICES ASSUME IInv, phase = "up", OnTop("wait"), outstanding = 0 PROVE Top.quit
    BY DEF NoHungWait
  <2>1. Len(stack) \in 1 .. Len(stack) /\ Len(stack) \in Nat
    BY StackFacts DEF IInv, OnTop
  <2>2. \A j : ~(j \in Len(stack) + 1 .. Len(stack))
    BY <2>1
  <2> QED
    BY <2>1, <2>2 DEF IInv, Asked, OnTop, Top
<1> QED
  BY <1>1, Invariance, PTL

(* A run whose compute a worker skipped is published as cancelled, although *)
(* the worker hands it over as a completed one.                             *)
THEOREM SkipsAreCancels == Spec => []SkippedIsCancelled
<1>1. IInv => SkippedIsCancelled
  BY DEF IInv
<1> QED
  BY <1>1, Invariance, PTL
=============================================================================
