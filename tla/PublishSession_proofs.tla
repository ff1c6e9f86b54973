------------------------ MODULE PublishSession_proofs ------------------------
(***************************************************************************)
(* Proofs about PublishSession, for every choice of its constants: the     *)
(* type invariant, and that the work queue never writes to a messenger     *)
(* that was closed.                                                        *)
(***************************************************************************)
EXTENDS PublishSession, TLAPS

\* The first component of a thread tells its kind.
LEMMA ThreadKinds ==
  /\ Worker[1] = "worker" /\ Clock[1] = "clock" /\ CloseTask[1] = "closeTask"
  /\ NoThread[1] = "none"
  /\ \A s \in Streams : /\ Feeder(s)[1] = "feeder" /\ Feeder(s)[2] = s
                        /\ StopTask(s)[1] = "stopTask" /\ StopTask(s)[2] = s
  /\ \A t \in Raisers : t[1] \in {"feeder", "worker"}
  /\ \A t \in StopTasks : t[1] = "stopTask"
  /\ \A t \in FailTasks : t[1] = "failTask"
  BY DEF Worker, Clock, CloseTask, Raisers, StopTasks, FailTasks, NoThread, Feeder, StopTask

\* What the proofs need to know of the identifiers of the threads.
LEMMA ThreadFacts ==
  /\ Worker \in Threads /\ Clock \in Threads /\ CloseTask \in Threads
  /\ Raisers \subseteq Threads /\ StopTasks \subseteq Threads /\ FailTasks \subseteq Threads
  /\ NoThread \notin Threads
  /\ Worker \in Raisers
  /\ \A s \in Streams : Feeder(s) \in Raisers /\ StopTask(s) \in StopTasks
  /\ \A t \in Raisers : FailTask(t) \in FailTasks
  /\ \A t \in Raisers : t = Worker \/ \E s \in Streams : t = Feeder(s)
  /\ \A t \in StopTasks : \E s \in Streams : t = StopTask(s)
  /\ \A s, r \in Streams : (Feeder(s) = Feeder(r) \/ StopTask(s) = StopTask(r)) => s = r
  /\ \A s \in Streams : Feeder(s) # Worker
  /\ \A t \in Raisers : t \notin StopTasks \cup FailTasks \cup {Clock, CloseTask}
  /\ \A t \in StopTasks : t \notin FailTasks \cup {Clock, CloseTask}
  /\ \A t \in FailTasks : t \notin {Clock, CloseTask}
  /\ Clock # CloseTask
<1>1. /\ Worker \in Threads /\ Clock \in Threads /\ CloseTask \in Threads
      /\ Raisers \subseteq Threads /\ StopTasks \subseteq Threads /\ FailTasks \subseteq Threads
      /\ Worker \in Raisers
  BY DEF Threads, Raisers
<1>2. NoThread \notin Threads
  BY ThreadKinds DEF Threads
<1>3. \A s \in Streams : Feeder(s) \in Raisers /\ StopTask(s) \in StopTasks
  BY DEF Feeder, StopTask, Raisers, StopTasks
<1>4. \A t \in Raisers : t = Worker \/ \E s \in Streams : t = Feeder(s)
  BY DEF Raisers, Feeder
<1>5. \A t \in StopTasks : \E s \in Streams : t = StopTask(s)
  BY DEF StopTasks, StopTask
<1>6. \A t \in Raisers : FailTask(t) \in FailTasks
  <2>1. ASSUME NEW s \in Streams PROVE FailTask(Feeder(s)) \in FailTasks
    BY ThreadKinds DEF FailTask, FailTasks
  <2>2. FailTask(Worker) \in FailTasks
    BY DEF FailTask, FailTasks, Worker
  <2>. QED  BY <1>4, <2>1, <2>2
<1>7. \A s, r \in Streams : (Feeder(s) = Feeder(r) \/ StopTask(s) = StopTask(r)) => s = r
  BY ThreadKinds
<1>8. /\ \A s \in Streams : Feeder(s) # Worker
      /\ \A t \in Raisers : t \notin StopTasks \cup FailTasks \cup {Clock, CloseTask}
      /\ \A t \in StopTasks : t \notin FailTasks \cup {Clock, CloseTask}
      /\ \A t \in FailTasks : t \notin {Clock, CloseTask}
      /\ Clock # CloseTask
  BY ThreadKinds
<1>. QED  BY <1>1, <1>2, <1>3, <1>4, <1>5, <1>6, <1>7, <1>8
----------------------------------------------------------------------------
(* Type correctness.                                                            *)

\* The labels at which the steps of PublishSession end, one by one.
LEMMA LabelFacts ==
  /\ "idle" \in Labels /\ "mark" \in Labels /\ "ended" \in Labels
  /\ "work" \in Labels /\ "stamped" \in Labels
  /\ "rpfCheck" \in Labels /\ "rpfState" \in Labels /\ "rpfTask" \in Labels
  /\ "eosAudio" \in Labels /\ "eosVideo" \in Labels /\ "eosOwn" \in Labels
  /\ "startVideo" \in Labels /\ "startAudio" \in Labels /\ "started" \in Labels
  /\ "stopVideo" \in Labels /\ "stopOwn" \in Labels /\ "stopAgain" \in Labels
  /\ "stopClose" \in Labels /\ "stopped" \in Labels
  /\ "spcLock" \in Labels /\ "spcStreams" \in Labels /\ "spcUnpublish" \in Labels
  /\ "spcReset" \in Labels /\ "spcClock" \in Labels
  /\ "clCheck" \in Labels /\ "clStamps" \in Labels /\ "clRaise" \in Labels
  /\ "clShutdown" \in Labels /\ "shutAudio" \in Labels /\ "shutVideo" \in Labels
  /\ "shutOwn" \in Labels /\ "clReset" \in Labels
  /\ "none" \in Labels /\ "done" \in Labels /\ "ftRaise" \in Labels /\ "ftClose" \in Labels
  BY DEF Labels, RaiseSteps, ClockSteps, CloseSteps, FeederSteps, FeederRest, WorkerSteps,
     StopSteps, TaskRest

LEMMA StateFacts ==
  /\ "UNINITIALIZED" \in SinkStates /\ "RUNNING" \in SinkStates /\ "EOS" \in SinkStates
  /\ "STOPPED" \in SinkStates /\ "SHUTDOWN" \in SinkStates
  BY DEF SinkStates

\* What the operators the steps are made of do to the types.
LEMMA GotoType ==
  ASSUME pc \in [Threads -> Labels], NEW t, NEW label \in Labels, Goto(t, label)
  PROVE  pc' \in [Threads -> Labels]
  BY DEF Goto

LEMMA SpawnType ==
  ASSUME pc \in [Threads -> Labels], NEW t, NEW label \in Labels, NEW task,
         NEW start \in Labels, Spawn(t, label, task, start)
  PROVE  pc' \in [Threads -> Labels]
  BY DEF Spawn

LEMMA SetStreamType ==
  ASSUME streamState \in [Streams -> SinkStates], NEW s, NEW state \in SinkStates,
         SetStream(s, state)
  PROVE  streamState' \in [Streams -> SinkStates]
  BY DEF SetStream

LEMMA MutexType ==
  ASSUME NEW t \in Threads
  PROVE  /\ Acquire(t) => sinkMutex' \in Threads \cup {NoThread}
         /\ Release => sinkMutex' \in Threads \cup {NoThread}
  BY DEF Acquire, Release

LEMMA AfterStopType == \A t : AfterStop(t) \in Labels
  BY LabelFacts DEF AfterStop

LEMMA InitType == Init => TypeOK
  BY MaxSamplesAssumption, LabelFacts, StateFacts DEF Init, TypeOK

\* A call of the pipeline into a stream sink.
LEMMA FeederType ==
  ASSUME TypeOK, NEW s \in Streams, FeederDelivers(s) PROVE TypeOK'
<1>1. Feeder(s) \in Raisers
  BY ThreadFacts
<1>. USE GotoType, LabelFacts, MaxSamplesAssumption DEF TypeOK
<1>2. delivered[s] < MaxSamples /\ delivered' = [delivered EXCEPT ![s] = @ + 1]
        => delivered' \in [Streams -> 0..MaxSamples]
  OBVIOUS
<1>3. lockSink' = [lockSink EXCEPT ![s] = Feeder(s)]
        => lockSink' \in [Streams -> Raisers \cup {NoThread}]
  BY <1>1
<1>4. requested \ {s} \in SUBSET Streams
  OBVIOUS
<1>5. \A kind \in {"sample", "marker"} : Append(queue, <<s, kind>>) \in Seq(Items)
  BY DEF Items
<1>6. CASE ProcessSample(s)
  BY <1>2, <1>5, <1>6 DEF ProcessSample, SampleArrives
<1>7. CASE DropSample(s)
  BY <1>2, <1>4, <1>7 DEF DropSample, SampleArrives
<1>8. CASE ProcessSampleFails(s)
  BY <1>2, <1>3, <1>4, <1>8 DEF ProcessSampleFails, SampleArrives
<1>9. CASE PlaceTick(s)
  BY <1>2, <1>5, <1>9 DEF PlaceTick
<1>10. CASE PlaceMarkerFails(s)
  BY <1>2, <1>3, <1>10 DEF PlaceMarkerFails
<1>11. CASE PlaceEndOfSegment(s)
  BY <1>3, <1>11 DEF PlaceEndOfSegment
<1>. QED  BY <1>6, <1>7, <1>8, <1>9, <1>10, <1>11 DEF FeederDelivers

\* One step of the pipeline, the network or the clock's start.
LEMMA EnvironmentType == TypeOK /\ Environment => TypeOK'
<1>. SUFFICES ASSUME TypeOK, Environment PROVE TypeOK'
  OBVIOUS
<1>1. CASE OnClockStart
  BY <1>1, GotoType, LabelFacts, StateFacts, MutexType, ThreadFacts DEF OnClockStart, TypeOK
<1>2. CASE ConnectionBreaks
  BY <1>2 DEF ConnectionBreaks, TypeOK
<1>3. CASE PipelineStopsClock
  BY <1>3 DEF PipelineStopsClock, TypeOK
<1>. QED  BY <1>1, <1>2, <1>3, FeederType DEF Environment

\* One step of the work queue.
LEMMA WorkerType == TypeOK /\ WorkerStep => TypeOK'
<1>. SUFFICES ASSUME TypeOK, WorkerStep PROVE TypeOK'
  OBVIOUS
<1>1. Worker \in Raisers
  BY ThreadFacts
<1>2. CASE DropItem
  BY <1>2 DEF DropItem, TypeOK
<1>3. CASE BeginItem
  <2>1. NextStream \in Streams
    BY <1>3 DEF BeginItem, NextStream, Items, TypeOK
  <2>2. lockSink' \in [Streams -> Raisers \cup {NoThread}]
    BY <1>1, <1>3, <2>1 DEF BeginItem, TypeOK
  <2>. QED  BY <1>3, <2>2, GotoType, LabelFacts DEF BeginItem, TypeOK
<1>4. ASSUME NEW s \in Streams, PrepareTimestamps(s) PROVE TypeOK'
  <2>1. lastTS' \in [Streams -> Nat]
    BY <1>4 DEF PrepareTimestamps, TypeOK
  <2>. QED  BY <1>4, <2>1, GotoType, LabelFacts DEF PrepareTimestamps, TypeOK
<1>5. ASSUME NEW s \in Streams, QueueAudioVideoMessage(s) PROVE TypeOK'
  <2>1. lockSink' \in [Streams -> Raisers \cup {NoThread}] /\ sentTS' \in [Streams -> Nat]
    BY <1>5 DEF QueueAudioVideoMessage, TypeOK
  <2>. QED  BY <1>5, <2>1, GotoType, LabelFacts DEF QueueAudioVideoMessage, TypeOK
<1>6. ASSUME NEW s \in Streams, QueueAudioVideoMessageFails(s) PROVE TypeOK'
  BY <1>6, GotoType, LabelFacts DEF QueueAudioVideoMessageFails, TypeOK
<1>7. ASSUME NEW s \in Streams, QueueAudioVideoMessageCrashes(s) PROVE TypeOK'
  BY <1>7 DEF QueueAudioVideoMessageCrashes, Crash, TypeOK
<1>. QED  BY <1>2, <1>3, <1>4, <1>5, <1>6, <1>7 DEF WorkerStep

\* One step of OnClockStart or OnClockStop.
LEMMA ClockType == TypeOK /\ ClockStep => TypeOK'
<1>. SUFFICES ASSUME TypeOK, ClockStep PROVE TypeOK'
  OBVIOUS
<1>1. Clock \in Threads
  BY ThreadFacts
<1>2. ASSUME NEW from, NEW s, NEW to \in Labels, StreamSinkClockStart(from, s, to)
      PROVE  TypeOK'
  <2>1. requested' \in SUBSET Streams
    BY <1>2 DEF StreamSinkClockStart, TypeOK
  <2>2. streamState' \in [Streams -> SinkStates]
    BY <1>2, SetStreamType, StateFacts DEF StreamSinkClockStart, TypeOK
  <2>. QED  BY <1>2, <2>1, <2>2, GotoType DEF StreamSinkClockStart, TypeOK
<1>3. ASSUME NEW from, NEW s, NEW to \in Labels, ClockStopSetStream(from, s, to)
      PROVE  TypeOK'
  <2>1. streamState' \in [Streams -> SinkStates]
    BY <1>3, SetStreamType, StateFacts DEF ClockStopSetStream, TypeOK
  <2>2. sinkMutex' \in Threads \cup {NoThread}
    BY <1>1, <1>3, MutexType DEF ClockStopSetStream, TypeOK
  <2>. QED  BY <1>3, <2>1, <2>2, GotoType DEF ClockStopSetStream, TypeOK
<1>4. CASE ClockStopSetSink
  BY <1>4, GotoType, LabelFacts, StateFacts DEF ClockStopSetSink, TypeOK
<1>5. CASE StreamSinkClockStop
  BY <1>5, GotoType, LabelFacts, StateFacts DEF StreamSinkClockStop, TypeOK
<1>6. CASE ClockStopCloses
  BY <1>1, <1>6, SpawnType, MutexType, LabelFacts DEF ClockStopCloses, TypeOK
<1>. QED  BY <1>2, <1>3, <1>4, <1>5, <1>6, LabelFacts DEF ClockStep, OnClockStop

\* What a thread releases on its return from RaisePublishFailed.
LEMMA ReturnType ==
  ASSUME TypeOK, NEW t \in Raisers, ReturnFailed(t)
  PROVE  /\ lockSink' \in [Streams -> Raisers \cup {NoThread}]
         /\ pc' \in [Threads -> Labels]
<1>1. lockSink' \in [Streams -> Raisers \cup {NoThread}]
  BY DEF ReturnFailed, TypeOK
<1>2. pc' \in [Threads -> Labels]
  BY GotoType, LabelFacts DEF ReturnFailed, TypeOK
<1>. QED  BY <1>1, <1>2

\* One step of RaisePublishFailed, or the end of the process in it.
LEMMA RaiserType ==
  ASSUME TypeOK, NEW t \in Raisers, RaiserStep(t) PROVE TypeOK'
<1>1. CASE RpfCheckSink(t)
  <2>1. /\ lockSink' \in [Streams -> Raisers \cup {NoThread}]
        /\ pc' \in [Threads -> Labels]
    BY <1>1, ReturnType, GotoType, LabelFacts DEF RpfCheckSink, TypeOK
  <2>. QED  BY <1>1, <2>1 DEF RpfCheckSink, TypeOK
<1>2. CASE RpfCheckState(t)
  <2>1. /\ lockSink' \in [Streams -> Raisers \cup {NoThread}]
        /\ pc' \in [Threads -> Labels]
    BY <1>2, ReturnType, GotoType, LabelFacts DEF RpfCheckState, TypeOK
  <2>. QED  BY <1>2, <2>1 DEF RpfCheckState, TypeOK
<1>3. ASSUME NEW from, NEW s, NEW to \in Labels, RpfSetStream(t, from, s, to)
      PROVE  TypeOK'
  <2>1. streamState' \in [Streams -> SinkStates]
    BY <1>3, SetStreamType, StateFacts DEF RpfSetStream, TypeOK
  <2>. QED  BY <1>3, <2>1, GotoType DEF RpfSetStream, TypeOK
<1>4. CASE RpfSetSink(t)
  BY <1>4, GotoType, LabelFacts, StateFacts DEF RpfSetSink, TypeOK
<1>5. CASE RpfCreateTask(t)
  <2>1. lockSink' \in [Streams -> Raisers \cup {NoThread}]
    BY <1>5 DEF RpfCreateTask, TypeOK
  <2>. QED  BY <1>5, <2>1, SpawnType, LabelFacts DEF RpfCreateTask, TypeOK
<1>6. CASE UseOfNullSink(t)
  BY <1>6 DEF UseOfNullSink, Crash, TypeOK
<1>. QED  BY RaiserStep(t), <1>1, <1>2, <1>3, <1>4, <1>5, <1>6, LabelFacts
     DEF RaiserStep, RaisePublishFailed

\* One step of StopPresentationClock.
LEMMA StopType ==
  ASSUME TypeOK, NEW t \in Threads, StopPresentationClock(t) PROVE TypeOK'
<1>1. CASE SpcLock(t)
  <2>1. pc' \in [Threads -> Labels]
    BY <1>1, GotoType, AfterStopType, LabelFacts DEF SpcLock, TypeOK
  <2>. QED  BY <1>1, <2>1 DEF SpcLock, TypeOK
<1>2. CASE SpcCheckStreams(t)
  <2>1. (IF messenger = "none" THEN "spcClock" ELSE "spcUnpublish") \in Labels
    BY LabelFacts
  <2>2. pc' \in [Threads -> Labels]
    BY <1>2, <2>1, GotoType, AfterStopType DEF SpcCheckStreams, TypeOK
  <2>3. sinkMutex' \in Threads \cup {NoThread}
    BY <1>2, MutexType DEF SpcCheckStreams, TypeOK
  <2>. QED  BY <1>2, <2>2, <2>3 DEF SpcCheckStreams, TypeOK
<1>3. CASE SpcUnpublish(t)
  BY <1>3, GotoType, LabelFacts DEF SpcUnpublish, TypeOK
<1>4. CASE SpcUnpublishFails(t)
  BY <1>4 DEF SpcUnpublishFails, Crash, TypeOK
<1>5. CASE SpcDisconnect(t)
  BY <1>5, GotoType, LabelFacts DEF SpcDisconnect, TypeOK
<1>6. CASE SpcStopClock(t)
  <2>1. pc' \in [Threads -> Labels]
    BY <1>6, GotoType, AfterStopType DEF SpcStopClock, TypeOK
  <2>. QED  BY <1>6, <2>1, MutexType DEF SpcStopClock, TypeOK
<1>. QED  BY StopPresentationClock(t), <1>1, <1>2, <1>3, <1>4, <1>5, <1>6
     DEF StopPresentationClock

\* One step of the task of RaisePublishFailed, or of CloseLogic.
LEMMA CloseType ==
  ASSUME TypeOK, NEW t \in Threads,
         FailTaskRaises(t) \/ FailTaskCloses(t) \/ Close(t) \/ UseOfNullSink(t)
  PROVE  TypeOK'
<1>1. CASE FailTaskRaises(t)
  BY <1>1, GotoType, LabelFacts DEF FailTaskRaises, TypeOK
<1>2. CASE FailTaskCloses(t)
  BY <1>2, GotoType, LabelFacts DEF FailTaskCloses, TypeOK
<1>3. CASE UseOfNullSink(t)
  BY <1>3 DEF UseOfNullSink, Crash, TypeOK
<1>4. CASE CloseCheck(t)
  <2>1. (IF hasSink THEN "clStamps" ELSE "done") \in Labels
    BY LabelFacts
  <2>. QED  BY <1>4, <2>1, GotoType DEF CloseCheck, TypeOK
<1>5. CASE CloseReadTimestamps(t)
  BY <1>5, GotoType, LabelFacts DEF CloseReadTimestamps, TypeOK
<1>6. CASE RaiseSessionClosed(t)
  BY <1>6, GotoType, LabelFacts DEF RaiseSessionClosed, TypeOK
<1>7. CASE CloseCallsShutdown(t)
  BY <1>7, GotoType, LabelFacts DEF CloseCallsShutdown, TypeOK
<1>8. ASSUME NEW from, NEW s, NEW to \in Labels, ShutdownSetStream(t, from, s, to)
      PROVE  TypeOK'
  <2>1. streamState' \in [Streams -> SinkStates]
    BY <1>8, SetStreamType, StateFacts DEF ShutdownSetStream, TypeOK
  <2>2. sinkMutex' \in Threads \cup {NoThread}
    BY <1>8, MutexType DEF ShutdownSetStream, TypeOK
  <2>. QED  BY <1>8, <2>1, <2>2, GotoType DEF ShutdownSetStream, TypeOK
<1>9. CASE ShutdownSetSink(t)
  BY <1>9, GotoType, MutexType, LabelFacts, StateFacts DEF ShutdownSetSink, TypeOK
<1>10. CASE CloseResetsSink(t)
  BY <1>10, GotoType, LabelFacts DEF CloseResetsSink, TypeOK
<1>11. CASE Shutdown(t)
  BY <1>8, <1>9, <1>11, LabelFacts DEF Shutdown
<1>. QED  BY <1>1, <1>2, <1>3, <1>4, <1>5, <1>6, <1>7, <1>10, <1>11 DEF Close

LEMMA MarkType ==
  ASSUME TypeOK, NEW s \in Streams, MarkEndOfSegment(s) PROVE TypeOK'
<1>1. streamState' \in [Streams -> SinkStates]
  BY SetStreamType, StateFacts DEF MarkEndOfSegment, TypeOK
<1>2. pc' \in [Threads -> Labels]
  BY SpawnType, LabelFacts DEF MarkEndOfSegment, TypeOK
<1>. QED  BY <1>1, <1>2 DEF MarkEndOfSegment, TypeOK

LEMMA TypeStep == TypeOK /\ [Next]_vars => TypeOK'
<1>. SUFFICES ASSUME TypeOK, [Next]_vars PROVE TypeOK'
  OBVIOUS
<1>1. CASE UNCHANGED vars
  BY <1>1 DEF vars, TypeOK
<1>2. CASE Environment
  BY <1>2, EnvironmentType
<1>3. CASE LibraryStep
  <2>1. ASSUME NEW t \in StopTasks \cup FailTasks \cup {CloseTask}, TaskStep(t)
        PROVE  TypeOK'
    BY <2>1, ThreadFacts, StopType, CloseType DEF TaskStep
  <2>. QED  BY <1>3, <2>1, WorkerType, ClockType, RaiserType, MarkType DEF LibraryStep
<1>. QED  BY <1>1, <1>2, <1>3 DEF Next, AtRest

\* Every variable keeps its type.
THEOREM TypeCorrect == SafeSpec => []TypeOK
BY InitType, TypeStep, PTL DEF SafeSpec
----------------------------------------------------------------------------
(* The inductive invariant, part by part. In each lemma a part is preserved by  *)
(* every step from a state that satisfies the parts it depends on.              *)

\* Next, flattened to its actions.
LEMMA Actions ==
  ASSUME [Next]_vars
  PROVE  \/ UNCHANGED vars
         \/ OnClockStart \/ ConnectionBreaks \/ PipelineStopsClock
         \/ \E s \in Streams : FeederDelivers(s) \/ MarkEndOfSegment(s)
         \/ WorkerStep \/ ClockStep
         \/ \E t \in Raisers : RaisePublishFailed(t) \/ UseOfNullSink(t)
         \/ \E t \in StopTasks \cup FailTasks \cup {CloseTask} :
              \/ FailTaskRaises(t) \/ FailTaskCloses(t) \/ StopPresentationClock(t)
              \/ Close(t) \/ UseOfNullSink(t)
BY DEF Next, Environment, LibraryStep, RaiserStep, TaskStep, AtRest

\* A thread that goes to one of its own labels.
LEMMA GotoLabels ==
  ASSUME TypeOK, LabelsOK, NEW t \in Threads, NEW l, Goto(t, l),
         \/ t = Worker /\ l \in WorkerSteps
         \/ t = Clock /\ l \in ClockSteps
         \/ t \in Raisers /\ t # Worker /\ l \in FeederSteps
         \/ t \in StopTasks /\ l \in TaskRest \cup StopSteps
         \/ t \in FailTasks /\ l \in TaskRest \cup CloseSteps \cup {"ftRaise", "ftClose", "spcLock"}
         \/ t = CloseTask /\ l \in TaskRest \cup CloseSteps
  PROVE  LabelsOK'
BY ThreadFacts DEF LabelsOK, Goto, TypeOK

\* A thread that goes to a label leaves the others where they are.
LEMMA GotoPc ==
  ASSUME TypeOK, NEW t \in Threads, NEW l, Goto(t, l)
  PROVE  pc'[t] = l /\ \A v \in Threads \ {t} : pc'[v] = pc[v]
BY DEF Goto, TypeOK

\* A thread that starts a task.
LEMMA SpawnPc ==
  ASSUME TypeOK, NEW t \in Threads, NEW u \in Threads, t # u, NEW l, NEW m, Spawn(t, l, u, m)
  PROVE  pc'[t] = l /\ pc'[u] = m /\ \A v \in Threads \ {t, u} : pc'[v] = pc[v]
BY DEF Spawn, TypeOK

LEMMA LabelsStep ==
  ASSUME TypeOK, LabelsOK, SinkLeftRunning, [Next]_vars PROVE LabelsOK'
<1>. USE ThreadFacts, GotoLabels DEF RaiseSteps
<1>1. CASE UNCHANGED vars \/ ConnectionBreaks \/ PipelineStopsClock
  BY <1>1 DEF vars, LabelsOK, ConnectionBreaks, PipelineStopsClock
<1>2. CASE OnClockStart
  BY <1>2 DEF OnClockStart, ClockSteps
<1>3. ASSUME NEW s \in Streams, FeederDelivers(s) PROVE LabelsOK'
  <2>1. CASE ProcessSample(s) \/ DropSample(s) \/ PlaceTick(s)
    BY <2>1 DEF ProcessSample, DropSample, PlaceTick, LabelsOK
  <2>2. CASE ProcessSampleFails(s) \/ PlaceMarkerFails(s) \/ PlaceEndOfSegment(s)
    <3>1. Goto(Feeder(s), "rpfCheck") \/ Goto(Feeder(s), "mark")
      BY <2>2 DEF ProcessSampleFails, PlaceMarkerFails, PlaceEndOfSegment
    <3>. QED  BY <3>1 DEF FeederSteps
  <2>. QED  BY <1>3, <2>1, <2>2 DEF FeederDelivers
<1>4. ASSUME NEW s \in Streams, MarkEndOfSegment(s) PROVE LabelsOK'
  <2>1. Spawn(Feeder(s), "ended", StopTask(s), "spcLock")
    BY <1>4 DEF MarkEndOfSegment
  <2>2. /\ pc'[Feeder(s)] = "ended" /\ pc'[StopTask(s)] = "spcLock"
        /\ \A v \in Threads \ {Feeder(s), StopTask(s)} : pc'[v] = pc[v]
    BY <2>1, SpawnPc
  <2>. QED  BY <2>2 DEF LabelsOK, FeederSteps, FeederRest, StopSteps
<1>5. CASE WorkerStep
  <2>1. pc' = pc \/ \E l \in WorkerSteps : Goto(Worker, l)
    BY <1>5 DEF WorkerStep, DropItem, BeginItem, PrepareTimestamps, QueueAudioVideoMessage,
       QueueAudioVideoMessageFails, QueueAudioVideoMessageCrashes, WorkerSteps
  <2>2. CASE pc' = pc
    BY <2>2 DEF LabelsOK
  <2>. QED  BY <2>1, <2>2
<1>6. CASE ClockStep
  <2>1. CASE ClockStopCloses
    <3>1. pc' = [pc EXCEPT ![Clock] = "stopped", ![CloseTask] = "clCheck"]
      BY <2>1 DEF ClockStopCloses, Spawn
    <3>. QED  BY <3>1 DEF LabelsOK, ClockSteps, CloseSteps, TypeOK
  <2>2. CASE ~ClockStopCloses
    <3>1. \E l \in ClockSteps : Goto(Clock, l)
      BY <1>6, <2>2 DEF ClockStep, StreamSinkClockStart, OnClockStop, ClockStopSetStream,
         ClockStopSetSink, StreamSinkClockStop, ClockSteps
    <3>. QED  BY <3>1
  <2>. QED  BY <2>1, <2>2
<1>7. ASSUME NEW t \in Raisers, RaisePublishFailed(t) PROVE LabelsOK'
  <2>1. CASE RpfCreateTask(t)
    <3>1. Spawn(t, "idle", FailTask(t), "ftRaise")
      BY <2>1 DEF RpfCreateTask
    <3>2. /\ pc'[t] = "idle" /\ pc'[FailTask(t)] = "ftRaise"
          /\ \A v \in Threads \ {t, FailTask(t)} : pc'[v] = pc[v]
      BY <3>1, SpawnPc
    <3>. QED  BY <3>2 DEF LabelsOK, FeederSteps, FeederRest, WorkerSteps
  <2>2. CASE ~RpfCreateTask(t)
    <3>1. \E l \in RaiseSteps \cup {"idle"} : Goto(t, l)
      BY <1>7, <2>2 DEF RaisePublishFailed, RpfCheckSink, RpfCheckState, RpfSetSink, RpfSetStream,
         ReturnFailed
    <3>. QED  BY <3>1 DEF FeederSteps, FeederRest, WorkerSteps
  <2>. QED  BY <2>1, <2>2
<1>8. ASSUME NEW t \in Threads, UseOfNullSink(t) PROVE LabelsOK'
  BY <1>8 DEF UseOfNullSink, LabelsOK
<1>9. ASSUME NEW t \in StopTasks \cup FailTasks \cup {CloseTask},
             FailTaskRaises(t) \/ FailTaskCloses(t)
      PROVE  LabelsOK'
  <2>1. t \in FailTasks
    BY <1>9 DEF FailTaskRaises, FailTaskCloses, LabelsOK, TaskRest, StopSteps, CloseSteps
  <2>2. Goto(t, "ftClose") \/ Goto(t, "spcLock")
    BY <1>9 DEF FailTaskRaises, FailTaskCloses
  <2>. QED  BY <2>1, <2>2
<1>10. ASSUME NEW t \in StopTasks \cup FailTasks \cup {CloseTask}, StopPresentationClock(t)
       PROVE  LabelsOK'
  <2>1. t # CloseTask
    BY <1>10 DEF StopPresentationClock, SpcLock, SpcCheckStreams, SpcUnpublish,
       SpcUnpublishFails, SpcDisconnect, SpcStopClock, LabelsOK, TaskRest, CloseSteps
  <2>2. CASE SpcUnpublishFails(t)
    BY <2>2 DEF SpcUnpublishFails, LabelsOK
  <2>3. CASE ~SpcUnpublishFails(t) /\ t \in StopTasks
    <3>1. AfterStop(t) \in TaskRest
      BY <2>3 DEF AfterStop, TaskRest
    <3>2. \E l \in TaskRest \cup StopSteps : Goto(t, l)
      BY <1>10, <2>3, <3>1 DEF StopPresentationClock, SpcLock, SpcCheckStreams, SpcUnpublish,
         SpcDisconnect, SpcStopClock, StopSteps
    <3>. QED  BY <2>3, <3>2
  <2>4. CASE ~SpcUnpublishFails(t) /\ t \in FailTasks
    <3>1. pc[t] = "spcLock" /\ SpcLock(t)
      BY <1>10, <2>4 DEF StopPresentationClock, SpcLock, SpcCheckStreams, SpcUnpublish,
         SpcDisconnect, SpcStopClock, LabelsOK, TaskRest, CloseSteps
    <3>2. Goto(t, AfterStop(t)) /\ AfterStop(t) = "clCheck"
      BY <2>4, <3>1 DEF SpcLock, SinkLeftRunning, AfterStop
    <3>. QED  BY <2>4, <3>2 DEF CloseSteps
  <2>. QED  BY <2>1, <2>2, <2>3, <2>4
<1>11. ASSUME NEW t \in StopTasks \cup FailTasks \cup {CloseTask}, Close(t) PROVE LabelsOK'
  <2>1. t \notin StopTasks
    BY <1>11 DEF Close, CloseCheck, CloseReadTimestamps, RaiseSessionClosed, CloseCallsShutdown,
       Shutdown, ShutdownSetStream, ShutdownSetSink, CloseResetsSink, LabelsOK, TaskRest, StopSteps
  <2>2. \E l \in CloseSteps \cup TaskRest : Goto(t, l)
    BY <1>11 DEF Close, CloseCheck, CloseReadTimestamps, RaiseSessionClosed, CloseCallsShutdown,
       Shutdown, ShutdownSetStream, ShutdownSetSink, CloseResetsSink, CloseSteps, TaskRest
  <2>. QED  BY <2>1, <2>2
<1>. QED  BY <1>1, <1>2, <1>3, <1>4, <1>5, <1>6, <1>7, <1>8, <1>9, <1>10, <1>11, Actions

\* Before the clock starts only the environment moves, and it moves no thread.
LEMMA BeforeStartStep ==
  ASSUME TypeOK, LabelsOK, NothingBeforeStart, [Next]_vars PROVE NothingBeforeStart'
<1>. USE ThreadFacts DEF TypeOK, LabelsOK, NothingBeforeStart, Goto, FeederSteps, FeederRest, RaiseSteps,
     WorkerSteps, ClockSteps, StopSteps, CloseSteps, TaskRest
<1>1. CASE UNCHANGED vars \/ ConnectionBreaks \/ PipelineStopsClock
  BY <1>1 DEF vars, ConnectionBreaks, PipelineStopsClock
<1>2. CASE OnClockStart
  BY <1>2 DEF OnClockStart
<1>3. ASSUME NEW s \in Streams, FeederDelivers(s) PROVE NothingBeforeStart'
  BY <1>3 DEF FeederDelivers, ProcessSample, DropSample, ProcessSampleFails, PlaceTick,
     PlaceMarkerFails, PlaceEndOfSegment, SampleArrives, Started
<1>4. ASSUME NEW s \in Streams, MarkEndOfSegment(s) PROVE NothingBeforeStart'
  <2>1. pc[Feeder(s)] = "mark" /\ Spawn(Feeder(s), "ended", StopTask(s), "spcLock")
    BY <1>4 DEF MarkEndOfSegment
  <2>2. /\ Feeder(s) \in Threads /\ StopTask(s) \in Threads /\ Feeder(s) # StopTask(s)
        /\ Clock \in Threads \ {Feeder(s), StopTask(s)}
    BY ThreadFacts
  <2>3. pc'[Clock] = pc[Clock]
    BY <2>1, <2>2, SpawnPc
  <2>. QED  BY <2>1, <2>2, <2>3 DEF NothingBeforeStart
<1>5. CASE WorkerStep
  BY <1>5 DEF WorkerStep, DropItem, BeginItem, PrepareTimestamps, QueueAudioVideoMessage,
     QueueAudioVideoMessageFails, QueueAudioVideoMessageCrashes
<1>6. CASE ClockStep
  BY <1>6 DEF ClockStep, StreamSinkClockStart, OnClockStop, ClockStopSetStream,
     ClockStopSetSink, StreamSinkClockStop, ClockStopCloses, Spawn
<1>7. ASSUME NEW t \in Raisers, RaisePublishFailed(t) PROVE NothingBeforeStart'
  BY <1>7 DEF RaisePublishFailed, RpfCheckSink, RpfCheckState, RpfSetSink, RpfSetStream,
     RpfCreateTask, ReturnFailed, Spawn
<1>8. ASSUME NEW t \in Threads, UseOfNullSink(t) PROVE NothingBeforeStart'
  BY <1>8 DEF UseOfNullSink
<1>9. ASSUME NEW t \in StopTasks \cup FailTasks \cup {CloseTask},
             FailTaskRaises(t) \/ FailTaskCloses(t)
      PROVE  NothingBeforeStart'
  <2>1. pc[t] \in {"ftRaise", "ftClose"} /\ \E l : Goto(t, l)
    BY <1>9 DEF FailTaskRaises, FailTaskCloses
  <2>2. pc'[Clock] = pc[Clock]
    BY <2>1, GotoPc, ThreadFacts
  <2>. QED  BY <2>1, <2>2, ThreadFacts
<1>10. ASSUME NEW t \in StopTasks \cup FailTasks \cup {CloseTask}, StopPresentationClock(t)
       PROVE  NothingBeforeStart'
  <2>1. pc[t] \in StopSteps /\ (pc' = pc \/ \E l : Goto(t, l))
    BY <1>10 DEF StopPresentationClock, SpcLock, SpcCheckStreams, SpcUnpublish,
       SpcUnpublishFails, SpcDisconnect, SpcStopClock, StopSteps
  <2>2. pc'[Clock] = pc[Clock]
    BY <2>1, GotoPc, ThreadFacts
  <2>. QED  BY <2>1, <2>2, ThreadFacts DEF StopSteps, NothingBeforeStart
<1>11. ASSUME NEW t \in StopTasks \cup FailTasks \cup {CloseTask}, Close(t)
       PROVE  NothingBeforeStart'
  <2>1. pc[t] \in CloseSteps /\ \E l : Goto(t, l)
    BY <1>11 DEF Close, CloseCheck, CloseReadTimestamps, RaiseSessionClosed, CloseCallsShutdown,
       Shutdown, ShutdownSetStream, ShutdownSetSink, CloseResetsSink, CloseSteps
  <2>2. pc'[Clock] = pc[Clock]
    BY <2>1, GotoPc, ThreadFacts
  <2>. QED  BY <2>1, <2>2, ThreadFacts DEF CloseSteps, NothingBeforeStart
<1>. HIDE DEF TypeOK, LabelsOK, NothingBeforeStart, Goto
<1>. QED  BY <1>1, <1>2, <1>3, <1>4, <1>5, <1>6, <1>7, <1>8, <1>9, <1>10, <1>11, Actions

\* A sink that has left RUNNING is never set to RUNNING again.
LEMMA SinkLeftRunningStep ==
  ASSUME TypeOK, LabelsOK, NothingBeforeStart, SinkLeftRunning, [Next]_vars
  PROVE  SinkLeftRunning'
<1>. USE ThreadFacts DEF TypeOK, LabelsOK, SinkLeftRunning, Goto, FeederSteps, FeederRest, RaiseSteps,
     WorkerSteps, ClockSteps, StopSteps, CloseSteps, TaskRest
<1>1. CASE UNCHANGED vars \/ ConnectionBreaks \/ PipelineStopsClock
  BY <1>1 DEF vars, ConnectionBreaks, PipelineStopsClock
<1>2. CASE OnClockStart
  <2>1. Goto(Clock, "startVideo") /\ \A t \in Threads : pc[t] \in {"idle", "none"}
    BY <1>2 DEF OnClockStart, NothingBeforeStart
  <2>2. pc'[Clock] = "startVideo" /\ \A t \in Threads \ {Clock} : pc'[t] = pc[t]
    BY <2>1, GotoPc
  <2>3. pc[CloseTask] = "none" /\ \A t \in FailTasks : pc[t] = "none"
    BY <2>1 DEF TaskRest, CloseSteps
  <2>4. Raisers \cup FailTasks \cup {CloseTask} \subseteq Threads \ {Clock}
    BY ThreadFacts
  <2>. HIDE ThreadFacts DEF TypeOK, LabelsOK, Goto
  <2>. QED  BY <2>1, <2>2, <2>3, <2>4 DEF SinkLeftRunning
<1>3. ASSUME NEW s \in Streams, FeederDelivers(s) PROVE SinkLeftRunning'
  BY <1>3 DEF FeederDelivers, ProcessSample, DropSample, ProcessSampleFails, PlaceTick,
     PlaceMarkerFails, PlaceEndOfSegment
<1>4. ASSUME NEW s \in Streams, MarkEndOfSegment(s) PROVE SinkLeftRunning'
  BY <1>4 DEF MarkEndOfSegment, Spawn
<1>5. CASE WorkerStep
  BY <1>5 DEF WorkerStep, DropItem, BeginItem, PrepareTimestamps, QueueAudioVideoMessage,
     QueueAudioVideoMessageFails, QueueAudioVideoMessageCrashes
<1>6. CASE ClockStep
  BY <1>6 DEF ClockStep, StreamSinkClockStart, OnClockStop, ClockStopSetStream,
     ClockStopSetSink, StreamSinkClockStop, ClockStopCloses, Spawn
<1>7. ASSUME NEW t \in Raisers, RaisePublishFailed(t) PROVE SinkLeftRunning'
  BY <1>7 DEF RaisePublishFailed, RpfCheckSink, RpfCheckState, RpfSetSink, RpfSetStream,
     RpfCreateTask, ReturnFailed, Spawn
<1>8. ASSUME NEW t \in Threads, UseOfNullSink(t) PROVE SinkLeftRunning'
  BY <1>8 DEF UseOfNullSink
<1>9. ASSUME NEW t \in StopTasks \cup FailTasks \cup {CloseTask},
             FailTaskRaises(t) \/ FailTaskCloses(t)
      PROVE  SinkLeftRunning'
  BY <1>9 DEF FailTaskRaises, FailTaskCloses
<1>10. ASSUME NEW t \in StopTasks \cup FailTasks \cup {CloseTask}, StopPresentationClock(t)
       PROVE  SinkLeftRunning'
  BY <1>10 DEF StopPresentationClock, SpcLock, SpcCheckStreams, SpcUnpublish,
     SpcUnpublishFails, SpcDisconnect, SpcStopClock
<1>11. ASSUME NEW t \in StopTasks \cup FailTasks \cup {CloseTask}, Close(t)
       PROVE  SinkLeftRunning'
  BY <1>11 DEF Close, CloseCheck, CloseReadTimestamps, RaiseSessionClosed, CloseCallsShutdown,
     Shutdown, ShutdownSetStream, ShutdownSetSink, CloseResetsSink
<1>. HIDE DEF TypeOK, LabelsOK, SinkLeftRunning, Goto
<1>. QED  BY <1>1, <1>2, <1>3, <1>4, <1>5, <1>6, <1>7, <1>8, <1>9, <1>10, <1>11, Actions

\* Only the start of the clock sets a stream to RUNNING, before its feeder is called.
LEMMA EndedStreamsStep ==
  ASSUME TypeOK, LabelsOK, NothingBeforeStart, EndedStreams, [Next]_vars
  PROVE  EndedStreams'
<1>. USE ThreadFacts DEF TypeOK, LabelsOK, EndedStreams, Started, NothingBeforeStart, Goto, FeederSteps, FeederRest, RaiseSteps,
     WorkerSteps, ClockSteps, StopSteps, CloseSteps, TaskRest
<1>1. CASE UNCHANGED vars \/ ConnectionBreaks \/ PipelineStopsClock
  BY <1>1 DEF vars, ConnectionBreaks, PipelineStopsClock
<1>2. CASE OnClockStart
  BY <1>2 DEF OnClockStart
<1>3. ASSUME NEW s \in Streams, FeederDelivers(s) PROVE EndedStreams'
  BY <1>3 DEF FeederDelivers, ProcessSample, DropSample, ProcessSampleFails, PlaceTick,
     PlaceMarkerFails, PlaceEndOfSegment, SampleArrives
<1>4. ASSUME NEW s \in Streams, MarkEndOfSegment(s) PROVE EndedStreams'
  BY <1>4 DEF MarkEndOfSegment, Spawn, SetStream
<1>5. CASE WorkerStep
  BY <1>5 DEF WorkerStep, DropItem, BeginItem, PrepareTimestamps, QueueAudioVideoMessage,
     QueueAudioVideoMessageFails, QueueAudioVideoMessageCrashes
<1>6. CASE ClockStep
  BY <1>6 DEF ClockStep, StreamSinkClockStart, OnClockStop, ClockStopSetStream,
     ClockStopSetSink, StreamSinkClockStop, ClockStopCloses, Spawn, SetStream
<1>7. ASSUME NEW t \in Raisers, RaisePublishFailed(t) PROVE EndedStreams'
  <2>1. CASE RpfCreateTask(t)
    BY <2>1 DEF RpfCreateTask, Spawn
  <2>2. CASE ~RpfCreateTask(t)
    BY <1>7, <2>2 DEF RaisePublishFailed, RpfCheckSink, RpfCheckState, RpfSetSink, RpfSetStream,
       SetStream, ReturnFailed
  <2>. QED  BY <2>1, <2>2
<1>8. ASSUME NEW t \in Threads, UseOfNullSink(t) PROVE EndedStreams'
  BY <1>8 DEF UseOfNullSink
<1>9. ASSUME NEW t \in StopTasks \cup FailTasks \cup {CloseTask},
             FailTaskRaises(t) \/ FailTaskCloses(t)
      PROVE  EndedStreams'
  BY <1>9 DEF FailTaskRaises, FailTaskCloses
<1>10. ASSUME NEW t \in StopTasks \cup FailTasks \cup {CloseTask}, StopPresentationClock(t)
       PROVE  EndedStreams'
  BY <1>10 DEF StopPresentationClock, SpcLock, SpcCheckStreams, SpcUnpublish,
     SpcUnpublishFails, SpcDisconnect, SpcStopClock, AfterStop
<1>11. ASSUME NEW t \in StopTasks \cup FailTasks \cup {CloseTask}, Close(t)
       PROVE  EndedStreams'
  <2>1. pc[t] \in CloseSteps /\ \E l : Goto(t, l)
    BY <1>11 DEF Close, CloseCheck, CloseReadTimestamps, RaiseSessionClosed, CloseCallsShutdown,
       Shutdown, ShutdownSetStream, ShutdownSetSink, CloseResetsSink, CloseSteps
  <2>2. t \notin StopTasks
    BY <2>1 DEF LabelsOK, CloseSteps, StopSteps, TaskRest
  <2>3. \A v \in Threads \ {t} : pc'[v] = pc[v]
    BY <2>1, GotoPc
  <2>4. \A s \in Streams : streamState'[s] \in {streamState[s], "SHUTDOWN"}
    BY <1>11 DEF Close, CloseCheck, CloseReadTimestamps, RaiseSessionClosed, CloseCallsShutdown,
       Shutdown, ShutdownSetStream, ShutdownSetSink, CloseResetsSink, SetStream
  <2>. QED  BY <2>2, <2>3, <2>4, ThreadFacts DEF EndedStreams, Started
<1>. HIDE DEF TypeOK, LabelsOK, EndedStreams, Started, NothingBeforeStart, Goto
<1>. QED  BY <1>1, <1>2, <1>3, <1>4, <1>5, <1>6, <1>7, <1>8, <1>9, <1>10, <1>11, Actions

\* SessionClosed comes after the sink has left RUNNING.
LEMMA ClosedStep ==
  ASSUME TypeOK, LabelsOK, NothingBeforeStart, SinkLeftRunning, ClosedSinkNotRunning, [Next]_vars
  PROVE  ClosedSinkNotRunning'
<1>. USE ThreadFacts DEF TypeOK, LabelsOK, ClosedSinkNotRunning, Goto, FeederSteps, FeederRest, RaiseSteps,
     WorkerSteps, ClockSteps, StopSteps, CloseSteps, TaskRest
<1>1. CASE UNCHANGED vars \/ ConnectionBreaks \/ PipelineStopsClock
  BY <1>1 DEF vars, ConnectionBreaks, PipelineStopsClock
<1>2. CASE OnClockStart
  <2>1. raised' = <<>>
    BY <1>2 DEF OnClockStart, NothingBeforeStart
  <2>. QED  BY <2>1
<1>3. ASSUME NEW s \in Streams, FeederDelivers(s) PROVE ClosedSinkNotRunning'
  BY <1>3 DEF FeederDelivers, ProcessSample, DropSample, ProcessSampleFails, PlaceTick,
     PlaceMarkerFails, PlaceEndOfSegment, SampleArrives
<1>4. ASSUME NEW s \in Streams, MarkEndOfSegment(s) PROVE ClosedSinkNotRunning'
  BY <1>4 DEF MarkEndOfSegment, Spawn
<1>5. CASE WorkerStep
  BY <1>5 DEF WorkerStep, DropItem, BeginItem, PrepareTimestamps, QueueAudioVideoMessage,
     QueueAudioVideoMessageFails, QueueAudioVideoMessageCrashes
<1>6. CASE ClockStep
  BY <1>6 DEF ClockStep, StreamSinkClockStart, OnClockStop, ClockStopSetStream,
     ClockStopSetSink, StreamSinkClockStop, ClockStopCloses, Spawn
<1>7. ASSUME NEW t \in Raisers, RaisePublishFailed(t) PROVE ClosedSinkNotRunning'
  BY <1>7 DEF RaisePublishFailed, RpfCheckSink, RpfCheckState, RpfSetSink, RpfSetStream,
     RpfCreateTask, ReturnFailed, Spawn
<1>8. ASSUME NEW t \in Threads, UseOfNullSink(t) PROVE ClosedSinkNotRunning'
  BY <1>8 DEF UseOfNullSink
<1>9. ASSUME NEW t \in StopTasks \cup FailTasks \cup {CloseTask},
             FailTaskRaises(t) \/ FailTaskCloses(t)
      PROVE  ClosedSinkNotRunning'
  <2>1. CASE FailTaskCloses(t)
    BY <2>1 DEF FailTaskCloses
  <2>2. CASE FailTaskRaises(t)
    <3>1. raised' = Append(raised, "PublishFailed") /\ sinkState' = sinkState
      BY <2>2 DEF FailTaskRaises
    <3>2. \A i \in DOMAIN raised' : raised'[i] = "SessionClosed" =>
            i \in DOMAIN raised /\ raised[i] = "SessionClosed"
      BY <3>1
    <3>. QED  BY <3>1, <3>2
  <2>. QED  BY <1>9, <2>1, <2>2
<1>10. ASSUME NEW t \in StopTasks \cup FailTasks \cup {CloseTask}, StopPresentationClock(t)
       PROVE  ClosedSinkNotRunning'
  BY <1>10 DEF StopPresentationClock, SpcLock, SpcCheckStreams, SpcUnpublish,
     SpcUnpublishFails, SpcDisconnect, SpcStopClock
<1>11. ASSUME NEW t \in StopTasks \cup FailTasks \cup {CloseTask}, Close(t)
       PROVE  ClosedSinkNotRunning'
  <2>1. CASE RaiseSessionClosed(t)
    <3>1. t \in FailTasks \cup {CloseTask} /\ pc[t] # "none"
      BY <2>1 DEF RaiseSessionClosed
    <3>2. sinkState # "RUNNING"
      BY <3>1 DEF SinkLeftRunning
    <3>. QED  BY <2>1, <3>2 DEF RaiseSessionClosed
  <2>2. CASE ~RaiseSessionClosed(t)
    BY <1>11, <2>2 DEF Close, CloseCheck, CloseReadTimestamps, CloseCallsShutdown, Shutdown,
       ShutdownSetStream, ShutdownSetSink, CloseResetsSink
  <2>. QED  BY <2>1, <2>2
<1>. HIDE DEF TypeOK, LabelsOK, ClosedSinkNotRunning, Goto
<1>. QED  BY <1>1, <1>2, <1>3, <1>4, <1>5, <1>6, <1>7, <1>8, <1>9, <1>10, <1>11, Actions

\* SinkMutex is taken free and released by its holder.
LEMMA MutexStep ==
  ASSUME TypeOK, MutexHeld, [Next]_vars
  PROVE  MutexHeld'
<1>0. pc \in [Threads -> Labels]
  BY DEF TypeOK
<1>. USE ThreadFacts, <1>0 DEF MutexHeld, MutexSteps, StopSteps, ClockSteps, Goto
<1>1. CASE UNCHANGED vars \/ ConnectionBreaks \/ PipelineStopsClock
  BY <1>1 DEF vars, ConnectionBreaks, PipelineStopsClock
<1>2. CASE OnClockStart
  BY <1>2 DEF OnClockStart, Acquire
<1>3. ASSUME NEW s \in Streams, FeederDelivers(s) PROVE MutexHeld'
  BY <1>3 DEF FeederDelivers, ProcessSample, DropSample, ProcessSampleFails, PlaceTick,
     PlaceMarkerFails, PlaceEndOfSegment, SampleArrives, RaiseSteps
<1>4. ASSUME NEW s \in Streams, MarkEndOfSegment(s) PROVE MutexHeld'
  BY <1>4 DEF MarkEndOfSegment, Spawn
<1>5. CASE WorkerStep
  BY <1>5 DEF WorkerStep, DropItem, BeginItem, PrepareTimestamps, QueueAudioVideoMessage,
     QueueAudioVideoMessageFails, QueueAudioVideoMessageCrashes, RaiseSteps, WorkerSteps
<1>6. CASE ClockStep
  BY <1>6 DEF ClockStep, StreamSinkClockStart, OnClockStop, ClockStopSetStream,
     ClockStopSetSink, StreamSinkClockStop, ClockStopCloses, Spawn, Acquire, Release
<1>7. ASSUME NEW t \in Raisers, RaisePublishFailed(t) PROVE MutexHeld'
  BY <1>7 DEF RaisePublishFailed, RpfCheckSink, RpfCheckState, RpfSetSink, RpfSetStream,
     RpfCreateTask, ReturnFailed, Spawn, RaiseSteps
<1>8. ASSUME NEW t \in Threads, UseOfNullSink(t) PROVE MutexHeld'
  BY <1>8 DEF UseOfNullSink
<1>9. ASSUME NEW t \in StopTasks \cup FailTasks \cup {CloseTask},
             FailTaskRaises(t) \/ FailTaskCloses(t)
      PROVE  MutexHeld'
  BY <1>9 DEF FailTaskRaises, FailTaskCloses
<1>10. ASSUME NEW t \in StopTasks \cup FailTasks \cup {CloseTask}, StopPresentationClock(t)
       PROVE  MutexHeld'
  <2>1. CASE SpcLock(t)
    <3>1. CASE sinkState = "RUNNING"
      BY <2>1, <3>1 DEF SpcLock
    <3>2. CASE sinkState # "RUNNING"
      BY <2>1, <3>2 DEF SpcLock, AfterStop
    <3>. QED  BY <3>1, <3>2
  <2>2. CASE SpcCheckStreams(t)
    <3>1. CASE AllAtEndOfSegment
      BY <2>2, <3>1 DEF SpcCheckStreams
    <3>2. CASE ~AllAtEndOfSegment
      BY <2>2, <3>2 DEF SpcCheckStreams, AfterStop, Release
    <3>. QED  BY <3>1, <3>2
  <2>3. CASE SpcStopClock(t)
    BY <2>3 DEF SpcStopClock, AfterStop, Release
  <2>4. CASE SpcUnpublish(t) \/ SpcUnpublishFails(t) \/ SpcDisconnect(t)
    BY <2>4 DEF SpcUnpublish, SpcUnpublishFails, SpcDisconnect
  <2>. QED  BY <1>10, <2>1, <2>2, <2>3, <2>4 DEF StopPresentationClock
<1>11. ASSUME NEW t \in StopTasks \cup FailTasks \cup {CloseTask}, Close(t)
       PROVE  MutexHeld'
  <2>1. CASE ShutdownSetSink(t)
    BY <2>1 DEF ShutdownSetSink, Release
  <2>2. ASSUME NEW from \in {"shutAudio", "shutVideo"}, NEW s, NEW to \in {"shutVideo", "shutOwn"},
               ShutdownSetStream(t, from, s, to)
        PROVE  MutexHeld'
    BY <2>2 DEF ShutdownSetStream, Acquire
  <2>3. CASE CloseCheck(t) \/ CloseReadTimestamps(t) \/ RaiseSessionClosed(t)
               \/ CloseCallsShutdown(t) \/ CloseResetsSink(t)
    BY <2>3 DEF CloseCheck, CloseReadTimestamps, RaiseSessionClosed, CloseCallsShutdown,
       CloseResetsSink
  <2>. QED  BY <1>11, <2>1, <2>2, <2>3 DEF Close, Shutdown
<1>. HIDE DEF MutexHeld, MutexSteps, StopSteps, ClockSteps, Goto
<1>. QED  BY <1>1, <1>2, <1>3, <1>4, <1>5, <1>6, <1>7, <1>8, <1>9, <1>10, <1>11, Actions

\* A thread that returns from a failed call releases what it holds.
LEMMA LocksReleased ==
  ASSUME TypeOK, LocksHeld, NEW t \in Raisers, pc'[t] = "idle",
         \A u \in Raisers \ {t} : pc'[u] = pc[u],
         lockSink' = [s \in Streams |-> IF lockSink[s] = t THEN NoThread ELSE lockSink[s]]
  PROVE  LocksHeld'
<1>1. \A s \in Streams : lockSink'[s] = IF lockSink[s] = t THEN NoThread ELSE lockSink[s]
  OBVIOUS
<1>. QED  BY <1>1, ThreadFacts DEF LocksHeld, FeederRest

\* The lock of a stream is taken free and released by its holder.
LEMMA LocksStep ==
  ASSUME TypeOK, LocksHeld, [Next]_vars
  PROVE  LocksHeld'
<1>0. pc \in [Threads -> Labels] /\ lockSink \in [Streams -> Raisers \cup {NoThread}]
  BY DEF TypeOK
<1>. USE ThreadFacts, <1>0 DEF LocksHeld, FeederRest, Goto
<1>1. CASE UNCHANGED vars \/ ConnectionBreaks \/ PipelineStopsClock
  BY <1>1 DEF vars, ConnectionBreaks, PipelineStopsClock
<1>2. CASE OnClockStart
  BY <1>2 DEF OnClockStart
<1>3. ASSUME NEW s \in Streams, FeederDelivers(s) PROVE LocksHeld'
  BY <1>3 DEF FeederDelivers, ProcessSample, DropSample, ProcessSampleFails, PlaceTick,
     PlaceMarkerFails, PlaceEndOfSegment, SampleArrives
<1>4. ASSUME NEW s \in Streams, MarkEndOfSegment(s) PROVE LocksHeld'
  BY <1>4 DEF MarkEndOfSegment, Spawn
<1>5. CASE WorkerStep
  <2>1. CASE DropItem
    BY <2>1 DEF DropItem
  <2>2. CASE BeginItem
    <3>1. NextStream \in Streams /\ lockSink[NextStream] = NoThread /\ pc[Worker] = "idle"
      BY <2>2 DEF BeginItem, NextStream, Items, TypeOK
    <3>2. \A s \in Streams : lockSink[s] # Worker
      BY <3>1
    <3>. QED  BY <2>2, <3>1, <3>2 DEF BeginItem
  <2>3. ASSUME NEW s \in Streams,
               \/ PrepareTimestamps(s) \/ QueueAudioVideoMessage(s)
               \/ QueueAudioVideoMessageFails(s) \/ QueueAudioVideoMessageCrashes(s)
        PROVE  LocksHeld'
    <3>1. CASE QueueAudioVideoMessage(s)
      BY <3>1 DEF QueueAudioVideoMessage
    <3>2. CASE ~QueueAudioVideoMessage(s)
      BY <2>3, <3>2 DEF PrepareTimestamps, QueueAudioVideoMessageFails,
         QueueAudioVideoMessageCrashes
    <3>. QED  BY <3>1, <3>2
  <2>. QED  BY <1>5, <2>1, <2>2, <2>3 DEF WorkerStep
<1>6. CASE ClockStep
  BY <1>6 DEF ClockStep, StreamSinkClockStart, OnClockStop, ClockStopSetStream,
     ClockStopSetSink, StreamSinkClockStop, ClockStopCloses, Spawn
<1>7. ASSUME NEW t \in Raisers, RaisePublishFailed(t) PROVE LocksHeld'
  <2>1. ASSUME ReturnFailed(t) PROVE LocksHeld'
    BY <2>1, LocksReleased DEF ReturnFailed
  <2>2. CASE RpfCreateTask(t)
    BY <2>2, LocksReleased DEF RpfCreateTask, Spawn
  <2>3. CASE ~ReturnFailed(t) /\ ~RpfCreateTask(t)
    BY <1>7, <2>3 DEF RaisePublishFailed, RpfCheckSink, RpfCheckState, RpfSetSink, RpfSetStream,
       RaiseSteps
  <2>. QED  BY <2>1, <2>2, <2>3
<1>8. ASSUME NEW t \in Threads, UseOfNullSink(t) PROVE LocksHeld'
  BY <1>8 DEF UseOfNullSink
<1>9. ASSUME NEW t \in StopTasks \cup FailTasks \cup {CloseTask},
             FailTaskRaises(t) \/ FailTaskCloses(t)
      PROVE  LocksHeld'
  BY <1>9 DEF FailTaskRaises, FailTaskCloses
<1>10. ASSUME NEW t \in StopTasks \cup FailTasks \cup {CloseTask}, StopPresentationClock(t)
       PROVE  LocksHeld'
  BY <1>10 DEF StopPresentationClock, SpcLock, SpcCheckStreams, SpcUnpublish,
     SpcUnpublishFails, SpcDisconnect, SpcStopClock, AfterStop
<1>11. ASSUME NEW t \in StopTasks \cup FailTasks \cup {CloseTask}, Close(t)
       PROVE  LocksHeld'
  <2>1. UNCHANGED lockSink /\ \E l : Goto(t, l)
    BY <1>11 DEF Close, CloseCheck, CloseReadTimestamps, RaiseSessionClosed, CloseCallsShutdown,
       Shutdown, ShutdownSetStream, ShutdownSetSink, CloseResetsSink
  <2>2. \A v \in Threads \ {t} : pc'[v] = pc[v]
    BY <2>1, GotoPc
  <2>. QED  BY <2>1, <2>2, ThreadFacts DEF LocksHeld
<1>. HIDE DEF LocksHeld, FeederRest, Goto
<1>. QED  BY <1>1, <1>2, <1>3, <1>4, <1>5, <1>6, <1>7, <1>8, <1>9, <1>10, <1>11, Actions

\* Two streams at most.
LEMMA TwoStreams == \A a, b, c \in Streams : a = b \/ b = c \/ a = c
BY StreamsAssumption

\* There are two streams: with one at work and one whose end was marked, none is
\* left whose failure could bring the first to its end.
LEMMA WorkProtectedStep ==
  ASSUME TypeOK, LocksHeld, EndedStreams, NothingBeforeStart, WorkProtected, [Next]_vars
  PROVE  WorkProtected'
<1>0. /\ pc \in [Threads -> Labels] /\ lockSink \in [Streams -> Raisers \cup {NoThread}]
      /\ streamState \in [Streams -> SinkStates]
  BY DEF TypeOK
<1>. USE ThreadFacts, TwoStreams, <1>0 DEF WorkProtected, Goto
<1>1. CASE UNCHANGED vars \/ ConnectionBreaks \/ PipelineStopsClock
  BY <1>1 DEF vars, ConnectionBreaks, PipelineStopsClock
<1>2. CASE OnClockStart
  <2>1. pc[Worker] \in {"idle", "none"} /\ pc'[Worker] = pc[Worker]
    BY <1>2 DEF OnClockStart, NothingBeforeStart
  <2>. QED  BY <2>1
<1>3. ASSUME NEW s \in Streams, FeederDelivers(s) PROVE WorkProtected'
  BY <1>3 DEF FeederDelivers, ProcessSample, DropSample, ProcessSampleFails, PlaceTick,
     PlaceMarkerFails, PlaceEndOfSegment, SampleArrives, LocksHeld, FeederRest
<1>4. ASSUME NEW s \in Streams, MarkEndOfSegment(s) PROVE WorkProtected'
  BY <1>4 DEF MarkEndOfSegment, Spawn, LocksHeld, SetStream
<1>5. CASE WorkerStep
  <2>1. CASE DropItem
    BY <2>1 DEF DropItem
  <2>2. CASE BeginItem
    <3>1. /\ NextStream \in Streams /\ streamState[NextStream] = "RUNNING"
          /\ pc[Worker] = "idle" /\ streamState' = streamState
          /\ lockSink' = [lockSink EXCEPT ![NextStream] = Worker]
          /\ pc' = [pc EXCEPT ![Worker] = "work"]
      BY <2>2 DEF BeginItem, NextStream, Items, TypeOK
    <3>2. pc[Feeder(NextStream)] # "ended"
      BY <3>1 DEF EndedStreams
    <3>3. \A s \in Streams : lockSink'[s] = Worker => s = NextStream
      BY <3>1 DEF LocksHeld
    <3>. QED  BY <3>1, <3>2, <3>3
  <2>3. ASSUME NEW s \in Streams,
               \/ PrepareTimestamps(s) \/ QueueAudioVideoMessage(s)
               \/ QueueAudioVideoMessageFails(s) \/ QueueAudioVideoMessageCrashes(s)
        PROVE  WorkProtected'
    BY <2>3 DEF PrepareTimestamps, QueueAudioVideoMessage, QueueAudioVideoMessageFails,
       QueueAudioVideoMessageCrashes
  <2>. QED  BY <1>5, <2>1, <2>2, <2>3 DEF WorkerStep
<1>6. CASE ClockStep
  BY <1>6 DEF ClockStep, StreamSinkClockStart, OnClockStop, ClockStopSetStream,
     ClockStopSetSink, StreamSinkClockStop, ClockStopCloses, Spawn, SetStream
<1>7. ASSUME NEW t \in Raisers, RaisePublishFailed(t) PROVE WorkProtected'
  <2>1. CASE t = Worker
    <3>1. pc'[Worker] \notin {"work", "stamped"}
      BY <1>7, <2>1 DEF RaisePublishFailed, RpfCheckSink, RpfCheckState, RpfSetSink, RpfSetStream,
         RpfCreateTask, ReturnFailed, Spawn
    <3>. QED  BY <3>1
  <2>2. ASSUME NEW r \in Streams, t = Feeder(r), NEW x, NEW from \in {"eosAudio", "eosVideo"},
               NEW to \in {"eosVideo", "eosOwn"}, RpfSetStream(t, from, x, to)
        PROVE  WorkProtected'
    <3>1. /\ pc[t] = from /\ pc' = [pc EXCEPT ![t] = to] /\ lockSink' = lockSink
          /\ sinkState' = sinkState
          /\ \A s \in Streams : s # x => streamState'[s] = streamState[s]
      BY <2>2 DEF RpfSetStream, SetStream
    <3>2. lockSink[r] = Feeder(r) /\ pc'[Feeder(r)] = to
      BY <2>2, <3>1 DEF LocksHeld, FeederRest
    <3>3. SUFFICES ASSUME pc'[Worker] \in {"work", "stamped"}, NEW s \in Streams,
                          lockSink'[s] = Worker
                   PROVE  /\ pc'[Feeder(s)] # "ended"
                          /\ \A u \in StopTasks : pc'[u] # "spcStreams"
                          /\ \E q \in Streams \ {s} : pc'[Feeder(q)] \in {"eosVideo", "eosOwn"}
      BY DEF WorkProtected
    <3>4. pc'[Feeder(s)] # "ended" /\ r # s
      BY <2>2, <3>1, <3>2, <3>3
    <3>5. ASSUME NEW u \in StopTasks, pc'[u] = "spcStreams" PROVE FALSE
      <4>1. PICK y \in Streams : u = StopTask(y)
        OBVIOUS
      <4>2. pc[Feeder(y)] = "ended"
        BY <3>1, <3>5, <4>1, <2>2 DEF EndedStreams
      <4>. QED  BY <3>1, <3>2, <3>3, <3>4, <4>2, <2>2
    <3>. QED  BY <3>2, <3>4, <3>5
  <2>3. CASE t # Worker /\ RpfSetSink(t)
    BY <2>3 DEF RpfSetSink
  <2>4. CASE t # Worker /\ (RpfCheckSink(t) \/ RpfCheckState(t))
    BY <2>4 DEF RpfCheckSink, RpfCheckState, ReturnFailed
  <2>5. CASE t # Worker /\ RpfCreateTask(t)
    BY <2>5 DEF RpfCreateTask, Spawn
  <2>. QED  BY <1>7, <2>1, <2>2, <2>3, <2>4, <2>5 DEF RaisePublishFailed
<1>8. ASSUME NEW t \in Threads, UseOfNullSink(t) PROVE WorkProtected'
  BY <1>8 DEF UseOfNullSink
<1>9. ASSUME NEW t \in StopTasks \cup FailTasks \cup {CloseTask},
             FailTaskRaises(t) \/ FailTaskCloses(t)
      PROVE  WorkProtected'
  BY <1>9 DEF FailTaskRaises, FailTaskCloses
<1>10. ASSUME NEW t \in StopTasks \cup FailTasks \cup {CloseTask}, StopPresentationClock(t)
       PROVE  WorkProtected'
  <2>1. CASE SpcLock(t) /\ t \in StopTasks /\ sinkState = "RUNNING"
    <3>1. /\ pc[t] = "spcLock" /\ pc' = [pc EXCEPT ![t] = "spcStreams"]
          /\ UNCHANGED <<lockSink, streamState, sinkState>>
      BY <2>1 DEF SpcLock
    <3>2. PICK y \in Streams : t = StopTask(y)
      BY <2>1
    <3>3. pc[Feeder(y)] = "ended"
      BY <3>1, <3>2 DEF EndedStreams
    <3>4. ASSUME pc[Worker] \in {"work", "stamped"}, NEW s \in Streams, lockSink[s] = Worker
          PROVE  pc[Feeder(s)] # "ended" /\ streamState[s] # "EOS"
      BY <2>1, <3>3, <3>4
    <3>. QED  BY <2>1, <3>1, <3>4
  <2>2. CASE ~(SpcLock(t) /\ t \in StopTasks /\ sinkState = "RUNNING")
    BY <1>10, <2>2 DEF StopPresentationClock, SpcLock, SpcCheckStreams, SpcUnpublish,
       SpcUnpublishFails, SpcDisconnect, SpcStopClock, AfterStop
  <2>. QED  BY <2>1, <2>2
<1>11. ASSUME NEW t \in StopTasks \cup FailTasks \cup {CloseTask}, Close(t)
       PROVE  WorkProtected'
  <2>1. pc'[t] # "spcStreams" /\ \A u \in Threads \ {t} : pc'[u] = pc[u]
    BY <1>11 DEF Close, CloseCheck, CloseReadTimestamps, RaiseSessionClosed,
       CloseCallsShutdown, Shutdown, ShutdownSetStream, ShutdownSetSink, CloseResetsSink
  <2>2. /\ lockSink' = lockSink /\ sinkState' \in {sinkState, "SHUTDOWN"}
        /\ \A s \in Streams : streamState'[s] \in {streamState[s], "SHUTDOWN"}
    BY <1>11 DEF Close, CloseCheck, CloseReadTimestamps, RaiseSessionClosed,
       CloseCallsShutdown, Shutdown, ShutdownSetStream, ShutdownSetSink, CloseResetsSink, SetStream
  <2>. QED  BY <2>1, <2>2
<1>. HIDE DEF WorkProtected, Goto
<1>. QED  BY <1>1, <1>2, <1>3, <1>4, <1>5, <1>6, <1>7, <1>8, <1>9, <1>10, <1>11, Actions

\* The decision to unpublish is taken when all streams are at their end, and none can
\* start again.
LEMMA UnpublishingStep ==
  ASSUME TypeOK, LabelsOK, MutexHeld, LocksHeld, EndedStreams, WorkProtected, NothingBeforeStart, Unpublishing, [Next]_vars
  PROVE  Unpublishing'
<1>0. /\ pc \in [Threads -> Labels] /\ streamState \in [Streams -> SinkStates]
      /\ messenger \in {"connected", "unpublished", "none"}
  BY DEF TypeOK
<1>. USE ThreadFacts, <1>0 DEF Unpublishing, Goto
<1>1. CASE UNCHANGED vars \/ ConnectionBreaks \/ PipelineStopsClock
  BY <1>1 DEF vars, ConnectionBreaks, PipelineStopsClock
<1>2. CASE OnClockStart
  <2>1. messenger' = "connected" /\ \A u \in StopTasks : pc'[u] \in {"idle", "none"}
    BY <1>2 DEF OnClockStart, NothingBeforeStart
  <2>. QED  BY <2>1
<1>3. ASSUME NEW s \in Streams, FeederDelivers(s) PROVE Unpublishing'
  BY <1>3 DEF FeederDelivers, ProcessSample, DropSample, ProcessSampleFails, PlaceTick,
     PlaceMarkerFails, PlaceEndOfSegment, SampleArrives, LocksHeld, FeederRest
<1>4. ASSUME NEW s \in Streams, MarkEndOfSegment(s) PROVE Unpublishing'
  <2>1. pc[StopTask(s)] = "none" /\ pc[Feeder(s)] = "mark"
    BY <1>4 DEF MarkEndOfSegment, EndedStreams
  <2>2. /\ messenger' = messenger
        /\ pc' = [pc EXCEPT ![Feeder(s)] = "ended", ![StopTask(s)] = "spcLock"]
        /\ \A r \in Streams : streamState'[r] \in {streamState[r], "EOS"}
    BY <1>4 DEF MarkEndOfSegment, Spawn, SetStream
  <2>3. /\ pc'[Worker] = pc[Worker] /\ pc'[Clock] = pc[Clock]
        /\ pc'[StopTask(s)] = "spcLock"
        /\ \A u \in StopTasks \ {StopTask(s)} : pc'[u] = pc[u]
    BY <2>2
  <2>. QED  BY <2>1, <2>2, <2>3
<1>5. CASE WorkerStep
  <2>1. messenger' = messenger /\ streamState' = streamState /\ pc'[Clock] = pc[Clock]
        /\ \A u \in StopTasks : pc'[u] = pc[u]
    BY <1>5 DEF WorkerStep, DropItem, BeginItem, PrepareTimestamps, QueueAudioVideoMessage,
       QueueAudioVideoMessageFails, QueueAudioVideoMessageCrashes
  <2>2. ASSUME \A s \in Streams : streamState[s] # "RUNNING", pc[Worker] \notin {"work", "stamped"}
        PROVE  pc'[Worker] \notin {"work", "stamped"}
    <3>1. CASE BeginItem
      <4>1. NextStream \in Streams /\ streamState[NextStream] = "RUNNING"
        BY <3>1 DEF BeginItem, NextStream, Items, TypeOK
      <4>. QED  BY <2>2, <4>1
    <3>2. CASE ~BeginItem
      BY <1>5, <2>2, <3>2 DEF WorkerStep, DropItem, PrepareTimestamps, QueueAudioVideoMessage,
         QueueAudioVideoMessageFails, QueueAudioVideoMessageCrashes
    <3>. QED  BY <3>1, <3>2
  <2>. QED  BY <2>1, <2>2
<1>6. CASE ClockStep
  <2>1. \A u \in StopTasks : pc'[u] = pc[u]
    BY <1>6 DEF ClockStep, StreamSinkClockStart, OnClockStop, ClockStopSetStream,
       ClockStopSetSink, StreamSinkClockStop, ClockStopCloses, Spawn
  <2>2. messenger' = messenger /\ pc'[Worker] = pc[Worker]
    BY <1>6 DEF ClockStep, StreamSinkClockStart, OnClockStop, ClockStopSetStream,
       ClockStopSetSink, StreamSinkClockStop, ClockStopCloses, Spawn
  <2>3. pc'[Clock] \notin {"idle", "startVideo"} /\ (pc'[Clock] = "startAudio" => pc[Clock] = "startVideo")
    BY <1>6 DEF ClockStep, StreamSinkClockStart, OnClockStop, ClockStopSetStream,
       ClockStopSetSink, StreamSinkClockStop, ClockStopCloses, Spawn
  <2>4. CASE pc[Clock] \in {"startVideo", "startAudio"}
    <3>1. sinkMutex = Clock
      BY <2>4 DEF MutexHeld, MutexSteps, ClockSteps
    <3>2. \A u \in StopTasks : pc[u] \notin {"spcUnpublish", "spcReset"}
      BY <3>1 DEF MutexHeld, MutexSteps, StopSteps
    <3>3. messenger = "connected"
      BY <2>4
    <3>. QED  BY <2>1, <2>2, <3>2, <3>3
  <2>5. CASE OnClockStop
    <3>1. \A s \in Streams : streamState'[s] \in {streamState[s], "STOPPED"}
      BY <2>5 DEF OnClockStop, ClockStopSetStream, ClockStopSetSink, StreamSinkClockStop,
         ClockStopCloses, SetStream
    <3>2. ASSUME NEW u \in StopTasks, pc[u] = "spcUnpublish" PROVE streamState' = streamState
      <4>1. sinkMutex = u
        BY <3>2 DEF MutexHeld, MutexSteps, StopSteps
      <4>2. pc[Clock] \notin {"stopVideo", "stopOwn", "stopAgain", "stopClose"}
        BY <4>1 DEF MutexHeld, MutexSteps, ClockSteps
      <4>. QED  BY <2>5, <4>1, <4>2 DEF OnClockStop, ClockStopSetStream, ClockStopSetSink,
               StreamSinkClockStop, ClockStopCloses, Acquire
    <3>. QED  BY <2>1, <2>2, <2>3, <2>5, <3>1, <3>2
  <2>. QED  BY <1>6, <2>4, <2>5 DEF ClockStep, StreamSinkClockStart
<1>7. ASSUME NEW t \in Raisers, RaisePublishFailed(t) PROVE Unpublishing'
  <2>1. messenger' = messenger /\ pc'[Clock] = pc[Clock] /\ \A u \in StopTasks : pc'[u] = pc[u]
    BY <1>7 DEF RaisePublishFailed, RpfCheckSink, RpfCheckState, RpfSetSink, RpfSetStream,
       RpfCreateTask, ReturnFailed, Spawn
  <2>2. \A s \in Streams : streamState'[s] \in {streamState[s], "EOS"}
    BY <1>7 DEF RaisePublishFailed, RpfCheckSink, RpfCheckState, RpfSetSink, RpfSetStream,
       RpfCreateTask, ReturnFailed, SetStream
  <2>3. pc'[Worker] \in {"work", "stamped"} => pc[Worker] = pc'[Worker]
    BY <1>7 DEF RaisePublishFailed, RpfCheckSink, RpfCheckState, RpfSetSink, RpfSetStream,
       RpfCreateTask, ReturnFailed, Spawn
  <2>. QED  BY <2>1, <2>2, <2>3
<1>8. ASSUME NEW t \in Threads, UseOfNullSink(t) PROVE Unpublishing'
  BY <1>8 DEF UseOfNullSink
<1>9. ASSUME NEW t \in StopTasks \cup FailTasks \cup {CloseTask},
             FailTaskRaises(t) \/ FailTaskCloses(t)
      PROVE  Unpublishing'
  BY <1>9 DEF FailTaskRaises, FailTaskCloses
<1>10. ASSUME NEW t \in StopTasks \cup FailTasks \cup {CloseTask}, StopPresentationClock(t)
       PROVE  Unpublishing'
  <2>0. pc'[Worker] = pc[Worker] /\ pc'[Clock] = pc[Clock] /\ streamState' = streamState
    BY <1>10 DEF StopPresentationClock, SpcLock, SpcCheckStreams, SpcUnpublish,
       SpcUnpublishFails, SpcDisconnect, SpcStopClock, AfterStop
  <2>1. CASE SpcCheckStreams(t)
    <3>1. pc[t] = "spcStreams" /\ messenger' = messenger
      BY <2>1 DEF SpcCheckStreams
    <3>2. t \in StopTasks /\ sinkMutex = t
      BY <3>1 DEF LabelsOK, TaskRest, CloseSteps, MutexHeld, MutexSteps, StopSteps
    <3>3. messenger # "unpublished" /\ \A u \in StopTasks : pc[u] # "spcUnpublish"
      BY <3>1, <3>2 DEF MutexHeld, MutexSteps, StopSteps
    <3>4. CASE AllAtEndOfSegment
      <4>1. \A s \in Streams : streamState[s] = "EOS"
        BY <3>4 DEF AllAtEndOfSegment
      <4>2. pc[Worker] \notin {"work", "stamped"}
        BY <3>1, <3>2, <4>1 DEF WorkProtected, LocksHeld
      <4>3. pc[Clock] \notin {"idle", "startVideo", "startAudio"}
        BY <3>1, <3>2 DEF MutexHeld, MutexSteps, ClockSteps, NothingBeforeStart
      <4>4. pc' = [pc EXCEPT ![t] = IF messenger = "none" THEN "spcClock" ELSE "spcUnpublish"]
        BY <2>1, <3>4 DEF SpcCheckStreams
      <4>. QED  BY <2>0, <3>1, <3>2, <3>3, <4>1, <4>2, <4>3, <4>4
    <3>5. CASE ~AllAtEndOfSegment
      <4>1. pc' = [pc EXCEPT ![t] = AfterStop(t)] /\ AfterStop(t) = "done"
        BY <2>1, <3>2, <3>5 DEF SpcCheckStreams, AfterStop
      <4>. QED  BY <2>0, <3>1, <3>3, <4>1
    <3>. QED  BY <3>4, <3>5
  <2>2. CASE SpcUnpublish(t)
    <3>1. t \in StopTasks /\ sinkMutex = t
      BY <2>2 DEF SpcUnpublish, LabelsOK, TaskRest, CloseSteps, MutexHeld, MutexSteps, StopSteps
    <3>2. \A u \in StopTasks : pc[u] = "spcUnpublish" => u = t
      BY <3>1 DEF MutexHeld, MutexSteps, StopSteps
    <3>. QED  BY <2>0, <2>2, <3>1, <3>2 DEF SpcUnpublish
  <2>3. CASE SpcDisconnect(t)
    <3>1. t \in StopTasks /\ sinkMutex = t /\ pc[t] = "spcReset"
      BY <2>3 DEF SpcDisconnect, LabelsOK, TaskRest, CloseSteps, MutexHeld, MutexSteps, StopSteps
    <3>2. \A u \in StopTasks : pc[u] # "spcUnpublish"
      BY <3>1 DEF MutexHeld, MutexSteps, StopSteps
    <3>3. messenger = "unpublished" /\ \A u \in StopTasks : pc[u] = "spcReset" => u = t
      BY <3>1 DEF MutexHeld, MutexSteps, StopSteps
    <3>. QED  BY <2>0, <2>3, <3>1, <3>2, <3>3 DEF SpcDisconnect
  <2>4. CASE SpcLock(t) \/ SpcUnpublishFails(t) \/ SpcStopClock(t)
    BY <2>0, <2>4 DEF SpcLock, SpcUnpublishFails, SpcStopClock, AfterStop
  <2>. QED  BY <1>10, <2>1, <2>2, <2>3, <2>4 DEF StopPresentationClock
<1>11. ASSUME NEW t \in StopTasks \cup FailTasks \cup {CloseTask}, Close(t)
       PROVE  Unpublishing'
  <2>1. messenger' = messenger /\ t \notin StopTasks /\ \A u \in Threads \ {t} : pc'[u] = pc[u]
    BY <1>11 DEF Close, CloseCheck, CloseReadTimestamps, RaiseSessionClosed,
       CloseCallsShutdown, Shutdown, ShutdownSetStream, ShutdownSetSink, CloseResetsSink,
       LabelsOK, TaskRest, StopSteps
  <2>2. \A s \in Streams : streamState'[s] \in {streamState[s], "SHUTDOWN"}
    BY <1>11 DEF Close, CloseCheck, CloseReadTimestamps, RaiseSessionClosed,
       CloseCallsShutdown, Shutdown, ShutdownSetStream, ShutdownSetSink, CloseResetsSink, SetStream
  <2>3. ASSUME NEW u \in StopTasks, pc[u] = "spcUnpublish" PROVE streamState' = streamState
    <3>1. sinkMutex = u
      BY <2>3 DEF MutexHeld, MutexSteps, StopSteps
    <3>2. pc[t] # "shutVideo"
      BY <2>1, <3>1 DEF MutexHeld, MutexSteps
    <3>. QED  BY <1>11, <3>1, <3>2 DEF Close, CloseCheck, CloseReadTimestamps, RaiseSessionClosed,
              CloseCallsShutdown, Shutdown, ShutdownSetStream, ShutdownSetSink, CloseResetsSink,
              Acquire
  <2>. QED  BY <2>1, <2>2, <2>3
<1>. HIDE DEF Unpublishing, Goto
<1>. QED  BY <1>1, <1>2, <1>3, <1>4, <1>5, <1>6, <1>7, <1>8, <1>9, <1>10, <1>11, Actions

----------------------------------------------------------------------------
(* The theorems.                                                                *)

LEMMA InitIInv == Init => IInv
<1>. SUFFICES ASSUME Init PROVE IInv
  OBVIOUS
<1>0. \A t \in Threads : pc[t] = IF t[1] \in {"feeder", "worker", "clock"} THEN "idle" ELSE "none"
  BY DEF Init
<1>1. /\ pc[Worker] = "idle" /\ pc[Clock] = "idle" /\ pc[CloseTask] = "none"
      /\ \A s \in Streams : pc[Feeder(s)] = "idle"
      /\ \A t \in StopTasks \cup FailTasks : pc[t] = "none"
      /\ \A t \in Threads : pc[t] \in {"idle", "none"}
  BY <1>0, ThreadKinds, ThreadFacts
<1>2. TypeOK
  BY InitType
<1>3. LabelsOK
  BY <1>1 DEF LabelsOK, WorkerSteps, ClockSteps, FeederSteps, FeederRest, TaskRest
<1>4. NothingBeforeStart /\ SinkLeftRunning /\ WorkProtected /\ EndedStreams
  BY <1>1, ThreadFacts DEF Init, NothingBeforeStart, SinkLeftRunning, WorkProtected, EndedStreams
<1>5. LocksHeld
  BY <1>1, ThreadFacts DEF Init, LocksHeld, FeederRest
<1>6. MutexHeld
  BY <1>1 DEF MutexHeld, MutexSteps, StopSteps, ClockSteps
<1>7. Unpublishing /\ ClosedSinkNotRunning
  BY <1>1 DEF Init, Unpublishing, ClosedSinkNotRunning
<1>. QED  BY <1>2, <1>3, <1>4, <1>5, <1>6, <1>7 DEF IInv

LEMMA StepIInv == IInv /\ [Next]_vars => IInv'
BY TypeStep, LabelsStep, BeforeStartStep, LocksStep, MutexStep, EndedStreamsStep,
   SinkLeftRunningStep, WorkProtectedStep, UnpublishingStep, ClosedStep DEF IInv

\* The invariant on which the safety of the shutdown rests.
THEOREM Invariance == SafeSpec => []IInv
BY InitIInv, StepIInv, PTL DEF SafeSpec

\* The work queue never writes through a messenger that StopPresentationClock closed,
\* though it does not take SinkMutex.
THEOREM MessengerSafe == SafeSpec => []MessengerOutlivesWork
<1>1. IInv => MessengerOutlivesWork
  BY DEF IInv, Unpublishing, MessengerOutlivesWork
<1>. QED  BY <1>1, Invariance, PTL

\* The sink is not RUNNING once SessionClosed has been raised.
THEOREM ClosedSafe == SafeSpec => []ClosedSinkNotRunning
<1>1. IInv => ClosedSinkNotRunning
  BY DEF IInv
<1>. QED  BY <1>1, Invariance, PTL

\* Only StopPresentationClock touches the messenger.
LEMMA MessengerFrame ==
  ASSUME [Next]_vars
  PROVE  \/ UNCHANGED messenger
         \/ \E t \in StopTasks \cup FailTasks \cup {CloseTask} : StopPresentationClock(t)
<1>1. CASE UNCHANGED vars \/ OnClockStart \/ ConnectionBreaks \/ PipelineStopsClock
  BY <1>1 DEF vars, OnClockStart, ConnectionBreaks, PipelineStopsClock
<1>2. ASSUME NEW s \in Streams, FeederDelivers(s) \/ MarkEndOfSegment(s) PROVE UNCHANGED messenger
  BY <1>2 DEF FeederDelivers, ProcessSample, DropSample, ProcessSampleFails, PlaceTick,
     PlaceMarkerFails, PlaceEndOfSegment, MarkEndOfSegment
<1>3. CASE WorkerStep
  BY <1>3 DEF WorkerStep, DropItem, BeginItem, PrepareTimestamps, QueueAudioVideoMessage,
     QueueAudioVideoMessageFails, QueueAudioVideoMessageCrashes
<1>4. CASE ClockStep
  BY <1>4 DEF ClockStep, StreamSinkClockStart, OnClockStop, ClockStopSetStream,
     ClockStopSetSink, StreamSinkClockStop, ClockStopCloses
<1>5. ASSUME NEW t, RaisePublishFailed(t) \/ UseOfNullSink(t) PROVE UNCHANGED messenger
  BY <1>5 DEF RaisePublishFailed, RpfCheckSink, RpfCheckState, RpfSetSink, RpfSetStream,
     RpfCreateTask, UseOfNullSink
<1>6. ASSUME NEW t, FailTaskRaises(t) \/ FailTaskCloses(t) \/ Close(t) PROVE UNCHANGED messenger
  BY <1>6 DEF FailTaskRaises, FailTaskCloses, Close, CloseCheck, CloseReadTimestamps,
     RaiseSessionClosed, CloseCallsShutdown, Shutdown, ShutdownSetStream, ShutdownSetSink,
     CloseResetsSink
<1>. QED  BY <1>1, <1>2, <1>3, <1>4, <1>5, <1>6, Actions

\* The stream is unpublished once, by a stop task that holds SinkMutex, when every
\* stream is at its end.
THEOREM UnpublishSafe == SafeSpec => UnpublishAtEnd
<1>. DEFINE Unpublish == messenger' = "unpublished" =>
       /\ messenger = "connected" /\ sinkMutex \in StopTasks
       /\ \A s \in Streams : streamState[s] = "EOS"
<1>1. IInv /\ [Next]_vars => [Unpublish]_messenger
  <2>. SUFFICES ASSUME IInv, [Next]_vars, messenger' # messenger, messenger' = "unpublished"
                PROVE  Unpublish
    OBVIOUS
  <2>1. PICK t \in StopTasks \cup FailTasks \cup {CloseTask} : SpcUnpublish(t)
    <3>1. CASE \E t \in StopTasks \cup FailTasks \cup {CloseTask} : StopPresentationClock(t)
      BY <3>1 DEF StopPresentationClock, SpcLock, SpcCheckStreams, SpcUnpublishFails,
         SpcDisconnect, SpcStopClock
    <3>2. UNCHANGED messenger \/ \E t \in StopTasks \cup FailTasks \cup {CloseTask} :
            StopPresentationClock(t)
      BY Actions, MessengerFrame
    <3>. QED  BY <3>1, <3>2
  <2>2. t \in StopTasks /\ sinkMutex = t
    BY <2>1, ThreadFacts DEF SpcUnpublish, IInv, LabelsOK, TaskRest, CloseSteps, MutexHeld,
       MutexSteps, StopSteps
  <2>. QED  BY <2>1, <2>2 DEF IInv, Unpublishing, SpcUnpublish
<1>. QED  BY <1>1, Invariance, PTL DEF SafeSpec, UnpublishAtEnd
----------------------------------------------------------------------------
(* The clock of a session that the pipeline stops by the ends of segment alone. *)

\* The presentation clock follows the clock thread, and stops when the messenger is gone.
LEMMA ClockLastStep ==
  ASSUME ForcedStop = FALSE, IInv, ClockLast, [Next]_vars PROVE ClockLast'
<1>0. pc \in [Threads -> Labels] /\ ~PipelineStopsClock
  BY DEF IInv, TypeOK, PipelineStopsClock
<1>. USE ThreadFacts, <1>0 DEF ClockLast, Goto
<1>1. CASE UNCHANGED vars \/ ConnectionBreaks
  BY <1>1 DEF vars, ConnectionBreaks
<1>2. CASE OnClockStart
  <2>1. pc[CloseTask] = "none" /\ messenger = "connected"
    BY <1>2 DEF OnClockStart, IInv, NothingBeforeStart
  <2>2. \A t \in StopTasks : pc[t] \in {"idle", "none"}
    BY <1>2 DEF OnClockStart, IInv, NothingBeforeStart
  <2>. QED  BY <1>2, <2>1, <2>2 DEF OnClockStart
<1>3. ASSUME NEW s \in Streams, FeederDelivers(s) \/ MarkEndOfSegment(s) PROVE ClockLast'
  BY <1>3 DEF FeederDelivers, ProcessSample, DropSample, ProcessSampleFails, PlaceTick,
     PlaceMarkerFails, PlaceEndOfSegment, MarkEndOfSegment, Spawn
<1>4. CASE WorkerStep
  BY <1>4 DEF WorkerStep, DropItem, BeginItem, PrepareTimestamps, QueueAudioVideoMessage,
     QueueAudioVideoMessageFails, QueueAudioVideoMessageCrashes
<1>5. CASE ClockStep
  BY <1>5 DEF ClockStep, StreamSinkClockStart, OnClockStop, ClockStopSetStream,
     ClockStopSetSink, StreamSinkClockStop, ClockStopCloses, Spawn
<1>6. ASSUME NEW t \in Raisers, RaisePublishFailed(t) PROVE ClockLast'
  BY <1>6 DEF RaisePublishFailed, RpfCheckSink, RpfCheckState, RpfSetSink, RpfSetStream,
     RpfCreateTask, ReturnFailed, Spawn
<1>7. ASSUME NEW t \in Threads, UseOfNullSink(t) PROVE ClockLast'
  BY <1>7 DEF UseOfNullSink
<1>8. ASSUME NEW t \in StopTasks \cup FailTasks \cup {CloseTask},
             FailTaskRaises(t) \/ FailTaskCloses(t)
      PROVE  ClockLast'
  BY <1>8 DEF FailTaskRaises, FailTaskCloses
<1>9. ASSUME NEW t \in StopTasks \cup FailTasks \cup {CloseTask}, StopPresentationClock(t)
      PROVE  ClockLast'
  <2>1. pc[t] \in StopSteps /\ t # CloseTask /\ AfterStop(t) \in {"done", "clCheck"}
    BY <1>9 DEF StopPresentationClock, SpcLock, SpcCheckStreams, SpcUnpublish,
       SpcUnpublishFails, SpcDisconnect, SpcStopClock, IInv, LabelsOK, TaskRest, CloseSteps,
       StopSteps, AfterStop
  <2>2. CASE SpcLock(t) \/ SpcCheckStreams(t) \/ SpcUnpublishFails(t)
    BY <2>1, <2>2 DEF SpcLock, SpcCheckStreams, SpcUnpublishFails
  <2>3. CASE SpcUnpublish(t)
    <3>1. t \in StopTasks
      BY <2>1, <2>3 DEF SpcUnpublish, IInv, LabelsOK, TaskRest, CloseSteps
    <3>2. messenger = "connected"
      BY <2>3, <3>1 DEF SpcUnpublish, IInv, Unpublishing
    <3>3. clock \notin {"stopping", "stopped"} /\ \A u \in StopTasks : pc[u] # "spcClock"
      BY <3>2
    <3>. QED  BY <2>1, <2>3, <3>2, <3>3 DEF SpcUnpublish
  <2>4. CASE SpcDisconnect(t)
    BY <2>1, <2>4 DEF SpcDisconnect
  <2>5. CASE SpcStopClock(t)
    <3>1. pc[t] = "spcClock" /\ t \in StopTasks
      BY <2>1, <2>5 DEF SpcStopClock, IInv, LabelsOK, TaskRest, CloseSteps
    <3>2. messenger = "none"
      BY <3>1
    <3>. QED  BY <2>1, <2>5, <3>2 DEF SpcStopClock
  <2>. QED  BY <1>9, <2>2, <2>3, <2>4, <2>5 DEF StopPresentationClock
<1>10. ASSUME NEW t \in StopTasks \cup FailTasks \cup {CloseTask}, Close(t) PROVE ClockLast'
  BY <1>10 DEF Close, CloseCheck, CloseReadTimestamps, RaiseSessionClosed, CloseCallsShutdown,
     Shutdown, ShutdownSetStream, ShutdownSetSink, CloseResetsSink
<1>. HIDE DEF ClockLast, Goto
<1>. QED  BY <1>0, <1>1, <1>2, <1>3, <1>4, <1>5, <1>6, <1>7, <1>8, <1>9, <1>10, Actions, ThreadFacts
=============================================================================
