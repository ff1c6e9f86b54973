--------------------- MODULE PublishSession_closing_proofs ---------------------
(***************************************************************************)
(* Proofs about how a PublishSession is closed.                            *)
(*                                                                         *)
(* Sessions in which nothing fails and the pipeline stops the clock by the  *)
(* ends of segment alone (Orderly): the process survives, SessionClosed     *)
(* reports the time stamps that were sent last, and no event is raised out  *)
(* of order.                                                               *)
(*                                                                         *)
(* Sessions of one stream in which samples, the connection and the process  *)
(* may fail at any point, and the pipeline stops the clock by the end of    *)
(* segment alone (OneStream): the application sees PublishFailed and then   *)
(* SessionClosed, each once, or SessionClosed alone.                        *)
(***************************************************************************)
EXTENDS PublishSession_proofs, SequenceTheorems

\* The forms of raised, before and after a step, as phases of the contract.
LEMMA PhaseFacts ==
  /\ raised = <<>> => Phase = "open"
  /\ raised = <<"PublishFailed">> => Phase = "failed"
  /\ raised \in {<<"SessionClosed">>, <<"PublishFailed", "SessionClosed">>} => Phase = "closed"
BY DEF Phase

LEMMA PhaseFactsNext ==
  /\ raised' = <<"PublishFailed">> => Phase' = "failed"
  /\ raised' \in {<<"SessionClosed">>, <<"PublishFailed", "SessionClosed">>} => Phase' = "closed"
BY DEF Phase

----------------------------------------------------------------------------
(* Nothing fails.                                                              *)

\* Every failure needs a cause that an orderly session does not have: what is left
\* of Next are the calls that succeed, the stop tasks and the close task.
LEMMA OrderlyActions ==
  ASSUME Orderly, IInv, OrderlyInv, [Next]_vars
  PROVE  \/ UNCHANGED vars
         \/ OnClockStart
         \/ \E s \in Streams : \/ ProcessSample(s) \/ DropSample(s) \/ PlaceTick(s)
                               \/ PlaceEndOfSegment(s) \/ MarkEndOfSegment(s)
         \/ DropItem \/ BeginItem
         \/ \E s \in Streams : PrepareTimestamps(s) \/ QueueAudioVideoMessage(s)
         \/ ClockStep
         \/ \E t \in StopTasks : \/ SpcLock(t) \/ SpcCheckStreams(t) \/ SpcUnpublish(t)
                                 \/ SpcDisconnect(t) \/ SpcStopClock(t)
         \/ Close(CloseTask)
<1>1. ~ConnectionBreaks /\ ~PipelineStopsClock
  BY DEF Orderly, ConnectionBreaks, PipelineStopsClock
<1>2. ASSUME NEW s \in Streams, pc[Feeder(s)] = "idle", Started(s) PROVE ~Refused(s)
  <2>1. pc[Feeder(s)] # "ended" /\ pc[Clock] # "idle"
    BY <1>2 DEF Started
  <2>. QED  BY <2>1 DEF OrderlyInv, EndsInOrder, Refused
<1>3. ASSUME NEW s \in Streams, FeederDelivers(s)
      PROVE  ProcessSample(s) \/ DropSample(s) \/ PlaceTick(s) \/ PlaceEndOfSegment(s)
  <2>1. ~ProcessSampleFails(s)
    BY <1>2 DEF ProcessSampleFails, SampleArrives, Orderly
  <2>2. ~PlaceMarkerFails(s)
    BY <1>2 DEF PlaceMarkerFails
  <2>. QED  BY <1>3, <2>1, <2>2 DEF FeederDelivers
<1>4. CASE WorkerStep
  <2>1. \A s \in Streams : ~QueueAudioVideoMessageFails(s)
    BY DEF QueueAudioVideoMessageFails, OrderlyInv, NothingFailed
  <2>2. \A s \in Streams : ~QueueAudioVideoMessageCrashes(s)
    BY DEF QueueAudioVideoMessageCrashes, IInv, Unpublishing
  <2>. QED  BY <1>4, <2>1, <2>2 DEF WorkerStep
<1>5. ASSUME NEW t \in Raisers PROVE ~RaisePublishFailed(t)
  <2>1. pc[t] \notin RaiseSteps
    BY DEF OrderlyInv, NothingFailed
  <2>. QED  BY <2>1 DEF RaiseSteps, RaisePublishFailed, RpfCheckSink, RpfCheckState, RpfSetStream,
            RpfSetSink, RpfCreateTask
<1>6. ASSUME NEW t \in Threads PROVE ~UseOfNullSink(t)
  <2>. SUFFICES ASSUME UseOfNullSink(t) PROVE FALSE
    OBVIOUS
  <2>1. pc[CloseTask] = "done" /\ pc[t] \in {"rpfState", "ftClose", "clStamps", "clShutdown"}
    BY DEF UseOfNullSink, OrderlyInv, ClosedByTask
  <2>2. t # Clock /\ t \notin StopTasks
    BY <2>1 DEF IInv, LabelsOK, ClockSteps, TaskRest, StopSteps
  <2>3. CASE t \in Raisers
    <3>1. pc[t] \in FeederSteps \cup WorkerSteps /\ pc[t] \notin RaiseSteps
      BY <2>3, ThreadFacts DEF IInv, LabelsOK, OrderlyInv, NothingFailed
    <3>. QED  BY <2>1, <3>1 DEF FeederSteps, FeederRest, WorkerSteps
  <2>4. t \notin FailTasks
    BY <2>1 DEF OrderlyInv, NothingFailed
  <2>. QED  BY <2>1, <2>2, <2>3, <2>4 DEF Threads
<1>7. ASSUME NEW t \in StopTasks \cup FailTasks \cup {CloseTask},
             FailTaskRaises(t) \/ FailTaskCloses(t) \/ StopPresentationClock(t) \/ Close(t)
      PROVE  \/ Close(CloseTask)
             \/ \E u \in StopTasks : \/ SpcLock(u) \/ SpcCheckStreams(u) \/ SpcUnpublish(u)
                                     \/ SpcDisconnect(u) \/ SpcStopClock(u)
  <2>1. ~SpcUnpublishFails(t)
    BY DEF SpcUnpublishFails, OrderlyInv, NothingFailed
  <2>2. CASE t \in StopTasks
    <3>1. pc[t] \in TaskRest \cup StopSteps
      BY <2>2 DEF IInv, LabelsOK
    <3>2. ~FailTaskRaises(t) /\ ~FailTaskCloses(t) /\ ~Close(t)
      BY <3>1 DEF TaskRest, StopSteps, FailTaskRaises, FailTaskCloses, Close, CloseCheck,
         CloseReadTimestamps, RaiseSessionClosed, CloseCallsShutdown, Shutdown,
         ShutdownSetStream, ShutdownSetSink, CloseResetsSink
    <3>. QED  BY <1>7, <2>1, <2>2, <3>2 DEF StopPresentationClock
  <2>3. CASE t \in FailTasks
    <3>1. pc[t] = "none"
      BY <2>3 DEF OrderlyInv, NothingFailed
    <3>. QED  BY <1>7, <3>1 DEF FailTaskRaises, FailTaskCloses, Close, CloseCheck,
             CloseReadTimestamps, RaiseSessionClosed, CloseCallsShutdown, Shutdown,
             ShutdownSetStream, ShutdownSetSink, CloseResetsSink, StopPresentationClock,
             SpcLock, SpcCheckStreams, SpcUnpublish, SpcUnpublishFails, SpcDisconnect, SpcStopClock
  <2>4. CASE t = CloseTask
    <3>1. pc[CloseTask] \in TaskRest \cup CloseSteps
      BY DEF IInv, LabelsOK
    <3>2. ~FailTaskRaises(t) /\ ~FailTaskCloses(t) /\ ~StopPresentationClock(t)
      BY <2>4, <3>1 DEF TaskRest, CloseSteps, FailTaskRaises, FailTaskCloses,
         StopPresentationClock, SpcLock, SpcCheckStreams, SpcUnpublish, SpcUnpublishFails,
         SpcDisconnect, SpcStopClock
    <3>. QED  BY <1>7, <2>4, <3>2
  <2>. QED  BY <2>2, <2>3, <2>4
<1>. QED  BY <1>1, <1>3, <1>4, <1>5, <1>6, <1>7, Actions, ThreadFacts

\* None of these steps puts a thread on the way to a failure.
LEMMA NothingFailedStep ==
  ASSUME Orderly, IInv, OrderlyInv, [Next]_vars PROVE NothingFailed'
<1>0. pc \in [Threads -> Labels] /\ NothingFailed
  BY DEF IInv, TypeOK, OrderlyInv
<1>. USE ThreadFacts, <1>0 DEF NothingFailed, RaiseSteps, Goto
<1>1. CASE UNCHANGED vars
  BY <1>1 DEF vars
<1>2. CASE OnClockStart
  BY <1>2 DEF OnClockStart
<1>3. ASSUME NEW s \in Streams,
             \/ ProcessSample(s) \/ DropSample(s) \/ PlaceTick(s)
             \/ PlaceEndOfSegment(s) \/ MarkEndOfSegment(s)
      PROVE  NothingFailed'
  BY <1>3 DEF ProcessSample, DropSample, PlaceTick, PlaceEndOfSegment, MarkEndOfSegment, Spawn
<1>4. CASE DropItem \/ BeginItem
  BY <1>4 DEF DropItem, BeginItem
<1>5. ASSUME NEW s \in Streams, PrepareTimestamps(s) \/ QueueAudioVideoMessage(s)
      PROVE  NothingFailed'
  BY <1>5 DEF PrepareTimestamps, QueueAudioVideoMessage
<1>6. CASE ClockStep
  BY <1>6 DEF ClockStep, StreamSinkClockStart, OnClockStop, ClockStopSetStream,
     ClockStopSetSink, StreamSinkClockStop, ClockStopCloses, Spawn
<1>7. ASSUME NEW t \in StopTasks,
             \/ SpcLock(t) \/ SpcCheckStreams(t) \/ SpcUnpublish(t)
             \/ SpcDisconnect(t) \/ SpcStopClock(t)
      PROVE  NothingFailed'
  BY <1>7 DEF SpcLock, SpcCheckStreams, SpcUnpublish, SpcDisconnect, SpcStopClock
<1>8. CASE Close(CloseTask)
  BY <1>8 DEF Close, CloseCheck, CloseReadTimestamps, RaiseSessionClosed, CloseCallsShutdown,
     Shutdown, ShutdownSetStream, ShutdownSetSink, CloseResetsSink
<1>. HIDE DEF NothingFailed, Goto
<1>. QED  BY <1>1, <1>2, <1>3, <1>4, <1>5, <1>6, <1>7, <1>8, OrderlyActions

\* A stop that has begun stays begun.
LEMMA StopBegunStep ==
  ASSUME Orderly, IInv, OrderlyInv, [Next]_vars, StopBegun PROVE StopBegun'
<1>0. pc \in [Threads -> Labels] /\ pc[Clock] # "idle" /\ clock # "invalid"
  <2>1. pc[Clock] # "idle"
    <3>1. ASSUME NEW t \in StopTasks, pc[t] \in {"spcUnpublish", "spcReset", "spcClock"},
                 pc[Clock] = "idle"
          PROVE  FALSE
      BY <3>1, ThreadFacts DEF IInv, NothingBeforeStart
    <3>. QED  BY <3>1 DEF StopBegun, OrderlyInv, ClockLast
  <2>. QED  BY <2>1 DEF IInv, TypeOK, OrderlyInv, ClockLast
<1>. USE ThreadFacts, <1>0 DEF StopBegun, Goto
<1>1. CASE UNCHANGED vars
  BY <1>1 DEF vars
<1>2. CASE OnClockStart
  BY <1>2 DEF OnClockStart
<1>3. ASSUME NEW s \in Streams,
             \/ ProcessSample(s) \/ DropSample(s) \/ PlaceTick(s) \/ PlaceEndOfSegment(s)
      PROVE  StopBegun'
  BY <1>3 DEF ProcessSample, DropSample, PlaceTick, PlaceEndOfSegment
<1>4. ASSUME NEW s \in Streams, MarkEndOfSegment(s) PROVE StopBegun'
  <2>1. pc[Feeder(s)] = "mark" /\ pc[StopTask(s)] = "none"
    BY <1>4 DEF MarkEndOfSegment, IInv, EndedStreams
  <2>. QED  BY <1>4, <2>1 DEF MarkEndOfSegment, Spawn
<1>5. CASE DropItem \/ BeginItem
  BY <1>5 DEF DropItem, BeginItem
<1>6. ASSUME NEW s \in Streams, PrepareTimestamps(s) \/ QueueAudioVideoMessage(s)
      PROVE  StopBegun'
  BY <1>6 DEF PrepareTimestamps, QueueAudioVideoMessage
<1>7. CASE ClockStep
  BY <1>7 DEF ClockStep, StreamSinkClockStart, OnClockStop, ClockStopSetStream,
     ClockStopSetSink, StreamSinkClockStop, ClockStopCloses, Spawn
<1>8. ASSUME NEW t \in StopTasks,
             SpcLock(t) \/ SpcCheckStreams(t) \/ SpcUnpublish(t) \/ SpcDisconnect(t)
      PROVE  StopBegun'
  BY <1>8 DEF SpcLock, SpcCheckStreams, SpcUnpublish, SpcDisconnect
<1>9. ASSUME NEW t \in StopTasks, SpcStopClock(t) PROVE StopBegun'
  <2>1. clock \in {"running", "stopping", "stopped"}
    BY DEF IInv, TypeOK
  <2>. QED  BY <1>9, <2>1 DEF SpcStopClock
<1>10. CASE Close(CloseTask)
  BY <1>10 DEF Close, CloseCheck, CloseReadTimestamps, RaiseSessionClosed, CloseCallsShutdown,
     Shutdown, ShutdownSetStream, ShutdownSetSink, CloseResetsSink
<1>. HIDE DEF StopBegun, Goto
<1>. QED  BY <1>1, <1>2, <1>3, <1>4, <1>5, <1>6, <1>7, <1>8, <1>9, <1>10, OrderlyActions

\* The stop begins when every stream is at its end.
LEMMA StopBegins ==
  ASSUME Orderly, IInv, OrderlyInv, [Next]_vars, StopBegun'
  PROVE  StopBegun \/ \A s \in Streams : streamState[s] = "EOS"
<1>0. pc \in [Threads -> Labels]
  BY DEF IInv, TypeOK
<1>. USE ThreadFacts, <1>0 DEF StopBegun, Goto
<1>1. CASE UNCHANGED vars
  BY <1>1 DEF vars
<1>2. CASE OnClockStart
  BY <1>2 DEF OnClockStart
<1>3. ASSUME NEW s \in Streams,
             \/ ProcessSample(s) \/ DropSample(s) \/ PlaceTick(s)
             \/ PlaceEndOfSegment(s) \/ MarkEndOfSegment(s)
      PROVE  StopBegun
  BY <1>3 DEF ProcessSample, DropSample, PlaceTick, PlaceEndOfSegment, MarkEndOfSegment, Spawn
<1>4. CASE DropItem \/ BeginItem
  BY <1>4 DEF DropItem, BeginItem
<1>5. ASSUME NEW s \in Streams, PrepareTimestamps(s) \/ QueueAudioVideoMessage(s)
      PROVE  StopBegun
  BY <1>5 DEF PrepareTimestamps, QueueAudioVideoMessage
<1>6. CASE ClockStep
  <2>1. pc[Clock] \in {"stopVideo", "stopOwn", "stopAgain", "stopClose"} => clock = "stopping"
    BY DEF OrderlyInv, ClockLast
  <2>. QED  BY <1>6, <2>1 DEF ClockStep, StreamSinkClockStart, OnClockStop, ClockStopSetStream,
            ClockStopSetSink, StreamSinkClockStop, ClockStopCloses, Spawn
<1>7. ASSUME NEW t \in StopTasks,
             \/ SpcLock(t) \/ SpcCheckStreams(t) \/ SpcUnpublish(t)
             \/ SpcDisconnect(t) \/ SpcStopClock(t)
      PROVE  StopBegun \/ AllAtEndOfSegment
  BY <1>7 DEF SpcLock, SpcCheckStreams, SpcUnpublish, SpcDisconnect, SpcStopClock, AfterStop
<1>8. CASE Close(CloseTask)
  BY <1>8 DEF Close, CloseCheck, CloseReadTimestamps, RaiseSessionClosed, CloseCallsShutdown,
     Shutdown, ShutdownSetStream, ShutdownSetSink, CloseResetsSink
<1>. HIDE DEF StopBegun, Goto
<1>. QED  BY <1>1, <1>2, <1>3, <1>4, <1>5, <1>6, <1>7, <1>8, OrderlyActions DEF AllAtEndOfSegment

\* What a step does to the state of a stream, to its feeder and to the clock.
LEMMA StreamStep ==
  ASSUME Orderly, IInv, OrderlyInv, [Next]_vars, NEW s \in Streams
  PROVE  /\ pc[Feeder(s)] = "ended" => pc'[Feeder(s)] = "ended"
         /\ \/ streamState'[s] = streamState[s]
               /\ (pc[Clock] = "idle" => pc'[Clock] = "idle")
            \/ streamState'[s] = "RUNNING"
            \/ streamState'[s] = "EOS" /\ pc'[Feeder(s)] = "ended"
            \/ streamState'[s] \in {"STOPPED", "SHUTDOWN"} /\ StopBegun
<1>0. pc \in [Threads -> Labels] /\ streamState \in [Streams -> SinkStates]
  BY DEF IInv, TypeOK
<1>. DEFINE Kept == /\ pc[Feeder(s)] = "ended" => pc'[Feeder(s)] = "ended"
                    /\ streamState'[s] = streamState[s]
                    /\ pc[Clock] = "idle" => pc'[Clock] = "idle"
            Goal == /\ pc[Feeder(s)] = "ended" => pc'[Feeder(s)] = "ended"
                    /\ \/ streamState'[s] = streamState[s]
                          /\ (pc[Clock] = "idle" => pc'[Clock] = "idle")
                       \/ streamState'[s] = "RUNNING"
                       \/ streamState'[s] = "EOS" /\ pc'[Feeder(s)] = "ended"
                       \/ streamState'[s] \in {"STOPPED", "SHUTDOWN"} /\ StopBegun
<1>. USE ThreadFacts, <1>0 DEF Goto
<1>1. CASE UNCHANGED vars
  BY <1>1 DEF vars
<1>2. CASE OnClockStart
  BY <1>2 DEF OnClockStart
<1>3. ASSUME NEW r \in Streams,
             \/ ProcessSample(r) \/ DropSample(r) \/ PlaceTick(r) \/ PlaceEndOfSegment(r)
      PROVE  Kept
  BY <1>3 DEF ProcessSample, DropSample, PlaceTick, PlaceEndOfSegment
<1>4. ASSUME NEW r \in Streams, MarkEndOfSegment(r) PROVE Goal
  <2>1. /\ pc'[Feeder(r)] = "ended" /\ pc'[Clock] = pc[Clock]
        /\ \A u \in Streams \ {r} : pc'[Feeder(u)] = pc[Feeder(u)]
    BY <1>4 DEF MarkEndOfSegment, Spawn
  <2>2. streamState' = [streamState EXCEPT ![r] = "EOS"]
    BY <1>4 DEF MarkEndOfSegment, SetStream
  <2>3. CASE r = s
    BY <2>1, <2>2, <2>3
  <2>4. CASE r # s
    BY <2>1, <2>2, <2>4
  <2>. QED  BY <2>3, <2>4
<1>5. CASE DropItem \/ BeginItem
  BY <1>5 DEF DropItem, BeginItem
<1>6. ASSUME NEW r \in Streams, PrepareTimestamps(r) \/ QueueAudioVideoMessage(r)
      PROVE  Kept
  BY <1>6 DEF PrepareTimestamps, QueueAudioVideoMessage
<1>7. CASE ClockStep
  <2>1. pc'[Feeder(s)] = pc[Feeder(s)] /\ pc[Clock] # "idle"
    BY <1>7 DEF ClockStep, StreamSinkClockStart, OnClockStop, ClockStopSetStream,
       ClockStopSetSink, StreamSinkClockStop, ClockStopCloses, Spawn
  <2>2. pc[Clock] \in {"stopVideo", "stopOwn", "stopAgain", "stopClose"} => StopBegun
    BY DEF OrderlyInv, ClockLast, StopBegun
  <2>3. \/ streamState'[s] = streamState[s] \/ streamState'[s] = "RUNNING"
        \/ streamState'[s] = "STOPPED" /\ StopBegun
    <3>1. CASE OnClockStop
      BY <2>2, <3>1 DEF OnClockStop, ClockStopSetStream, ClockStopSetSink,
         StreamSinkClockStop, ClockStopCloses, SetStream, StopBegun
    <3>2. CASE ~OnClockStop
      BY <1>7, <3>2 DEF ClockStep, StreamSinkClockStart, SetStream
    <3>. QED  BY <3>1, <3>2
  <2>. QED  BY <2>1, <2>3
<1>8. ASSUME NEW t \in StopTasks,
             \/ SpcLock(t) \/ SpcCheckStreams(t) \/ SpcUnpublish(t)
             \/ SpcDisconnect(t) \/ SpcStopClock(t)
      PROVE  Kept
  BY <1>8 DEF SpcLock, SpcCheckStreams, SpcUnpublish, SpcDisconnect, SpcStopClock
<1>9. CASE Close(CloseTask)
  <2>1. pc'[Feeder(s)] = pc[Feeder(s)] /\ pc'[Clock] = pc[Clock] /\ pc[CloseTask] # "none"
    BY <1>9 DEF Close, CloseCheck, CloseReadTimestamps, RaiseSessionClosed, CloseCallsShutdown,
       Shutdown, ShutdownSetStream, ShutdownSetSink, CloseResetsSink
  <2>2. StopBegun
    BY <2>1 DEF OrderlyInv, ClockLast, StopBegun
  <2>3. streamState'[s] \in {streamState[s], "SHUTDOWN"}
    BY <1>9 DEF Close, CloseCheck, CloseReadTimestamps, RaiseSessionClosed, CloseCallsShutdown,
       Shutdown, ShutdownSetStream, ShutdownSetSink, CloseResetsSink, SetStream
  <2>. QED  BY <2>1, <2>2, <2>3
<1>. HIDE DEF Goto
<1>10. Kept => Goal
  OBVIOUS
<1>11. Goal
  <2>. HIDE DEF Kept, Goal
  <2>1. CASE UNCHANGED vars \/ OnClockStart \/ DropItem \/ BeginItem \/ ClockStep \/ Close(CloseTask)
    BY <2>1, <1>1, <1>2, <1>5, <1>7, <1>9 DEF Goal
  <2>. QED  BY <2>1, <1>3, <1>4, <1>6, <1>8, <1>10, OrderlyActions
<1>. QED  BY <1>11

LEMMA EndsInOrderStep ==
  ASSUME Orderly, IInv, OrderlyInv, [Next]_vars PROVE EndsInOrder'
<1>0. EndsInOrder
  BY DEF OrderlyInv
<1>1. ASSUME NEW s \in Streams
      PROVE  /\ streamState'[s] = "EOS" => pc'[Feeder(s)] = "ended"
             /\ streamState'[s] = "UNINITIALIZED" => pc'[Clock] = "idle"
             /\ streamState'[s] \in {"STOPPED", "SHUTDOWN"} => StopBegun'
  BY <1>0, StreamStep, StopBegunStep DEF EndsInOrder
<1>2. ASSUME StopBegun', NEW s \in Streams PROVE pc'[Feeder(s)] = "ended"
  <2>1. pc[Feeder(s)] = "ended"
    BY <1>0, <1>2, StopBegins DEF EndsInOrder
  <2>. QED  BY <2>1, StreamStep
<1>. QED  BY <1>1, <1>2 DEF EndsInOrder

\* Once the close task runs, the messenger is gone and no item is at work.
LEMMA ClosingIsQuiet ==
  ASSUME IInv, OrderlyInv, pc[CloseTask] # "none"
  PROVE  pc[Worker] \notin {"work", "stamped"}
<1>1. messenger = "none"
  BY DEF OrderlyInv, ClockLast
<1>. QED  BY <1>1 DEF IInv, Unpublishing

\* A time stamp is sent, with its stream's lock held, before another one is given.
LEMMA LastSentStep ==
  ASSUME Orderly, IInv, OrderlyInv, [Next]_vars PROVE LastSent'
<1>0. /\ pc \in [Threads -> Labels] /\ LastSent
      /\ lastTS \in [Streams -> Nat] /\ sentTS \in [Streams -> Nat]
      /\ lockSink \in [Streams -> Raisers \cup {NoThread}]
  BY DEF IInv, TypeOK, OrderlyInv
<1>. USE ThreadFacts, <1>0 DEF LastSent, BeforeStamps, Goto
<1>1. CASE UNCHANGED vars
  BY <1>1 DEF vars
<1>2. CASE OnClockStart
  BY <1>2 DEF OnClockStart
<1>3. ASSUME NEW s \in Streams,
             \/ ProcessSample(s) \/ DropSample(s) \/ PlaceTick(s) \/ PlaceEndOfSegment(s)
      PROVE  LastSent'
  BY <1>3 DEF ProcessSample, DropSample, PlaceTick, PlaceEndOfSegment
<1>4. ASSUME NEW s \in Streams, MarkEndOfSegment(s) PROVE LastSent'
  <2>1. lockSink[s] = Feeder(s)
    BY <1>4 DEF MarkEndOfSegment, IInv, LocksHeld, FeederRest
  <2>. QED  BY <1>4, <2>1 DEF MarkEndOfSegment, Spawn
<1>5. CASE DropItem \/ BeginItem
  BY <1>5 DEF DropItem, BeginItem
<1>6. ASSUME NEW s \in Streams, PrepareTimestamps(s) PROVE LastSent'
  <2>1. pc[CloseTask] = "none"
    BY <1>6, ClosingIsQuiet DEF PrepareTimestamps
  <2>2. \A r \in Streams \ {s} : lastTS'[r] = lastTS[r] /\ lastTS[r] = sentTS[r]
    BY <1>6 DEF PrepareTimestamps
  <2>. QED  BY <1>6, <2>1, <2>2 DEF PrepareTimestamps
<1>7. ASSUME NEW s \in Streams, QueueAudioVideoMessage(s) PROVE LastSent'
  <2>1. \A r \in Streams : lockSink[r] = Worker => r = s
    BY <1>7 DEF QueueAudioVideoMessage, IInv, LocksHeld
  <2>2. \A r \in Streams : lastTS'[r] = sentTS'[r]
    BY <1>7, <2>1 DEF QueueAudioVideoMessage
  <2>. QED  BY <1>7, <2>2 DEF QueueAudioVideoMessage
<1>8. CASE ClockStep
  BY <1>8 DEF ClockStep, StreamSinkClockStart, OnClockStop, ClockStopSetStream,
     ClockStopSetSink, StreamSinkClockStop, ClockStopCloses, Spawn
<1>9. ASSUME NEW t \in StopTasks,
             \/ SpcLock(t) \/ SpcCheckStreams(t) \/ SpcUnpublish(t)
             \/ SpcDisconnect(t) \/ SpcStopClock(t)
      PROVE  LastSent'
  BY <1>9 DEF SpcLock, SpcCheckStreams, SpcUnpublish, SpcDisconnect, SpcStopClock
<1>10. CASE Close(CloseTask)
  <2>1. ~hasSink => pc[CloseTask] = "done"
    BY DEF OrderlyInv, ClosedByTask
  <2>. QED  BY <1>10, <2>1 DEF Close, CloseCheck, CloseReadTimestamps, RaiseSessionClosed,
            CloseCallsShutdown, Shutdown, ShutdownSetStream, ShutdownSetSink, CloseResetsSink
<1>. HIDE DEF LastSent, Goto
<1>. QED  BY <1>1, <1>2, <1>3, <1>4, <1>5, <1>6, <1>7, <1>8, <1>9, <1>10, OrderlyActions

\* Only the close task raises an event and releases the sink, each of them once.
LEMMA ClosedByTaskStep ==
  ASSUME Orderly, IInv, OrderlyInv, [Next]_vars PROVE ClosedByTask'
<1>0. pc \in [Threads -> Labels] /\ ClosedByTask
  BY DEF IInv, TypeOK, OrderlyInv
<1>. USE ThreadFacts, <1>0 DEF ClosedByTask, BeforeStamps, Goto
<1>1. CASE UNCHANGED vars
  BY <1>1 DEF vars
<1>2. CASE OnClockStart
  BY <1>2 DEF OnClockStart
<1>3. ASSUME NEW s \in Streams,
             \/ ProcessSample(s) \/ DropSample(s) \/ PlaceTick(s)
             \/ PlaceEndOfSegment(s) \/ MarkEndOfSegment(s)
      PROVE  ClosedByTask'
  BY <1>3 DEF ProcessSample, DropSample, PlaceTick, PlaceEndOfSegment, MarkEndOfSegment, Spawn
<1>4. CASE DropItem \/ BeginItem
  BY <1>4 DEF DropItem, BeginItem
<1>5. ASSUME NEW s \in Streams, PrepareTimestamps(s) \/ QueueAudioVideoMessage(s)
      PROVE  ClosedByTask'
  BY <1>5 DEF PrepareTimestamps, QueueAudioVideoMessage
<1>6. CASE ClockStep
  <2>1. pc[Clock] = "stopClose" => pc[CloseTask] = "none"
    BY DEF OrderlyInv, ClockLast
  <2>. QED  BY <1>6, <2>1 DEF ClockStep, StreamSinkClockStart, OnClockStop, ClockStopSetStream,
            ClockStopSetSink, StreamSinkClockStop, ClockStopCloses, Spawn
<1>7. ASSUME NEW t \in StopTasks,
             \/ SpcLock(t) \/ SpcCheckStreams(t) \/ SpcUnpublish(t)
             \/ SpcDisconnect(t) \/ SpcStopClock(t)
      PROVE  ClosedByTask'
  BY <1>7 DEF SpcLock, SpcCheckStreams, SpcUnpublish, SpcDisconnect, SpcStopClock
<1>8. CASE RaiseSessionClosed(CloseTask)
  BY <1>8 DEF RaiseSessionClosed
<1>9. CASE Close(CloseTask) /\ ~RaiseSessionClosed(CloseTask)
  BY <1>9 DEF Close, CloseCheck, CloseReadTimestamps, CloseCallsShutdown,
     Shutdown, ShutdownSetStream, ShutdownSetSink, CloseResetsSink
<1>. HIDE DEF ClosedByTask, Goto
<1>. QED  BY <1>1, <1>2, <1>3, <1>4, <1>5, <1>6, <1>7, <1>8, <1>9, OrderlyActions
----------------------------------------------------------------------------
(* The theorems.                                                                *)

LEMMA InitOrderly == Orderly /\ Init => OrderlyInv
<1>. SUFFICES ASSUME Orderly, Init PROVE OrderlyInv
  OBVIOUS
<1>1. \A t \in Threads : pc[t] = IF t[1] \in {"feeder", "worker", "clock"} THEN "idle" ELSE "none"
  BY DEF Init
<1>2. /\ pc[Worker] = "idle" /\ pc[Clock] = "idle" /\ pc[CloseTask] = "none"
      /\ \A s \in Streams : pc[Feeder(s)] = "idle"
      /\ \A t \in StopTasks \cup FailTasks : pc[t] = "none"
      /\ \A t \in Raisers : pc[t] = "idle"
  BY <1>1, ThreadKinds, ThreadFacts
<1>3. NothingFailed /\ LastSent /\ ClosedByTask
  BY <1>2 DEF Init, NothingFailed, RaiseSteps, LastSent, ClosedByTask, BeforeStamps
<1>4. EndsInOrder /\ ClockLast
  BY <1>2 DEF Init, EndsInOrder, StopBegun, ClockLast
<1>. QED  BY <1>3, <1>4 DEF OrderlyInv

LEMMA StepOrderly == Orderly /\ IInv /\ OrderlyInv /\ [Next]_vars => OrderlyInv'
BY NothingFailedStep, EndsInOrderStep, ClockLastStep, LastSentStep, ClosedByTaskStep
   DEF Orderly, OrderlyInv

\* The invariant of a session that nothing disturbs, on top of the invariant of all.
THEOREM OrderlyInvariance == ASSUME Orderly PROVE SafeSpec => []OrderlyInv
<1>1. Init => IInv /\ OrderlyInv
  BY Orderly, InitIInv, InitOrderly
<1>2. (IInv /\ OrderlyInv) /\ [Next]_vars => (IInv /\ OrderlyInv)'
  BY Orderly, StepIInv, StepOrderly
<1>. QED  BY <1>1, <1>2, PTL DEF SafeSpec

\* The process survives an orderly session: no null sink, no null messenger and no
\* unobserved exception is met, in whatever order the threads run.
THEOREM OrderlyNoCrash == ASSUME Orderly PROVE SafeSpec => []NoCrash
<1>1. OrderlyInv => NoCrash
  BY DEF OrderlyInv, NothingFailed, NoCrash
<1>. QED  BY <1>1, Orderly, OrderlyInvariance, PTL

\* Once SessionClosed was raised, the time stamps it carries are those of the last
\* samples written, and stay so: the queue is not at work any more.
THEOREM OrderlyReport == ASSUME Orderly PROVE SafeSpec => []ReportedIsLastSent
<1>1. IInv /\ OrderlyInv => ReportedIsLastSent
  <2>. SUFFICES ASSUME IInv, OrderlyInv, NEW i \in DOMAIN raised, raised[i] = "SessionClosed"
                PROVE  reported = sentTS
    BY DEF ReportedIsLastSent
  <2>1. pc[CloseTask] \notin BeforeStamps
    BY DEF OrderlyInv, ClosedByTask
  <2>2. pc[Worker] # "stamped"
    BY <2>1, ClosingIsQuiet DEF BeforeStamps
  <2>3. reported = lastTS /\ \A s \in Streams : lastTS[s] = sentTS[s]
    BY <2>1, <2>2 DEF OrderlyInv, LastSent
  <2>. QED  BY <2>3 DEF IInv, TypeOK
<1>. QED  BY <1>1, Orderly, Invariance, OrderlyInvariance, PTL

\* Only the close task raises an event.
LEMMA RaisedFrame ==
  ASSUME Orderly, IInv, OrderlyInv, [Next]_vars
  PROVE  UNCHANGED raised \/ RaiseSessionClosed(CloseTask)
<1>1. CASE UNCHANGED vars \/ OnClockStart \/ DropItem \/ BeginItem
  BY <1>1 DEF vars, OnClockStart, DropItem, BeginItem
<1>2. ASSUME NEW s \in Streams,
             \/ ProcessSample(s) \/ DropSample(s) \/ PlaceTick(s) \/ PlaceEndOfSegment(s)
             \/ MarkEndOfSegment(s) \/ PrepareTimestamps(s) \/ QueueAudioVideoMessage(s)
      PROVE  UNCHANGED raised
  BY <1>2 DEF ProcessSample, DropSample, PlaceTick, PlaceEndOfSegment, MarkEndOfSegment,
     PrepareTimestamps, QueueAudioVideoMessage
<1>3. CASE ClockStep
  BY <1>3 DEF ClockStep, StreamSinkClockStart, OnClockStop, ClockStopSetStream,
     ClockStopSetSink, StreamSinkClockStop, ClockStopCloses
<1>4. ASSUME NEW t \in StopTasks,
             \/ SpcLock(t) \/ SpcCheckStreams(t) \/ SpcUnpublish(t)
             \/ SpcDisconnect(t) \/ SpcStopClock(t)
      PROVE  UNCHANGED raised
  BY <1>4 DEF SpcLock, SpcCheckStreams, SpcUnpublish, SpcDisconnect, SpcStopClock
<1>5. CASE Close(CloseTask)
  BY <1>5 DEF Close, CloseCheck, CloseReadTimestamps, CloseCallsShutdown,
     Shutdown, ShutdownSetStream, ShutdownSetSink, CloseResetsSink
<1>. QED  BY <1>1, <1>2, <1>3, <1>4, <1>5, OrderlyActions

\* The session is seen by the application as one that is closed once and for all: the
\* safety half of the refinement of SessionContract.
THEOREM OrderlyContract ==
  ASSUME Orderly PROVE SafeSpec => Contract!Init /\ [][Contract!Next]_Phase
<1>1. Init => Contract!Init
  BY PhaseFacts DEF Init, Contract!Init
<1>2. IInv /\ OrderlyInv /\ [Next]_vars => [Contract!Next]_Phase
  <2>. SUFFICES ASSUME IInv, OrderlyInv, [Next]_vars PROVE [Contract!Next]_Phase
    OBVIOUS
  <2>1. CASE UNCHANGED raised
    BY <2>1 DEF Phase
  <2>2. CASE RaiseSessionClosed(CloseTask)
    <3>1. raised = <<>> /\ raised' = <<"SessionClosed">>
      <4>1. raised = <<>> /\ raised' = Append(<<>>, "SessionClosed")
        BY <2>2 DEF RaiseSessionClosed, OrderlyInv, ClosedByTask
      <4>2. Append(<<>>, "SessionClosed") = <<"SessionClosed">>
        OBVIOUS
      <4>. QED  BY <4>1, <4>2
    <3>2. Phase = "open" /\ Phase' = "closed"
      BY <3>1, PhaseFacts, PhaseFactsNext
    <3>. QED  BY <3>2 DEF Contract!Next, Contract!Close
  <2>. QED  BY <2>1, <2>2, Orderly, RaisedFrame
<1>. QED  BY <1>1, <1>2, Orderly, Invariance, OrderlyInvariance, PTL DEF SafeSpec
----------------------------------------------------------------------------
(* One stream, and anything may fail.                                          *)

\* With one stream its lock excludes one failing call from the other, and from the
\* end of the segment.
LEMMA OneRaiser ==
  ASSUME OneStream, IInv
  PROVE  /\ \A t, u \in Raisers : pc[t] \in RaiseSteps /\ pc[u] \in RaiseSteps => t = u
         /\ \A s \in Streams : pc[Feeder(s)] \notin FeederRest => pc[Worker] = "idle"
<1>1. ASSUME NEW s \in Streams, pc[Feeder(s)] \notin FeederRest PROVE pc[Worker] = "idle"
  <2>1. lockSink[s] = Feeder(s) /\ Feeder(s) # Worker
    BY <1>1, ThreadFacts DEF IInv, LocksHeld
  <2>. QED  BY <2>1 DEF IInv, LocksHeld, OneStream
<1>2. \A t \in Raisers : pc[t] \in RaiseSteps => pc[t] \notin FeederRest /\ pc[t] # "idle"
  BY DEF RaiseSteps, FeederRest
<1>3. ASSUME NEW t \in Raisers, NEW u \in Raisers, pc[t] \in RaiseSteps, pc[u] \in RaiseSteps
      PROVE  t = u
  <2>1. CASE t = Worker
    BY <1>1, <1>2, <1>3, <2>1, ThreadFacts
  <2>2. CASE u = Worker
    BY <1>1, <1>2, <1>3, <2>2, ThreadFacts
  <2>3. CASE t # Worker /\ u # Worker
    BY <2>3, ThreadFacts DEF OneStream
  <2>. QED  BY <2>1, <2>2, <2>3
<1>. QED  BY <1>1, <1>3

\* A thread that raises a failure does so ahead of the end of its stream.
LEMMA RaisersBeforeEnd ==
  ASSUME OneStream, IInv, EndIsQuiet, NEW t \in Raisers, pc[t] \in RaiseSteps,
         NEW s \in Streams
  PROVE  pc[Feeder(s)] # "ended"
<1>1. pc[t] \notin {"idle", "ended"}
  BY DEF RaiseSteps
<1>2. t = Worker \/ t = Feeder(s)
  BY ThreadFacts DEF OneStream
<1>. QED  BY <1>1, <1>2 DEF EndIsQuiet

\* A fail task finds the sink out of RUNNING and goes on to close.
LEMMA FailTaskStops ==
  ASSUME IInv, NEW t \in FailTasks \cup {CloseTask}, StopPresentationClock(t)
  PROVE  SpcLock(t) /\ t \in FailTasks /\ Goto(t, "clCheck") /\ UNCHANGED sinkMutex
<1>1. pc[t] = "spcLock" /\ t \in FailTasks
  BY DEF StopPresentationClock, SpcLock, SpcCheckStreams, SpcUnpublish, SpcUnpublishFails,
     SpcDisconnect, SpcStopClock, IInv, LabelsOK, TaskRest, CloseSteps
<1>2. SpcLock(t) /\ sinkState # "RUNNING"
  BY <1>1 DEF StopPresentationClock, SpcCheckStreams, SpcUnpublish, SpcUnpublishFails,
     SpcDisconnect, SpcStopClock, IInv, SinkLeftRunning
<1>3. AfterStop(t) = "clCheck"
  BY <1>1, ThreadFacts DEF AfterStop
<1>. QED  BY <1>1, <1>2, <1>3 DEF SpcLock

\* Once a stream is at its end nothing is at work, and a stop that passes the check
\* of the sink's state is not preceded or overtaken by a failure.
LEMMA EndIsQuietStep ==
  ASSUME OneStream, IInv, OneStreamInv, [Next]_vars PROVE EndIsQuiet'
<1>0. pc \in [Threads -> Labels] /\ EndIsQuiet /\ ~PipelineStopsClock /\ ClockLast
  BY DEF IInv, TypeOK, OneStreamInv, PipelineStopsClock, OneStream
<1>. USE ThreadFacts, <1>0 DEF EndIsQuiet, Goto
<1>1. CASE UNCHANGED vars \/ ConnectionBreaks
  BY <1>1 DEF vars, ConnectionBreaks
<1>2. CASE OnClockStart
  <2>1. \A t \in Threads : pc[t] \in {"idle", "none"}
    BY <1>2 DEF OnClockStart, IInv, NothingBeforeStart
  <2>2. clock' = "running" /\ pc' = [pc EXCEPT ![Clock] = "startVideo"]
    BY <1>2 DEF OnClockStart
  <2>. QED  BY <2>1, <2>2 DEF StopSteps
<1>3. ASSUME NEW s \in Streams, FeederDelivers(s) PROVE EndIsQuiet'
  BY <1>3 DEF FeederDelivers, ProcessSample, DropSample, ProcessSampleFails, PlaceTick,
     PlaceMarkerFails, PlaceEndOfSegment, SampleArrives
<1>4. ASSUME NEW s \in Streams, MarkEndOfSegment(s) PROVE EndIsQuiet'
  <2>1. pc[Feeder(s)] = "mark" /\ pc[Worker] = "idle"
    BY <1>4, OneRaiser DEF MarkEndOfSegment, FeederRest
  <2>2. pc' = [pc EXCEPT ![Feeder(s)] = "ended", ![StopTask(s)] = "spcLock"] /\ clock' = clock
    BY <1>4 DEF MarkEndOfSegment, Spawn
  <2>. QED  BY <2>1, <2>2
<1>5. CASE WorkerStep
  <2>1. clock' = clock /\ \A t \in Threads \ {Worker} : pc'[t] = pc[t]
    BY <1>5 DEF WorkerStep, DropItem, BeginItem, PrepareTimestamps, QueueAudioVideoMessage,
       QueueAudioVideoMessageFails, QueueAudioVideoMessageCrashes
  <2>2. ASSUME NEW s \in Streams, pc[Feeder(s)] = "ended" PROVE pc'[Worker] = "idle"
    <3>1. pc[Worker] = "idle" /\ streamState[s] # "RUNNING"
      BY <2>2 DEF IInv, EndedStreams
    <3>2. ~BeginItem
      <4>1. BeginItem => NextStream \in Streams /\ streamState[NextStream] = "RUNNING"
        BY DEF BeginItem, NextStream, Items, IInv, TypeOK
      <4>. QED  BY <3>1, <4>1 DEF OneStream
    <3>. QED  BY <1>5, <3>1, <3>2 DEF WorkerStep, DropItem, PrepareTimestamps,
              QueueAudioVideoMessage, QueueAudioVideoMessageFails, QueueAudioVideoMessageCrashes
  <2>. QED  BY <2>1, <2>2
<1>6. CASE ClockStep
  <2>1. \A t \in Threads \ {Clock, CloseTask} : pc'[t] = pc[t]
    BY <1>6 DEF ClockStep, StreamSinkClockStart, OnClockStop, ClockStopSetStream,
       ClockStopSetSink, StreamSinkClockStop, ClockStopCloses, Spawn
  <2>2. clock' \in {"stopping", "stopped"} => clock \in {"stopping", "stopped"}
    BY <1>6 DEF ClockStep, StreamSinkClockStart, OnClockStop, ClockStopSetStream,
       ClockStopSetSink, StreamSinkClockStop, ClockStopCloses, ClockLast
  <2>. QED  BY <2>1, <2>2
<1>7. ASSUME NEW t \in Raisers, RaisePublishFailed(t) PROVE EndIsQuiet'
  <2>1. pc[t] \in RaiseSteps /\ clock' = clock
    BY <1>7 DEF RaisePublishFailed, RpfCheckSink, RpfCheckState, RpfSetSink, RpfSetStream,
       RpfCreateTask, RaiseSteps
  <2>2. \A s \in Streams : pc[Feeder(s)] # "ended"
    BY <2>1, RaisersBeforeEnd
  <2>3. pc'[t] # "ended" /\ \A u \in Threads \ {t, FailTask(t)} : pc'[u] = pc[u]
    BY <1>7 DEF RaisePublishFailed, RpfCheckSink, RpfCheckState, RpfSetSink, RpfSetStream,
       RpfCreateTask, ReturnFailed, Spawn
  <2>4. /\ \A s \in Streams : pc'[Feeder(s)] # "ended"
        /\ \A u \in StopTasks : pc'[u] = pc[u]
    BY <2>2, <2>3
  <2>. QED  BY <2>1, <2>2, <2>4, StreamsAssumption
<1>8. ASSUME NEW t \in Threads, UseOfNullSink(t) PROVE EndIsQuiet'
  BY <1>8 DEF UseOfNullSink
<1>9. ASSUME NEW t \in StopTasks \cup FailTasks \cup {CloseTask},
             FailTaskRaises(t) \/ FailTaskCloses(t)
      PROVE  EndIsQuiet'
  <2>1. t \in FailTasks /\ pc[t] # "none"
    BY <1>9 DEF FailTaskRaises, FailTaskCloses, IInv, LabelsOK, TaskRest, StopSteps, CloseSteps
  <2>. QED  BY <1>9, <2>1 DEF FailTaskRaises, FailTaskCloses
<1>10. ASSUME NEW t \in StopTasks, StopPresentationClock(t) PROVE EndIsQuiet'
  <2>1. pc[t] \in StopSteps /\ \A u \in Threads \ {t} : pc'[u] = pc[u]
    BY <1>10 DEF StopPresentationClock, SpcLock, SpcCheckStreams, SpcUnpublish,
       SpcUnpublishFails, SpcDisconnect, SpcStopClock, StopSteps
  <2>2. \A s \in Streams : pc[Feeder(s)] = "ended"
    <3>1. PICK r \in Streams : t = StopTask(r)
      OBVIOUS
    <3>2. pc[Feeder(r)] = "ended"
      BY <2>1, <3>1 DEF StopSteps, IInv, EndedStreams
    <3>. QED  BY <3>2 DEF OneStream
  <2>3. pc[t] # "spcLock" \/ sinkState = "RUNNING" => \A u \in FailTasks : pc[u] = "none"
    BY <2>1 DEF IInv, SinkLeftRunning
  <2>4. CASE sinkState = "RUNNING" \/ pc[t] # "spcLock"
    BY <2>1, <2>2, <2>3, <2>4
  <2>5. CASE sinkState # "RUNNING" /\ pc[t] = "spcLock"
    BY <1>10, <2>1, <2>2, <2>5 DEF StopPresentationClock, SpcLock, SpcCheckStreams, SpcUnpublish,
       SpcUnpublishFails, SpcDisconnect, SpcStopClock, AfterStop, StopSteps
  <2>. QED  BY <2>4, <2>5
<1>11. ASSUME NEW t \in FailTasks \cup {CloseTask}, StopPresentationClock(t) \/ Close(t)
       PROVE  EndIsQuiet'
  <2>1. CASE StopPresentationClock(t)
    BY <2>1, FailTaskStops DEF SpcLock
  <2>2. CASE Close(t)
    <3>1. pc[t] # "none" /\ clock' = clock /\ \A u \in Threads \ {t} : pc'[u] = pc[u]
      BY <2>2 DEF Close, CloseCheck, CloseReadTimestamps, RaiseSessionClosed,
         CloseCallsShutdown, Shutdown, ShutdownSetStream, ShutdownSetSink, CloseResetsSink
    <3>. QED  BY <3>1
  <2>. QED  BY <1>11, <2>1, <2>2
<1>12. \A t \in StopTasks : ~Close(t)
  BY DEF Close, CloseCheck, CloseReadTimestamps, RaiseSessionClosed, CloseCallsShutdown,
     Shutdown, ShutdownSetStream, ShutdownSetSink, CloseResetsSink, IInv, LabelsOK,
     TaskRest, StopSteps
<1>. HIDE DEF EndIsQuiet, Goto
<1>. QED  BY <1>0, <1>1, <1>2, <1>3, <1>4, <1>5, <1>6, <1>7, <1>8, <1>9, <1>10, <1>11, <1>12, Actions

\* When the clock stops, no thread is on its way to a failure and none was announced.
LEMMA StopIsQuiet ==
  ASSUME EndIsQuiet, clock \in {"stopping", "stopped"}
  PROVE  /\ \A t \in Raisers : pc[t] \in {"idle", "ended"}
         /\ \A t \in FailTasks : pc[t] = "none"
<1>1. \A s \in Streams : pc[Feeder(s)] = "ended"
  BY DEF EndIsQuiet
<1>2. pc[Worker] = "idle"
  BY <1>1, StreamsAssumption DEF EndIsQuiet
<1>3. \A t \in FailTasks : pc[t] = "none"
  BY DEF EndIsQuiet
<1>. QED  BY <1>1, <1>2, <1>3, ThreadFacts

\* The thread that takes the sink out of RUNNING is alone in doing so, and the task
\* it creates, or the one OnClockStop creates, is alone in closing.
LEMMA OneCloserStep ==
  ASSUME OneStream, IInv, OneStreamInv, [Next]_vars PROVE OneCloser'
<1>0. pc \in [Threads -> Labels] /\ OneCloser /\ ~PipelineStopsClock
  BY DEF IInv, TypeOK, OneStreamInv, PipelineStopsClock, OneStream
<1>. USE ThreadFacts, <1>0 DEF OneCloser, Closers, Goto
<1>1. CASE UNCHANGED vars \/ ConnectionBreaks
  BY <1>1 DEF vars, ConnectionBreaks
<1>2. CASE OnClockStart
  <2>1. \A t \in Threads : pc[t] \in {"idle", "none"}
    BY <1>2 DEF OnClockStart, IInv, NothingBeforeStart
  <2>2. \A u \in Closers : pc[u] = "none"
    BY <2>1 DEF IInv, LabelsOK, TaskRest, CloseSteps
  <2>3. pc' = [pc EXCEPT ![Clock] = "startVideo"]
    BY <1>2 DEF OnClockStart
  <2>. QED  BY <2>1, <2>2, <2>3
<1>3. ASSUME NEW s \in Streams, FeederDelivers(s) PROVE OneCloser'
  BY <1>3 DEF FeederDelivers, ProcessSample, DropSample, ProcessSampleFails, PlaceTick,
     PlaceMarkerFails, PlaceEndOfSegment, SampleArrives
<1>4. ASSUME NEW s \in Streams, MarkEndOfSegment(s) PROVE OneCloser'
  BY <1>4 DEF MarkEndOfSegment, Spawn
<1>5. CASE WorkerStep
  BY <1>5 DEF WorkerStep, DropItem, BeginItem, PrepareTimestamps, QueueAudioVideoMessage,
     QueueAudioVideoMessageFails, QueueAudioVideoMessageCrashes
<1>6. CASE ClockStep
  <2>1. clock \in {"stopping", "stopped"} =>
          /\ \A u \in Raisers : pc[u] \in {"idle", "ended"}
          /\ \A u \in FailTasks : pc[u] = "none"
    BY StopIsQuiet DEF OneStreamInv
  <2>2. CASE ClockStopCloses
    <3>1. clock = "stopping"
      BY <2>2 DEF ClockStopCloses, OneStreamInv, ClockLast
    <3>2. \A u \in Closers : pc[u] = "none"
      BY <2>1, <3>1 DEF OneStreamInv, ClockLast
    <3>3. pc' = [pc EXCEPT ![Clock] = "stopped", ![CloseTask] = "clCheck"]
      BY <2>2 DEF ClockStopCloses, Spawn
    <3>. QED  BY <2>1, <3>1, <3>2, <3>3
  <2>3. CASE ClockStopSetSink
    <3>1. clock = "stopping"
      BY <2>3 DEF ClockStopSetSink, OneStreamInv, ClockLast
    <3>. QED  BY <2>1, <2>3, <3>1 DEF ClockStopSetSink
  <2>. QED  BY <1>6, <2>2, <2>3 DEF ClockStep, StreamSinkClockStart, OnClockStop,
            ClockStopSetStream, StreamSinkClockStop
<1>7. ASSUME NEW t \in Raisers, RaisePublishFailed(t) PROVE OneCloser'
  <2>1. pc[t] \in RaiseSteps
    BY <1>7 DEF RaisePublishFailed, RpfCheckSink, RpfCheckState, RpfSetSink, RpfSetStream,
       RpfCreateTask, RaiseSteps
  <2>2. \A u \in Raisers \ {t} : pc[u] \notin RaiseSteps
    BY <2>1, OneRaiser
  <2>3. CASE RpfSetSink(t)
    <3>1. \A u \in Closers : pc[u] = "none"
      BY <2>3 DEF RpfSetSink, IInv, SinkLeftRunning
    <3>. QED  BY <2>2, <2>3, <3>1 DEF RpfSetSink, RaiseSteps
  <2>4. CASE RpfCreateTask(t)
    <3>1. \A u \in Closers : pc[u] = "none"
      BY <2>4 DEF RpfCreateTask
    <3>2. pc' = [pc EXCEPT ![t] = "idle", ![FailTask(t)] = "ftRaise"]
      BY <2>4 DEF RpfCreateTask, Spawn
    <3>. QED  BY <2>2, <3>1, <3>2 DEF RaiseSteps
  <2>. QED  BY <1>7, <2>3, <2>4 DEF RaisePublishFailed, RpfCheckSink, RpfCheckState,
            RpfSetStream, ReturnFailed
<1>8. ASSUME NEW t \in Threads, UseOfNullSink(t) PROVE OneCloser'
  BY <1>8 DEF UseOfNullSink
<1>9. ASSUME NEW t \in StopTasks, StopPresentationClock(t) PROVE OneCloser'
  BY <1>9 DEF StopPresentationClock, SpcLock, SpcCheckStreams, SpcUnpublish,
     SpcUnpublishFails, SpcDisconnect, SpcStopClock
<1>10. ASSUME NEW t \in Closers,
              FailTaskRaises(t) \/ FailTaskCloses(t) \/ StopPresentationClock(t) \/ Close(t)
       PROVE  OneCloser'
  <2>1. pc[t] # "none" /\ \A u \in Threads \ {t} : pc'[u] = pc[u]
    <3>1. CASE FailTaskRaises(t) \/ FailTaskCloses(t)
      BY <3>1 DEF FailTaskRaises, FailTaskCloses
    <3>2. CASE StopPresentationClock(t)
      BY <3>2, FailTaskStops DEF SpcLock
    <3>3. CASE Close(t)
      BY <3>3 DEF Close, CloseCheck, CloseReadTimestamps, RaiseSessionClosed,
         CloseCallsShutdown, Shutdown, ShutdownSetStream, ShutdownSetSink, CloseResetsSink
    <3>. QED  BY <1>10, <3>1, <3>2, <3>3
  <2>2. sinkState # "RUNNING"
    BY <2>1 DEF IInv, SinkLeftRunning
  <2>. QED  BY <2>1, <2>2
<1>11. \A t \in StopTasks : ~Close(t) /\ ~FailTaskRaises(t) /\ ~FailTaskCloses(t)
  BY DEF Close, CloseCheck, CloseReadTimestamps, RaiseSessionClosed, CloseCallsShutdown,
     Shutdown, ShutdownSetStream, ShutdownSetSink, CloseResetsSink, FailTaskRaises,
     FailTaskCloses, IInv, LabelsOK, TaskRest, StopSteps
<1>. HIDE DEF OneCloser, Goto
<1>. QED  BY <1>0, <1>1, <1>2, <1>3, <1>4, <1>5, <1>6, <1>7, <1>8, <1>9, <1>10, <1>11, Actions

\* The events are told by the label of the one thread that closes, before and after
\* its step.
LEMMA ToldByCloser ==
  ASSUME OneCloser, NEW t \in Closers, pc[t] # "none",
         \A u \in Threads \ {t} : pc'[u] = pc[u]
  PROVE  /\ Announced <=> t \in FailTasks /\ pc[t] \in AfterFailed
         /\ ClosedBehind <=> pc[t] \in AfterClosed
         /\ (\E u \in Closers : pc[u] = "done") => pc[t] = "done"
         /\ Announced' <=> t \in FailTasks /\ pc'[t] \in AfterFailed
         /\ ClosedBehind' <=> pc'[t] \in AfterClosed
<1>1. \A u \in Closers \ {t} : pc[u] = "none" /\ pc'[u] = "none"
  BY ThreadFacts DEF OneCloser, Closers
<1>2. "none" \notin AfterFailed \cup AfterClosed
  BY DEF AfterFailed, AfterClosed, CloseSteps
<1>. QED  BY <1>1, <1>2 DEF Announced, ClosedBehind, Closers

\* A thread that starts to close finds the sink there and no event raised.
LEMMA CloserStarts ==
  ASSUME IInv, RaisedInOrder, \A u \in Closers : pc[u] = "none",
         NEW t \in Closers, NEW v \in Threads \ Closers, NEW l \in Labels, NEW m,
         Spawn(v, l, t, m), UNCHANGED <<raised, hasSink>>,
         \/ t \in FailTasks /\ m = "ftRaise"
         \/ t = CloseTask /\ m = "clCheck"
  PROVE  RaisedInOrder'
<1>1. raised' = <<>> /\ hasSink'
  BY DEF RaisedInOrder, Announced, ClosedBehind, AfterFailed, AfterClosed, CloseSteps, Closers,
     IInv, TypeOK
<1>2. pc'[t] = m /\ \A u \in Closers \ {t} : pc'[u] = "none"
  BY ThreadFacts DEF Spawn, IInv, TypeOK, Closers
<1>3. ~Announced' /\ ~ClosedBehind'
  BY <1>2, ThreadFacts DEF Announced, ClosedBehind, AfterFailed, AfterClosed, CloseSteps, Closers
<1>. QED  BY <1>1, <1>3 DEF RaisedInOrder

LEMMA BothEvents ==
  Append(<<"PublishFailed">>, "SessionClosed") = <<"PublishFailed", "SessionClosed">>
<1>. DEFINE E == {"PublishFailed", "SessionClosed"}
            both == <<"PublishFailed", "SessionClosed">>
            appended == Append(<<"PublishFailed">>, "SessionClosed")
<1>1. /\ appended \in Seq(E) /\ Len(appended) = 2
      /\ appended[1] = "PublishFailed" /\ appended[2] = "SessionClosed"
  <2>1. <<"PublishFailed">> \in Seq(E) /\ "SessionClosed" \in E /\ Len(<<"PublishFailed">>) = 1
        /\ <<"PublishFailed">>[1] = "PublishFailed"
    OBVIOUS
  <2>. QED  BY <2>1, AppendProperties
<1>2. both \in Seq(E) /\ Len(both) = 2 /\ both[1] = "PublishFailed" /\ both[2] = "SessionClosed"
  OBVIOUS
<1>. HIDE DEF E, both, appended
<1>3. \A i \in 1..Len(appended) : appended[i] = both[i]
  BY <1>1, <1>2
<1>4. appended = both
  BY <1>1, <1>2, <1>3, SeqEqual
<1>. QED  BY <1>4 DEF both, appended

\* The thread that closes raises its events in order and then resets the sink.
LEMMA CloserRaises ==
  ASSUME IInv, OneStreamInv, NEW t \in Closers,
         FailTaskRaises(t) \/ FailTaskCloses(t) \/ StopPresentationClock(t) \/ Close(t)
  PROVE  RaisedInOrder'
<1>0. pc \in [Threads -> Labels] /\ OneCloser /\ RaisedInOrder /\ t \in Threads
  BY ThreadFacts DEF IInv, TypeOK, OneStreamInv, Closers
<1>1. CASE FailTaskRaises(t)
  <2>1. pc[t] = "ftRaise" /\ Goto(t, "ftClose") /\ t \in FailTasks
    BY <1>1, ThreadFacts DEF FailTaskRaises, IInv, LabelsOK, TaskRest, CloseSteps, Closers
  <2>2. pc'[t] = "ftClose" /\ \A u \in Threads \ {t} : pc'[u] = pc[u]
    BY <2>1, <1>0, GotoPc DEF IInv
  <2>3. ~Announced /\ ~ClosedBehind /\ Announced' /\ ~ClosedBehind'
    BY <1>0, <2>1, <2>2, ToldByCloser DEF AfterFailed, AfterClosed, CloseSteps
  <2>4. raised' = Append(<<>>, "PublishFailed") /\ hasSink' = hasSink
    BY <1>0, <1>1, <2>3 DEF FailTaskRaises, RaisedInOrder
  <2>5. Append(<<>>, "PublishFailed") = <<"PublishFailed">>
    OBVIOUS
  <2>6. hasSink
    BY <1>0, <2>1, <2>2, ToldByCloser DEF RaisedInOrder
  <2>. QED  BY <2>3, <2>4, <2>5, <2>6 DEF RaisedInOrder
<1>2. CASE RaiseSessionClosed(t)
  <2>1. pc[t] = "clRaise" /\ Goto(t, "clShutdown")
    BY <1>2 DEF RaiseSessionClosed
  <2>2. pc'[t] = "clShutdown" /\ \A u \in Threads \ {t} : pc'[u] = pc[u]
    BY <2>1, <1>0, GotoPc DEF IInv
  <2>3. (Announced' <=> Announced) /\ ~ClosedBehind /\ ClosedBehind'
    BY <1>0, <2>1, <2>2, ToldByCloser DEF AfterFailed, AfterClosed, CloseSteps
  <2>4. hasSink /\ hasSink' = hasSink
    BY <1>0, <1>2, <2>1, <2>2, ToldByCloser DEF RaisedInOrder, RaiseSessionClosed
  <2>5. CASE ~Announced
    <3>1. raised' = Append(<<>>, "SessionClosed")
      BY <1>0, <1>2, <2>3, <2>5 DEF RaiseSessionClosed, RaisedInOrder
    <3>2. Append(<<>>, "SessionClosed") = <<"SessionClosed">>
      OBVIOUS
    <3>. QED  BY <2>3, <2>4, <2>5, <3>1, <3>2 DEF RaisedInOrder
  <2>6. CASE Announced
    <3>1. raised' = Append(<<"PublishFailed">>, "SessionClosed")
      BY <1>0, <1>2, <2>3, <2>6 DEF RaiseSessionClosed, RaisedInOrder
    <3>2. raised' = <<"PublishFailed", "SessionClosed">>
      BY <3>1, BothEvents
    <3>. QED  BY <2>3, <2>4, <2>6, <3>2 DEF RaisedInOrder
  <2>. QED  BY <2>5, <2>6
<1>3. CASE CloseResetsSink(t)
  <2>1. pc[t] = "clReset" /\ Goto(t, "done")
    BY <1>3 DEF CloseResetsSink
  <2>2. pc'[t] = "done" /\ \A u \in Threads \ {t} : pc'[u] = pc[u]
    BY <2>1, <1>0, GotoPc DEF IInv
  <2>3. (Announced' <=> Announced) /\ (ClosedBehind' <=> ClosedBehind)
    BY <1>0, <2>1, <2>2, ToldByCloser DEF AfterFailed, AfterClosed, CloseSteps
  <2>. QED  BY <1>0, <1>3, <2>2, <2>3 DEF RaisedInOrder, CloseResetsSink
<1>4. ASSUME NEW l, Goto(t, l), UNCHANGED <<raised, hasSink>>, pc[t] \notin {"none", "done"},
             pc[t] \in AfterFailed <=> l \in AfterFailed,
             pc[t] \in AfterClosed <=> l \in AfterClosed
      PROVE  RaisedInOrder'
  <2>1. pc'[t] = l /\ \A u \in Threads \ {t} : pc'[u] = pc[u]
    BY <1>4, <1>0, GotoPc DEF IInv
  <2>2. (Announced' <=> Announced) /\ (ClosedBehind' <=> ClosedBehind)
    BY <1>0, <1>4, <2>1, ToldByCloser
  <2>3. hasSink
    BY <1>0, <1>4, <2>1, ToldByCloser DEF RaisedInOrder
  <2>. QED  BY <1>0, <1>4, <2>2, <2>3 DEF RaisedInOrder
<1>5. CASE FailTaskCloses(t)
  BY <1>4, <1>5 DEF FailTaskCloses, AfterFailed, AfterClosed, CloseSteps
<1>6. CASE StopPresentationClock(t)
  <2>1. pc[t] = "spcLock" /\ Goto(t, "clCheck") /\ UNCHANGED <<raised, hasSink>>
    BY <1>6, FailTaskStops DEF SpcLock, Closers
  <2>. QED  BY <1>4, <2>1 DEF AfterFailed, AfterClosed, CloseSteps
<1>7. CASE CloseCheck(t)
  <2>1. pc[t] = "clCheck" /\ UNCHANGED <<raised, hasSink>>
    BY <1>7 DEF CloseCheck
  <2>2. hasSink
    BY <1>0, <2>1 DEF OneCloser, RaisedInOrder
  <2>3. Goto(t, "clStamps")
    BY <1>7, <2>2 DEF CloseCheck
  <2>. QED  BY <1>4, <2>1, <2>3 DEF AfterFailed, AfterClosed, CloseSteps
<1>8. CASE CloseReadTimestamps(t)
  BY <1>4, <1>8 DEF CloseReadTimestamps, AfterFailed, AfterClosed, CloseSteps
<1>9. CASE CloseCallsShutdown(t) \/ Shutdown(t)
  BY <1>4, <1>9 DEF CloseCallsShutdown, Shutdown, ShutdownSetStream, ShutdownSetSink,
     AfterFailed, AfterClosed, CloseSteps
<1>. QED  BY <1>1, <1>2, <1>3, <1>5, <1>6, <1>7, <1>8, <1>9 DEF Close

\* Every other step leaves the closing threads, their events and the sink alone.
LEMMA RaisedInOrderStep ==
  ASSUME OneStream, IInv, OneStreamInv, [Next]_vars PROVE RaisedInOrder'
<1>0. pc \in [Threads -> Labels] /\ RaisedInOrder /\ ~PipelineStopsClock
  BY DEF IInv, TypeOK, OneStreamInv, PipelineStopsClock, OneStream
<1>1. ASSUME UNCHANGED <<raised, hasSink>>, \A u \in Closers : pc'[u] = pc[u]
      PROVE  RaisedInOrder'
  BY <1>0, <1>1 DEF RaisedInOrder, Announced, ClosedBehind, Closers
<1>2. CASE UNCHANGED vars \/ ConnectionBreaks \/ OnClockStart \/ WorkerStep
  BY <1>0, <1>1, <1>2, ThreadFacts DEF vars, ConnectionBreaks, OnClockStart, WorkerStep,
     DropItem, BeginItem, PrepareTimestamps, QueueAudioVideoMessage,
     QueueAudioVideoMessageFails, QueueAudioVideoMessageCrashes, Goto, Closers
<1>3. ASSUME NEW s \in Streams, FeederDelivers(s) \/ MarkEndOfSegment(s) PROVE RaisedInOrder'
  BY <1>0, <1>1, <1>3, ThreadFacts DEF FeederDelivers, ProcessSample, DropSample,
     ProcessSampleFails, PlaceTick, PlaceMarkerFails, PlaceEndOfSegment, MarkEndOfSegment,
     SampleArrives, Goto, Spawn, Closers
<1>4. CASE ClockStep
  <2>1. CASE ClockStopCloses
    <3>1. clock = "stopping"
      BY <2>1 DEF ClockStopCloses, OneStreamInv, ClockLast
    <3>2. \A u \in Closers : pc[u] = "none"
      BY <3>1, StopIsQuiet DEF OneStreamInv, ClockLast, Closers
    <3>3. Spawn(Clock, "stopped", CloseTask, "clCheck") /\ UNCHANGED <<raised, hasSink>>
      BY <2>1 DEF ClockStopCloses
    <3>4. CloseTask \in Closers /\ Clock \in Threads \ Closers /\ "stopped" \in Labels
      BY ThreadFacts DEF Closers, Labels, ClockSteps
    <3>. QED  BY <1>0, <3>2, <3>3, <3>4, CloserStarts
  <2>. QED  BY <1>0, <1>1, <1>4, <2>1, ThreadFacts DEF ClockStep, StreamSinkClockStart,
            OnClockStop, ClockStopSetStream, ClockStopSetSink, StreamSinkClockStop, Goto, Closers
<1>5. ASSUME NEW t \in Raisers, RaisePublishFailed(t) PROVE RaisedInOrder'
  <2>1. CASE RpfCreateTask(t)
    <3>1. \A u \in Closers : pc[u] = "none"
      BY <2>1 DEF RpfCreateTask, OneStreamInv, OneCloser
    <3>2. Spawn(t, "idle", FailTask(t), "ftRaise") /\ UNCHANGED <<raised, hasSink>>
      BY <2>1 DEF RpfCreateTask
    <3>3. /\ FailTask(t) \in Closers /\ FailTask(t) \in FailTasks
          /\ t \in Threads \ Closers /\ "idle" \in Labels
      BY ThreadFacts DEF Closers, Labels, ClockSteps
    <3>. QED  BY <1>0, <3>1, <3>2, <3>3, CloserStarts
  <2>. QED  BY <1>0, <1>1, <1>5, <2>1, ThreadFacts DEF RaisePublishFailed, RpfCheckSink,
            RpfCheckState, RpfSetSink, RpfSetStream, ReturnFailed, Goto, Closers
<1>6. ASSUME NEW t \in Threads, UseOfNullSink(t) PROVE RaisedInOrder'
  BY <1>1, <1>6 DEF UseOfNullSink
<1>7. ASSUME NEW t \in StopTasks, StopPresentationClock(t) PROVE RaisedInOrder'
  BY <1>0, <1>1, <1>7, ThreadFacts DEF StopPresentationClock, SpcLock, SpcCheckStreams,
     SpcUnpublish, SpcUnpublishFails, SpcDisconnect, SpcStopClock, Goto, Closers
<1>8. \A t \in StopTasks : ~Close(t) /\ ~FailTaskRaises(t) /\ ~FailTaskCloses(t)
  BY DEF Close, CloseCheck, CloseReadTimestamps, RaiseSessionClosed, CloseCallsShutdown,
     Shutdown, ShutdownSetStream, ShutdownSetSink, CloseResetsSink, FailTaskRaises,
     FailTaskCloses, IInv, LabelsOK, TaskRest, StopSteps
<1>9. ASSUME NEW t \in FailTasks \cup {CloseTask},
             FailTaskRaises(t) \/ FailTaskCloses(t) \/ StopPresentationClock(t) \/ Close(t)
      PROVE  RaisedInOrder'
  <2>1. t \in Closers
    BY DEF Closers
  <2>. QED  BY <1>9, <2>1, CloserRaises
<1>10. CloseTask \in Threads /\ StopTasks \cup FailTasks \subseteq Threads
  BY ThreadFacts
<1>11. ASSUME NEW t \in StopTasks \cup FailTasks \cup {CloseTask},
              \/ FailTaskRaises(t) \/ FailTaskCloses(t) \/ StopPresentationClock(t)
              \/ Close(t) \/ UseOfNullSink(t)
       PROVE  RaisedInOrder'
  <2>1. CASE t \in StopTasks
    BY <1>6, <1>7, <1>8, <1>10, <1>11, <2>1
  <2>2. CASE t \in FailTasks \cup {CloseTask}
    BY <1>6, <1>9, <1>10, <1>11, <2>2
  <2>. QED  BY <2>1, <2>2
<1>12. \A t \in Raisers : t \in Threads
  BY ThreadFacts
<1>. QED  BY <1>0, <1>2, <1>3, <1>4, <1>5, <1>6, <1>11, <1>12, Actions

LEMMA InitOneStream == Init => OneStreamInv
<1>. SUFFICES ASSUME Init PROVE OneStreamInv
  OBVIOUS
<1>1. /\ \A t \in Raisers \cup {Clock} : pc[t] = "idle"
      /\ \A t \in StopTasks \cup FailTasks \cup {CloseTask} : pc[t] = "none"
  BY ThreadKinds, ThreadFacts DEF Init
<1>2. ClockLast
  BY <1>1 DEF Init, ClockLast
<1>3. OneCloser
  BY <1>1 DEF OneCloser, Closers
<1>4. EndIsQuiet
  BY <1>1, ThreadFacts DEF Init, EndIsQuiet, StopSteps
<1>5. ~Announced /\ ~ClosedBehind
  BY <1>1 DEF Announced, ClosedBehind, Closers, AfterFailed, AfterClosed, CloseSteps
<1>6. RaisedInOrder
  BY <1>5 DEF Init, RaisedInOrder
<1>. QED  BY <1>2, <1>3, <1>4, <1>6 DEF OneStreamInv

\* With one stream and no forced stop the session is closed by one thread, whatever
\* fails, and its events are the ones of that thread, in order.
THEOREM OneStreamInvariance == ASSUME OneStream PROVE SafeSpec => []OneStreamInv
<1>1. IInv /\ OneStreamInv /\ [Next]_vars => OneStreamInv'
  <2>. SUFFICES ASSUME IInv, OneStreamInv, [Next]_vars PROVE OneStreamInv'
    OBVIOUS
  <2>1. ClockLast'
    BY OneStream, ClockLastStep DEF OneStream, OneStreamInv
  <2>. QED  BY <2>1, OneStream, OneCloserStep, EndIsQuietStep, RaisedInOrderStep DEF OneStreamInv
<1>. QED  BY <1>1, InitOneStream, Invariance, PTL DEF SafeSpec
----------------------------------------------------------------------------
(* The safety half of the refinement of SessionContract.                        *)

\* Two kinds of step raise an event.
LEMMA RaisingSteps ==
  ASSUME [Next]_vars
  PROVE  \/ UNCHANGED raised
         \/ \E t \in StopTasks \cup FailTasks \cup {CloseTask} :
              FailTaskRaises(t) \/ RaiseSessionClosed(t)
<1>1. CASE UNCHANGED vars \/ OnClockStart \/ ConnectionBreaks \/ PipelineStopsClock
  BY <1>1 DEF vars, OnClockStart, ConnectionBreaks, PipelineStopsClock
<1>2. ASSUME NEW s \in Streams, FeederDelivers(s) \/ MarkEndOfSegment(s) PROVE UNCHANGED raised
  BY <1>2 DEF FeederDelivers, ProcessSample, DropSample, ProcessSampleFails, PlaceTick,
     PlaceMarkerFails, PlaceEndOfSegment, MarkEndOfSegment
<1>3. CASE WorkerStep
  BY <1>3 DEF WorkerStep, DropItem, BeginItem, PrepareTimestamps, QueueAudioVideoMessage,
     QueueAudioVideoMessageFails, QueueAudioVideoMessageCrashes
<1>4. CASE ClockStep
  BY <1>4 DEF ClockStep, StreamSinkClockStart, OnClockStop, ClockStopSetStream,
     ClockStopSetSink, StreamSinkClockStop, ClockStopCloses
<1>5. ASSUME NEW t \in Raisers, RaisePublishFailed(t) PROVE UNCHANGED raised
  BY <1>5 DEF RaisePublishFailed, RpfCheckSink, RpfCheckState, RpfSetSink, RpfSetStream,
     RpfCreateTask
<1>6. \A t : UseOfNullSink(t) \/ FailTaskCloses(t) => UNCHANGED raised
  BY DEF UseOfNullSink, FailTaskCloses
<1>7. ASSUME NEW t, StopPresentationClock(t) PROVE UNCHANGED raised
  BY <1>7 DEF StopPresentationClock, SpcLock, SpcCheckStreams, SpcUnpublish,
     SpcUnpublishFails, SpcDisconnect, SpcStopClock
<1>8. ASSUME NEW t, Close(t) PROVE UNCHANGED raised \/ RaiseSessionClosed(t)
  BY <1>8 DEF Close, CloseCheck, CloseReadTimestamps, CloseCallsShutdown, Shutdown,
     ShutdownSetStream, ShutdownSetSink, CloseResetsSink
<1>. QED  BY <1>1, <1>2, <1>3, <1>4, <1>5, <1>6, <1>7, <1>8, Actions

\* The label of the thread that raises an event tells what was raised before.
LEMMA RaisedSoFar ==
  ASSUME OneStreamInv, IInv, NEW t \in Closers
  PROVE  /\ pc[t] = "ftRaise" => raised = <<>>
         /\ pc[t] = "clRaise" => raised \in {<<>>, <<"PublishFailed">>}
<1>1. \A u \in Closers \ {t} : pc[t] # "none" => pc[u] = "none"
  BY DEF OneStreamInv, OneCloser
<1>2. pc[t] \in {"ftRaise", "clRaise"} => ~ClosedBehind
  BY <1>1 DEF ClosedBehind, AfterClosed
<1>3. pc[t] = "ftRaise" => ~Announced
  BY <1>1 DEF Announced, AfterFailed, CloseSteps, Closers
<1>. QED  BY <1>2, <1>3 DEF OneStreamInv, RaisedInOrder

\* Whatever fails, a session of one stream is seen by the application as one that
\* fails at most once and is closed at most once, after the failure, the safety half
\* of the refinement of SessionContract.
THEOREM OneStreamContract ==
  ASSUME OneStream PROVE SafeSpec => Contract!Init /\ [][Contract!Next]_Phase
<1>1. Init => Contract!Init
  BY PhaseFacts DEF Init, Contract!Init
<1>2. IInv /\ OneStreamInv /\ [Next]_vars => [Contract!Next]_Phase
  <2>. SUFFICES ASSUME IInv, OneStreamInv, [Next]_vars PROVE [Contract!Next]_Phase
    OBVIOUS
  <2>1. CASE UNCHANGED raised
    BY <2>1 DEF Phase
  <2>2. ASSUME NEW t \in StopTasks \cup FailTasks \cup {CloseTask}, FailTaskRaises(t)
        PROVE  Contract!Next
    <3>1. pc[t] = "ftRaise" /\ raised' = Append(raised, "PublishFailed")
      BY <2>2 DEF FailTaskRaises
    <3>2. t \in Closers
      BY <3>1 DEF IInv, LabelsOK, TaskRest, StopSteps, Closers
    <3>3. raised = <<>>
      BY <3>1, <3>2, RaisedSoFar
    <3>4. Append(<<>>, "PublishFailed") = <<"PublishFailed">>
      OBVIOUS
    <3>5. Phase = "open" /\ Phase' = "failed"
      BY <3>1, <3>3, <3>4, PhaseFacts, PhaseFactsNext
    <3>. QED  BY <3>5 DEF Contract!Next, Contract!Fail
  <2>3. ASSUME NEW t \in StopTasks \cup FailTasks \cup {CloseTask}, RaiseSessionClosed(t)
        PROVE  Contract!Next
    <3>1. pc[t] = "clRaise" /\ raised' = Append(raised, "SessionClosed")
      BY <2>3 DEF RaiseSessionClosed
    <3>2. t \in Closers
      BY <3>1 DEF IInv, LabelsOK, TaskRest, StopSteps, Closers
    <3>3. raised \in {<<>>, <<"PublishFailed">>}
      BY <3>1, <3>2, RaisedSoFar
    <3>4. Append(<<>>, "SessionClosed") = <<"SessionClosed">>
      OBVIOUS
    <3>5. raised' \in {<<"SessionClosed">>, <<"PublishFailed", "SessionClosed">>}
      BY <3>1, <3>3, <3>4, BothEvents
    <3>6. Phase \in {"open", "failed"} /\ Phase' = "closed"
      BY <3>3, <3>5, PhaseFacts, PhaseFactsNext
    <3>. QED  BY <3>6 DEF Contract!Next, Contract!Close
  <2>. QED  BY <2>1, <2>2, <2>3, RaisingSteps
<1>. QED  BY <1>1, <1>2, OneStream, Invariance, OneStreamInvariance, PTL DEF SafeSpec
=============================================================================
