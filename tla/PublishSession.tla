---------------------------- MODULE PublishSession ----------------------------
(***************************************************************************)
(* The life of one publish session with a single target profile: the       *)
(* session (RTMPPublishSession), its standalone sink (RTMPPublisherSink)   *)
(* and the audio and video stream sinks, from the start of the             *)
(* presentation clock to the release of the sink.                          *)
(*                                                                         *)
(* Threads of the program, each with its program counter in pc:            *)
(*   Feeder(s)    the pipeline's calls into stream sink s, which hold the  *)
(*                stream's _lockSink: ProcessSample and PlaceMarker        *)
(*   Worker       the serial work queue: Invoke of one queued work item,   *)
(*                which holds the _lockSink of the item's stream           *)
(*   Clock        OnClockStart and OnClockStop                             *)
(*   StopTask(s)  create_task of PlaceMarker: StopPresentationClock        *)
(*   FailTask(t)  create_task of RaisePublishFailed called on thread t     *)
(*   CloseTask    create_task of Close after OnClockStop                   *)
(*                                                                         *)
(* A step is what a thread does between two accesses to state that another *)
(* thread writes; taking a lock is merged with the access that follows it. *)
(***************************************************************************)
EXTENDS Naturals, Sequences

CONSTANTS
  Streams,        \* the stream sinks the profile asks for
  MaxSamples,     \* bound: work items the pipeline delivers to one stream
  FaultyStreams,  \* streams whose samples may lack a time stamp
  NetMayFail,     \* whether the connection may break
  ForcedStop      \* whether the pipeline may stop the clock before end of segment

ASSUME StreamsAssumption == Streams \in SUBSET {"audio", "video"} /\ Streams # {}
ASSUME MaxSamplesAssumption == MaxSamples \in Nat
ASSUME EnvironmentAssumption ==
  FaultyStreams \subseteq Streams /\ NetMayFail \in BOOLEAN /\ ForcedStop \in BOOLEAN

VARIABLES
  hasSink,      \* RTMPPublishSession::_sink is not null
  raised,       \* events raised to the application, in order
  sinkState,    \* RTMPPublisherSink::_sinkState
  streamState,  \* RTMPStreamSinkBase::_sinkState of each stream sink
  messenger,    \* RTMPPublisherSink::_rtmpMessenger: connected, unpublished or none
  network,      \* the connection under it
  clock,        \* the presentation clock
  sinkMutex,    \* holder of RTMPPublisherSink::SinkMutex
  lockSink,     \* holder of each stream sink's _lockSink
  requested,    \* stream sinks with an unanswered MEStreamSinkRequestSample
  delivered,    \* work items delivered to each stream so far
  queue,        \* the sink's serial work queue
  lastTS,       \* _lastDTS (video) or _lastPTS (audio): number of the last sample stamped
  sentTS,       \* number of the last sample written to the connection
  reported,     \* LastVideoTimestamp and LastAudioTimestamp of SessionClosed
  crash,        \* why the process died, or "none"
  pc

vars == <<hasSink, raised, sinkState, streamState, messenger, network, clock, sinkMutex,
          lockSink, requested, delivered, queue, lastTS, sentTS, reported, crash, pc>>
----------------------------------------------------------------------------
Feeder(s)   == <<"feeder", s>>
StopTask(s) == <<"stopTask", s>>
Worker      == <<"worker", "queue">>
Clock       == <<"clock", "sink">>
CloseTask   == <<"closeTask", "sink">>

\* Threads that can find a failure, and the task RaisePublishFailed creates for each.
Raisers     == ({"feeder"} \X Streams) \cup {Worker}
FailTask(t) == <<"failTask", t[2]>>

StopTasks == {"stopTask"} \X Streams
FailTasks == {"failTask"} \X (Streams \cup {"queue"})
Threads   == Raisers \cup StopTasks \cup FailTasks \cup {Clock, CloseTask}
NoThread  == <<"none", "none">>

SinkStates == {"UNINITIALIZED", "RUNNING", "EOS", "STOPPED", "SHUTDOWN"}
Items      == Streams \X {"sample", "marker"}

FeederRest == {"idle", "ended"}
RaiseSteps == {"rpfCheck", "rpfState", "eosAudio", "eosVideo", "eosOwn", "rpfTask"}
FeederSteps == FeederRest \cup {"mark"} \cup RaiseSteps
WorkerSteps == {"idle", "work", "stamped"} \cup RaiseSteps
ClockSteps  == {"idle", "startVideo", "startAudio", "started",
                "stopVideo", "stopOwn", "stopAgain", "stopClose", "stopped"}
StopSteps   == {"spcLock", "spcStreams", "spcUnpublish", "spcReset", "spcClock"}
CloseSteps  == {"clCheck", "clStamps", "clRaise", "clShutdown",
                "shutAudio", "shutVideo", "shutOwn", "clReset"}
TaskRest    == {"none", "done"}
Labels      == FeederSteps \cup WorkerSteps \cup ClockSteps \cup StopSteps \cup CloseSteps
                 \cup TaskRest \cup {"ftRaise", "ftClose"}

TypeOK ==
  /\ hasSink \in BOOLEAN
  /\ raised \in Seq({"PublishFailed", "SessionClosed"})
  /\ sinkState \in SinkStates
  /\ streamState \in [Streams -> SinkStates]
  /\ messenger \in {"connected", "unpublished", "none"}
  /\ network \in {"up", "down"}
  /\ clock \in {"invalid", "running", "stopping", "stopped"}
  /\ sinkMutex \in Threads \cup {NoThread}
  /\ lockSink \in [Streams -> Raisers \cup {NoThread}]
  /\ requested \in SUBSET Streams
  /\ delivered \in [Streams -> 0..MaxSamples]
  /\ queue \in Seq(Items)
  /\ lastTS \in [Streams -> Nat]
  /\ sentTS \in [Streams -> Nat]
  /\ reported \in [Streams -> Nat]
  /\ crash \in {"none", "nullSink", "nullMessenger", "unobserved"}
  /\ pc \in [Threads -> Labels]

\* The session has connected and handed its sink to the pipeline, which has set
\* the presentation clock and not started it yet.
Init ==
  /\ hasSink = TRUE
  /\ raised = <<>>
  /\ sinkState = "UNINITIALIZED"
  /\ streamState = [s \in Streams |-> "UNINITIALIZED"]
  /\ messenger = "connected"
  /\ network = "up"
  /\ clock = "invalid"
  /\ sinkMutex = NoThread
  /\ lockSink = [s \in Streams |-> NoThread]
  /\ requested = {}
  /\ delivered = [s \in Streams |-> 0]
  /\ queue = <<>>
  /\ lastTS = [s \in Streams |-> 0]
  /\ sentTS = [s \in Streams |-> 0]
  /\ reported = [s \in Streams |-> 0]
  /\ crash = "none"
  /\ pc = [t \in Threads |-> IF t[1] \in {"feeder", "worker", "clock"} THEN "idle" ELSE "none"]
----------------------------------------------------------------------------
Goto(t, label) == pc' = [pc EXCEPT ![t] = label]

\* Thread t reaches one of its labels and starts a task at another label.
Spawn(t, label, task, start) == pc' = [pc EXCEPT ![t] = label, ![task] = start]

Acquire(t) == sinkMutex = NoThread /\ sinkMutex' = t
Release    == sinkMutex' = NoThread

\* Death of the process, noticed on thread t.
Crash(why) == crash' = why

SetStream(s, state) ==
  streamState' = IF s \in Streams THEN [streamState EXCEPT ![s] = state] ELSE streamState
----------------------------------------------------------------------------
(* RTMPPublisherSink::OnClockStart. The first step is SetState(RUNNING): no     *)
(* other thread is active before a stream sink requests its first sample.       *)

OnClockStart ==
  /\ pc[Clock] = "idle"
  /\ Acquire(Clock)
  /\ clock' = "running"
  /\ streamState' = [s \in Streams |-> "RUNNING"]
  /\ sinkState' = "RUNNING"
  /\ Goto(Clock, "startVideo")
  /\ UNCHANGED <<hasSink, raised, messenger, network, lockSink, requested, delivered,
                 queue, lastTS, sentTS, reported, crash>>

\* StreamSinkClockStart of the video stream sink, then of the audio one.
StreamSinkClockStart(from, s, to) ==
  /\ pc[Clock] = from
  /\ SetStream(s, "RUNNING")
  /\ requested' = requested \cup ({s} \cap Streams)
  /\ sinkMutex' = IF to = "started" THEN NoThread ELSE sinkMutex
  /\ Goto(Clock, to)
  /\ UNCHANGED <<hasSink, raised, sinkState, messenger, network, clock, lockSink,
                 delivered, queue, lastTS, sentTS, reported, crash>>

\* The pipeline calls into a stream sink after that sink's clock start.
Started(s) ==
  pc[Clock] \notin {"idle", "startVideo"} \cup (IF s = "audio" THEN {"startAudio"} ELSE {})
----------------------------------------------------------------------------
(* ProcessSample of a stream sink of a standalone sink.                         *)

\* A stream sink that is not set up, stopped or shut down throws; the catch
\* clauses call RaisePublishFailed with the lock still held.
Refused(s) == streamState[s] \in {"UNINITIALIZED", "STOPPED", "SHUTDOWN"}

SampleArrives(s) ==
  /\ pc[Feeder(s)] = "idle"
  /\ Started(s)
  /\ s \in requested
  /\ delivered[s] < MaxSamples
  /\ lockSink[s] = NoThread
  /\ delivered' = [delivered EXCEPT ![s] = @ + 1]

ProcessSample(s) ==
  /\ SampleArrives(s)
  /\ streamState[s] = "RUNNING"
  /\ queue' = Append(queue, <<s, "sample">>)
  /\ UNCHANGED <<hasSink, raised, sinkState, streamState, messenger, network, clock,
                 sinkMutex, lockSink, requested, lastTS, sentTS, reported, crash, pc>>

\* At end of stream, and for a sample older than the start of the clock, the
\* sample is dropped and no other one is requested.
DropSample(s) ==
  /\ SampleArrives(s)
  /\ streamState[s] = "EOS" \/ (streamState[s] = "RUNNING" /\ delivered[s] = 0)
  /\ requested' = requested \ {s}
  /\ UNCHANGED <<hasSink, raised, sinkState, streamState, messenger, network, clock,
                 sinkMutex, lockSink, queue, lastTS, sentTS, reported, crash, pc>>

ProcessSampleFails(s) ==
  /\ SampleArrives(s)
  /\ Refused(s) \/ (streamState[s] = "RUNNING" /\ s \in FaultyStreams)
  /\ requested' = requested \ {s}
  /\ lockSink' = [lockSink EXCEPT ![s] = Feeder(s)]
  /\ Goto(Feeder(s), "rpfCheck")
  /\ UNCHANGED <<hasSink, raised, sinkState, streamState, messenger, network, clock,
                 sinkMutex, queue, lastTS, sentTS, reported, crash>>
----------------------------------------------------------------------------
(* PlaceMarker of a stream sink of a standalone sink.                           *)

\* A stream tick goes through the work queue like a sample.
PlaceTick(s) ==
  /\ pc[Feeder(s)] = "idle"
  /\ Started(s)
  /\ delivered[s] < MaxSamples
  /\ lockSink[s] = NoThread
  /\ ~Refused(s)
  /\ delivered' = [delivered EXCEPT ![s] = @ + 1]
  /\ queue' = Append(queue, <<s, "marker">>)
  /\ UNCHANGED <<hasSink, raised, sinkState, streamState, messenger, network, clock,
                 sinkMutex, lockSink, requested, lastTS, sentTS, reported, crash, pc>>

PlaceMarkerFails(s) ==
  /\ pc[Feeder(s)] = "idle"
  /\ Started(s)
  /\ delivered[s] < MaxSamples
  /\ lockSink[s] = NoThread
  /\ Refused(s)
  /\ delivered' = [delivered EXCEPT ![s] = @ + 1]
  /\ lockSink' = [lockSink EXCEPT ![s] = Feeder(s)]
  /\ Goto(Feeder(s), "rpfCheck")
  /\ UNCHANGED <<hasSink, raised, sinkState, streamState, messenger, network, clock,
                 sinkMutex, requested, queue, lastTS, sentTS, reported, crash>>

\* End of segment: the state is checked and then overwritten, under the
\* stream's lock alone, and StopPresentationClock runs in a task of its own.
PlaceEndOfSegment(s) ==
  /\ pc[Feeder(s)] = "idle"
  /\ Started(s)
  /\ lockSink[s] = NoThread
  /\ ~Refused(s)
  /\ lockSink' = [lockSink EXCEPT ![s] = Feeder(s)]
  /\ Goto(Feeder(s), "mark")
  /\ UNCHANGED <<hasSink, raised, sinkState, streamState, messenger, network, clock,
                 sinkMutex, requested, delivered, queue, lastTS, sentTS, reported, crash>>

MarkEndOfSegment(s) ==
  /\ pc[Feeder(s)] = "mark"
  /\ SetStream(s, "EOS")
  /\ lockSink' = [lockSink EXCEPT ![s] = NoThread]
  /\ Spawn(Feeder(s), "ended", StopTask(s), "spcLock")
  /\ UNCHANGED <<hasSink, raised, sinkState, messenger, network, clock, sinkMutex,
                 requested, delivered, queue, lastTS, sentTS, reported, crash>>
----------------------------------------------------------------------------
(* RTMPStreamSinkBase::Invoke and CompleteProcessNextWorkitem: the first item   *)
(* of the serial queue, under the lock of its stream.                           *)

NextStream == Head(queue)[1]

\* A stream that is not running drops its queued items; a tick writes nothing.
DropItem ==
  /\ pc[Worker] = "idle" /\ queue # <<>>
  /\ lockSink[NextStream] = NoThread
  /\ streamState[NextStream] # "RUNNING" \/ Head(queue)[2] = "marker"
  /\ queue' = Tail(queue)
  /\ UNCHANGED <<hasSink, raised, sinkState, streamState, messenger, network, clock,
                 sinkMutex, lockSink, requested, delivered, lastTS, sentTS, reported,
                 crash, pc>>

\* Mutant: the item is written whatever the state of its stream.
BeginItem_any_state ==
  /\ pc[Worker] = "idle" /\ queue # <<>>
  /\ lockSink[NextStream] = NoThread
  /\ Head(queue)[2] = "sample"
  /\ queue' = Tail(queue)
  /\ lockSink' = [lockSink EXCEPT ![NextStream] = Worker]
  /\ Goto(Worker, "work")
  /\ UNCHANGED <<hasSink, raised, sinkState, streamState, messenger, network, clock,
                 sinkMutex, requested, delivered, lastTS, sentTS, reported, crash>>

BeginItem ==
  /\ pc[Worker] = "idle" /\ queue # <<>>
  /\ lockSink[NextStream] = NoThread
  /\ streamState[NextStream] = "RUNNING" /\ Head(queue)[2] = "sample"
  /\ queue' = Tail(queue)
  /\ lockSink' = [lockSink EXCEPT ![NextStream] = Worker]
  /\ Goto(Worker, "work")
  /\ UNCHANGED <<hasSink, raised, sinkState, streamState, messenger, network, clock,
                 sinkMutex, requested, delivered, lastTS, sentTS, reported, crash>>

\* PrepareTimestamps: samples are numbered, the number stands for the time stamp.
PrepareTimestamps(s) ==
  /\ pc[Worker] = "work" /\ lockSink[s] = Worker
  /\ lastTS' = [lastTS EXCEPT ![s] = @ + 1]
  /\ Goto(Worker, "stamped")
  /\ UNCHANGED <<hasSink, raised, sinkState, streamState, messenger, network, clock,
                 sinkMutex, lockSink, requested, delivered, queue, sentTS, reported, crash>>

\* GetMessenger()->QueueAudioVideoMessage, which waits for the write.
QueueAudioVideoMessage(s) ==
  /\ pc[Worker] = "stamped" /\ lockSink[s] = Worker
  /\ messenger # "none" /\ network = "up"
  /\ sentTS' = [sentTS EXCEPT ![s] = lastTS[s]]
  /\ lockSink' = [lockSink EXCEPT ![s] = NoThread]
  /\ Goto(Worker, "idle")
  /\ UNCHANGED <<hasSink, raised, sinkState, streamState, messenger, network, clock,
                 sinkMutex, requested, delivered, queue, lastTS, reported, crash>>

QueueAudioVideoMessageFails(s) ==
  /\ pc[Worker] = "stamped" /\ lockSink[s] = Worker
  /\ messenger # "none" /\ network = "down"
  /\ Goto(Worker, "rpfCheck")
  /\ UNCHANGED <<hasSink, raised, sinkState, streamState, messenger, network, clock,
                 sinkMutex, lockSink, requested, delivered, queue, lastTS, sentTS,
                 reported, crash>>

\* The messenger is gone: a call through a null pointer.
QueueAudioVideoMessageCrashes(s) ==
  /\ pc[Worker] = "stamped" /\ lockSink[s] = Worker
  /\ messenger = "none"
  /\ Crash("nullMessenger")
  /\ UNCHANGED <<hasSink, raised, sinkState, streamState, messenger, network, clock,
                 sinkMutex, lockSink, requested, delivered, queue, lastTS, sentTS,
                 reported, pc>>
----------------------------------------------------------------------------
(* RTMPPublishSession::RaisePublishFailed on thread t, which holds the lock of  *)
(* its stream: the null check, the state check, and only then the three writes  *)
(* of SetState(EOS), the last of which makes later calls return.                *)

\* Return from RaisePublishFailed and from the call that failed.
ReturnFailed(t) ==
  /\ lockSink' = [s \in Streams |-> IF lockSink[s] = t THEN NoThread ELSE lockSink[s]]
  /\ Goto(t, "idle")

RpfCheckSink(t) ==
  /\ pc[t] = "rpfCheck"
  /\ \/ hasSink /\ Goto(t, "rpfState") /\ UNCHANGED lockSink
     \/ ~hasSink /\ ReturnFailed(t)
  /\ UNCHANGED <<hasSink, raised, sinkState, streamState, messenger, network, clock,
                 sinkMutex, requested, delivered, queue, lastTS, sentTS, reported, crash>>

\* Mutant: a failure is raised whatever the state of the sink.
RpfCheckState_any(t) ==
  /\ pc[t] = "rpfState" /\ hasSink
  /\ Goto(t, "eosAudio")
  /\ UNCHANGED <<hasSink, raised, sinkState, streamState, messenger, network, clock, lockSink,
                 sinkMutex, requested, delivered, queue, lastTS, sentTS, reported, crash>>

RpfCheckState(t) ==
  /\ pc[t] = "rpfState" /\ hasSink
  /\ \/ sinkState = "RUNNING" /\ Goto(t, "eosAudio") /\ UNCHANGED lockSink
     \/ sinkState # "RUNNING" /\ ReturnFailed(t)
  /\ UNCHANGED <<hasSink, raised, sinkState, streamState, messenger, network, clock,
                 sinkMutex, requested, delivered, queue, lastTS, sentTS, reported, crash>>

RpfSetStream(t, from, s, to) ==
  /\ pc[t] = from
  /\ SetStream(s, "EOS")
  /\ Goto(t, to)
  /\ UNCHANGED <<hasSink, raised, sinkState, messenger, network, clock, sinkMutex, lockSink,
                 requested, delivered, queue, lastTS, sentTS, reported, crash>>

RpfSetSink(t) ==
  /\ pc[t] = "eosOwn"
  /\ sinkState' = "EOS"
  /\ Goto(t, "rpfTask")
  /\ UNCHANGED <<hasSink, raised, streamState, messenger, network, clock, sinkMutex, lockSink,
                 requested, delivered, queue, lastTS, sentTS, reported, crash>>

RpfCreateTask(t) ==
  /\ pc[t] = "rpfTask"
  /\ lockSink' = [s \in Streams |-> IF lockSink[s] = t THEN NoThread ELSE lockSink[s]]
  /\ Spawn(t, "idle", FailTask(t), "ftRaise")
  /\ UNCHANGED <<hasSink, raised, sinkState, streamState, messenger, network, clock,
                 sinkMutex, requested, delivered, queue, lastTS, sentTS, reported, crash>>

RaisePublishFailed(t) ==
  \/ RpfCheckSink(t) \/ RpfCheckState(t)
  \/ RpfSetStream(t, "eosAudio", "audio", "eosVideo")
  \/ RpfSetStream(t, "eosVideo", "video", "eosOwn")
  \/ RpfSetSink(t) \/ RpfCreateTask(t)
----------------------------------------------------------------------------
(* The task of RaisePublishFailed: the event, then Close(true).                 *)

FailTaskRaises(t) ==
  /\ pc[t] = "ftRaise"
  /\ raised' = Append(raised, "PublishFailed")
  /\ Goto(t, "ftClose")
  /\ UNCHANGED <<hasSink, sinkState, streamState, messenger, network, clock, sinkMutex, lockSink,
                 requested, delivered, queue, lastTS, sentTS, reported, crash>>

FailTaskCloses(t) ==
  /\ pc[t] = "ftClose" /\ hasSink
  /\ Goto(t, "spcLock")
  /\ UNCHANGED <<hasSink, raised, sinkState, streamState, messenger, network, clock, sinkMutex,
                 lockSink, requested, delivered, queue, lastTS, sentTS, reported, crash>>

\* The places where _sink is used with no null check, or long after one.
UseOfNullSink(t) ==
  /\ pc[t] \in {"rpfState", "ftClose", "clStamps", "clShutdown"} /\ ~hasSink
  /\ Crash("nullSink")
  /\ UNCHANGED <<hasSink, raised, sinkState, streamState, messenger, network, clock, sinkMutex,
                 lockSink, requested, delivered, queue, lastTS, sentTS, reported, pc>>
----------------------------------------------------------------------------
(* RTMPPublisherSink::StopPresentationClock of a standalone sink, on task t.    *)

\* Where the caller goes on: a task of PlaceMarker ends, Close(true) runs on.
\* Mutants: Close returns when there was nothing to stop; every stop goes on to close.
AfterStop_returns(t) == "done"
AfterStop_closes(t) == "clCheck"

AfterStop(t) == IF t \in StopTasks THEN "done" ELSE "clCheck"

SpcLock(t) ==
  /\ pc[t] = "spcLock"
  /\ sinkMutex = NoThread
  /\ \/ sinkState = "RUNNING" /\ sinkMutex' = t /\ Goto(t, "spcStreams")
     \/ sinkState # "RUNNING" /\ UNCHANGED sinkMutex /\ Goto(t, AfterStop(t))
  /\ UNCHANGED <<hasSink, raised, sinkState, streamState, messenger, network, clock, lockSink,
                 requested, delivered, queue, lastTS, sentTS, reported, crash>>

\* Mutant: one stream at its end is enough.
AllAtEndOfSegment_any == \E s \in Streams : streamState[s] = "EOS"

AllAtEndOfSegment == \A s \in Streams : streamState[s] = "EOS"

SpcCheckStreams(t) ==
  /\ pc[t] = "spcStreams"
  /\ \/ /\ AllAtEndOfSegment
        /\ UNCHANGED sinkMutex
        /\ Goto(t, IF messenger = "none" THEN "spcClock" ELSE "spcUnpublish")
     \/ ~AllAtEndOfSegment /\ Release /\ Goto(t, AfterStop(t))
  /\ UNCHANGED <<hasSink, raised, sinkState, streamState, messenger, network, clock, lockSink,
                 requested, delivered, queue, lastTS, sentTS, reported, crash>>

\* CloseAsync().get(): the FCUnpublish and closeStream commands.
SpcUnpublish(t) ==
  /\ pc[t] = "spcUnpublish" /\ network = "up"
  /\ messenger' = "unpublished"
  /\ Goto(t, "spcReset")
  /\ UNCHANGED <<hasSink, raised, sinkState, streamState, network, clock, sinkMutex, lockSink,
                 requested, delivered, queue, lastTS, sentTS, reported, crash>>

\* get() throws, nothing in the task catches it and nobody observes the task.
SpcUnpublishFails(t) ==
  /\ pc[t] = "spcUnpublish" /\ network = "down"
  /\ Crash("unobserved")
  /\ UNCHANGED <<hasSink, raised, sinkState, streamState, messenger, network, clock, sinkMutex,
                 lockSink, requested, delivered, queue, lastTS, sentTS, reported, pc>>

\* Disconnect, and the reset of the pointer.
SpcDisconnect(t) ==
  /\ pc[t] = "spcReset"
  /\ messenger' = "none"
  /\ Goto(t, "spcClock")
  /\ UNCHANGED <<hasSink, raised, sinkState, streamState, network, clock, sinkMutex, lockSink,
                 requested, delivered, queue, lastTS, sentTS, reported, crash>>

\* _clock->Stop(), a no-op for a clock that is stopped; the clock notifies the
\* sink (OnClockStop) on its own thread, at once or later.
\* Mutant: the test of the clock's state inverted.
SpcStopClock_inverted(t) ==
  /\ pc[t] = "spcClock"
  /\ clock' = IF clock = "invalid" THEN "stopping" ELSE clock
  /\ Release
  /\ Goto(t, AfterStop(t))
  /\ UNCHANGED <<hasSink, raised, sinkState, streamState, messenger, network, lockSink,
                 requested, delivered, queue, lastTS, sentTS, reported, crash>>

SpcStopClock(t) ==
  /\ pc[t] = "spcClock"
  /\ clock' = IF clock = "running" THEN "stopping" ELSE clock
  /\ Release
  /\ Goto(t, AfterStop(t))
  /\ UNCHANGED <<hasSink, raised, sinkState, streamState, messenger, network, lockSink,
                 requested, delivered, queue, lastTS, sentTS, reported, crash>>

StopPresentationClock(t) ==
  \/ SpcLock(t) \/ SpcCheckStreams(t) \/ SpcUnpublish(t) \/ SpcUnpublishFails(t)
  \/ SpcDisconnect(t) \/ SpcStopClock(t)
----------------------------------------------------------------------------
(* RTMPPublisherSink::OnClockStop of a standalone sink: SetState(STOPPED) with  *)
(* SinkMutex held, StreamSinkClockStop of both stream sinks, then Close().      *)

ClockStopSetStream(from, s, to) ==
  /\ pc[Clock] = from
  /\ IF from = "started" THEN clock = "stopping" /\ Acquire(Clock) ELSE UNCHANGED sinkMutex
  /\ SetStream(s, "STOPPED")
  /\ Goto(Clock, to)
  /\ UNCHANGED <<hasSink, raised, sinkState, messenger, network, clock, lockSink, requested,
                 delivered, queue, lastTS, sentTS, reported, crash>>

\* Mutants: a state the type does not have, and a sink whose own state is forgotten.
ClockStopSetSink_paused ==
  /\ pc[Clock] = "stopOwn"
  /\ sinkState' = "PAUSED"
  /\ Goto(Clock, "stopAgain")
  /\ UNCHANGED <<hasSink, raised, streamState, messenger, network, clock, sinkMutex, lockSink,
                 requested, delivered, queue, lastTS, sentTS, reported, crash>>
ClockStopSetSink_forgotten ==
  /\ pc[Clock] = "stopOwn"
  /\ Goto(Clock, "stopAgain")
  /\ UNCHANGED <<hasSink, raised, sinkState, streamState, messenger, network, clock, sinkMutex,
                 lockSink, requested, delivered, queue, lastTS, sentTS, reported, crash>>

ClockStopSetSink ==
  /\ pc[Clock] = "stopOwn"
  /\ sinkState' = "STOPPED"
  /\ Goto(Clock, "stopAgain")
  /\ UNCHANGED <<hasSink, raised, streamState, messenger, network, clock, sinkMutex, lockSink,
                 requested, delivered, queue, lastTS, sentTS, reported, crash>>

StreamSinkClockStop ==
  /\ pc[Clock] = "stopAgain"
  /\ streamState' = [s \in Streams |-> "STOPPED"]
  /\ Goto(Clock, "stopClose")
  /\ UNCHANGED <<hasSink, raised, sinkState, messenger, network, clock, sinkMutex, lockSink,
                 requested, delivered, queue, lastTS, sentTS, reported, crash>>

ClockStopCloses ==
  /\ pc[Clock] = "stopClose"
  /\ clock' = "stopped"
  /\ Release
  /\ Spawn(Clock, "stopped", CloseTask, "clCheck")
  /\ UNCHANGED <<hasSink, raised, sinkState, streamState, messenger, network, lockSink,
                 requested, delivered, queue, lastTS, sentTS, reported, crash>>

OnClockStop ==
  \/ ClockStopSetStream("started", "audio", "stopVideo")
  \/ ClockStopSetStream("stopVideo", "video", "stopOwn")
  \/ ClockStopSetSink \/ StreamSinkClockStop \/ ClockStopCloses
----------------------------------------------------------------------------
(* CloseLogic of RTMPPublishSession::Close, on the close task or a fail task:   *)
(* no lock is held, and _sink is read again at each step.                       *)

CloseCheck(t) ==
  /\ pc[t] = "clCheck"
  /\ Goto(t, IF hasSink THEN "clStamps" ELSE "done")
  /\ UNCHANGED <<hasSink, raised, sinkState, streamState, messenger, network, clock, sinkMutex,
                 lockSink, requested, delivered, queue, lastTS, sentTS, reported, crash>>

\* GetLastPTS of the audio sink and GetLastDTS of the video sink.
CloseReadTimestamps(t) ==
  /\ pc[t] = "clStamps" /\ hasSink
  /\ reported' = lastTS
  /\ Goto(t, "clRaise")
  /\ UNCHANGED <<hasSink, raised, sinkState, streamState, messenger, network, clock, sinkMutex,
                 lockSink, requested, delivered, queue, lastTS, sentTS, crash>>

RaiseSessionClosed(t) ==
  /\ pc[t] = "clRaise"
  /\ raised' = Append(raised, "SessionClosed")
  /\ Goto(t, "clShutdown")
  /\ UNCHANGED <<hasSink, sinkState, streamState, messenger, network, clock, sinkMutex, lockSink,
                 requested, delivered, queue, lastTS, sentTS, reported, crash>>

CloseCallsShutdown(t) ==
  /\ pc[t] = "clShutdown" /\ hasSink
  /\ Goto(t, "shutAudio")
  /\ UNCHANGED <<hasSink, raised, sinkState, streamState, messenger, network, clock, sinkMutex,
                 lockSink, requested, delivered, queue, lastTS, sentTS, reported, crash>>

\* RTMPPublisherSink::Shutdown: SetState(SHUTDOWN) with SinkMutex held.
ShutdownSetStream(t, from, s, to) ==
  /\ pc[t] = from
  /\ IF from = "shutAudio" THEN Acquire(t) ELSE UNCHANGED sinkMutex
  /\ SetStream(s, "SHUTDOWN")
  /\ Goto(t, to)
  /\ UNCHANGED <<hasSink, raised, sinkState, messenger, network, clock, lockSink, requested,
                 delivered, queue, lastTS, sentTS, reported, crash>>

ShutdownSetSink(t) ==
  /\ pc[t] = "shutOwn"
  /\ sinkState' = "SHUTDOWN"
  /\ Release
  /\ Goto(t, "clReset")
  /\ UNCHANGED <<hasSink, raised, streamState, messenger, network, clock, lockSink, requested,
                 delivered, queue, lastTS, sentTS, reported, crash>>

Shutdown(t) ==
  \/ ShutdownSetStream(t, "shutAudio", "audio", "shutVideo")
  \/ ShutdownSetStream(t, "shutVideo", "video", "shutOwn")
  \/ ShutdownSetSink(t)

CloseResetsSink(t) ==
  /\ pc[t] = "clReset"
  /\ hasSink' = FALSE
  /\ Goto(t, "done")
  /\ UNCHANGED <<raised, sinkState, streamState, messenger, network, clock, sinkMutex, lockSink,
                 requested, delivered, queue, lastTS, sentTS, reported, crash>>

Close(t) ==
  \/ CloseCheck(t) \/ CloseReadTimestamps(t) \/ RaiseSessionClosed(t)
  \/ CloseCallsShutdown(t) \/ Shutdown(t) \/ CloseResetsSink(t)
----------------------------------------------------------------------------
(* The world around the sink.                                                   *)

ConnectionBreaks ==
  /\ NetMayFail /\ network = "up"
  /\ network' = "down"
  /\ UNCHANGED <<hasSink, raised, sinkState, streamState, messenger, clock, sinkMutex, lockSink,
                 requested, delivered, queue, lastTS, sentTS, reported, crash, pc>>

\* The pipeline stops the clock without an end of segment, as it does when the
\* capture is torn down.
PipelineStopsClock ==
  /\ ForcedStop /\ clock = "running"
  /\ clock' = "stopping"
  /\ UNCHANGED <<hasSink, raised, sinkState, streamState, messenger, network, sinkMutex, lockSink,
                 requested, delivered, queue, lastTS, sentTS, reported, crash, pc>>

FeederDelivers(s) ==
  \/ ProcessSample(s) \/ DropSample(s) \/ ProcessSampleFails(s)
  \/ PlaceTick(s) \/ PlaceMarkerFails(s) \/ PlaceEndOfSegment(s)

Environment ==
  \/ OnClockStart \/ ConnectionBreaks \/ PipelineStopsClock
  \/ \E s \in Streams : FeederDelivers(s)

WorkerStep ==
  \/ DropItem \/ BeginItem
  \/ \E s \in Streams :
       \/ PrepareTimestamps(s) \/ QueueAudioVideoMessage(s)
       \/ QueueAudioVideoMessageFails(s) \/ QueueAudioVideoMessageCrashes(s)

ClockStep ==
  \/ StreamSinkClockStart("startVideo", "video", "startAudio")
  \/ StreamSinkClockStart("startAudio", "audio", "started")
  \/ OnClockStop

RaiserStep(t) == RaisePublishFailed(t) \/ UseOfNullSink(t)
TaskStep(t) ==
  \/ FailTaskRaises(t) \/ FailTaskCloses(t) \/ StopPresentationClock(t)
  \/ Close(t) \/ UseOfNullSink(t)

\* What the threads of the library do, once called.
LibraryStep ==
  \/ WorkerStep \/ ClockStep
  \/ \E s \in Streams : MarkEndOfSegment(s)
  \/ \E t \in Raisers : RaiserStep(t)
  \/ \E t \in StopTasks \cup FailTasks \cup {CloseTask} : TaskStep(t)

\* Nothing is left to do but calls the pipeline may or may not make.
AtRest ==
  /\ \A t \in Threads : pc[t] \in FeederRest \cup TaskRest \cup {"started", "stopped"}
  /\ queue = <<>> /\ clock # "stopping"
  /\ UNCHANGED vars

Next ==
  \/ crash = "none" /\ (Environment \/ LibraryStep \/ AtRest)
  \/ crash # "none" /\ UNCHANGED vars

\* The operating system schedules every thread that can run; nothing obliges the
\* pipeline, the network or the application.
Fairness ==
  /\ WF_vars(crash = "none" /\ WorkerStep)
  /\ WF_vars(crash = "none" /\ ClockStep)
  /\ \A s \in Streams : WF_vars(crash = "none" /\ MarkEndOfSegment(s))
  /\ \A t \in Raisers : WF_vars(crash = "none" /\ RaiserStep(t))
  /\ \A t \in StopTasks \cup FailTasks \cup {CloseTask} : WF_vars(crash = "none" /\ TaskStep(t))

SafeSpec == Init /\ [][Next]_vars
Spec == SafeSpec /\ Fairness
----------------------------------------------------------------------------
(* Properties.                                                                  *)

\* A sample the worker has begun always finds the messenger connected: the
\* stream is closed only when no stream can still write. SinkMutex does not
\* protect the messenger from the worker; the end-of-segment states do.
MessengerOutlivesWork == pc[Worker] \in {"work", "stamped"} => messenger = "connected"

\* SessionClosed is never raised while the sink is still running.
ClosedSinkNotRunning ==
  (\E i \in DOMAIN raised : raised[i] = "SessionClosed") => sinkState # "RUNNING"

\* The inductive invariant behind the three properties around it, by parts.

\* Each thread is at one of its own labels; a fail task never gets past the lock
\* of StopPresentationClock, because the sink is no longer running.
LabelsOK ==
  /\ pc[Worker] \in WorkerSteps /\ pc[Clock] \in ClockSteps
  /\ \A s \in Streams : pc[Feeder(s)] \in FeederSteps
  /\ \A t \in StopTasks : pc[t] \in TaskRest \cup StopSteps
  /\ \A t \in FailTasks : pc[t] \in TaskRest \cup CloseSteps \cup {"ftRaise", "ftClose", "spcLock"}
  /\ pc[CloseTask] \in TaskRest \cup CloseSteps

\* Nobody acts before the clock starts.
NothingBeforeStart ==
  pc[Clock] = "idle" =>
    /\ messenger = "connected" /\ queue = <<>> /\ raised = <<>>
    /\ \A t \in Threads : pc[t] \in {"idle", "none"}

\* Who holds the lock of a stream at which label.
LocksHeld ==
  /\ \A s \in Streams : pc[Feeder(s)] \notin FeederRest => lockSink[s] = Feeder(s)
  /\ pc[Worker] # "idle" => \E s \in Streams : lockSink[s] = Worker
  /\ \A s \in Streams : lockSink[s] = Worker => pc[Worker] # "idle"
  /\ \A s, r \in Streams : lockSink[s] = Worker /\ lockSink[r] = Worker => s = r

\* The labels between taking SinkMutex and releasing it.
MutexSteps == (StopSteps \ {"spcLock"}) \cup (ClockSteps \ {"idle", "started", "stopped"})
                \cup {"shutVideo", "shutOwn"}
MutexHeld == \A t \in Threads : pc[t] \in MutexSteps => sinkMutex = t

\* A stream that was told its end does not run again, and has its stop task.
EndedStreams ==
  \A s \in Streams :
    /\ pc[Feeder(s)] # "idle" => Started(s)
    /\ pc[StopTask(s)] # "none" <=> pc[Feeder(s)] = "ended"
    /\ pc[Feeder(s)] = "ended" => streamState[s] # "RUNNING"

\* From the end of SetState on, the sink stays out of RUNNING.
SinkLeftRunning ==
  /\ \A t \in Raisers : pc[t] = "rpfTask" => sinkState # "RUNNING"
  /\ \A t \in FailTasks \cup {CloseTask} : pc[t] # "none" => sinkState # "RUNNING"
  /\ pc[Clock] \in {"stopAgain", "stopClose", "stopped"} => sinkState # "RUNNING"

\* The stream of the item at work is at its end only by the failure of the other
\* stream, and then the stop tasks find the sink, or a stream, not ready.
WorkProtected ==
  pc[Worker] \in {"work", "stamped"} =>
    \A s \in Streams : lockSink[s] = Worker =>
      /\ pc[Feeder(s)] # "ended"
      /\ streamState[s] = "EOS" =>
           /\ \A t \in StopTasks : pc[t] # "spcStreams"
           /\ \/ sinkState # "RUNNING"
              \/ \E r \in Streams \ {s} : pc[Feeder(r)] \in {"eosVideo", "eosOwn"}

\* From the decision to unpublish on, no stream runs and no item is at work.
Unpublishing ==
  /\ messenger = "unpublished" <=> \E t \in StopTasks : pc[t] = "spcReset"
  /\ \A t \in StopTasks : pc[t] = "spcUnpublish" =>
       messenger = "connected" /\ \A s \in Streams : streamState[s] = "EOS"
  /\ (messenger # "connected" \/ \E t \in StopTasks : pc[t] = "spcUnpublish") =>
       /\ pc[Worker] \notin {"work", "stamped"}
       /\ pc[Clock] \notin {"idle", "startVideo", "startAudio"}
       /\ \A s \in Streams : streamState[s] # "RUNNING"

IInv ==
  /\ TypeOK /\ LabelsOK /\ NothingBeforeStart /\ LocksHeld /\ MutexHeld
  /\ EndedStreams /\ SinkLeftRunning /\ WorkProtected /\ Unpublishing /\ ClosedSinkNotRunning

\* The unpublish commands are written once, when every stream has ended and with
\* the sink locked.
UnpublishAtEnd ==
  [][messenger' = "unpublished" =>
       /\ messenger = "connected" /\ sinkMutex \in StopTasks
       /\ \A s \in Streams : streamState[s] = "EOS"]_messenger

\* The process survives.
NoCrash == crash = "none"

\* The time stamps of SessionClosed are those of the last packets sent
\* (src/README.md: "the timestamps attached to the last video and audio RTMP
\* packets sent to the Azure endpoint before the session ended").
ReportedIsLastSent ==
  (\E i \in DOMAIN raised : raised[i] = "SessionClosed") => reported = sentTS

\* raised as a phase of the contract; "broken" for every order it rules out.
Phase ==
  CASE raised = <<>> -> "open"
    [] raised = <<"PublishFailed">> -> "failed"
    [] raised \in {<<"SessionClosed">>, <<"PublishFailed", "SessionClosed">>} -> "closed"
    [] OTHER -> "broken"

Contract == INSTANCE SessionContract WITH phase <- Phase

\* The session keeps its promise to the application.
ContractKept == Contract!Spec

\* When every stream has been told its end, the session is closed.
StopCompletes == (\A s \in Streams : pc[Feeder(s)] = "ended") ~> (Phase = "closed")

\* A failure that was announced ends the session, unless the process dies first.
FailureCloses ==
  (\E i \in DOMAIN raised : raised[i] = "PublishFailed") ~>
    (crash # "none" \/ \E i \in DOMAIN raised : raised[i] = "SessionClosed")

\* "raise only once" (RTMPPublishSession.cpp, RaisePublishFailed).
RaiseOnlyOnce == ~\E i, j \in DOMAIN raised : i # j /\ raised[i] = "PublishFailed" /\ raised[j] = "PublishFailed"
----------------------------------------------------------------------------
(* The inductive invariant, on top of IInv, of a session in which nothing fails *)
(* and the pipeline stops the clock by the ends of segment alone.               *)

Orderly == FaultyStreams = {} /\ NetMayFail = FALSE /\ ForcedStop = FALSE

NothingFailed ==
  /\ network = "up" /\ crash = "none"
  /\ \A t \in Raisers : pc[t] \notin RaiseSteps
  /\ \A t \in FailTasks : pc[t] = "none"

\* A stream is at its end because the pipeline said so, and is stopped after all are.
StopBegun ==
  \/ \E t \in StopTasks : pc[t] \in {"spcUnpublish", "spcReset", "spcClock"}
  \/ clock \in {"stopping", "stopped"}
EndsInOrder ==
  /\ \A s \in Streams : /\ streamState[s] = "EOS" => pc[Feeder(s)] = "ended"
                        /\ streamState[s] = "UNINITIALIZED" => pc[Clock] = "idle"
                        /\ streamState[s] \in {"STOPPED", "SHUTDOWN"} => StopBegun
  /\ StopBegun => \A s \in Streams : pc[Feeder(s)] = "ended"

\* The clock is stopped after the messenger is gone, and the session closed after that.
ClockLast ==
  /\ pc[Clock] = "idle" <=> clock = "invalid"
  /\ pc[Clock] \in {"stopVideo", "stopOwn", "stopAgain", "stopClose"} => clock = "stopping"
  /\ pc[Clock] = "stopped" <=> clock = "stopped"
  /\ pc[CloseTask] # "none" <=> clock = "stopped"
  /\ clock \in {"stopping", "stopped"} \/ (\E t \in StopTasks : pc[t] = "spcClock") =>
       messenger = "none"

\* A time stamp that is not on its way was sent, and is the one that is reported.
BeforeStamps == {"none", "clCheck", "clStamps"}
LastSent ==
  /\ \A s \in Streams : lastTS[s] = sentTS[s] \/ (pc[Worker] = "stamped" /\ lockSink[s] = Worker)
  /\ pc[CloseTask] \notin BeforeStamps => reported = lastTS

\* CloseTask alone closes, and so the sink is there until its last step.
ClosedByTask ==
  /\ ~hasSink => pc[CloseTask] = "done"
  /\ raised = IF pc[CloseTask] \in BeforeStamps \cup {"clRaise"} THEN <<>> ELSE <<"SessionClosed">>

OrderlyInv == NothingFailed /\ EndsInOrder /\ ClockLast /\ LastSent /\ ClosedByTask
----------------------------------------------------------------------------
(* The inductive invariant, on top of IInv and ClockLast, of a session of one   *)
(* stream in which everything may fail, and the pipeline stops the clock by the *)
(* end of segment alone.                                                        *)

OneStream == ForcedStop = FALSE /\ \A s, r \in Streams : s = r

\* Threads that close the session, and their labels behind each of the two events.
Closers == FailTasks \cup {CloseTask}
AfterFailed == CloseSteps \cup {"ftClose", "spcLock", "done"}
AfterClosed == {"clShutdown", "shutAudio", "shutVideo", "shutOwn", "clReset", "done"}

\* One thread closes the session, and a thread that is about to announce a failure
\* meets a sink that no other one has taken out of RUNNING.
OneCloser ==
  /\ \A t, u \in Closers : pc[t] # "none" /\ pc[u] # "none" => t = u
  /\ \A t \in Raisers : pc[t] \in {"eosAudio", "eosVideo", "eosOwn"} => sinkState = "RUNNING"
  /\ \A t \in Raisers : pc[t] = "rpfTask" => \A u \in Closers : pc[u] = "none"

\* Nothing is at work after the end of the stream, and a stop that goes past the
\* check of the sink's state had no failure before it.
EndIsQuiet ==
  /\ \A s \in Streams : pc[Feeder(s)] = "ended" => pc[Worker] = "idle"
  /\ (\E t \in StopTasks : pc[t] \in StopSteps \ {"spcLock"}) \/ clock \in {"stopping", "stopped"} =>
       /\ \A s \in Streams : pc[Feeder(s)] = "ended"
       /\ \A u \in FailTasks : pc[u] = "none"

\* The events so far are told by where the closing thread is.
Announced == \E t \in FailTasks : pc[t] \in AfterFailed
ClosedBehind == \E t \in Closers : pc[t] \in AfterClosed
RaisedInOrder ==
  /\ ~hasSink => \E t \in Closers : pc[t] = "done"
  /\ ~Announced /\ ~ClosedBehind => raised = <<>>
  /\ Announced /\ ~ClosedBehind => raised = <<"PublishFailed">>
  /\ ~Announced /\ ClosedBehind => raised = <<"SessionClosed">>
  /\ Announced /\ ClosedBehind => raised = <<"PublishFailed", "SessionClosed">>

\* What holds of such a session: the clock stops last, one thread closes, the end of
\* the stream is quiet, and the events are raised once each and in order.
OneStreamInv == ClockLast /\ OneCloser /\ EndIsQuiet /\ RaisedInOrder
=============================================================================
