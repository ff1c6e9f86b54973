--------------------------- MODULE AggregateSession ---------------------------
(***************************************************************************)
(* A publish session with several target profiles. The sink handed to the  *)
(* pipeline is an aggregating parent; each profile has a child sink and a  *)
(* sink writer that encodes for it. The parent's stream sinks pass what    *)
(* they are given to every writer, the writers feed the children, and each *)
(* child stops by itself; the last one to stop has to stop the parent.     *)
(*                                                                         *)
(* Every sink of the session has its own clock, but all stops take the     *)
(* parent's SinkMutex. A stretch of code under that mutex which touches    *)
(* only what is never touched without it (the states and the messengers of *)
(* the children) is one step. What the pipeline and RaisePublishFailed     *)
(* change without it (the states of the parent and of its stream sinks)    *)
(* divides the rest. SetState of the parent is one step here; its writes   *)
(* are steps of their own in PublishSession.                               *)
(*                                                                         *)
(* Threads: Feeder(s), the pipeline's calls into the parent's stream sink  *)
(* s; Caller, the application that connects the session and then the       *)
(* parent's clock; ChildFeeder(c, s), a sample of child c at work under    *)
(* the lock of its stream sink s; StopTask(c, s), the task the end of      *)
(* stream s of child c creates; ChildClock(c), OnClockStop of child c;     *)
(* FailTask(t), the task of RaisePublishFailed called on t; CloseTask, the *)
(* task of Close.                                                          *)
(***************************************************************************)
EXTENDS Naturals, Sequences

CONSTANTS
  N,              \* number of target profiles
  Streams,        \* the streams of every profile
  FaultyChildren, \* children whose connection, samples and unpublish may fail
  FaultyWriters,  \* children whose sink writer may stop working
  Hasty           \* whether an end of segment may reach the parent before its writers have
                  \* begun, and a child before the parent's stream is marked

ASSUME NAssumption == N \in Nat /\ N > 1
ASSUME StreamsAssumption == Streams \in SUBSET {"audio", "video"} /\ Streams # {}
ASSUME EnvironmentAssumption ==
  /\ FaultyChildren \subseteq 1..N /\ FaultyWriters \subseteq 1..N
  /\ Hasty \in BOOLEAN

VARIABLES
  hasSink,     \* RTMPPublishSession::_sink is not null
  raised,      \* events raised to the application, in order
  sinkState,   \* _sinkState of the parent
  streamState, \* _sinkState of each of its stream sinks
  clock,       \* the parent's presentation clock
  sinkMutex,   \* holder of the parent's SinkMutex
  attached,    \* children whose ProfileState still has its DelegateSink and DelegateWriter
  writer,      \* the sink writer of each child
  notified,    \* the streams each writer was told the end of
  childState,  \* _sinkState of each child
  childEnded,  \* the stream sinks of each child at end of segment
  childClock,  \* the presentation clock of each child
  published,   \* children with a connected messenger
  crash,       \* why the process died, or "none"
  at,          \* where a thread is in its loop over the children
  pc

parent == <<hasSink, raised, sinkState, streamState, clock>>
writers == <<attached, writer, notified>>
children == <<childState, childEnded, childClock, published>>
vars == <<parent, writers, children, sinkMutex, crash, at, pc>>
----------------------------------------------------------------------------
Children == 1..N

Feeder(s)      == <<"feeder", s>>
Caller         == <<"caller", "clock">>
ChildFeeder(c, s) == <<"childFeeder", c, s>>
StopTask(c, s) == <<"stopTask", c, s>>
ChildClock(c)  == <<"childClock", c>>
FailTask(t)    == <<"failTask", t>>
CloseTask      == <<"closeTask", "sink">>
NoThread       == <<"none", "none">>

Raisers   == ({"feeder"} \X Streams) \cup ({"childFeeder"} \X Children \X Streams) \cup {Caller}
FailTasks == {FailTask(t) : t \in Raisers}
StopTasks == {"stopTask"} \X Children \X Streams
Clocks    == {"childClock"} \X Children
Closers   == FailTasks \cup {CloseTask}
Threads   == Raisers \cup StopTasks \cup Clocks \cup Closers

SinkStates == {"UNINITIALIZED", "RUNNING", "EOS", "STOPPED", "SHUTDOWN"}
Labels ==
  {"idle", "connect", "refused", "connected", "begin", "started", "stopped", "write", "notify",
   "mark", "ended", "rpfCheck", "rpfState", "failed", "none", "done", "spc", "spcState",
   "spcStreams", "spcClock", "ftRaise", "ftClose", "clCheck", "clStamps", "clRaise",
   "clShutdown", "shut", "clReset"}

TypeOK ==
  /\ hasSink \in BOOLEAN
  /\ raised \in Seq({"PublishFailed", "SessionClosed"})
  /\ sinkState \in SinkStates
  /\ streamState \in [Streams -> SinkStates]
  /\ clock \in {"off", "running", "invalid", "stopping", "stopped"}
  /\ sinkMutex \in Threads \cup {NoThread}
  /\ attached \in SUBSET Children
  /\ writer \in [Children -> {"new", "writing", "broken", "final"}]
  /\ notified \in [Children -> SUBSET Streams]
  /\ childState \in [Children -> SinkStates]
  /\ childEnded \in [Children -> SUBSET Streams]
  /\ childClock \in [Children -> {"off", "running", "stopping", "stopped"}]
  /\ published \in SUBSET Children
  /\ crash \in {"none", "nullSink", "nullChild", "unobserved"}
  /\ at \in [Threads -> Children]
  /\ pc \in [Threads -> Labels]

\* RTMPPublisherSink::Initialize with more than one profile: for each of them a
\* child sink and a sink writer on it, and the parent's own stream sinks.
Init ==
  /\ hasSink = TRUE /\ raised = <<>> /\ clock = "off"
  /\ sinkState = "UNINITIALIZED" /\ streamState = [s \in Streams |-> "UNINITIALIZED"]
  /\ sinkMutex = NoThread
  /\ attached = Children
  /\ writer = [c \in Children |-> "new"]
  /\ notified = [c \in Children |-> {}]
  /\ childState = [c \in Children |-> "UNINITIALIZED"]
  /\ childEnded = [c \in Children |-> {}]
  /\ childClock = [c \in Children |-> "off"]
  /\ published = {}
  /\ crash = "none"
  /\ at = [t \in Threads |-> 1]
  /\ pc = [t \in Threads |-> IF t = Caller THEN "connect" ELSE
                             IF t \in Raisers THEN "idle" ELSE "none"]
----------------------------------------------------------------------------
Goto(t, label) == pc' = [pc EXCEPT ![t] = label]
Spawn(t, label, task, start) == pc' = [pc EXCEPT ![t] = label, ![task] = start]

Acquire(t) == sinkMutex = NoThread /\ sinkMutex' = t
Release    == sinkMutex' = NoThread

\* RTMPPublisherSink::SetState of the parent.
SetState(state) ==
  /\ sinkState' = state
  /\ streamState' = [s \in Streams |-> state]

\* A loop of thread t over the children: on to the next one, or out to a label.
\* Mutant: one step too many.
Loop_past(t, label) ==
  IF at[t] <= N
    THEN at' = [at EXCEPT ![t] = @ + 1] /\ UNCHANGED pc
    ELSE at' = [at EXCEPT ![t] = 1] /\ Goto(t, label)

Loop(t, label) ==
  IF at[t] < N
    THEN at' = [at EXCEPT ![t] = @ + 1] /\ UNCHANGED pc
    ELSE at' = [at EXCEPT ![t] = 1] /\ Goto(t, label)

\* A null DelegateSink or DelegateWriter is called: catch (...) does not catch it.
NullChild ==
  /\ crash' = "nullChild"
  /\ UNCHANGED <<parent, writers, children, sinkMutex, at, pc>>
----------------------------------------------------------------------------
(* ConnectRTMPAsync of the parent: the children connect one after the other,    *)
(* and one that fails ends the chain and GetCaptureSinkAsync with it.           *)

ConnectChild ==
  /\ pc[Caller] = "connect"
  /\ published' = published \cup {at[Caller]}
  /\ Loop(Caller, "connected")
  /\ UNCHANGED <<parent, writers, childState, childEnded, childClock, sinkMutex, crash>>

\* Mutant: antecedent.get() is not called, and the chain goes on.
ConnectChildFails_ignored ==
  /\ pc[Caller] = "connect" /\ at[Caller] \in FaultyChildren
  /\ Loop(Caller, "connected")
  /\ UNCHANGED <<parent, writers, children, sinkMutex, crash>>

ConnectChildFails ==
  /\ pc[Caller] = "connect" /\ at[Caller] \in FaultyChildren
  /\ Goto(Caller, "refused")
  /\ UNCHANGED <<parent, writers, children, sinkMutex, crash, at>>
----------------------------------------------------------------------------
(* OnClockStart of the parent, after SetPresentationClock. Its stream sinks ask *)
(* for samples before the writers have begun.                                   *)

OnClockStart ==
  /\ pc[Caller] = "connected"
  /\ Acquire(Caller)
  /\ SetState("RUNNING")
  /\ clock' \in {"running", "invalid"}
  /\ Goto(Caller, "begin")
  /\ UNCHANGED <<hasSink, raised, writers, children, crash, at>>

\* BeginWriting starts the child's clock and with it the child.
BeginWriting ==
  LET c == at[Caller] IN
  /\ pc[Caller] = "begin"
  /\ IF c \in attached
       THEN /\ writer' = [writer EXCEPT ![c] = "writing"]
            /\ childState' = [childState EXCEPT ![c] = "RUNNING"]
            /\ childClock' = [childClock EXCEPT ![c] = "running"]
            /\ Loop(Caller, "started")
            /\ sinkMutex' = IF c = N THEN NoThread ELSE sinkMutex
            /\ UNCHANGED <<parent, attached, notified, childEnded, published, crash>>
       ELSE NullChild

\* ThrowIfFailed leaves the loop, and the catch clauses call RaisePublishFailed.
BeginWritingFails ==
  /\ pc[Caller] = "begin"
  /\ at[Caller] \in FaultyWriters
  /\ Goto(Caller, "rpfCheck")
  /\ UNCHANGED <<parent, writers, children, sinkMutex, crash, at>>
----------------------------------------------------------------------------
(* ProcessSample and PlaceMarker of a stream sink of the parent. The pipeline   *)
(* makes one call at a time into a stream sink.                                 *)

Refused(s) == streamState[s] \in {"UNINITIALIZED", "STOPPED", "SHUTDOWN"}

\* At end of stream a sample is dropped, which changes nothing.
ProcessSample(s) ==
  /\ pc[Feeder(s)] = "idle" /\ clock # "off"
  /\ streamState[s] = "RUNNING"
  /\ Goto(Feeder(s), "write")
  /\ UNCHANGED <<parent, writers, children, sinkMutex, crash, at>>

\* Any marker that is not the end of segment is passed on even at end of stream.
PlaceMarker(s) ==
  /\ pc[Feeder(s)] = "idle" /\ clock # "off"
  /\ ~Refused(s)
  /\ Goto(Feeder(s), "write")
  /\ UNCHANGED <<parent, writers, children, sinkMutex, crash, at>>

PlaceEndOfSegment(s) ==
  /\ pc[Feeder(s)] = "idle" /\ clock # "off"
  /\ Hasty \/ pc[Caller] # "begin"
  /\ ~Refused(s)
  /\ Goto(Feeder(s), "notify")
  /\ UNCHANGED <<parent, writers, children, sinkMutex, crash, at>>

CallRefused(s) ==
  /\ pc[Feeder(s)] = "idle" /\ clock # "off"
  /\ Refused(s)
  /\ Goto(Feeder(s), "rpfCheck")
  /\ UNCHANGED <<parent, writers, children, sinkMutex, crash, at>>

\* WriteSample or PlaceMarker of the next writer, whose errors are swallowed.
PassOn(s) ==
  /\ pc[Feeder(s)] = "write"
  /\ IF at[Feeder(s)] \in attached
       THEN Loop(Feeder(s), "idle")
            /\ UNCHANGED <<parent, writers, children, sinkMutex, crash>>
       ELSE NullChild

\* Flush and NotifyEndOfSegment of the next writer; an error is swallowed, and
\* that writer is told nothing.
NotifyEndOfSegment(s) ==
  LET c == at[Feeder(s)] IN
  /\ pc[Feeder(s)] = "notify"
  /\ IF c \in attached
       THEN /\ notified' = IF writer[c] = "writing"
                             THEN [notified EXCEPT ![c] = @ \cup {s}] ELSE notified
            /\ Loop(Feeder(s), "mark")
            /\ UNCHANGED <<parent, attached, writer, children, sinkMutex, crash>>
       ELSE NullChild

\* Then the state, and nobody is told: "the sink will call this on the
\* aggregating parent".
MarkEndOfSegment(s) ==
  /\ pc[Feeder(s)] = "mark"
  /\ streamState' = [streamState EXCEPT ![s] = "EOS"]
  /\ Goto(Feeder(s), "ended")
  /\ UNCHANGED <<hasSink, raised, sinkState, clock, writers, children, sinkMutex, crash, at>>
----------------------------------------------------------------------------
(* The sink writers (external): what they were told reaches their child.        *)

WriterBreaks(c) ==
  /\ c \in FaultyWriters /\ writer[c] = "writing"
  /\ writer' = [writer EXCEPT ![c] = "broken"]
  /\ UNCHANGED <<parent, attached, notified, children, sinkMutex, crash, at, pc>>

\* PlaceMarker of stream sink s of child c, as in PublishSession.
ChildEndOfSegment(c, s) ==
  /\ writer[c] \in {"writing", "final"}
  /\ s \in notified[c] \ childEnded[c]
  /\ pc[ChildFeeder(c, s)] \notin {"rpfCheck", "rpfState"}
  /\ Hasty \/ streamState[s] # "RUNNING"
  /\ childEnded' = [childEnded EXCEPT ![c] = @ \cup {s}]
  /\ Goto(StopTask(c, s), "spc")
  /\ UNCHANGED <<parent, writers, childState, childClock, published, sinkMutex, crash, at>>

\* A sample of child c fails, when it is delivered or when it is sent; its writer
\* may not work after that.
ChildSampleFails(c, s) ==
  /\ pc[ChildFeeder(c, s)] = "idle" /\ s \notin childEnded[c]
  /\ c \in FaultyChildren /\ writer[c] = "writing" /\ childState[c] = "RUNNING"
  /\ \E w \in {"writing", "broken"} : writer' = [writer EXCEPT ![c] = w]
  /\ Goto(ChildFeeder(c, s), "rpfCheck")
  /\ UNCHANGED <<parent, attached, notified, children, sinkMutex, crash, at>>
----------------------------------------------------------------------------
(* StopPresentationClock of a child: under the parent's SinkMutex, unpublish    *)
(* and the stop of the child's clock when all of its streams have ended.        *)

ChildStops(c) == childState[c] = "RUNNING" /\ childEnded[c] = Streams

ChildStopPresentationClock(c, s) ==
  /\ pc[StopTask(c, s)] = "spc"
  /\ sinkMutex = NoThread
  /\ Goto(StopTask(c, s), "done")
  /\ IF ChildStops(c)
       THEN /\ published' = published \ {c}
            /\ childClock' = [childClock EXCEPT ![c] = IF @ = "running" THEN "stopping" ELSE @]
       ELSE UNCHANGED <<published, childClock>>
  /\ UNCHANGED <<parent, writers, childState, childEnded, sinkMutex, crash, at>>

\* The connection of the child is lost, and CloseAsync().get() throws before the
\* messenger is reset and the clock stopped. As in PublishSession nothing in the task
\* catches it and nobody observes the task.
ChildUnpublishFails(c, s) ==
  /\ pc[StopTask(c, s)] = "spc"
  /\ sinkMutex = NoThread
  /\ c \in FaultyChildren \cap published /\ ChildStops(c)
  /\ crash' = "unobserved"
  /\ UNCHANGED <<parent, writers, children, sinkMutex, at, pc>>

\* OnClockStop of a child: STOPPED, Shutdown, and with the mutex still held on to
\* StopPresentationClock of the parent.
\* Mutant: the child is stopped and not shut down.
ChildOnClockStop_stopped(c) ==
  /\ childClock[c] = "stopping"
  /\ Acquire(ChildClock(c))
  /\ childState' = [childState EXCEPT ![c] = "STOPPED"]
  /\ childClock' = [childClock EXCEPT ![c] = "stopped"]
  /\ Goto(ChildClock(c), "spcState")
  /\ UNCHANGED <<parent, writers, childEnded, published, crash, at>>

ChildOnClockStop(c) ==
  /\ childClock[c] = "stopping"
  /\ Acquire(ChildClock(c))
  /\ childState' = [childState EXCEPT ![c] = "SHUTDOWN"]
  /\ childClock' = [childClock EXCEPT ![c] = "stopped"]
  /\ Goto(ChildClock(c), "spcState")
  /\ UNCHANGED <<parent, writers, childEnded, published, crash, at>>
----------------------------------------------------------------------------
(* StopPresentationClock of the parent, with its SinkMutex held by thread t.    *)

\* Mutant: Close(true) returns when there was nothing to stop.
AfterStop_returns(t) == "done"

AfterStop(t) == IF t \in FailTasks THEN "clCheck" ELSE "done"

\* Children that have not shut down, or were already released.
\* Mutant: one child may still be running.
WaitingToShutDown_butOne == {c \in 2..N : c \notin attached \/ childState[c] # "SHUTDOWN"}

WaitingToShutDown == {c \in Children : c \notin attached \/ childState[c] # "SHUTDOWN"}

SpcState(t) ==
  /\ pc[t] = "spcState"
  /\ IF sinkState = "RUNNING" /\ WaitingToShutDown = {}
       THEN Goto(t, "spcStreams") /\ UNCHANGED sinkMutex
       ELSE Goto(t, AfterStop(t)) /\ Release
  /\ UNCHANGED <<parent, writers, children, crash, at>>

AllAtEndOfSegment == \A s \in Streams : streamState[s] = "EOS"

\* The parent has no messenger of its own to close.
SpcStreams(t) ==
  /\ pc[t] = "spcStreams"
  /\ IF AllAtEndOfSegment
       THEN Goto(t, "spcClock") /\ UNCHANGED sinkMutex
       ELSE Goto(t, AfterStop(t)) /\ Release
  /\ UNCHANGED <<parent, writers, children, crash, at>>

\* A valid clock is stopped and calls OnClockStop later; for an invalid one
\* OnClockStop is called here, if the sink is still running.
\* Mutant: OnClockStop is called here whatever the clock says.
SpcClock_both(t) ==
  /\ pc[t] = "spcClock"
  /\ Release
  /\ SetState("STOPPED")
  /\ Spawn(t, AfterStop(t), CloseTask, "clCheck")
  /\ clock' = IF clock = "running" THEN "stopping" ELSE clock
  /\ UNCHANGED <<hasSink, raised, writers, children, crash, at>>

SpcClock(t) ==
  /\ pc[t] = "spcClock"
  /\ Release
  /\ IF clock = "invalid" /\ sinkState = "RUNNING"
       THEN /\ SetState("STOPPED")
            /\ Spawn(t, AfterStop(t), CloseTask, "clCheck")
            /\ UNCHANGED clock
       ELSE /\ clock' = IF clock = "running" THEN "stopping" ELSE clock
            /\ Goto(t, AfterStop(t))
            /\ UNCHANGED <<sinkState, streamState>>
  /\ UNCHANGED <<hasSink, raised, writers, children, crash, at>>

\* OnClockStop of the parent.
OnClockStop ==
  /\ pc[Caller] = "started" /\ clock = "stopping"
  /\ sinkMutex = NoThread
  /\ clock' = "stopped"
  /\ SetState("STOPPED")
  /\ Spawn(Caller, "stopped", CloseTask, "clCheck")
  /\ UNCHANGED <<hasSink, raised, writers, children, sinkMutex, crash, at>>
----------------------------------------------------------------------------
(* RaisePublishFailed on thread t: the parent is checked, then set to EOS; the  *)
(* child that failed keeps its state.                                           *)

\* Return to where the call that failed came from.
Returned(t) == IF t = Caller THEN "started" ELSE IF t[1] = "feeder" THEN "idle" ELSE "failed"
ReleaseIf(t) == sinkMutex' = IF t = Caller THEN NoThread ELSE sinkMutex

RpfCheck(t) ==
  /\ pc[t] = "rpfCheck"
  /\ IF hasSink /\ sinkState = "RUNNING"
       THEN Goto(t, "rpfState") /\ UNCHANGED sinkMutex
       ELSE Goto(t, Returned(t)) /\ ReleaseIf(t)
  /\ UNCHANGED <<parent, writers, children, crash, at>>

RpfSetState(t) ==
  /\ pc[t] = "rpfState"
  /\ SetState("EOS")
  /\ Spawn(t, Returned(t), FailTask(t), "ftRaise")
  /\ ReleaseIf(t)
  /\ UNCHANGED <<hasSink, raised, clock, writers, children, crash, at>>

\* The task: the event, then Close(true), which calls StopPresentationClock first.
FailTaskRaises(t) ==
  /\ pc[t] = "ftRaise"
  /\ raised' = Append(raised, "PublishFailed")
  /\ Goto(t, "ftClose")
  /\ UNCHANGED <<hasSink, sinkState, streamState, clock, writers, children, sinkMutex, crash, at>>

FailTaskCloses(t) ==
  /\ pc[t] = "ftClose" /\ hasSink
  /\ Acquire(t)
  /\ Goto(t, "spcState")
  /\ UNCHANGED <<parent, writers, children, crash, at>>
----------------------------------------------------------------------------
(* CloseLogic of Close on the close task or a fail task.                        *)

CloseCheck(t) ==
  /\ pc[t] = "clCheck"
  /\ Goto(t, IF hasSink THEN "clStamps" ELSE "done")
  /\ UNCHANGED <<parent, writers, children, sinkMutex, crash, at>>

\* GetLastPTS and GetLastDTS of an aggregating parent ask the first child.
CloseReadTimestamps(t) ==
  /\ pc[t] = "clStamps" /\ hasSink
  /\ IF 1 \in attached
       THEN Goto(t, "clRaise")
            /\ UNCHANGED <<parent, writers, children, sinkMutex, crash, at>>
       ELSE NullChild

RaiseSessionClosed(t) ==
  /\ pc[t] = "clRaise"
  /\ raised' = Append(raised, "SessionClosed")
  /\ Goto(t, "clShutdown")
  /\ UNCHANGED <<hasSink, sinkState, streamState, clock, writers, children, sinkMutex, crash, at>>

CloseCallsShutdown(t) ==
  /\ pc[t] = "clShutdown" /\ hasSink
  /\ Acquire(t)
  /\ Goto(t, "shut")
  /\ UNCHANGED <<parent, writers, children, crash, at>>

\* Shutdown of the parent: Finalize makes a working writer end what is left of its
\* streams, then the pointers are reset; after the last child SetState(SHUTDOWN).
\* Mutant: the writer is released without Finalize.
ShutdownChild_released(t) ==
  LET c == at[t] IN
  /\ pc[t] = "shut"
  /\ IF c \in attached
       THEN /\ attached' = attached \ {c}
            /\ writer' = [writer EXCEPT ![c] = "final"]
            /\ Loop(t, "clReset")
            /\ IF c = N THEN SetState("SHUTDOWN") /\ Release
                        ELSE UNCHANGED <<sinkState, streamState, sinkMutex>>
            /\ UNCHANGED <<hasSink, raised, clock, notified, children, crash>>
       ELSE NullChild

ShutdownChild(t) ==
  LET c == at[t] IN
  /\ pc[t] = "shut"
  /\ IF c \in attached
       THEN /\ attached' = attached \ {c}
            /\ IF writer[c] = "writing"
                 THEN /\ writer' = [writer EXCEPT ![c] = "final"]
                      /\ notified' = [notified EXCEPT ![c] = Streams]
                 ELSE UNCHANGED <<writer, notified>>
            /\ Loop(t, "clReset")
            /\ IF c = N THEN SetState("SHUTDOWN") /\ Release
                        ELSE UNCHANGED <<sinkState, streamState, sinkMutex>>
            /\ UNCHANGED <<hasSink, raised, clock, children, crash>>
       ELSE NullChild

CloseResetsSink(t) ==
  /\ pc[t] = "clReset"
  /\ hasSink' = FALSE
  /\ Goto(t, "done")
  /\ UNCHANGED <<raised, sinkState, streamState, clock, writers, children, sinkMutex, crash, at>>

\* The places where _sink is used with no null check, or long after one.
UseOfNullSink(t) ==
  /\ pc[t] \in {"rpfState", "ftClose", "clStamps", "clShutdown"} /\ ~hasSink
  /\ crash' = "nullSink"
  /\ UNCHANGED <<parent, writers, children, sinkMutex, at, pc>>
----------------------------------------------------------------------------
FeederCalls(s) ==
  ProcessSample(s) \/ PlaceMarker(s) \/ PlaceEndOfSegment(s) \/ CallRefused(s)
FeederStep(s) == PassOn(s) \/ NotifyEndOfSegment(s) \/ MarkEndOfSegment(s)
CallerStep == BeginWriting \/ BeginWritingFails \/ OnClockStop
StopTaskStep(c, s) == ChildStopPresentationClock(c, s) \/ ChildUnpublishFails(c, s)
WriterStep(c) == \E s \in Streams : ChildEndOfSegment(c, s)
ParentStop(t) == SpcState(t) \/ SpcStreams(t) \/ SpcClock(t)
RaiserStep(t) == RpfCheck(t) \/ RpfSetState(t) \/ UseOfNullSink(t)
CloserStep(t) ==
  \/ FailTaskRaises(t) \/ FailTaskCloses(t) \/ ParentStop(t) \/ CloseCheck(t)
  \/ CloseReadTimestamps(t) \/ RaiseSessionClosed(t) \/ CloseCallsShutdown(t)
  \/ ShutdownChild(t) \/ CloseResetsSink(t) \/ UseOfNullSink(t)
ChildClockStep(c) == ChildOnClockStop(c) \/ ParentStop(ChildClock(c))

Environment ==
  \/ ConnectChild \/ ConnectChildFails \/ OnClockStart
  \/ \E s \in Streams : FeederCalls(s)
  \/ \E c \in Children : WriterBreaks(c) \/ \E s \in Streams : ChildSampleFails(c, s)

LibraryStep ==
  \/ CallerStep
  \/ \E s \in Streams : FeederStep(s)
  \/ \E c \in Children : WriterStep(c) \/ ChildClockStep(c)
  \/ \E c \in Children, s \in Streams : StopTaskStep(c, s)
  \/ \E t \in Raisers : RaiserStep(t)
  \/ \E t \in Closers : CloserStep(t)

\* Nothing is left to do.
AtRest ==
  /\ \A t \in Threads : pc[t] \in {"idle", "ended", "failed", "none", "done", "refused",
                                   "started", "stopped"}
  /\ clock # "stopping" /\ \A c \in Children : childClock[c] # "stopping"
  /\ UNCHANGED vars

Next ==
  \/ crash = "none" /\ (Environment \/ LibraryStep \/ AtRest)
  \/ crash # "none" /\ UNCHANGED vars

\* Threads that can run do run, and a sink writer that works delivers what it was
\* told. Nothing obliges the pipeline or the application.
Alive(A) == crash = "none" /\ A
Fairness ==
  /\ WF_vars(Alive(CallerStep))
  /\ \A s \in Streams : WF_vars(Alive(FeederStep(s)))
  /\ \A c \in Children : WF_vars(Alive(WriterStep(c))) /\ WF_vars(Alive(ChildClockStep(c)))
  /\ \A c \in Children, s \in Streams : WF_vars(Alive(StopTaskStep(c, s)))
  /\ \A t \in Raisers : WF_vars(Alive(RaiserStep(t)))
  /\ \A t \in Closers : WF_vars(Alive(CloserStep(t)))

SafeSpec == Init /\ [][Next]_vars
Spec == SafeSpec /\ Fairness
----------------------------------------------------------------------------
(* Properties.                                                                  *)

Closed == \E i \in DOMAIN raised : raised[i] = "SessionClosed"
Failed == \E i \in DOMAIN raised : raised[i] = "PublishFailed"

\* RaisePublishFailed has gone past its check on some thread.
Failing == \E t \in Raisers : pc[t] = "rpfState" \/ pc[FailTask(t)] # "none"

\* Without a failure the session is closed only after every child has unpublished
\* and shut down: the last one, and no other, stops the parent.
ClosedAfterChildren ==
  Closed /\ ~Failing =>
    \A c \in Children : childState[c] = "SHUTDOWN" /\ c \notin published

\* Without a failure the parent is stopped once, by its clock or in place of it.
ClosedOnce == ~Failing => raised \in {<<>>, <<"SessionClosed">>}

\* A child is connected for as long as its sink runs and a stream of it may still
\* write, whatever happens to the other children and to the parent.
RunningIsPublished ==
  \A c \in Children :
    childState[c] = "RUNNING" /\ childEnded[c] # Streams => c \in published

\* Nobody uses the session's sink, or a child, that was released, unless there was
\* a failure before: the shutdown of the parent comes after the last call of the
\* pipeline. What is used after a failure, and the death of the process of a child
\* that cannot unpublish, are excepted.
ReleasedAfterLastUse == crash \in {"nullSink", "nullChild"} => Failing

\* When every stream of the parent has been told its end, the children stop one by
\* one and the session is closed ("if aggregating - the sink will call this on the
\* aggregating parent", RTMPVideoStreamSink.cpp, PlaceMarker), if every writer works
\* and every child can unpublish: where one cannot, the process dies, and nobody is
\* told by an event.
StopCompletes ==
  (\A s \in Streams : pc[Feeder(s)] = "ended") ~>
    (Closed \/ Failing \/ crash = "unobserved" \/ \E c \in Children : writer[c] = "broken")

\* A failure that was announced ends the session, unless the process dies first.
FailureCloses == Failed ~> (Closed \/ crash # "none")

\* When the parent is shut down with children still running, each child whose
\* writer works comes to its own end and unpublishes.
FinalizedChildrenEnd ==
  \A c \in Children : writer[c] = "final" ~> (c \notin published \/ crash # "none")
----------------------------------------------------------------------------
(* The inductive invariant, in named parts.                                     *)

\* The labels of each thread.
CloseSteps == {"clCheck", "clStamps", "clRaise", "clShutdown", "shut", "clReset", "done"}
LabelsOK ==
  /\ pc[Caller] \in {"connect", "refused", "connected", "begin", "rpfCheck", "rpfState",
                     "started", "stopped"}
  /\ \A s \in Streams :
       pc[Feeder(s)] \in {"idle", "write", "notify", "mark", "ended", "rpfCheck", "rpfState"}
  /\ \A c \in Children :
       /\ pc[ChildClock(c)] \in {"none", "spcState", "spcStreams", "spcClock", "done"}
       /\ \A s \in Streams :
            pc[ChildFeeder(c, s)] \in {"idle", "rpfCheck", "rpfState", "failed"}
  /\ pc[CloseTask] \in {"none"} \cup CloseSteps

\* The children connect in their order, and start in their order after that.
NotStarted(c) == childState[c] = "UNINITIALIZED" /\ childClock[c] = "off"
ChildrenStart ==
  /\ pc[Caller] \in {"connect", "refused", "connected"} => \A c \in Children : NotStarted(c)
  /\ pc[Caller] = "begin" => \A c \in at[Caller]..N : NotStarted(c)
  /\ pc[Caller] = "connect" => 1..(at[Caller] - 1) \subseteq published
  /\ pc[Caller] \notin {"connect", "refused"} =>
       \A c \in Children : c \in published \/ childEnded[c] = Streams

\* A child is shut down by its clock, which was stopped after the child unpublished.
ChildrenStop ==
  \A c \in Children :
    /\ childState[c] = "SHUTDOWN" => childClock[c] = "stopped"
    /\ childClock[c] \in {"stopping", "stopped"} => c \notin published

AllShutDown == \A c \in Children : childState[c] = "SHUTDOWN"
AllEnded    == \A s \in Streams : pc[Feeder(s)] = "ended"

\* Without a failure the parent stops after the last child and the last call of the
\* pipeline, and CloseTask is the one thread that closes it.
StopOrder ==
  /\ \A s \in Streams : streamState[s] = "EOS" => pc[Feeder(s)] = "ended"
  /\ \A c \in Children :
       /\ pc[ChildClock(c)] \in {"spcStreams", "spcClock"} => AllShutDown
       /\ pc[ChildClock(c)] = "spcClock" => AllEnded
  /\ clock \in {"stopping", "stopped"} \/ pc[CloseTask] # "none" => AllShutDown /\ AllEnded
  /\ pc[CloseTask] # "none" =>
       clock = "stopped" \/ (clock = "invalid" /\ sinkState # "RUNNING")

CloseOrder ==
  /\ raised = IF pc[CloseTask] \in {"none", "clCheck", "clStamps", "clRaise"}
                THEN <<>> ELSE <<"SessionClosed">>
  /\ hasSink = (pc[CloseTask] # "done")
  /\ pc[CloseTask] \notin {"shut", "clReset", "done"} =>
       attached = Children /\ at[CloseTask] = 1
  /\ pc[CloseTask] = "shut" => attached = at[CloseTask]..N

IInv ==
  /\ TypeOK /\ LabelsOK /\ ChildrenStart /\ ChildrenStop
  /\ ~Failing => crash \in {"none", "unobserved"} /\ StopOrder /\ CloseOrder
=============================================================================
