----------------------- MODULE AggregateSession_proofs -----------------------
(***************************************************************************)
(* Proofs about AggregateSession, for every choice of its constants: the   *)
(* type invariant, that a child is connected for as long as it may write,  *)
(* and that without a failure the session is closed at most once, after    *)
(* the last child, with nothing left that could use what was released.     *)
(***************************************************************************)
EXTENDS AggregateSession, TLAPS

\* The first component of a thread tells its kind.
LEMMA ThreadKinds ==
  /\ Caller[1] = "caller" /\ CloseTask[1] = "closeTask" /\ NoThread[1] = "none"
  /\ \A s \in Streams : Feeder(s)[1] = "feeder" /\ Feeder(s)[2] = s
  /\ \A c \in Children : ChildClock(c)[1] = "childClock" /\ ChildClock(c)[2] = c
  /\ \A c \in Children, s \in Streams :
       ChildFeeder(c, s)[1] = "childFeeder" /\ StopTask(c, s)[1] = "stopTask"
  /\ \A t \in Raisers : t[1] \in {"feeder", "childFeeder", "caller"}
  /\ \A t \in StopTasks : t[1] = "stopTask"
  /\ \A t \in Clocks : t[1] = "childClock"
  /\ \A t \in FailTasks : t[1] = "failTask"
  BY DEF Caller, CloseTask, NoThread, Feeder, ChildClock, ChildFeeder, StopTask, Raisers,
     StopTasks, Clocks, FailTasks, FailTask

\* What the proofs need to know of the identifiers of the threads.
LEMMA ThreadFacts ==
  /\ Caller \in Threads /\ CloseTask \in Threads /\ Caller \in Raisers /\ CloseTask \in Closers
  /\ Raisers \subseteq Threads /\ StopTasks \subseteq Threads /\ Clocks \subseteq Threads
  /\ Closers \subseteq Threads /\ FailTasks \subseteq Closers
  /\ NoThread \notin Threads
  /\ \A s \in Streams : Feeder(s) \in Raisers
  /\ \A c \in Children : ChildClock(c) \in Clocks
  /\ \A c \in Children, s \in Streams : ChildFeeder(c, s) \in Raisers /\ StopTask(c, s) \in StopTasks
  /\ \A t \in Raisers : FailTask(t) \in FailTasks
  /\ \A t \in FailTasks : \E r \in Raisers : t = FailTask(r)
  /\ \A t \in Closers : t \in FailTasks \/ t = CloseTask
  /\ \A t \in Raisers : \/ t = Caller \/ \E s \in Streams : t = Feeder(s)
                        \/ \E c \in Children, s \in Streams : t = ChildFeeder(c, s)
  /\ \A t \in Clocks : \E c \in Children : t = ChildClock(c)
  /\ \A s, r \in Streams : Feeder(s) = Feeder(r) => s = r
  /\ \A c, d \in Children : ChildClock(c) = ChildClock(d) => c = d
  /\ \A s \in Streams : Feeder(s) # Caller
  /\ \A c \in Children, s, r \in Streams : ChildFeeder(c, s) \notin {Caller, Feeder(r)}
  /\ \A t \in Raisers : t \notin StopTasks \cup Clocks \cup FailTasks \cup {CloseTask}
  /\ \A t \in StopTasks : t \notin Clocks \cup FailTasks \cup {CloseTask}
  /\ \A t \in Clocks : t \notin FailTasks \cup {CloseTask}
  /\ CloseTask \notin FailTasks
<1>1. /\ Caller \in Threads /\ CloseTask \in Threads /\ Caller \in Raisers /\ CloseTask \in Closers
      /\ Raisers \subseteq Threads /\ StopTasks \subseteq Threads /\ Clocks \subseteq Threads
      /\ Closers \subseteq Threads /\ FailTasks \subseteq Closers
      /\ \A t \in Closers : t \in FailTasks \/ t = CloseTask
  BY DEF Threads, Raisers, Closers
<1>2. NoThread \notin Threads
  BY ThreadKinds DEF Threads, Closers
<1>3. /\ \A s \in Streams : Feeder(s) \in Raisers
      /\ \A c \in Children : ChildClock(c) \in Clocks
      /\ \A c \in Children, s \in Streams :
           ChildFeeder(c, s) \in Raisers /\ StopTask(c, s) \in StopTasks
  BY DEF Feeder, ChildClock, ChildFeeder, StopTask, Raisers, StopTasks, Clocks
<1>4. /\ \A t \in Raisers : FailTask(t) \in FailTasks
      /\ \A t \in FailTasks : \E r \in Raisers : t = FailTask(r)
  BY DEF FailTasks
<1>7. /\ \A t \in Raisers : \/ t = Caller \/ \E s \in Streams : t = Feeder(s)
                            \/ \E c \in Children, s \in Streams : t = ChildFeeder(c, s)
      /\ \A t \in Clocks : \E c \in Children : t = ChildClock(c)
  BY DEF Raisers, Clocks, Feeder, ChildFeeder, ChildClock
<1>5. /\ \A s, r \in Streams : Feeder(s) = Feeder(r) => s = r
      /\ \A c, d \in Children : ChildClock(c) = ChildClock(d) => c = d
  BY ThreadKinds
<1>6. /\ \A s \in Streams : Feeder(s) # Caller
      /\ \A c \in Children, s, r \in Streams : ChildFeeder(c, s) \notin {Caller, Feeder(r)}
      /\ \A t \in Raisers : t \notin StopTasks \cup Clocks \cup FailTasks \cup {CloseTask}
      /\ \A t \in StopTasks : t \notin Clocks \cup FailTasks \cup {CloseTask}
      /\ \A t \in Clocks : t \notin FailTasks \cup {CloseTask}
      /\ CloseTask \notin FailTasks
  BY ThreadKinds
<1>. QED  BY <1>1, <1>2, <1>3, <1>4, <1>5, <1>6, <1>7
----------------------------------------------------------------------------
(* Type correctness.                                                            *)

LEMMA LabelFacts ==
  /\ "idle" \in Labels /\ "connect" \in Labels /\ "refused" \in Labels /\ "connected" \in Labels
  /\ "begin" \in Labels /\ "started" \in Labels /\ "stopped" \in Labels /\ "write" \in Labels
  /\ "notify" \in Labels /\ "mark" \in Labels /\ "ended" \in Labels /\ "rpfCheck" \in Labels
  /\ "rpfState" \in Labels /\ "failed" \in Labels /\ "none" \in Labels /\ "done" \in Labels
  /\ "spc" \in Labels /\ "spcState" \in Labels /\ "spcStreams" \in Labels
  /\ "spcClock" \in Labels /\ "ftRaise" \in Labels /\ "ftClose" \in Labels
  /\ "clCheck" \in Labels /\ "clStamps" \in Labels /\ "clRaise" \in Labels
  /\ "clShutdown" \in Labels /\ "shut" \in Labels /\ "clReset" \in Labels
  BY DEF Labels

LEMMA StateFacts ==
  /\ "UNINITIALIZED" \in SinkStates /\ "RUNNING" \in SinkStates /\ "EOS" \in SinkStates
  /\ "STOPPED" \in SinkStates /\ "SHUTDOWN" \in SinkStates
  BY DEF SinkStates

\* What the operators the steps are made of do to the types.
LEMMA GotoType ==
  ASSUME pc \in [Threads -> Labels], NEW t, NEW label \in Labels, Goto(t, label)
  PROVE  pc' \in [Threads -> Labels]
  BY DEF Goto

LEMMA SpawnType ==
  ASSUME pc \in [Threads -> Labels], NEW t, NEW label \in Labels, NEW task,
         NEW start \in Labels, Spawn(t, label, task, start)
  PROVE  pc' \in [Threads -> Labels]
  BY DEF Spawn

LEMMA SetStateType ==
  ASSUME NEW state \in SinkStates, SetState(state)
  PROVE  sinkState' \in SinkStates /\ streamState' \in [Streams -> SinkStates]
  BY DEF SetState

LEMMA MutexType ==
  ASSUME NEW t \in Threads
  PROVE  /\ Acquire(t) => sinkMutex' \in Threads \cup {NoThread}
         /\ Release => sinkMutex' \in Threads \cup {NoThread}
  BY DEF Acquire, Release

LEMMA LoopType ==
  ASSUME pc \in [Threads -> Labels], at \in [Threads -> Children],
         NEW t \in Threads, NEW label \in Labels, Loop(t, label)
  PROVE  pc' \in [Threads -> Labels] /\ at' \in [Threads -> Children]
<1>1. 1 \in Children /\ (at[t] < N => at[t] + 1 \in Children)
  BY NAssumption DEF Children
<1>. QED  BY <1>1, GotoType DEF Loop

LEMMA AfterStopType == \A t : AfterStop(t) \in Labels
  BY LabelFacts DEF AfterStop

LEMMA ReturnedType == \A t : Returned(t) \in Labels
  BY LabelFacts DEF Returned

LEMMA RaisedType ==
  ASSUME raised \in Seq({"PublishFailed", "SessionClosed"})
  PROVE  /\ Append(raised, "PublishFailed") \in Seq({"PublishFailed", "SessionClosed"})
         /\ Append(raised, "SessionClosed") \in Seq({"PublishFailed", "SessionClosed"})
  OBVIOUS

LEMMA InitType == Init => TypeOK
<1>1. 1 \in Children
  BY NAssumption DEF Children
<1>. QED  BY <1>1, LabelFacts, StateFacts DEF Init, TypeOK

\* The connections of the children and the clock of the parent, on Caller.
LEMMA CallerType ==
  ASSUME TypeOK,
         \/ ConnectChild \/ ConnectChildFails \/ OnClockStart
         \/ BeginWriting \/ BeginWritingFails \/ OnClockStop
  PROVE  TypeOK'
<1>1. Caller \in Threads /\ at[Caller] \in Children
  BY ThreadFacts DEF TypeOK
<1>2. CASE ConnectChild
  BY <1>1, <1>2, LoopType, LabelFacts DEF ConnectChild, TypeOK, parent, writers
<1>3. CASE ConnectChildFails
  BY <1>3, GotoType, LabelFacts DEF ConnectChildFails, TypeOK, parent, writers, children
<1>4. CASE OnClockStart
  BY <1>1, <1>4, GotoType, LabelFacts, StateFacts, SetStateType, MutexType
  DEF OnClockStart, TypeOK, writers, children
<1>5. CASE BeginWriting
  <2>1. CASE at[Caller] \in attached
    <3>1. pc' \in [Threads -> Labels] /\ at' \in [Threads -> Children]
      BY <1>1, <1>5, <2>1, LoopType, LabelFacts DEF BeginWriting, TypeOK
    <3>2. sinkMutex' \in Threads \cup {NoThread}
      BY <1>5, <2>1 DEF BeginWriting, TypeOK
    <3>3. /\ writer' \in [Children -> {"new", "writing", "broken", "final"}]
          /\ childState' \in [Children -> SinkStates]
          /\ childClock' \in [Children -> {"off", "running", "stopping", "stopped"}]
      <4>1. /\ writer \in [Children -> {"new", "writing", "broken", "final"}]
            /\ childState \in [Children -> SinkStates]
            /\ childClock \in [Children -> {"off", "running", "stopping", "stopped"}]
        BY DEF TypeOK
      <4>2. /\ writer' = [writer EXCEPT ![at[Caller]] = "writing"]
            /\ childState' = [childState EXCEPT ![at[Caller]] = "RUNNING"]
            /\ childClock' = [childClock EXCEPT ![at[Caller]] = "running"]
        BY <1>5, <2>1 DEF BeginWriting
      <4>3. writer' \in [Children -> {"new", "writing", "broken", "final"}]
        BY <4>1, <4>2
      <4>4. childState' \in [Children -> SinkStates]
        BY <4>1, <4>2, StateFacts
      <4>5. childClock' \in [Children -> {"off", "running", "stopping", "stopped"}]
        BY <4>1, <4>2
      <4>. QED  BY <4>3, <4>4, <4>5
    <3>4. UNCHANGED <<parent, attached, notified, childEnded, published, crash>>
      BY <1>5, <2>1 DEF BeginWriting
    <3>. QED  BY <3>1, <3>2, <3>3, <3>4 DEF TypeOK, parent
  <2>2. CASE at[Caller] \notin attached
    BY <1>5, <2>2 DEF BeginWriting, NullChild, TypeOK, parent, writers, children
  <2>. QED  BY <2>1, <2>2
<1>6. CASE BeginWritingFails
  BY <1>6, GotoType, LabelFacts DEF BeginWritingFails, TypeOK, parent, writers, children
<1>7. CASE OnClockStop
  BY <1>7, SpawnType, LabelFacts, StateFacts, SetStateType
  DEF OnClockStop, TypeOK, writers, children
<1>. QED  BY <1>2, <1>3, <1>4, <1>5, <1>6, <1>7

\* The pipeline's calls into a stream sink of the parent.
LEMMA FeederType ==
  ASSUME TypeOK, NEW s \in Streams, FeederCalls(s) \/ FeederStep(s) PROVE TypeOK'
<1>1. Feeder(s) \in Threads /\ at[Feeder(s)] \in Children
  BY ThreadFacts DEF TypeOK
<1>2. CASE FeederCalls(s)
  <2>1. \E l \in {"write", "notify", "rpfCheck"} : Goto(Feeder(s), l)
    BY <1>2 DEF FeederCalls, ProcessSample, PlaceMarker, PlaceEndOfSegment, CallRefused
  <2>2. pc' \in [Threads -> Labels]
    BY <2>1, GotoType, LabelFacts DEF TypeOK
  <2>3. UNCHANGED <<parent, writers, children, sinkMutex, crash, at>>
    BY <1>2 DEF FeederCalls, ProcessSample, PlaceMarker, PlaceEndOfSegment, CallRefused
  <2>. QED  BY <2>2, <2>3 DEF TypeOK, parent, writers, children
<1>3. CASE PassOn(s)
  <2>1. CASE at[Feeder(s)] \in attached
    BY <1>1, <1>3, <2>1, LoopType, LabelFacts DEF PassOn, TypeOK, parent, writers, children
  <2>2. CASE at[Feeder(s)] \notin attached
    BY <1>3, <2>2 DEF PassOn, NullChild, TypeOK, parent, writers, children
  <2>. QED  BY <2>1, <2>2
<1>4. CASE NotifyEndOfSegment(s)
  <2>1. CASE at[Feeder(s)] \in attached
    <3>1. pc' \in [Threads -> Labels] /\ at' \in [Threads -> Children]
      BY <1>1, <1>4, <2>1, LoopType, LabelFacts DEF NotifyEndOfSegment, TypeOK
    <3>2. notified' \in [Children -> SUBSET Streams]
      BY <1>4, <2>1 DEF NotifyEndOfSegment, TypeOK
    <3>. QED  BY <1>4, <2>1, <3>1, <3>2 DEF NotifyEndOfSegment, TypeOK, parent, children
  <2>2. CASE at[Feeder(s)] \notin attached
    BY <1>4, <2>2 DEF NotifyEndOfSegment, NullChild, TypeOK, parent, writers, children
  <2>. QED  BY <2>1, <2>2
<1>5. CASE MarkEndOfSegment(s)
  BY <1>5, GotoType, LabelFacts, StateFacts DEF MarkEndOfSegment, TypeOK, writers, children
<1>. QED  BY <1>2, <1>3, <1>4, <1>5 DEF FeederStep

\* The sink writers, the samples and the stops of the children.
LEMMA ChildType ==
  ASSUME TypeOK, NEW c \in Children,
         \/ WriterBreaks(c) \/ ChildOnClockStop(c)
         \/ \E s \in Streams :
              ChildSampleFails(c, s) \/ ChildEndOfSegment(c, s) \/ ChildStopPresentationClock(c, s)
  PROVE  TypeOK'
<1>1. CASE WriterBreaks(c)
  BY <1>1 DEF WriterBreaks, TypeOK, parent, children
<1>2. CASE ChildOnClockStop(c)
  <2>1. ChildClock(c) \in Threads
    BY ThreadFacts
  <2>. QED  BY <1>2, <2>1, MutexType, GotoType, LabelFacts, StateFacts
       DEF ChildOnClockStop, TypeOK, parent, writers
<1>3. ASSUME NEW s \in Streams, ChildSampleFails(c, s) PROVE TypeOK'
  <2>1. writer' \in [Children -> {"new", "writing", "broken", "final"}]
    BY <1>3 DEF ChildSampleFails, TypeOK
  <2>. QED  BY <1>3, <2>1, GotoType, LabelFacts DEF ChildSampleFails, TypeOK, parent, children
<1>4. ASSUME NEW s \in Streams, ChildEndOfSegment(c, s) PROVE TypeOK'
  BY <1>4, GotoType, LabelFacts DEF ChildEndOfSegment, TypeOK, parent, writers
<1>5. ASSUME NEW s \in Streams, ChildStopPresentationClock(c, s) PROVE TypeOK'
  <2>1. /\ published' \in SUBSET Children
        /\ childClock' \in [Children -> {"off", "running", "stopping", "stopped"}]
    BY <1>5 DEF ChildStopPresentationClock, ChildStops, TypeOK
  <2>. QED  BY <1>5, <2>1, GotoType, LabelFacts DEF ChildStopPresentationClock, TypeOK, parent, writers
<1>. QED  BY <1>1, <1>2, <1>3, <1>4, <1>5

\* StopPresentationClock of the parent.
LEMMA StopType ==
  ASSUME TypeOK, NEW t \in Threads, ParentStop(t) PROVE TypeOK'
<1>1. CASE SpcState(t)
  <2>1. pc' \in [Threads -> Labels]
    BY <1>1, GotoType, AfterStopType, LabelFacts DEF SpcState, TypeOK
  <2>2. sinkMutex' \in Threads \cup {NoThread}
    BY <1>1, MutexType DEF SpcState, TypeOK
  <2>. QED  BY <1>1, <2>1, <2>2 DEF SpcState, TypeOK, parent, writers, children
<1>2. CASE SpcStreams(t)
  <2>1. pc' \in [Threads -> Labels]
    BY <1>2, GotoType, AfterStopType, LabelFacts DEF SpcStreams, TypeOK
  <2>2. sinkMutex' \in Threads \cup {NoThread}
    BY <1>2, MutexType DEF SpcStreams, TypeOK
  <2>. QED  BY <1>2, <2>1, <2>2 DEF SpcStreams, TypeOK, parent, writers, children
<1>3. CASE SpcClock(t)
  <2>1. sinkState' \in SinkStates /\ streamState' \in [Streams -> SinkStates]
    BY <1>3, SetStateType, StateFacts DEF SpcClock, TypeOK
  <2>2. pc' \in [Threads -> Labels]
    BY <1>3, GotoType, SpawnType, AfterStopType, LabelFacts DEF SpcClock, TypeOK
  <2>3. clock' \in {"off", "running", "invalid", "stopping", "stopped"}
    BY <1>3 DEF SpcClock, TypeOK
  <2>. QED  BY <1>3, <2>1, <2>2, <2>3, MutexType DEF SpcClock, TypeOK, writers, children
<1>. QED  BY <1>1, <1>2, <1>3 DEF ParentStop

\* RaisePublishFailed, or the end of the process in it.
LEMMA RaiserType ==
  ASSUME TypeOK, NEW t \in Threads, RaiserStep(t) PROVE TypeOK'
<1>1. CASE RpfCheck(t)
  <2>1. pc' \in [Threads -> Labels]
    BY <1>1, GotoType, ReturnedType, LabelFacts DEF RpfCheck, TypeOK
  <2>2. sinkMutex' \in Threads \cup {NoThread}
    BY <1>1 DEF RpfCheck, ReleaseIf, TypeOK
  <2>. QED  BY <1>1, <2>1, <2>2 DEF RpfCheck, TypeOK, parent, writers, children
<1>2. CASE RpfSetState(t)
  <2>1. sinkMutex' \in Threads \cup {NoThread}
    BY <1>2 DEF RpfSetState, ReleaseIf, TypeOK
  <2>2. pc' \in [Threads -> Labels]
    BY <1>2, SpawnType, ReturnedType, LabelFacts DEF RpfSetState, TypeOK
  <2>. QED  BY <1>2, <2>1, <2>2, SetStateType, StateFacts DEF RpfSetState, TypeOK, writers, children
<1>3. CASE UseOfNullSink(t)
  BY <1>3 DEF UseOfNullSink, TypeOK, parent, writers, children
<1>. QED  BY <1>1, <1>2, <1>3 DEF RaiserStep

\* The task of RaisePublishFailed, and Close.
LEMMA CloserType ==
  ASSUME TypeOK, NEW t \in Threads, CloserStep(t) PROVE TypeOK'
<1>. USE LabelFacts, GotoType
<1>1. CASE FailTaskRaises(t)
  BY <1>1, RaisedType DEF FailTaskRaises, TypeOK, writers, children
<1>2. CASE FailTaskCloses(t)
  BY <1>2, MutexType DEF FailTaskCloses, TypeOK, parent, writers, children
<1>3. CASE CloseCheck(t)
  <2>1. pc' \in [Threads -> Labels]
    BY <1>3 DEF CloseCheck, TypeOK
  <2>. QED  BY <1>3, <2>1 DEF CloseCheck, TypeOK, parent, writers, children
<1>4. CASE CloseReadTimestamps(t)
  <2>1. pc' \in [Threads -> Labels] /\ crash' \in {"none", "nullSink", "nullChild", "unobserved"}
    BY <1>4 DEF CloseReadTimestamps, NullChild, TypeOK
  <2>. QED  BY <1>4, <2>1
       DEF CloseReadTimestamps, NullChild, TypeOK, parent, writers, children
<1>5. CASE RaiseSessionClosed(t)
  BY <1>5, RaisedType DEF RaiseSessionClosed, TypeOK, writers, children
<1>6. CASE CloseCallsShutdown(t)
  BY <1>6, MutexType DEF CloseCallsShutdown, TypeOK, parent, writers, children
<1>7. CASE ShutdownChild(t)
  <2>1. CASE at[t] \in attached
    <3>1. pc' \in [Threads -> Labels] /\ at' \in [Threads -> Children]
      BY <1>7, <2>1, LoopType DEF ShutdownChild, TypeOK
    <3>2. /\ attached' \in SUBSET Children
          /\ writer' \in [Children -> {"new", "writing", "broken", "final"}]
          /\ notified' \in [Children -> SUBSET Streams]
      BY <1>7, <2>1 DEF ShutdownChild, TypeOK
    <3>3. /\ sinkState' \in SinkStates /\ streamState' \in [Streams -> SinkStates]
          /\ sinkMutex' \in Threads \cup {NoThread}
      BY <1>7, <2>1, SetStateType, MutexType, StateFacts DEF ShutdownChild, TypeOK
    <3>4. UNCHANGED <<hasSink, raised, clock, children, crash>>
      BY <1>7, <2>1 DEF ShutdownChild
    <3>. QED  BY <3>1, <3>2, <3>3, <3>4 DEF TypeOK, children
  <2>2. CASE at[t] \notin attached
    BY <1>7, <2>2 DEF ShutdownChild, NullChild, TypeOK, parent, writers, children
  <2>. QED  BY <2>1, <2>2
<1>8. CASE CloseResetsSink(t)
  BY <1>8 DEF CloseResetsSink, TypeOK, writers, children
<1>9. CASE UseOfNullSink(t)
  BY <1>9 DEF UseOfNullSink, TypeOK, parent, writers, children
<1>. QED  BY StopType, <1>1, <1>2, <1>3, <1>4, <1>5, <1>6, <1>7, <1>8, <1>9 DEF CloserStep

\* A step that changes nothing, or only ends the process because a child cannot unpublish.
StateKept ==
  UNCHANGED <<parent, writers, children, sinkMutex, at, pc>> /\ crash' \in {crash, "unobserved"}

\* Next, flattened to its actions.
LEMMA Actions ==
  ASSUME [Next]_vars
  PROVE  \/ StateKept
         \/ /\ crash = "none"
            /\ \/ ConnectChild \/ ConnectChildFails \/ OnClockStart
               \/ BeginWriting \/ BeginWritingFails \/ OnClockStop
               \/ \E s \in Streams : FeederCalls(s) \/ FeederStep(s)
               \/ \E c \in Children :
                    \/ WriterBreaks(c) \/ ChildOnClockStop(c) \/ ParentStop(ChildClock(c))
                    \/ \E s \in Streams : \/ ChildSampleFails(c, s) \/ ChildEndOfSegment(c, s)
                                          \/ ChildStopPresentationClock(c, s)
               \/ \E t \in Raisers : RaiserStep(t)
               \/ \E t \in Closers : CloserStep(t)
<1>1. UNCHANGED vars => StateKept
  BY DEF vars, StateKept
<1>2. \A c \in Children, s \in Streams : ChildUnpublishFails(c, s) => StateKept
  BY DEF ChildUnpublishFails, StateKept
<1>. QED  BY <1>1, <1>2 DEF Next, Environment, LibraryStep, CallerStep, WriterStep, StopTaskStep,
     ChildClockStep, AtRest

LEMMA TypeStep == TypeOK /\ [Next]_vars => TypeOK'
<1>. SUFFICES ASSUME TypeOK, [Next]_vars PROVE TypeOK'
  OBVIOUS
<1>1. CASE StateKept
  BY <1>1 DEF StateKept, TypeOK, parent, writers, children
<1>2. ASSUME NEW c \in Children, ParentStop(ChildClock(c)) PROVE TypeOK'
  BY <1>2, StopType, ThreadFacts
<1>3. ASSUME NEW t \in Raisers, RaiserStep(t) PROVE TypeOK'
  BY <1>3, RaiserType, ThreadFacts
<1>4. ASSUME NEW t \in Closers, CloserStep(t) PROVE TypeOK'
  BY <1>4, CloserType, ThreadFacts
<1>. QED  BY <1>1, <1>2, <1>3, <1>4, Actions, CallerType, FeederType, ChildType

\* Every variable keeps its type.
THEOREM TypeCorrect == SafeSpec => []TypeOK
BY InitType, TypeStep, PTL DEF SafeSpec
----------------------------------------------------------------------------
(* Where the steps of each kind move their threads.                             *)

LEMMA GotoPc ==
  ASSUME TypeOK, NEW t \in Threads, NEW l, Goto(t, l)
  PROVE  pc'[t] = l /\ \A v \in Threads \ {t} : pc'[v] = pc[v]
  BY DEF Goto, TypeOK

LEMMA SpawnPc ==
  ASSUME TypeOK, NEW t \in Threads, NEW u \in Threads, t # u, NEW l, NEW m, Spawn(t, l, u, m)
  PROVE  pc'[t] = l /\ pc'[u] = m /\ \A v \in Threads \ {t, u} : pc'[v] = pc[v]
  BY DEF Spawn, TypeOK

\* A loop goes on to the next child, or is over after the last one.
LEMMA LoopPc ==
  ASSUME TypeOK, NEW t \in Threads, NEW l, Loop(t, l)
  PROVE  /\ \A v \in Threads \ {t} : pc'[v] = pc[v] /\ at'[v] = at[v]
         /\ \/ at[t] < N /\ at'[t] = at[t] + 1 /\ pc'[t] = pc[t]
            \/ at[t] = N /\ at'[t] = 1 /\ pc'[t] = l
<1>1. at[t] \in 1..N /\ N \in Nat
  BY NAssumption DEF TypeOK, Children
<1>2. CASE at[t] < N
  BY <1>1, <1>2 DEF Loop, TypeOK
<1>3. CASE at[t] = N
  BY <1>1, <1>3, GotoPc DEF Loop, TypeOK
<1>. QED  BY <1>1, <1>2, <1>3

\* Caller moves alone, until it stops the clock.
LEMMA CallerMoves ==
  ASSUME TypeOK,
         ConnectChild \/ ConnectChildFails \/ OnClockStart \/ BeginWriting \/ BeginWritingFails
  PROVE  /\ \A v \in Threads \ {Caller} : pc'[v] = pc[v] /\ at'[v] = at[v]
         /\ pc[Caller] \in {"connect", "connected", "begin"}
         /\ pc'[Caller] \in {"connect", "refused", "connected", "begin", "started", "rpfCheck"}
<1>. USE ThreadFacts, GotoPc, LoopPc
<1>1. CASE ConnectChild
  BY <1>1 DEF ConnectChild
<1>2. CASE ConnectChildFails
  BY <1>2 DEF ConnectChildFails
<1>3. CASE OnClockStart
  BY <1>3 DEF OnClockStart
<1>4. CASE BeginWriting
  <2>1. pc[Caller] = "begin" /\ (Loop(Caller, "started") \/ (pc' = pc /\ at' = at))
    BY <1>4 DEF BeginWriting, NullChild
  <2>. QED  BY <2>1
<1>5. CASE BeginWritingFails
  BY <1>5 DEF BeginWritingFails
<1>. QED  BY <1>1, <1>2, <1>3, <1>4, <1>5

LEMMA FeederMoves ==
  ASSUME TypeOK, NEW s \in Streams, FeederCalls(s) \/ FeederStep(s)
  PROVE  /\ pc[Feeder(s)] \in {"idle", "write", "notify", "mark"}
         /\ pc'[Feeder(s)] \in {"idle", "write", "notify", "mark", "ended", "rpfCheck"}
         /\ \A v \in Threads \ {Feeder(s)} : pc'[v] = pc[v] /\ at'[v] = at[v]
<1>. USE ThreadFacts, GotoPc, LoopPc
<1>1. CASE FeederCalls(s)
  <2>1. /\ pc[Feeder(s)] = "idle" /\ UNCHANGED at
        /\ \E l \in {"write", "notify", "rpfCheck"} : Goto(Feeder(s), l)
    BY <1>1 DEF FeederCalls, ProcessSample, PlaceMarker, PlaceEndOfSegment, CallRefused
  <2>. QED  BY <2>1
<1>2. CASE PassOn(s)
  <2>1. pc[Feeder(s)] = "write" /\ (Loop(Feeder(s), "idle") \/ (pc' = pc /\ at' = at))
    BY <1>2 DEF PassOn, NullChild
  <2>. QED  BY <2>1
<1>3. CASE NotifyEndOfSegment(s)
  <2>1. pc[Feeder(s)] = "notify" /\ (Loop(Feeder(s), "mark") \/ (pc' = pc /\ at' = at))
    BY <1>3 DEF NotifyEndOfSegment, NullChild
  <2>. QED  BY <2>1
<1>4. CASE MarkEndOfSegment(s)
  BY <1>4 DEF MarkEndOfSegment
<1>. QED  BY <1>1, <1>2, <1>3, <1>4 DEF FeederStep

\* The threads of a child leave those of the parent where they are.
LEMMA ChildMoves ==
  ASSUME TypeOK, NEW c \in Children,
         \/ WriterBreaks(c)
         \/ \E s \in Streams :
              ChildSampleFails(c, s) \/ ChildEndOfSegment(c, s) \/ ChildStopPresentationClock(c, s)
  PROVE  /\ \A t \in {Caller, CloseTask} \cup Clocks \cup FailTasks : pc'[t] = pc[t]
         /\ \A s \in Streams : pc'[Feeder(s)] = pc[Feeder(s)]
         /\ \A t \in Raisers : pc'[t] \in {pc[t], "rpfCheck"} /\ (pc[t] = "rpfState" => pc'[t] = pc[t])
         /\ UNCHANGED at
<1>. USE ThreadFacts, GotoPc
<1>1. CASE WriterBreaks(c)
  BY <1>1 DEF WriterBreaks
<1>2. ASSUME NEW s \in Streams,
             ChildSampleFails(c, s) \/ ChildEndOfSegment(c, s) \/ ChildStopPresentationClock(c, s)
      PROVE  /\ UNCHANGED at
             /\ \/ /\ pc[ChildFeeder(c, s)] = "idle" /\ pc'[ChildFeeder(c, s)] = "rpfCheck"
                   /\ \A v \in Threads \ {ChildFeeder(c, s)} : pc'[v] = pc[v]
                \/ \A v \in Threads \ {StopTask(c, s)} : pc'[v] = pc[v]
  BY <1>2 DEF ChildSampleFails, ChildEndOfSegment, ChildStopPresentationClock
<1>. QED  BY <1>1, <1>2

LEMMA StopMoves ==
  ASSUME TypeOK, NEW t \in Threads, t # CloseTask, ParentStop(t)
  PROVE  /\ pc[t] \in {"spcState", "spcStreams", "spcClock"}
         /\ pc'[t] \in {"spcStreams", "spcClock", AfterStop(t)}
         /\ pc'[CloseTask] \in {pc[CloseTask], "clCheck"}
         /\ \A v \in Threads \ {t, CloseTask} : pc'[v] = pc[v]
         /\ UNCHANGED <<at, writers, children, crash, hasSink, raised>>
<1>. USE ThreadFacts, GotoPc, SpawnPc
<1>1. CASE SpcState(t)
  BY <1>1 DEF SpcState, parent
<1>2. CASE SpcStreams(t)
  BY <1>2 DEF SpcStreams, parent
<1>3. CASE SpcClock(t)
  BY <1>3 DEF SpcClock
<1>. QED  BY <1>1, <1>2, <1>3 DEF ParentStop

\* A thread in RaisePublishFailed starts its own task, and no other.
LEMMA RaiserMoves ==
  ASSUME TypeOK, LabelsOK, NEW t \in Raisers, RaiserStep(t)
  PROVE  /\ UNCHANGED <<at, writers, children, hasSink, raised, clock>>
         /\ \A v \in Threads \ {t, FailTask(t)} : pc'[v] = pc[v]
         /\ pc'[t] \in {"rpfState", Returned(t)}
         /\ \/ pc[t] = "rpfState"
            \/ /\ pc[t] = "rpfCheck" /\ \A v \in Threads \ {t} : pc'[v] = pc[v]
               /\ UNCHANGED <<crash, sinkState, streamState>>
         /\ \/ UNCHANGED pc
            \/ pc[t] = "rpfCheck"
            \/ pc'[FailTask(t)] = "ftRaise"
<1>0. t \in Threads /\ FailTask(t) \in Threads /\ t # FailTask(t)
  BY ThreadFacts
<1>. USE <1>0, GotoPc, SpawnPc
<1>1. CASE RpfCheck(t)
  BY <1>1 DEF RpfCheck, parent
<1>2. CASE RpfSetState(t)
  BY <1>2 DEF RpfSetState
<1>3. CASE UseOfNullSink(t)
  <2>1. pc[t] \notin {"ftClose", "clStamps", "clShutdown"}
    BY ThreadFacts DEF LabelsOK
  <2>. QED  BY <1>3, <2>1 DEF UseOfNullSink, parent
<1>. QED  BY <1>1, <1>2, <1>3 DEF RaiserStep

\* A task of RaisePublishFailed or the close task; the second never stops the parent.
LEMMA CloserMoves ==
  ASSUME TypeOK, LabelsOK, NEW t \in Closers, CloserStep(t)
  PROVE  /\ \A v \in Threads \ {t, CloseTask} : pc'[v] = pc[v] /\ at'[v] = at[v]
         /\ UNCHANGED children
         /\ pc[t] # "none" /\ pc'[t] # "none"
         /\ t = CloseTask => ~ParentStop(t) /\ pc'[CloseTask] \in CloseSteps
         /\ t # CloseTask => pc'[CloseTask] \in {pc[CloseTask], "clCheck"}
<1>0. t \in Threads
  BY ThreadFacts
<1>. USE <1>0, GotoPc, LoopPc
<1>1. t = CloseTask => pc[t] \in {"none"} \cup CloseSteps
  BY DEF LabelsOK
<1>2. CASE ParentStop(t)
  <2>1. pc[t] \in {"spcState", "spcStreams", "spcClock"}
    BY <1>2 DEF ParentStop, SpcState, SpcStreams, SpcClock
  <2>2. t # CloseTask
    BY <1>1, <2>1 DEF CloseSteps
  <2>. QED  BY <1>2, <2>1, <2>2, StopMoves DEF AfterStop
<1>3. CASE FailTaskRaises(t) \/ FailTaskCloses(t)
  <2>1. /\ pc[t] \in {"ftRaise", "ftClose"} /\ pc'[t] # "none" /\ UNCHANGED <<at, children>>
        /\ \A v \in Threads \ {t} : pc'[v] = pc[v]
    BY <1>3 DEF FailTaskRaises, FailTaskCloses
  <2>2. t # CloseTask
    BY <1>1, <2>1 DEF CloseSteps
  <2>. QED  BY <2>1, <2>2, ThreadFacts
<1>4. CASE \/ CloseCheck(t) \/ CloseReadTimestamps(t) \/ RaiseSessionClosed(t)
           \/ CloseCallsShutdown(t) \/ ShutdownChild(t) \/ CloseResetsSink(t) \/ UseOfNullSink(t)
  <2>1. /\ UNCHANGED children
        /\ \A v \in Threads \ {t} : pc'[v] = pc[v] /\ at'[v] = at[v]
    BY <1>4 DEF CloseCheck, CloseReadTimestamps, RaiseSessionClosed, CloseCallsShutdown,
       ShutdownChild, CloseResetsSink, UseOfNullSink, NullChild
  <2>2. /\ pc[t] # "none"
        /\ ~UseOfNullSink(t) => pc'[t] \in CloseSteps
        /\ UseOfNullSink(t) => pc'[t] = pc[t]
    BY <1>4 DEF CloseCheck, CloseReadTimestamps, RaiseSessionClosed, CloseCallsShutdown,
       ShutdownChild, CloseResetsSink, UseOfNullSink, NullChild, CloseSteps
  <2>3. t = CloseTask => ~ParentStop(t)
    BY <1>1 DEF ParentStop, SpcState, SpcStreams, SpcClock, CloseSteps
  <2>4. "none" \notin CloseSteps
    BY DEF CloseSteps
  <2>. QED  BY <1>1, <2>1, <2>2, <2>3, <2>4, ThreadFacts
<1>. QED  BY <1>2, <1>3, <1>4 DEF CloserStep

\* Each thread stays at its own labels.
LEMMA LabelsStep ==
  ASSUME TypeOK, LabelsOK, [Next]_vars PROVE LabelsOK'
<1>. USE ThreadFacts
<1>1. CASE StateKept
  BY <1>1 DEF StateKept, LabelsOK
<1>2. CASE ConnectChild \/ ConnectChildFails \/ OnClockStart \/ BeginWriting \/ BeginWritingFails
  <2>1. /\ \A v \in Threads \ {Caller} : pc'[v] = pc[v]
        /\ pc'[Caller] \in {"connect", "refused", "connected", "begin", "started", "rpfCheck"}
    BY <1>2, CallerMoves
  <2>2. ASSUME NEW s \in Streams PROVE pc'[Feeder(s)] = pc[Feeder(s)]
    BY <2>1, ThreadKinds
  <2>3. ASSUME NEW c \in Children PROVE pc'[ChildClock(c)] = pc[ChildClock(c)]
    BY <2>1, ThreadKinds
  <2>4. ASSUME NEW c \in Children, NEW s \in Streams PROVE pc'[ChildFeeder(c, s)] = pc[ChildFeeder(c, s)]
    BY <2>1, ThreadKinds
  <2>5. pc'[CloseTask] = pc[CloseTask]
    BY <2>1
  <2>6. \A s \in Streams :
          pc'[Feeder(s)] \in {"idle", "write", "notify", "mark", "ended", "rpfCheck", "rpfState"}
    BY <2>2 DEF LabelsOK
  <2>7. ASSUME NEW c \in Children
        PROVE  /\ pc'[ChildClock(c)] \in {"none", "spcState", "spcStreams", "spcClock", "done"}
               /\ \A s \in Streams : pc'[ChildFeeder(c, s)] \in {"idle", "rpfCheck", "rpfState", "failed"}
    BY <2>3, <2>4 DEF LabelsOK
  <2>8. pc'[CloseTask] \in {"none"} \cup CloseSteps
    BY <2>5 DEF LabelsOK
  <2>. QED  BY <2>1, <2>6, <2>7, <2>8 DEF LabelsOK
<1>3. CASE OnClockStop
  <2>1. Spawn(Caller, "stopped", CloseTask, "clCheck") /\ Caller # CloseTask
    BY <1>3 DEF OnClockStop
  <2>2. /\ \A v \in Threads \ {Caller, CloseTask} : pc'[v] = pc[v]
        /\ pc'[Caller] = "stopped" /\ pc'[CloseTask] = "clCheck"
    BY <2>1, SpawnPc, ThreadFacts
  <2>3. \A s \in Streams : pc'[Feeder(s)] = pc[Feeder(s)]
    BY <2>2, ThreadKinds
  <2>4. \A c \in Children : pc'[ChildClock(c)] = pc[ChildClock(c)]
    BY <2>2, ThreadKinds
  <2>5. \A c \in Children, s \in Streams : pc'[ChildFeeder(c, s)] = pc[ChildFeeder(c, s)]
    BY <2>2, ThreadKinds
  <2>. QED  BY <2>2, <2>3, <2>4, <2>5 DEF LabelsOK, CloseSteps
<1>4. ASSUME NEW s \in Streams, FeederCalls(s) \/ FeederStep(s) PROVE LabelsOK'
  BY <1>4, FeederMoves DEF LabelsOK
<1>5. ASSUME NEW c \in Children,
             \/ WriterBreaks(c)
             \/ \E s \in Streams :
                  ChildSampleFails(c, s) \/ ChildEndOfSegment(c, s) \/ ChildStopPresentationClock(c, s)
      PROVE  LabelsOK'
  <2>1. \A d \in Children, s \in Streams : pc'[ChildFeeder(d, s)] \in {pc[ChildFeeder(d, s)], "rpfCheck"}
    <3>1. CASE WriterBreaks(c)
      BY <3>1 DEF WriterBreaks
    <3>2. ASSUME NEW r \in Streams, ChildSampleFails(c, r)
          PROVE  \A v \in Threads : pc'[v] \in {pc[v], "rpfCheck"}
      BY <3>2, GotoPc DEF ChildSampleFails
    <3>3. ASSUME NEW r \in Streams, ChildEndOfSegment(c, r) \/ ChildStopPresentationClock(c, r)
          PROVE  \A v \in Threads \ {StopTask(c, r)} : pc'[v] = pc[v]
      BY <3>3, GotoPc DEF ChildEndOfSegment, ChildStopPresentationClock
    <3>. QED  BY <1>5, <3>1, <3>2, <3>3
  <2>. QED  BY <1>5, <2>1, ChildMoves DEF LabelsOK
<1>6. ASSUME NEW c \in Children, ChildOnClockStop(c) PROVE LabelsOK'
  <2>1. Goto(ChildClock(c), "spcState")
    BY <1>6 DEF ChildOnClockStop
  <2>. QED  BY <2>1, GotoPc DEF LabelsOK
<1>7. ASSUME NEW c \in Children, ParentStop(ChildClock(c)) PROVE LabelsOK'
  <2>1. AfterStop(ChildClock(c)) = "done"
    BY DEF AfterStop
  <2>. QED  BY <1>7, <2>1, StopMoves DEF LabelsOK, CloseSteps
<1>8. ASSUME NEW t \in Raisers, RaiserStep(t) PROVE LabelsOK'
  <2>1. /\ Returned(Caller) = "started"
        /\ \A s \in Streams : Returned(Feeder(s)) = "idle"
        /\ \A c \in Children, s \in Streams : Returned(ChildFeeder(c, s)) = "failed"
    BY ThreadKinds DEF Returned
  <2>. QED  BY <1>8, <2>1, RaiserMoves DEF LabelsOK
<1>9. ASSUME NEW t \in Closers, CloserStep(t) PROVE LabelsOK'
  BY <1>9, CloserMoves DEF LabelsOK, CloseSteps
<1>. QED  BY <1>1, <1>2, <1>3, <1>4, <1>5, <1>6, <1>7, <1>8, <1>9, Actions
----------------------------------------------------------------------------
(* The inductive invariant, part by part. In each lemma a part is preserved by  *)
(* every step from a state that satisfies the parts it depends on.              *)

LEMMA ChildrenStartStep ==
  ASSUME TypeOK, LabelsOK, ChildrenStart, [Next]_vars PROVE ChildrenStart'
<1>. USE ThreadFacts
<1>0. N \in Nat /\ N > 1 /\ at[Caller] \in 1..N
  BY NAssumption DEF TypeOK, Children
<1>1. ASSUME UNCHANGED children, pc'[Caller] = pc[Caller], at'[Caller] = at[Caller]
      PROVE  ChildrenStart'
  BY <1>1 DEF ChildrenStart, NotStarted, children
<1>2. CASE StateKept
  BY <1>1, <1>2 DEF StateKept
<1>3. CASE ConnectChild
  <2>1. /\ pc[Caller] = "connect" /\ published' = published \cup {at[Caller]}
        /\ Loop(Caller, "connected") /\ UNCHANGED <<childState, childEnded, childClock>>
    BY <1>3 DEF ConnectChild
  <2>2. \A c \in Children : NotStarted(c)'
    BY <2>1 DEF ChildrenStart, NotStarted
  <2>3. 1..(at[Caller] - 1) \subseteq published
    BY <2>1 DEF ChildrenStart
  <2>4. CASE at[Caller] < N /\ at'[Caller] = at[Caller] + 1 /\ pc'[Caller] = "connect"
    <3>1. \A c \in 1..(at'[Caller] - 1) : c \in 1..(at[Caller] - 1) \/ c = at[Caller]
      BY <1>0, <2>4
    <3>. QED  BY <2>1, <2>2, <2>3, <2>4, <3>1 DEF ChildrenStart
  <2>5. CASE at[Caller] = N /\ pc'[Caller] = "connected"
    <3>1. \A c \in Children : c \in 1..(at[Caller] - 1) \/ c = at[Caller]
      BY <1>0, <2>5 DEF Children
    <3>. QED  BY <2>1, <2>2, <2>3, <2>5, <3>1 DEF ChildrenStart
  <2>. QED  BY <2>1, <2>4, <2>5, LoopPc
<1>4. CASE ConnectChildFails
  <2>1. pc[Caller] = "connect" /\ pc'[Caller] = "refused" /\ UNCHANGED children
    BY <1>4, GotoPc DEF ConnectChildFails
  <2>. QED  BY <2>1 DEF ChildrenStart, NotStarted, children
<1>5. CASE OnClockStart
  <2>1. pc[Caller] = "connected" /\ pc'[Caller] = "begin" /\ UNCHANGED <<children, at>>
    BY <1>5, GotoPc DEF OnClockStart
  <2>2. at[Caller]..N \subseteq Children
    BY <1>0 DEF Children
  <2>. QED  BY <2>1, <2>2 DEF ChildrenStart, NotStarted, children
<1>6. CASE BeginWriting
  <2>1. CASE at[Caller] \in attached
    <3>1. /\ pc[Caller] = "begin" /\ Loop(Caller, "started") /\ UNCHANGED <<published, childEnded>>
          /\ childState' = [childState EXCEPT ![at[Caller]] = "RUNNING"]
          /\ childClock' = [childClock EXCEPT ![at[Caller]] = "running"]
      BY <1>6, <2>1 DEF BeginWriting
    <3>2. CASE at'[Caller] = at[Caller] + 1 /\ pc'[Caller] = "begin"
      <4>1. \A c \in at'[Caller]..N : c \in at[Caller]..N /\ c \in Children /\ c # at[Caller]
        BY <1>0, <3>2 DEF Children
      <4>2. \A c \in at'[Caller]..N : NotStarted(c)'
        BY <3>1, <4>1 DEF ChildrenStart, NotStarted, TypeOK
      <4>. QED  BY <3>1, <3>2, <4>2 DEF ChildrenStart
    <3>3. CASE pc'[Caller] = "started"
      BY <3>1, <3>3 DEF ChildrenStart
    <3>. QED  BY <3>1, <3>2, <3>3, LoopPc
  <2>2. CASE at[Caller] \notin attached
    BY <1>1, <1>6, <2>2 DEF BeginWriting, NullChild
  <2>. QED  BY <2>1, <2>2
<1>7. CASE BeginWritingFails \/ OnClockStop
  <2>1. /\ pc[Caller] \in {"begin", "started"} /\ pc'[Caller] \in {"rpfCheck", "stopped"}
        /\ UNCHANGED children
    BY <1>7, GotoPc, SpawnPc DEF BeginWritingFails, OnClockStop
  <2>. QED  BY <2>1 DEF ChildrenStart, children
<1>8. ASSUME NEW s \in Streams, FeederCalls(s) \/ FeederStep(s) PROVE ChildrenStart'
  <2>1. UNCHANGED children
    BY <1>8 DEF FeederCalls, FeederStep, ProcessSample, PlaceMarker, PlaceEndOfSegment,
       CallRefused, PassOn, NotifyEndOfSegment, MarkEndOfSegment, NullChild
  <2>. QED  BY <1>1, <1>8, <2>1, FeederMoves
<1>9. ASSUME NEW c \in Children, WriterBreaks(c) \/ \E s \in Streams : ChildSampleFails(c, s)
      PROVE  ChildrenStart'
  BY <1>1, <1>9, ChildMoves DEF WriterBreaks, ChildSampleFails
<1>10. ASSUME NEW c \in Children, NEW s \in Streams, ChildEndOfSegment(c, s)
       PROVE  ChildrenStart'
  <2>1. /\ UNCHANGED <<childState, childClock, published>>
        /\ childEnded' = [childEnded EXCEPT ![c] = @ \cup {s}]
    BY <1>10 DEF ChildEndOfSegment
  <2>2. \A d \in Children : childEnded[d] = Streams => childEnded'[d] = Streams
    BY <2>1 DEF TypeOK
  <2>3. pc'[Caller] = pc[Caller] /\ at' = at
    BY <1>10, ChildMoves
  <2>. QED  BY <2>1, <2>2, <2>3 DEF ChildrenStart, NotStarted
<1>11. ASSUME NEW c \in Children, NEW s \in Streams, ChildStopPresentationClock(c, s)
       PROVE  ChildrenStart'
  <2>1. pc'[Caller] = pc[Caller] /\ at' = at
    BY <1>11, ChildMoves
  <2>2. CASE ChildStops(c)
    <3>1. /\ UNCHANGED <<childState, childEnded>> /\ published' = published \ {c}
          /\ \A d \in Children \ {c} : childClock'[d] = childClock[d]
      BY <1>11, <2>2 DEF ChildStopPresentationClock, ChildStops, TypeOK
    <3>2. pc[Caller] \notin {"connect", "refused", "connected"}
      BY <2>2 DEF ChildStops, ChildrenStart, NotStarted
    <3>3. \A d \in at[Caller]..N : d \in Children
      BY <1>0 DEF Children
    <3>. QED  BY <2>1, <2>2, <3>1, <3>2, <3>3 DEF ChildrenStart, NotStarted, ChildStops
  <2>3. CASE ~ChildStops(c)
    BY <1>1, <1>11, <2>1, <2>3 DEF ChildStopPresentationClock, children
  <2>. QED  BY <2>2, <2>3
<1>12. ASSUME NEW c \in Children, ChildOnClockStop(c) PROVE ChildrenStart'
  <2>1. /\ UNCHANGED <<childEnded, published, at>> /\ childClock[c] = "stopping"
        /\ \A d \in Children \ {c} : childState'[d] = childState[d] /\ childClock'[d] = childClock[d]
    BY <1>12 DEF ChildOnClockStop, TypeOK
  <2>2. pc'[Caller] = pc[Caller]
    BY <1>12, GotoPc DEF ChildOnClockStop
  <2>3. \A d \in at[Caller]..N : d \in Children
    BY <1>0 DEF Children
  <2>. QED  BY <2>1, <2>2, <2>3 DEF ChildrenStart, NotStarted
<1>13. ASSUME NEW c \in Children, ParentStop(ChildClock(c)) PROVE ChildrenStart'
  BY <1>1, <1>13, StopMoves
<1>14. ASSUME NEW t \in Raisers, RaiserStep(t) PROVE ChildrenStart'
  <2>1. CASE t = Caller
    <3>1. pc[Caller] \in {"rpfCheck", "rpfState"} /\ pc'[Caller] \in {"rpfState", "started"}
      BY <1>14, <2>1, RaiserMoves DEF Returned
    <3>. QED  BY <1>14, <3>1, RaiserMoves DEF ChildrenStart, children
  <2>2. CASE t # Caller
    BY <1>1, <1>14, <2>2, RaiserMoves
  <2>. QED  BY <2>1, <2>2
<1>15. ASSUME NEW t \in Closers, CloserStep(t) PROVE ChildrenStart'
  BY <1>1, <1>15, CloserMoves
<1>. QED  BY <1>2, <1>3, <1>4, <1>5, <1>6, <1>7, <1>8, <1>9, <1>10, <1>11, <1>12, <1>13, <1>14,
          <1>15, Actions

\* What a step does to the children, whatever else it does.
LEMMA ChildrenMove ==
  ASSUME TypeOK, LabelsOK, [Next]_vars
  PROVE  \/ UNCHANGED children
         \/ ConnectChild \/ BeginWriting
         \/ \E c \in Children :
              \/ ChildOnClockStop(c)
              \/ \E s \in Streams : ChildEndOfSegment(c, s) \/ ChildStopPresentationClock(c, s)
<1>. USE ThreadFacts
<1>1. CASE StateKept
  BY <1>1 DEF StateKept
<1>2. CASE ConnectChildFails \/ OnClockStart \/ BeginWritingFails \/ OnClockStop
  BY <1>2 DEF ConnectChildFails, OnClockStart, BeginWritingFails, OnClockStop
<1>3. ASSUME NEW s \in Streams, FeederCalls(s) \/ FeederStep(s) PROVE UNCHANGED children
  BY <1>3 DEF FeederCalls, FeederStep, ProcessSample, PlaceMarker, PlaceEndOfSegment,
     CallRefused, PassOn, NotifyEndOfSegment, MarkEndOfSegment, NullChild
<1>4. ASSUME NEW c \in Children, WriterBreaks(c) \/ \E s \in Streams : ChildSampleFails(c, s)
      PROVE  UNCHANGED children
  BY <1>4 DEF WriterBreaks, ChildSampleFails
<1>5. ASSUME NEW c \in Children, ParentStop(ChildClock(c)) PROVE UNCHANGED children
  BY <1>5, StopMoves
<1>6. ASSUME NEW t \in Raisers, RaiserStep(t) PROVE UNCHANGED children
  BY <1>6, RaiserMoves
<1>7. ASSUME NEW t \in Closers, CloserStep(t) PROVE UNCHANGED children
  BY <1>7, CloserMoves
<1>. QED  BY <1>1, <1>2, <1>3, <1>4, <1>5, <1>6, <1>7, Actions

LEMMA ChildrenStopStep ==
  ASSUME TypeOK, LabelsOK, ChildrenStart, ChildrenStop, [Next]_vars PROVE ChildrenStop'
<1>1. CASE UNCHANGED children
  BY <1>1 DEF ChildrenStop, children
<1>2. CASE ConnectChild
  <2>1. \A c \in Children : NotStarted(c) /\ childState'[c] = childState[c] /\ childClock'[c] = childClock[c]
    BY <1>2 DEF ConnectChild, ChildrenStart
  <2>. QED  BY <2>1 DEF ChildrenStop, NotStarted
<1>3. CASE BeginWriting
  <2>1. CASE at[Caller] \in attached
    BY <1>3, <2>1 DEF BeginWriting, ChildrenStop, TypeOK
  <2>2. CASE at[Caller] \notin attached
    BY <1>1, <1>3, <2>2 DEF BeginWriting, NullChild
  <2>. QED  BY <2>1, <2>2
<1>4. ASSUME NEW c \in Children, ChildOnClockStop(c) PROVE ChildrenStop'
  BY <1>4 DEF ChildOnClockStop, ChildrenStop, TypeOK
<1>5. ASSUME NEW c \in Children, NEW s \in Streams, ChildEndOfSegment(c, s) PROVE ChildrenStop'
  BY <1>5 DEF ChildEndOfSegment, ChildrenStop
<1>6. ASSUME NEW c \in Children, NEW s \in Streams, ChildStopPresentationClock(c, s)
      PROVE  ChildrenStop'
  <2>1. CASE ChildStops(c)
    BY <1>6, <2>1 DEF ChildStopPresentationClock, ChildStops, ChildrenStop, TypeOK
  <2>2. CASE ~ChildStops(c)
    BY <1>1, <1>6, <2>2 DEF ChildStopPresentationClock, children
  <2>. QED  BY <2>1, <2>2
<1>. QED  BY <1>1, <1>2, <1>3, <1>4, <1>5, <1>6, ChildrenMove
----------------------------------------------------------------------------
(* What holds until a failure: the order in which the parent stops and closes.  *)

\* A failure that began is never forgotten.
LEMMA FailingStays ==
  ASSUME TypeOK, LabelsOK, Failing, [Next]_vars PROVE Failing'
<1>. USE ThreadFacts
<1>1. PICK r \in Raisers : pc[r] = "rpfState" \/ pc[FailTask(r)] # "none"
  BY DEF Failing
<1>2. SUFFICES pc'[r] = "rpfState" \/ pc'[FailTask(r)] # "none"
  BY DEF Failing
<1>3. r \in Threads /\ FailTask(r) \in FailTasks /\ FailTask(r) \in Threads
  OBVIOUS
<1>4. CASE StateKept
  BY <1>1, <1>4 DEF StateKept
<1>5. CASE ConnectChild \/ ConnectChildFails \/ OnClockStart \/ BeginWriting \/ BeginWritingFails
  BY <1>1, <1>3, <1>5, CallerMoves
<1>6. CASE OnClockStop
  <2>1. Spawn(Caller, "stopped", CloseTask, "clCheck") /\ pc[Caller] = "started"
    BY <1>6 DEF OnClockStop
  <2>. QED  BY <1>1, <1>3, <2>1, SpawnPc
<1>7. ASSUME NEW s \in Streams, FeederCalls(s) \/ FeederStep(s)
      PROVE  pc'[r] = "rpfState" \/ pc'[FailTask(r)] # "none"
  BY <1>1, <1>3, <1>7, FeederMoves
<1>8. ASSUME NEW c \in Children,
             \/ WriterBreaks(c)
             \/ \E s \in Streams :
                  ChildSampleFails(c, s) \/ ChildEndOfSegment(c, s) \/ ChildStopPresentationClock(c, s)
      PROVE  pc'[r] = "rpfState" \/ pc'[FailTask(r)] # "none"
  BY <1>1, <1>3, <1>8, ChildMoves
<1>9. ASSUME NEW c \in Children, ChildOnClockStop(c)
      PROVE  pc'[r] = "rpfState" \/ pc'[FailTask(r)] # "none"
  <2>1. Goto(ChildClock(c), "spcState")
    BY <1>9 DEF ChildOnClockStop
  <2>. QED  BY <1>1, <1>3, <2>1, GotoPc
<1>10. ASSUME NEW c \in Children, ParentStop(ChildClock(c))
       PROVE  pc'[r] = "rpfState" \/ pc'[FailTask(r)] # "none"
  BY <1>1, <1>3, <1>10, StopMoves
<1>11. ASSUME NEW t \in Raisers, RaiserStep(t)
       PROVE  pc'[r] = "rpfState" \/ pc'[FailTask(r)] # "none"
  <2>1. CASE t = r
    <3>1. CASE UNCHANGED pc \/ pc'[FailTask(t)] = "ftRaise"
      BY <1>1, <2>1, <3>1
    <3>2. CASE pc[t] = "rpfCheck"
      <4>1. pc'[FailTask(r)] = pc[FailTask(r)]
        BY <1>3, <1>11, <2>1, <3>2, RaiserMoves
      <4>. QED  BY <1>1, <2>1, <3>2, <4>1
    <3>. QED  BY <1>11, <3>1, <3>2, RaiserMoves
  <2>2. CASE t # r
    <3>1. FailTask(t) # FailTask(r) /\ FailTask(t) \in FailTasks
      BY <2>2 DEF FailTask
    <3>2. pc'[r] = pc[r] /\ pc'[FailTask(r)] = pc[FailTask(r)]
      BY <1>3, <1>11, <2>2, <3>1, RaiserMoves
    <3>. QED  BY <1>1, <3>2
  <2>. QED  BY <2>1, <2>2
<1>12. ASSUME NEW t \in Closers, CloserStep(t)
       PROVE  pc'[r] = "rpfState" \/ pc'[FailTask(r)] # "none"
  BY <1>1, <1>3, <1>12, CloserMoves
<1>. QED  BY <1>4, <1>5, <1>6, <1>7, <1>8, <1>9, <1>10, <1>11, <1>12, Actions

\* A child that has shut down never starts again.
LEMMA AllShutDownStays ==
  ASSUME TypeOK, LabelsOK, ChildrenStart, AllShutDown, [Next]_vars PROVE AllShutDown'
<1>1. CASE UNCHANGED children
  BY <1>1 DEF AllShutDown, children
<1>2. CASE ConnectChild
  BY <1>2 DEF ConnectChild, AllShutDown
<1>3. CASE BeginWriting
  <2>1. at[Caller] \in Children /\ at[Caller] \in at[Caller]..N
    BY ThreadFacts, NAssumption DEF TypeOK, Children
  <2>2. NotStarted(at[Caller])
    BY <1>3, <2>1 DEF BeginWriting, ChildrenStart
  <2>. QED  BY <2>1, <2>2 DEF AllShutDown, NotStarted
<1>4. ASSUME NEW c \in Children, ChildOnClockStop(c) PROVE AllShutDown'
  BY <1>4 DEF ChildOnClockStop, AllShutDown, TypeOK
<1>5. ASSUME NEW c \in Children, NEW s \in Streams,
             ChildEndOfSegment(c, s) \/ ChildStopPresentationClock(c, s)
      PROVE  AllShutDown'
  BY <1>5 DEF ChildEndOfSegment, ChildStopPresentationClock, AllShutDown
<1>. QED  BY <1>1, <1>2, <1>3, <1>4, <1>5, ChildrenMove

\* Nor does a child shut down before the last one has started.
LEMMA AllShutDownStarted ==
  ASSUME TypeOK, ChildrenStart, AllShutDown
  PROVE  pc[Caller] \notin {"connect", "refused", "connected", "begin"}
<1>1. 1 \in Children /\ at[Caller] \in Children /\ at[Caller] \in at[Caller]..N
  BY ThreadFacts, NAssumption DEF TypeOK, Children
<1>. QED  BY <1>1 DEF AllShutDown, ChildrenStart, NotStarted

\* The pipeline makes no call into a stream sink after the end of its segment.
LEMMA EndedStays ==
  ASSUME TypeOK, LabelsOK, [Next]_vars, NEW s \in Streams, pc[Feeder(s)] = "ended"
  PROVE  pc'[Feeder(s)] = "ended"
<1>0. Feeder(s) \in Threads \ {Caller, CloseTask} /\ Feeder(s) \in Raisers
  BY ThreadFacts
<1>. USE <1>0, ThreadFacts
<1>1. CASE StateKept
  BY <1>1 DEF StateKept
<1>2. CASE ConnectChild \/ ConnectChildFails \/ OnClockStart \/ BeginWriting \/ BeginWritingFails
  BY <1>2, CallerMoves
<1>3. CASE OnClockStop
  BY <1>3, SpawnPc DEF OnClockStop
<1>4. ASSUME NEW r \in Streams, FeederCalls(r) \/ FeederStep(r) PROVE pc'[Feeder(s)] = "ended"
  BY <1>4, FeederMoves
<1>5. ASSUME NEW c \in Children,
             \/ WriterBreaks(c)
             \/ \E r \in Streams :
                  ChildSampleFails(c, r) \/ ChildEndOfSegment(c, r) \/ ChildStopPresentationClock(c, r)
      PROVE  pc'[Feeder(s)] = "ended"
  BY <1>5, ChildMoves
<1>6. ASSUME NEW c \in Children, ChildOnClockStop(c) PROVE pc'[Feeder(s)] = "ended"
  BY <1>6, GotoPc DEF ChildOnClockStop
<1>7. ASSUME NEW c \in Children, ParentStop(ChildClock(c)) PROVE pc'[Feeder(s)] = "ended"
  BY <1>7, StopMoves
<1>8. ASSUME NEW t \in Raisers, RaiserStep(t) PROVE pc'[Feeder(s)] = "ended"
  BY <1>8, RaiserMoves
<1>9. ASSUME NEW t \in Closers, CloserStep(t) PROVE pc'[Feeder(s)] = "ended"
  BY <1>9, CloserMoves
<1>. QED  BY <1>1, <1>2, <1>3, <1>4, <1>5, <1>6, <1>7, <1>8, <1>9, Actions

\* Without a failure only the close task is a closer.
LEMMA OnlyCloseTask ==
  ASSUME TypeOK, LabelsOK, ~Failing, NEW t \in Closers, CloserStep(t)
  PROVE  t = CloseTask
<1>1. pc[t] # "none"
  BY CloserMoves
<1>. QED  BY <1>1, ThreadFacts DEF Failing

\* Without a failure the parent is moved by its clock and by the clocks of its
\* children; every other step leaves alone what the order depends on.
LEMMA QuietSteps ==
  ASSUME TypeOK, LabelsOK, ~Failing, ~Failing', [Next]_vars
  PROVE  \/ OnClockStart \/ OnClockStop
         \/ \E c \in Children : ParentStop(ChildClock(c))
         \/ /\ UNCHANGED clock
            /\ sinkState' \in {sinkState, "SHUTDOWN"}
            /\ \A s \in Streams :
                 streamState'[s] = "EOS" => streamState[s] = "EOS" \/ pc'[Feeder(s)] = "ended"
            /\ \A c \in Children : pc'[ChildClock(c)] \in {pc[ChildClock(c)], "spcState"}
            /\ \/ pc'[CloseTask] = pc[CloseTask] /\ at'[CloseTask] = at[CloseTask]
                  /\ UNCHANGED <<hasSink, raised, attached>>
               \/ CloserStep(CloseTask)
<1>. USE ThreadFacts
<1>1. CASE StateKept
  BY <1>1 DEF StateKept, parent, writers
<1>2. CASE ConnectChild \/ ConnectChildFails \/ BeginWriting \/ BeginWritingFails
  <2>1. UNCHANGED <<parent, attached>>
    BY <1>2 DEF ConnectChild, ConnectChildFails, BeginWriting, BeginWritingFails, NullChild, writers
  <2>. QED  BY <1>2, <2>1, CallerMoves DEF parent
<1>3. ASSUME NEW s \in Streams, FeederCalls(s) \/ FeederStep(s)
      PROVE  /\ UNCHANGED <<clock, sinkState, hasSink, raised, attached>>
             /\ \A t \in {CloseTask} \cup Clocks : pc'[t] = pc[t] /\ at'[t] = at[t]
             /\ \A r \in Streams :
                  streamState'[r] = "EOS" => streamState[r] = "EOS" \/ pc'[Feeder(r)] = "ended"
  <2>1. CASE MarkEndOfSegment(s)
    <3>1. /\ pc'[Feeder(s)] = "ended"
          /\ \A r \in Streams \ {s} : streamState'[r] = streamState[r]
      BY <2>1, GotoPc DEF MarkEndOfSegment, TypeOK
    <3>. QED  BY <1>3, <2>1, <3>1, FeederMoves DEF MarkEndOfSegment, writers
  <2>2. CASE ~MarkEndOfSegment(s)
    <3>1. UNCHANGED <<parent, attached>>
      BY <1>3, <2>2 DEF FeederCalls, FeederStep, ProcessSample, PlaceMarker, PlaceEndOfSegment,
         CallRefused, PassOn, NotifyEndOfSegment, NullChild, writers
    <3>. QED  BY <1>3, <3>1, FeederMoves DEF parent
  <2>. QED  BY <2>1, <2>2
<1>4. ASSUME NEW c \in Children,
             \/ WriterBreaks(c)
             \/ \E s \in Streams :
                  ChildSampleFails(c, s) \/ ChildEndOfSegment(c, s) \/ ChildStopPresentationClock(c, s)
      PROVE  UNCHANGED <<parent, attached>> /\ \A t \in {CloseTask} \cup Clocks : pc'[t] = pc[t] /\ at'[t] = at[t]
  <2>1. UNCHANGED <<parent, attached>>
    BY <1>4 DEF WriterBreaks, ChildSampleFails, ChildEndOfSegment, ChildStopPresentationClock, writers
  <2>. QED  BY <1>4, <2>1, ChildMoves
<1>5. ASSUME NEW c \in Children, ChildOnClockStop(c)
      PROVE  /\ UNCHANGED <<parent, attached, at>> /\ pc'[CloseTask] = pc[CloseTask]
             /\ \A d \in Children : pc'[ChildClock(d)] \in {pc[ChildClock(d)], "spcState"}
  <2>1. Goto(ChildClock(c), "spcState") /\ UNCHANGED <<parent, attached, at>>
    BY <1>5 DEF ChildOnClockStop, writers
  <2>. QED  BY <2>1, GotoPc
<1>6. ASSUME NEW t \in Raisers, RaiserStep(t)
      PROVE  /\ UNCHANGED <<clock, sinkState, streamState, hasSink, raised, attached, at>>
             /\ \A v \in {CloseTask} \cup Clocks : pc'[v] = pc[v]
  <2>1. pc[t] # "rpfState"
    BY DEF Failing
  <2>. QED  BY <1>6, <2>1, RaiserMoves DEF writers
<1>7. ASSUME CloserStep(CloseTask)
      PROVE  /\ UNCHANGED clock
             /\ sinkState' \in {sinkState, "SHUTDOWN"}
             /\ \A s \in Streams : streamState'[s] \in {streamState[s], "SHUTDOWN"}
             /\ \A v \in Clocks : pc'[v] = pc[v]
  <2>1. ~ParentStop(CloseTask)
    BY <1>7, CloserMoves
  <2>2. \/ FailTaskRaises(CloseTask) \/ FailTaskCloses(CloseTask) \/ CloseCheck(CloseTask)
        \/ CloseReadTimestamps(CloseTask) \/ RaiseSessionClosed(CloseTask)
        \/ CloseCallsShutdown(CloseTask) \/ ShutdownChild(CloseTask)
        \/ CloseResetsSink(CloseTask) \/ UseOfNullSink(CloseTask)
    BY <1>7, <2>1 DEF CloserStep
  <2>3. /\ UNCHANGED clock
        /\ UNCHANGED <<sinkState, streamState>> \/ SetState("SHUTDOWN")
    BY <2>2 DEF FailTaskRaises, FailTaskCloses, CloseCheck, CloseReadTimestamps, RaiseSessionClosed,
       CloseCallsShutdown, ShutdownChild, CloseResetsSink, UseOfNullSink, NullChild, parent
  <2>4. \A v \in Clocks : pc'[v] = pc[v]
    BY <1>7, CloserMoves
  <2>. QED  BY <2>3, <2>4 DEF SetState
<1>8. ASSUME NEW t \in Closers, CloserStep(t) PROVE CloserStep(CloseTask)
  BY <1>8, OnlyCloseTask
<1>. QED  BY <1>1, <1>2, <1>3, <1>4, <1>5, <1>6, <1>7, <1>8, Actions DEF parent

\* What the clock of a child does in StopPresentationClock of the parent: it stops the
\* parent only when every child has shut down and every stream has ended.
LEMMA ParentStops ==
  ASSUME TypeOK, LabelsOK, StopOrder, NEW c \in Children, ParentStop(ChildClock(c))
  PROVE  /\ \A s \in Streams : streamState'[s] = "EOS" => streamState[s] = "EOS"
         /\ pc'[ChildClock(c)] \in {"spcStreams", "spcClock"} => AllShutDown
         /\ pc'[ChildClock(c)] = "spcClock" => AllEnded
         /\ \A d \in Children \ {c} : pc'[ChildClock(d)] = pc[ChildClock(d)]
         /\ \/ UNCHANGED <<clock, sinkState>> /\ pc'[CloseTask] = pc[CloseTask]
            \/ /\ AllShutDown /\ AllEnded /\ pc[CloseTask] = "none"
               /\ \/ clock' = "stopping" /\ pc'[CloseTask] = "none"
                  \/ clock' = "invalid" /\ sinkState' = "STOPPED" /\ pc'[CloseTask] = "clCheck"
<1>. USE ThreadFacts, GotoPc, SpawnPc
<1>1. AfterStop(ChildClock(c)) = "done"
  BY DEF AfterStop
<1>2. CASE SpcState(ChildClock(c))
  <2>1. UNCHANGED parent /\ pc'[CloseTask] = pc[CloseTask]
    BY <1>2 DEF SpcState
  <2>2. pc'[ChildClock(c)] = "done" \/ (pc'[ChildClock(c)] = "spcStreams" /\ WaitingToShutDown = {})
    BY <1>1, <1>2 DEF SpcState
  <2>3. WaitingToShutDown = {} => AllShutDown
    BY DEF WaitingToShutDown, AllShutDown
  <2>. QED  BY <1>2, <2>1, <2>2, <2>3 DEF SpcState, parent
<1>3. CASE SpcStreams(ChildClock(c))
  <2>1. UNCHANGED parent /\ pc'[CloseTask] = pc[CloseTask] /\ AllShutDown
    BY <1>3 DEF SpcStreams, StopOrder
  <2>2. pc'[ChildClock(c)] = "done" \/ (pc'[ChildClock(c)] = "spcClock" /\ AllAtEndOfSegment)
    BY <1>1, <1>3 DEF SpcStreams
  <2>3. AllAtEndOfSegment => AllEnded
    BY DEF AllAtEndOfSegment, AllEnded, StopOrder
  <2>. QED  BY <1>3, <2>1, <2>2, <2>3 DEF SpcStreams, parent
<1>4. CASE SpcClock(ChildClock(c))
  <2>1. AllShutDown /\ AllEnded /\ pc'[ChildClock(c)] = "done"
    BY <1>1, <1>4 DEF SpcClock, StopOrder
  <2>2. CASE clock = "invalid" /\ sinkState = "RUNNING"
    <3>1. pc[CloseTask] = "none"
      BY <2>2 DEF StopOrder
    <3>. QED  BY <1>4, <2>1, <2>2, <3>1 DEF SpcClock, SetState
  <2>3. CASE ~(clock = "invalid" /\ sinkState = "RUNNING")
    <3>1. pc'[CloseTask] = pc[CloseTask] /\ UNCHANGED <<sinkState, streamState>>
      BY <1>4, <2>3 DEF SpcClock
    <3>2. CASE clock = "running"
      BY <1>4, <2>1, <2>3, <3>1, <3>2 DEF SpcClock, StopOrder
    <3>3. CASE clock # "running"
      BY <1>4, <2>1, <2>3, <3>1, <3>3 DEF SpcClock
    <3>. QED  BY <1>4, <2>1, <3>1, <3>2, <3>3
  <2>. QED  BY <1>4, <2>1, <2>2, <2>3
<1>5. \A d \in Children \ {c} : pc'[ChildClock(d)] = pc[ChildClock(d)]
  <2>1. \A v \in Threads \ {ChildClock(c), CloseTask} : pc'[v] = pc[v]
    BY StopMoves
  <2>. QED  BY <2>1
<1>. QED  BY <1>2, <1>3, <1>4, <1>5 DEF ParentStop

LEMMA StopOrderStep ==
  ASSUME TypeOK, LabelsOK, ChildrenStart, StopOrder, ~Failing, ~Failing', [Next]_vars
  PROVE  StopOrder'
<1>. USE ThreadFacts
<1>1. AllShutDown => AllShutDown'
  BY AllShutDownStays
<1>2. AllEnded => AllEnded'
  BY EndedStays DEF AllEnded
<1>3. \A s \in Streams : pc[Feeder(s)] = "ended" => pc'[Feeder(s)] = "ended"
  BY EndedStays
<1>4. CASE OnClockStart
  <2>1. ~AllShutDown
    BY <1>4, AllShutDownStarted DEF OnClockStart
  <2>2. /\ \A s \in Streams : streamState'[s] = "RUNNING"
        /\ \A v \in Threads \ {Caller} : pc'[v] = pc[v]
        /\ clock' \in {"running", "invalid"}
    BY <1>4, GotoPc DEF OnClockStart, SetState
  <2>3. \A c \in Children : pc'[ChildClock(c)] = pc[ChildClock(c)]
    BY <2>2
  <2>. QED  BY <2>1, <2>2, <2>3 DEF StopOrder
<1>5. CASE OnClockStop
  <2>1. AllShutDown' /\ AllEnded'
    BY <1>1, <1>2, <1>5 DEF OnClockStop, StopOrder
  <2>2. /\ clock' = "stopped" /\ \A s \in Streams : streamState'[s] = "STOPPED"
    BY <1>5 DEF OnClockStop, SetState
  <2>. QED  BY <2>1, <2>2 DEF StopOrder
<1>6. ASSUME NEW c \in Children, ParentStop(ChildClock(c)) PROVE StopOrder'
  <2>1. \A s \in Streams : streamState'[s] = "EOS" => pc'[Feeder(s)] = "ended"
    BY <1>3, <1>6, ParentStops DEF StopOrder
  <2>2. \A d \in Children : /\ pc'[ChildClock(d)] \in {"spcStreams", "spcClock"} => AllShutDown'
                            /\ pc'[ChildClock(d)] = "spcClock" => AllEnded'
    BY <1>1, <1>2, <1>6, ParentStops DEF StopOrder
  <2>3. clock' \in {"stopping", "stopped"} \/ pc'[CloseTask] # "none" => AllShutDown' /\ AllEnded'
    BY <1>1, <1>2, <1>6, ParentStops DEF StopOrder
  <2>4. pc'[CloseTask] # "none" =>
          clock' = "stopped" \/ (clock' = "invalid" /\ sinkState' # "RUNNING")
    BY <1>6, ParentStops DEF StopOrder
  <2>. QED  BY <2>1, <2>2, <2>3, <2>4 DEF StopOrder
<1>7. CASE /\ UNCHANGED clock
           /\ sinkState' \in {sinkState, "SHUTDOWN"}
           /\ \A s \in Streams :
                streamState'[s] = "EOS" => streamState[s] = "EOS" \/ pc'[Feeder(s)] = "ended"
           /\ \A c \in Children : pc'[ChildClock(c)] \in {pc[ChildClock(c)], "spcState"}
           /\ pc'[CloseTask] = pc[CloseTask] \/ CloserStep(CloseTask)
  <2>1. pc'[CloseTask] # "none" => pc[CloseTask] # "none"
    BY <1>7, CloserMoves
  <2>. QED  BY <1>1, <1>2, <1>3, <1>7, <2>1 DEF StopOrder
<1>. QED  BY <1>4, <1>5, <1>6, <1>7, QuietSteps

LEMMA FirstEvent == \A e : Append(<<>>, e) = <<e>>
  OBVIOUS

\* CloseTask raises the event once, releases the children in their order and then the sink.
LEMMA CloseOrderStep ==
  ASSUME TypeOK, LabelsOK, StopOrder, CloseOrder, ~Failing, ~Failing', [Next]_vars
  PROVE  CloseOrder'
<1>. USE ThreadFacts, GotoPc, SpawnPc
<1>0. N \in Nat /\ N > 1 /\ at[CloseTask] \in 1..N
  BY NAssumption DEF TypeOK, Children
<1>1. ASSUME UNCHANGED <<hasSink, raised, attached>>, at'[CloseTask] = at[CloseTask],
             pc'[CloseTask] = pc[CloseTask] \/ (pc[CloseTask] = "none" /\ pc'[CloseTask] = "clCheck")
      PROVE  CloseOrder'
  BY <1>1 DEF CloseOrder
<1>2. CASE OnClockStart
  BY <1>1, <1>2 DEF OnClockStart, writers
<1>3. CASE OnClockStop
  <2>1. pc[CloseTask] = "none"
    BY <1>3 DEF OnClockStop, StopOrder
  <2>. QED  BY <1>1, <1>3, <2>1 DEF OnClockStop, writers
<1>4. ASSUME NEW c \in Children, ParentStop(ChildClock(c)) PROVE CloseOrder'
  <2>1. UNCHANGED <<hasSink, raised, attached, at>>
    BY <1>4, StopMoves DEF writers
  <2>. QED  BY <1>1, <1>4, <2>1, ParentStops
<1>5. CASE CloserStep(CloseTask)
  <2>1. pc[CloseTask] \in {"none"} \cup CloseSteps
    BY DEF LabelsOK
  <2>2. CASE CloseCheck(CloseTask)
    <3>1. pc[CloseTask] = "clCheck" /\ pc'[CloseTask] = "clStamps"
          /\ UNCHANGED <<hasSink, raised, attached, at>>
      BY <2>2 DEF CloseCheck, CloseOrder, parent, writers
    <3>. QED  BY <3>1 DEF CloseOrder
  <2>3. CASE CloseReadTimestamps(CloseTask)
    <3>1. pc[CloseTask] = "clStamps" /\ pc'[CloseTask] \in {"clStamps", "clRaise"}
          /\ UNCHANGED <<hasSink, raised, attached, at>>
      BY <2>3 DEF CloseReadTimestamps, NullChild, parent, writers
    <3>. QED  BY <3>1 DEF CloseOrder
  <2>4. CASE RaiseSessionClosed(CloseTask)
    <3>1. /\ pc[CloseTask] = "clRaise" /\ pc'[CloseTask] = "clShutdown"
          /\ raised' = Append(raised, "SessionClosed")
          /\ UNCHANGED <<hasSink, attached, at>>
      BY <2>4 DEF RaiseSessionClosed, writers
    <3>2. raised = <<>>
      BY <3>1 DEF CloseOrder
    <3>3. raised' = <<"SessionClosed">>
      BY <3>1, <3>2, FirstEvent
    <3>. QED  BY <3>1, <3>3 DEF CloseOrder
  <2>5. CASE CloseCallsShutdown(CloseTask)
    <3>1. pc[CloseTask] = "clShutdown" /\ pc'[CloseTask] = "shut"
          /\ UNCHANGED <<hasSink, raised, attached, at>>
      BY <2>5 DEF CloseCallsShutdown, parent, writers
    <3>. QED  BY <3>1 DEF CloseOrder, Children
  <2>6. CASE ShutdownChild(CloseTask)
    <3>1. pc[CloseTask] = "shut" /\ attached = at[CloseTask]..N
      BY <2>6 DEF ShutdownChild, CloseOrder
    <3>2. at[CloseTask] \in attached
      BY <1>0, <3>1
    <3>3. attached' = attached \ {at[CloseTask]} /\ Loop(CloseTask, "clReset") /\ UNCHANGED <<hasSink, raised>>
      BY <2>6, <3>2 DEF ShutdownChild
    <3>4. CASE at'[CloseTask] = at[CloseTask] + 1 /\ pc'[CloseTask] = "shut"
      <4>1. attached' = at'[CloseTask]..N
        BY <1>0, <3>1, <3>3, <3>4
      <4>. QED  BY <3>1, <3>3, <3>4, <4>1 DEF CloseOrder
    <3>5. CASE pc'[CloseTask] = "clReset"
      BY <3>1, <3>3, <3>5 DEF CloseOrder
    <3>. QED  BY <3>1, <3>3, <3>4, <3>5, LoopPc
  <2>7. CASE CloseResetsSink(CloseTask)
    <3>1. pc[CloseTask] = "clReset" /\ pc'[CloseTask] = "done" /\ hasSink' = FALSE
          /\ UNCHANGED raised
      BY <2>7 DEF CloseResetsSink
    <3>. QED  BY <3>1 DEF CloseOrder
  <2>8. CASE UseOfNullSink(CloseTask)
    BY <1>1, <2>8 DEF UseOfNullSink, parent, writers
  <2>9. ~FailTaskRaises(CloseTask) /\ ~FailTaskCloses(CloseTask) /\ ~ParentStop(CloseTask)
    BY <1>5, <2>1, CloserMoves DEF FailTaskRaises, FailTaskCloses, CloseSteps
  <2>. QED  BY <1>5, <2>2, <2>3, <2>4, <2>5, <2>6, <2>7, <2>8, <2>9 DEF CloserStep
<1>. QED  BY <1>1, <1>2, <1>3, <1>4, <1>5, QuietSteps

\* Nobody is left that could use what CloseTask releases.
LEMMA NoCrashStep ==
  ASSUME TypeOK, LabelsOK, ChildrenStart, StopOrder, CloseOrder, ~Failing, ~Failing', [Next]_vars
  PROVE  crash' \in {crash, "unobserved"}
<1>. USE ThreadFacts
<1>0. N \in Nat /\ N > 1 /\ \A t \in Threads : at[t] \in Children
  BY NAssumption DEF TypeOK
<1>1. CASE StateKept
  BY <1>1 DEF StateKept
<1>2. pc[CloseTask] \in {"shut", "clReset", "done"} => AllShutDown /\ AllEnded
  BY DEF StopOrder
<1>3. ~(AllShutDown /\ AllEnded) => attached = Children
  BY <1>2 DEF CloseOrder
<1>4. CASE BeginWriting
  <2>1. attached = Children
    BY <1>3, <1>4, AllShutDownStarted DEF BeginWriting
  <2>. QED  BY <1>0, <1>4, <2>1 DEF BeginWriting
<1>5. CASE ConnectChild \/ ConnectChildFails \/ OnClockStart \/ BeginWritingFails \/ OnClockStop
  BY <1>5 DEF ConnectChild, ConnectChildFails, OnClockStart, BeginWritingFails, OnClockStop
<1>6. ASSUME NEW s \in Streams, FeederCalls(s) \/ FeederStep(s) PROVE crash' = crash
  <2>1. attached = Children
    BY <1>3, <1>6, FeederMoves DEF AllEnded
  <2>. QED  BY <1>0, <1>6, <2>1 DEF FeederCalls, FeederStep, ProcessSample, PlaceMarker,
       PlaceEndOfSegment, CallRefused, PassOn, NotifyEndOfSegment, MarkEndOfSegment
<1>7. ASSUME NEW c \in Children,
             \/ WriterBreaks(c) \/ ChildOnClockStop(c)
             \/ \E s \in Streams :
                  ChildSampleFails(c, s) \/ ChildEndOfSegment(c, s) \/ ChildStopPresentationClock(c, s)
      PROVE  crash' = crash
  BY <1>7 DEF WriterBreaks, ChildOnClockStop, ChildSampleFails, ChildEndOfSegment,
     ChildStopPresentationClock
<1>8. ASSUME NEW c \in Children, ParentStop(ChildClock(c)) PROVE crash' = crash
  BY <1>8, StopMoves
<1>9. ASSUME NEW t \in Raisers, RaiserStep(t) PROVE crash' = crash
  BY <1>9, RaiserMoves DEF Failing
<1>10. ASSUME CloserStep(CloseTask) PROVE crash' = crash
  <2>1. ~ParentStop(CloseTask)
    BY <1>10, CloserMoves
  <2>2. ~UseOfNullSink(CloseTask)
    BY DEF UseOfNullSink, CloseOrder, LabelsOK, CloseSteps
  <2>3. CASE CloseReadTimestamps(CloseTask)
    <3>1. 1 \in attached
      BY <1>0, <2>3 DEF CloseReadTimestamps, CloseOrder, Children
    <3>. QED  BY <2>3, <3>1 DEF CloseReadTimestamps
  <2>4. CASE ShutdownChild(CloseTask)
    <3>1. at[CloseTask] \in attached
      BY <1>0, <2>4 DEF ShutdownChild, CloseOrder, Children
    <3>. QED  BY <2>4, <3>1 DEF ShutdownChild
  <2>5. CASE \/ FailTaskRaises(CloseTask) \/ FailTaskCloses(CloseTask) \/ CloseCheck(CloseTask)
             \/ RaiseSessionClosed(CloseTask) \/ CloseCallsShutdown(CloseTask)
             \/ CloseResetsSink(CloseTask)
    BY <2>5 DEF FailTaskRaises, FailTaskCloses, CloseCheck, RaiseSessionClosed,
       CloseCallsShutdown, CloseResetsSink
  <2>. QED  BY <1>10, <2>1, <2>2, <2>3, <2>4, <2>5 DEF CloserStep
<1>11. ASSUME NEW t \in Closers, CloserStep(t) PROVE crash' = crash
  BY <1>10, <1>11, OnlyCloseTask
<1>. QED  BY <1>1, <1>4, <1>5, <1>6, <1>7, <1>8, <1>9, <1>11, Actions
----------------------------------------------------------------------------
(* The inductive invariant and what it is for.                                  *)

LEMMA InitIInv == Init => IInv
<1>. SUFFICES ASSUME Init PROVE IInv
  OBVIOUS
<1>. USE ThreadFacts, ThreadKinds
<1>0. N \in Nat /\ N > 1 /\ 1 \in Children
  BY NAssumption DEF Children
<1>1. TypeOK
  BY InitType
<1>2. /\ pc[Caller] = "connect" /\ pc[CloseTask] = "none"
      /\ \A t \in Raisers \ {Caller} : pc[t] = "idle"
      /\ \A t \in Threads \ Raisers : pc[t] = "none"
  BY DEF Init
<1>3. LabelsOK
  BY <1>2 DEF LabelsOK
<1>4. ChildrenStart /\ ChildrenStop
  BY <1>0, <1>2 DEF Init, ChildrenStart, ChildrenStop, NotStarted
<1>5. crash \in {"none", "unobserved"} /\ StopOrder /\ CloseOrder
  BY <1>2 DEF Init, StopOrder, CloseOrder
<1>. QED  BY <1>1, <1>3, <1>4, <1>5 DEF IInv

LEMMA StepIInv == IInv /\ [Next]_vars => IInv'
<1>. SUFFICES ASSUME IInv, [Next]_vars PROVE IInv'
  OBVIOUS
<1>1. TypeOK' /\ LabelsOK' /\ ChildrenStart' /\ ChildrenStop'
  BY TypeStep, LabelsStep, ChildrenStartStep, ChildrenStopStep DEF IInv
<1>2. ASSUME ~Failing' PROVE crash' \in {"none", "unobserved"} /\ StopOrder' /\ CloseOrder'
  <2>1. ~Failing
    BY <1>2, FailingStays DEF IInv
  <2>. QED  BY <1>2, <2>1, StopOrderStep, CloseOrderStep, NoCrashStep DEF IInv
<1>. QED  BY <1>1, <1>2 DEF IInv

\* The inductive invariant: how the children start and stop, and, until a failure, how
\* the parent follows them.
THEOREM Invariance == SafeSpec => []IInv
BY InitIInv, StepIInv, PTL DEF SafeSpec

\* A child whose sink runs and which has a stream that has not ended is connected: the
\* failures of other children and of the parent never unpublish it.
THEOREM RunningChildPublished == SafeSpec => []RunningIsPublished
<1>1. IInv => RunningIsPublished
  BY DEF IInv, ChildrenStart, NotStarted, RunningIsPublished
<1>. QED  BY <1>1, Invariance, PTL

\* Without a failure SessionClosed is raised at most once, and PublishFailed never.
THEOREM ClosedOnlyOnce == SafeSpec => []ClosedOnce
<1>1. IInv => ClosedOnce
  BY DEF IInv, CloseOrder, ClosedOnce
<1>. QED  BY <1>1, Invariance, PTL

\* Without a failure SessionClosed comes after every child has unpublished and shut down.
THEOREM ClosedAfterLastChild == SafeSpec => []ClosedAfterChildren
<1>1. IInv => ClosedAfterChildren
  <2>. SUFFICES ASSUME IInv, Closed, ~Failing
                PROVE  \A c \in Children : childState[c] = "SHUTDOWN" /\ c \notin published
    BY DEF ClosedAfterChildren
  <2>1. pc[CloseTask] # "none"
    BY DEF Closed, IInv, CloseOrder
  <2>2. AllShutDown
    BY <2>1 DEF IInv, StopOrder
  <2>. QED  BY <2>2 DEF IInv, ChildrenStop, AllShutDown
<1>. QED  BY <1>1, Invariance, PTL

\* The process dies of a released sink or child only when there was a failure, or not at
\* all; of a child that cannot unpublish it may always die.
THEOREM NoUseAfterRelease == SafeSpec => []ReleasedAfterLastUse
<1>1. IInv => ReleasedAfterLastUse
  BY DEF IInv, ReleasedAfterLastUse
<1>. QED  BY <1>1, Invariance, PTL
=============================================================================
