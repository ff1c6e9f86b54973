# Verification of Microsoft.Media.RTMP

TLA+ models, TLC model checking and TLAPS proofs for `Microsoft.Media.RTMP`, the
library with which a Windows application publishes captured audio and video to an
RTMP endpoint (`src/RTMPPublisher/Microsoft.Media.RTMP`), and for the part of the
sample application that carries time stamps from one session to the next. Paths
below are relative to that directory unless they start with `src/`.

`PROJECT.json` maps each definition to the lines it translates and lists the runs,
the theorems, the findings and the hazards; this file says what they mean.

## The system

| Component | State | Operations | Used by |
|---|---|---|---|
| Publish session (`RTMPPublishSession`) | the sink, or null once closed | `GetCaptureSinkAsync`, `RaisePublishFailed`, `RaiseSessionClosed`, `Close` | the application; the sink calls it back |
| Publisher sink (`RTMPPublisherSink`) | sink state, clock, messenger, stream sinks, `SinkMutex` | clock callbacks, `StopPresentationClock`, `ReturnFailed`, `Shutdown`, `ConnectRTMPAsync` | the Media Foundation pipeline, the session, the stream sinks |
| Stream sinks (`RTMPStreamSinkBase`, `RTMPVideoStreamSink`, `RTMPAudioStreamSink`) | stream state, last and first time stamps, gap length, `_lockSink` | `ProcessSample`, `PlaceMarker`, `Invoke`, clock callbacks | the pipeline, the serial work queue of the sink |
| Messenger (`RTMPMessenger`) | socket, reader, writer | `ConnectAsync`, `HandshakeAsync`, `QueueAudioVideoMessage`, `CloseAsync` | the sink and the stream sinks |
| Session manager (`RTMPSessionManager`) | stream id, chunk sizes, counters of chunk streams and transactions | getters and setters | the messenger |
| Chunking (`RTMPChunking.h`) | none | chunk parser and writer | the messenger |
| Messages (`RTMPMessageFormats.h`, `BitOp.h`, `AVCParser.h`) | none | AMF0 and command encoding, NAL parsing | the messenger, the video stream sink |
| Aggregating sink (`RTMPPublisherSink`, `SinkWriterCallbackImpl`) | one child sink and one sink writer for each profile | feeds every child; stops when the children have | the session, when there are several profiles |
| Sample application (`src/RTMPPublisher/Samples`) | history of the time stamps of earlier sessions | starts the next session from them | the user |

### Who runs what

- The **pipeline** (MediaCapture) calls `ProcessSample` and `PlaceMarker` of each
  stream sink on threads of its own, each call under that stream's `_lockSink`, and
  drives the presentation clock.
- A **serial work queue**, one for the sink and shared by its stream sinks
  (`RTMPPublisherSink.h:88`), runs one work item at a time under the `_lockSink` of
  the item's stream, and writes to the socket.
- **Clock callbacks** hold `SinkMutex`. `IMFPresentationClock::Stop` only starts the
  stop: `OnClockStop` arrives later.
- **Tasks** (`create_task`) run on the thread pool: the stop that the end of the last
  segment asks for, the one that raises PublishFailed and closes, the one that
  raises SessionClosed. No task is ordered with another.

`_lockSink` and `SinkMutex` are different locks. What keeps the messenger alive while
the work queue uses it is therefore not a lock but the protocol of stream states, and
this is the first thing the project models and proves.

### What makes it correct

- Session: PublishFailed at most once and ahead of SessionClosed; SessionClosed
  last; every stop and every failure ends in SessionClosed; the reported time stamps
  are those of the last packets.
- Sink: unpublish once, after the last packet; no write to a closed messenger; no
  use of a null sink.
- Time stamps: decode times increase, no frame is decoded after it is shown, the
  fields are right when they wrap around, a session continues above the last one.
- Messenger: the handshake ends; a refusal fails it; publish names the stream of this
  connection.
- Chunking and messages: the server gets what was written, whole and in order, and
  decodes it to what was encoded; the size of its chunks is followed; a stream's
  configuration comes ahead of its first sample.
- Aggregating sink: the parent closes when the last child does and not before, a
  failure closes it too, and no child is left running for ever.

## Modules

| Module | What it is |
|---|---|
| `SessionContract` | abstract: the two events as the application is promised them |
| `PublishSession` | session, standalone sink, stream sinks and their threads; implements `SessionContract` |
| `PublishSession_proofs` | the invariant of every session and five theorems |
| `PublishSession_closing_proofs` | sessions in which nothing fails: no crash, the report, the steps of the contract; sessions of one stream in which anything fails: one thread closes, the steps of the contract |
| `StreamTimestamps` | time stamps within a session and over sessions |
| `StreamTimestamps_proofs` | six theorems about them |
| `RTMPHandshake` | the two handshake chains against a server |
| `RTMPHandshake_proofs` | types of both chains, and the invariant of each |
| `AggregateSession` | a session of several profiles: the parent sink, its children and their writers |
| `AggregateSession_proofs` | its inductive invariant and the five properties that follow |
| `BitOp` | a double to its IEEE 754 representation and back |
| `RTMPMessageFormats` | the messages and commands of the library, their AMF0 encoding and its parser |
| `RTMPChunking` | messages cut in chunks and chunks put together in messages |
| `RTMPChunking_proofs` | headers, whole messages, AMF0 entities and numbers are read back as they were written, and the lemmas on sequences that this takes |
| `AVCParser` | NAL units, the decoder configuration, the payload of a video packet |
| `MessengerOutput` | composes the four above: all that a messenger writes, and a server that reads it |
| `MessengerOutput_proofs` | chunk stream ids, and what the server reads: messages, commands, samples, configurations |
| `MessengerInput` | composes chunking and messages: a server that writes, and all that a messenger reads in the handshake |
| `MessengerInput_proofs` | what a read gives out, with the right chunk size and with a wrong one; the chunk size and the stream id that are remembered |
| `MC...` | one for each module with runs: constants for TLC |

### PublishSession

Every thread has a program counter. A step is what a thread does between two
accesses to state that another thread writes; taking a lock is merged with the
access after it, releasing one with the access before it. Each function appears as
its steps: `SpcLock`, `SpcCheckStreams`, `SpcUnpublish`, `SpcDisconnect` and
`SpcStopClock` are `StopPresentationClock`; the `Rpf...` steps are
`RaisePublishFailed`; `CloseCheck` to `CloseResetsSink` are `Close`.

| Variable | Code |
|---|---|
| `hasSink` | `RTMPPublishSession::_sink != nullptr` |
| `sinkState`, `streamState` | `_sinkState` of the sink and of each stream sink |
| `messenger`, `network` | `_rtmpMessenger`, and the connection below it |
| `clock` | the presentation clock; "stopping" between `Stop` and `OnClockStop` |
| `sinkMutex`, `lockSink` | holders of `SinkMutex` and of each `_lockSink` |
| `queue`, `delivered`, `requested` | the work queue, items delivered, unanswered MEStreamSinkRequestSample |
| `lastTS`, `sentTS`, `reported` | the last stamped and the last sent sample, and what SessionClosed carries |
| `raised`, `crash` | the events so far; why the process died |

Choices a reader should know:

- The pipeline delivers a sample only when one was requested. A sample that comes
  too early is dropped and no other one is requested, as in the code.
- The clock starts once. `OnClockPause`, `OnClockRestart` and `OnClockSetRate` change
  no state and are left out.
- `SetState` of the sink sets audio, video and then the sink itself; from
  `RaisePublishFailed` it does so without `SinkMutex`, so each assignment is a step.
- The two writes of the first packet of a stream are one.
- `Close` reads the sink pointer several times; each read is a step. Two concurrent
  resets of the same pointer, undefined in C++, are not modelled further.
- The application has subscribed to both events.
- Once nothing is left to do the system rests (`AtRest`), so that TLC still finds a
  deadlock of threads that wait for each other.

Fairness: the operating system runs every thread that can run (weak fairness of each
thread's steps, and of a `PlaceMarker` call that has begun). Nothing obliges the
pipeline, the network or the application to do anything.

### StreamTimestamps

The items of a stream are handled one at a time and in order, which is what
`PublishSession` models in detail, so here an item is one step. Times are integers
and round as `ToRTMPTimestamp` does; the widths of the fields, the number of ticks
in a millisecond and the sample intervals are constants, and the proofs hold for any
of them. `NextSession` is the close of a session, the sample application's history
and the start of the next session on the channel.

A tick ahead of the first sample counts its gap from an unset time stamp, after
which decode times can go back. Nothing documents what should happen then, so the
properties about gaps are stated for sources that do not do it (`EarlyTicks`), and
`DecodedBeforeShown` for those that do as well. They are also stated for `Reorder`
zero where an encoder that reorders makes the gap (a distance of presentation
times) differ from the distance of decode times it is taken off.

### RTMPHandshake

One action for each `Send...Async` and `Receive...Async`, in the order of the chain for
the server type. The server is external: it answers commands as the receive
functions expect, may refuse some, and may close the connection. A receive function
reads whatever is there and never matches a reply to its command, so the constants
that matter are how replies may be grouped: `Batching` (a reply may arrive before
earlier ones are read) and `Partial` (a read may return a part of what was sent: the
code sets `InputStreamOptions::Partial`, `RTMPMessenger.cpp:518`, which allows it). With
`HardLimits` a Set Peer Bandwidth ahead of the reply to connect may have a Hard limit;
`limited` records that one was sent on this connection. What a server does on its own
account, a refusal, a closed connection or such a limit, is kept in `refused`, `open` and
`limited`, and the properties are stated with them.

The properties name the reads they are about. `RefusalFails` is about reads that return all
that was sent so far, and refusals of one chunk; `StreamIdAssigned` about such reads and the
Azure chain; `HealthySucceeds` about such reads. Outside these conditions they are false, of
the model and of the code alike ("Other behaviour" below). `HandshakeEnds` is about all reads.

`ConnectAsync` is a second call of `GetCaptureSinkAsync` after a failed one: the same
messenger connects again and its stream id survives.

Chunk stream ids and transaction ids are not looked at by any step of the handshake
and are left out. Of `ChunkProcessor::TryParse` two facts are used. A message of
more than one chunk is never given out, because the payload of a single chunk is
compared with the length of the message (`Parsed`). And a Set Peer Bandwidth with a Hard
limit makes it throw, with everything else of the read lost (`Untaken`): the constructor
of the message takes Soft and Dynamic only (`RTMPMessageFormats.h:390`), although
`Constants.h:100` names Hard as well.

Fairness: a continuation whose operation has completed is run, and the server handles
what it is sent. Without the second nothing could be said, since no receive function
has a timeout.

### AggregateSession

With several profiles the sink handed to the pipeline is a parent without a messenger.
Each profile has a child sink, which is the standalone sink of `PublishSession` with a
connection of its own, and a sink writer, which encodes for it on threads of its own.
What `PublishSession` shows of one sink is taken as given, so a child is reduced to
what the parent depends on: its state, which of its streams have ended, its clock and
whether it is connected. A child whose connection is lost when it unpublishes throws out of
`CloseAsync().get()` in its stop task (`ChildUnpublishFails`, `RTMPPublisherSink.cpp:436`):
nothing catches it there, the child's clock is not stopped and no event is raised; as
in `PublishSession` the process dies of it, unobserved. The parent keeps the detail: `SpcState`, `SpcStreams` and
`SpcClock` are the steps of its `StopPresentationClock`, a `Feeder` is in a loop over the
children (`at`) when it passes on a sample or an end of segment.

| Variable | Code |
|---|---|
| `attached` | `DelegateSink` and `DelegateWriter` of a `ProfileState`, until `Shutdown` resets them |
| `writer`, `notified` | the `IMFSinkWriter` of a child, and the streams it was told the end of |
| `childState`, `childEnded`, `childClock` | `_sinkState` of a child and of its stream sinks, and its clock |
| `published` | the child's messenger is connected |

The chain of connections is a loop too: a child that does not connect ends it and the
parent fails. The sink writer is external: it starts, delivers, may stop working, and
when it is finalized goes on until the child has stopped. `Hasty` lets an end of
segment overtake what precedes it on another thread: the `BeginWriting` of the
writers, or the mark of the parent's own stream.

Fairness: every thread that can run does, and a writer that works delivers what it was
told. The pipeline, the application and faults owe nothing.

### The wire: BitOp, RTMPMessageFormats, RTMPChunking, AVCParser

Pure operators, translated function by function. A bitstream is a sequence of cells, a
cell for each field (a marker, a length, a name, a number in its representation, a byte
of a NAL unit), so that an encoding and its parser meet on the order, presence, sizes and
values of fields and not on the order of bytes within one. Chunk sizes count the cells
of a payload. `TryParse` and `ChunkProcessorTryParse` are the loops of the code: `ParseTurn` and
`DechunkTurn` are one turn, each uses up a cell at least, and so as many turns as there are
cells are all of them. A loop ends with the garbled flag where the code reads a field
as another. `EncodeObject` calls itself in the code for an object in an object; no message
of the library has one, and the model's does not. `garbled` stands for an exception as well,
after which nothing of the read is returned: `ConstructorThrows` says of which messages
`GiveOut` ends in one, a Set Peer Bandwidth with a Hard limit and a Set Chunk Size above
`LargestChunkSize`.

A double is an integer in units of `2^-FractionBits` and its representation has
`MantissaBits` and `ExponentBits`: the digit-by-digit conversion meets every boundary
(no whole part, no fraction, more digits than places) with small numbers.
`Representable` says which numbers the conversion is for: one whose whole part has more
digits than places overflows in the code, one without a digit in its places is erased from
an empty vector. `LastPlace` is what the last place of a number is worth, below which
everything is cut. `PowerAssumption` (a power of two is twice the one before) is a fact and
no choice: TLC computes it, the provers know nothing of powers.

### MessengerOutput

`SendConnect` to `SendUnpublishAndCloseStream` are the send functions of the messenger, each
with the chunk stream id it takes from the session manager and the chunk size it uses,
in the order of the chain; `SendVideo` and `SendAudio` are the packets of the work queue,
the first of a stream preceded by its configuration. `ConnectAsync` is another attempt
with the same session manager, whose ids go on. `ServerReadsChunk` is external: it reads a
chunk by the rules of RTMP, with the chunk size it was last told and the last header of
the chunk stream, at any time. What it puts together is compared with what was
encoded (`got`).

Assumptions on its constants are named for what they are about. `SampleAssumption`: a
sample is one NAL unit or more, none of which holds a start code or ends with a zero
(H.264 has it so), and a sequence parameter set has the bytes the code reads from it
unseen. `NumberAssumption`: a mantissa has the places of the numbers in the messages, and
those of a frame rate that is not below one. `WordAssumption`: no string of the messages
is empty; TLC computes the lengths, which the provers do not.

### MessengerInput

The other direction. The server is external and writes by the rules of RTMP: replies
of one or several chunks, control messages before the reply to connect, a Set Chunk
Size whenever it likes. A receive function takes any number of chunks that are there,
parses them with the chunk size remembered, and goes by what comes out. `read` is
the last read with the size it began with; `missed` records that a change of size was
not remembered, which the properties name as the limit of what holds. Its server may
group replies as it likes; whether the handshake ends is the matter of `RTMPHandshake`.
`ServerSetsPeerBandwidth` sends any of the three limit types of `LimitTypes`; a read that holds
a Hard one in a chunk of its own ends in an exception (`Throws`), and `ReadAsWritten` says so.
Of the numbers in the replies it is assumed that a mantissa has their places (doubles hold
any 32-bit stream id), and of their strings that none is empty (`NumberAssumption`,
`WordAssumption`).

## Runs

Passing runs (`<module>_<run>.cfg`):

| Run | Module | Constants | Shows |
|---|---|---|---|
| `orderly` | PublishSession | two streams, two samples each, no failure | the invariant of such sessions, no crash, reported time stamps, no write to a closed messenger, unpublish only at the end, the contract as a refinement, and that a stop completes |
| `failure` | PublishSession | one stream, whose samples and whose connection may fail | the invariant of such sessions; the contract holds with failures |
| `all` | PublishSession | one stream, every failure, clock stopped at any time | the inductive invariant of the proofs, of which it is a part that a closed session has no running sink; a failure that was announced closes the session |
| `sessions` | StreamTimestamps | two streams, three sessions, gaps, late start | decode times increase; each session above the one before; the invariant of the proofs |
| `reorder` | StreamTimestamps | video, reordering, early ticks, narrow fields | decoded before shown; right play time through a wrap-around |
| `azure` | RTMPHandshake | Azure chain, any refusal of one chunk, close, Hard limits, batched replies, two attempts; each read returns all that was sent so far | the inductive invariant of the proofs; under these conditions publish names this connection's stream, a refusal other than of publish fails the handshake, and only a refusal, a close or a Hard limit does |
| `wowza` | RTMPHandshake | Wowza chain, replies batched and read in pieces, any refusal, long ones too, close, Hard limits | every attempt ends |
| `children` | AggregateSession | three profiles; one child, its connection and its writer may fail | the inductive invariant of the proofs; the last child closes the parent, once; nothing released is used before a failure; an announced failure closes it; a running child is connected; children that are left end. A child that cannot unpublish kills the process, with no event |
| `sent` | MessengerOutput | two connections, two packets | the server gets what was written, commands decode, samples and configurations are whole; the invariant of the chunk stream ids, by which streams do not share one |
| `replies` | MessengerInput | two connections, two control messages on each, Hard and Soft limits | what a read gives out is what was written, or it ends in an exception for a Hard limit; the chunk size is followed where the code looks for it; the stream id was given out by the server |

Bounds. Two samples a stream are enough for a sample at work while another one is
queued behind it. All failures at once on two streams with more samples exceed what
TLC can finish; `all` has them on one stream, and the proofs have them for any number
of samples on both. Three sessions give an empty session between two others. The ranges
of times exceed the narrow widths, so wrap-around occurs. Two attempts let a stream id,
a chunk stream id or a chunk size go stale.

`children`: with three profiles one child can fail while one has stopped and one still
runs, and the last but one to stop meets a parent that waits. Larger instances hold
the same properties and are left out for their time: two children that both fail, two
streams with one faulty child, and the safety properties with `Hasty`.

`sent`: a chunk of 8 cells at first and 11 after Set Chunk Size, so commands take one,
two and many chunks and packets cross the change. Chunk stream ids start at 61 and
317, so both changes of the form of a header, after 63 and 319, are crossed. Time
stamps are zero, the mark of an extended one and the first that needs it. The frame
rates have a whole part with a fraction, no whole part, and more places than the
mantissa. The samples have prefixes of three and four bytes, units of one byte, zeros
inside a unit and both kinds of parameter sets. `replies`: with chunks of 10, 15 or 24 cells a
reply takes several chunks, or one, before and after a change.

`CHECK_DEADLOCK FALSE` is used where the system comes to an end by itself: after the last
session, the handshake, the last packet. A receive that waits for ever is found by
`HandshakeEnds`.

Runs that end in a violation, each of something the repository says:

| Run | What the code does | What is said |
|---|---|---|
| `raise_once` | two threads that fail together both raise PublishFailed | `RTMPPublishSession.cpp:238` "raise only once" |
| `last_child` | the last child may stop before the parent's stream is marked as ended; the parent then does not stop and is not asked again | `RTMPVideoStreamSink.cpp:274` "if aggregating - the sink will call this on the aggregating parent" |

With the parent's `SetState(EOS)` ahead of the loop over the children, `StopCompletes` would
hold for that order as well.

### Other behaviour that the models allow, and that no run pins down

Sessions and stops:

- a failure that meets a stop: PublishFailed may come after SessionClosed; a fail task
  and a close task that overlap can raise SessionClosed twice or use the null sink
  (`NoCrash` fails in the `failure` configuration). When the pipeline stops the clock as
  well, SessionClosed may precede PublishFailed, which is why `ContractKept` is a property
  of `orderly` and `failure` only;
- a connection that breaks under unpublish: the exception of `CloseAsync().get()` leaves
  `StopPresentationClock` inside a task nobody observes (`crash = "unobserved"`), and no
  event is raised; on the failure path unpublish is never sent;
- a clock stopped by the pipeline: a late sample can raise PublishFailed, and
  SessionClosed can report time stamps that are not those of the last packet
  (`ReportedIsLastSent` fails with `ForcedStop`).

Time stamps:

- the reported video time stamp is a decode time, so a session started from it may
  show a frame before the last one of the session it follows;
- a session in which nothing was sent reports -1, and the sample application then
  forgets the session before it, so the next one may begin below that one, although
  `src/README.md:22` has sessions go on where the last one ended;
- only the first frame of a stream that starts late is moved to the clock start, the
  presentation times of the later ones are not (`RTMPVideoStreamSink.cpp:378-406`).

Handshake:

- a Set Peer Bandwidth with a Hard limit, which RTMP has, fails the handshake: the message
  that `ChunkProcessor::TryParse` makes of it (`RTMPChunking.h:508`) throws;
- S2 read in two pieces (`Partial`) fails the handshake of a healthy server
  (`HealthySucceeds`), and replies that lag behind let publish name stream 0
  (`StreamIdAssigned`), as they always may with the Wowza chain, which does not wait for
  the reply to releaseStream (`src/README.md:11` says only Azure is supported);
- with the Azure chain, replies to FCPublish and createStream that are read together
  leave the next read waiting for ever (`RTMPMessenger.cpp:699`);
- a refusal that takes more than one chunk (`LongReplies`) is not seen, nor is one of
  publish by onStatus, and the handshake succeeds.

Aggregating sink:

- a child whose connection breaks under unpublish kills the process as a single sink does
  (`crash = "unobserved"`): no failure is announced and SessionClosed is not raised, which
  `StopCompletes` names as an exception;
- an end of segment that reaches the parent before its writers have begun is
  swallowed (`Hasty`);
- a writer that stops working without its child noticing leaves a stop without
  SessionClosed; the failure of a child changes the state of the parent only, and the
  other children publish until the parent is shut down;
- after a failure, a pipeline call in its loop can use a child that `Shutdown` has just
  reset, and its `SetState(EOS)` can overwrite SHUTDOWN;
- `SetPresentationClock` throws when the first profile has a stream that another one
  lacks, which nothing checks before.

Writing:

- a time stamp of exactly 16777215 is written as the mark of an extended one, without
  it, and the server loses track (`ReceivedAsSent` names it);
- a message of length zero writes nothing at all;
- a number below one loses as many places as its fraction has leading zeros, and with
  53 of them nothing is left of it; at 2^31 and above the whole part overflows;
- the length of a string is that of its wide characters while its bytes are UTF-8;
  above 65535 the encoder throws;
- a prefix of four bytes leaves its first zero at the end of the unit before it; a
  configuration made of a sample without a sequence parameter set is three bytes short;
- releaseStream, FCPublish and createStream leave their chunk stream id in the variable
  that publish overwrites; a client chunk size below 128 is kept out by the setter of
  the profile alone.

Reading:

- Set Chunk Size is remembered by the reader of the reply to connect only, and kept for
  the next connection, on which the server starts at the default (`missed`);
- a read that begins inside a message drops it and everything behind it, a Set
  Chunk Size included; a message of several chunks is never given out;
- an extended time stamp is not read, the stream id of a header is read in the other
  byte order than it is written in, a read that ends inside a payload is filled up
  with zeros and one that ends inside a header runs past its end;
- a Set Peer Bandwidth with a Hard limit and a Set Chunk Size above 2147483647 make the read
  throw;
- a null inside an object and an object inside an object are not parsed back as they
  were written, an array is skipped to its first byte 9, and `GetObjectPropertyValue`
  does not look at the name it is given.

## Proofs

Every theorem of `PublishSession` and `AggregateSession` is stated for `SafeSpec`, the
specification without fairness, of which `Spec` is a strengthening. Where a theorem has a
hypothesis on the constants, the property is false without it, and the next section or
"Other behaviour" above tells how.

### PublishSession, any session

`PublishSession_proofs` proves, for any set of streams, any number of samples and any
of the failures:

- `TypeCorrect`, `Invariance`: the types, and the inductive invariant `IInv`;
- `MessengerSafe`: the work queue never finds the messenger closed;
- `ClosedSafe`: a session that closed has no running sink;
- `UnpublishSafe`: unpublish is sent once, after every stream has ended.

`MessengerOutlivesWork` is not inductive: the worker holds a stream's `_lockSink`, the
stop holds `SinkMutex`, and neither excludes the other. The argument is about states.
The stop goes on only if every stream is at EOS. A stream is at EOS either because it
was told its end, for which its `_lockSink` was needed and so no item of it is at work
and none will begin; or because the other stream failed, and then `RaisePublishFailed`
will take, or has taken, the sink out of RUNNING, without which no stop gets past its
first check. `WorkProtected` says this, `EndedStreams`, `SinkLeftRunning`, `LocksHeld` and
`MutexHeld` say what it needs, `Unpublishing` carries it from the decision to unpublish to
the reset. That there are two streams at most is used (`TwoStreams`).

### PublishSession, nothing fails

`PublishSession_closing_proofs` proves, under `Orderly` (no sample and no connection fails
and the pipeline does not stop the clock by itself), for both streams and any number
of samples:

- `OrderlyInvariance`: the invariant `OrderlyInv`, on top of `IInv`;
- `OrderlyNoCrash`: no order of the threads kills the process;
- `OrderlyReport`: SessionClosed carries the time stamps of the last samples sent;
- `OrderlyContract`: the initial states are those of `SessionContract` and every step is one
  of it or leaves its phase alone.

The argument follows the stop. A stream is at EOS only because it was told so
(`EndsInOrder`), so the first stop that finds both at EOS comes after the last sample was
handled; the clock is stopped after the messenger is gone and only by that stop
(`ClockLast`), so the sink stays RUNNING until then and no other closer exists
(`ClosedByTask`); a time stamp that was set and not sent belongs to the item the worker
has under its lock (`LastSent`), of which there is none by then.

### PublishSession, one stream that fails

`PublishSession_closing_proofs` also proves, under `OneStream` (one stream at most, any sample and the
connection may fail, the pipeline does not stop the clock by itself):

- `OneStreamInvariance`: the invariant `OneStreamInv`, on top of `IInv`;
- `OneStreamContract`: the steps of `SessionContract`, as above: PublishFailed at most once,
  and before SessionClosed, which is raised at most once.

Here a failure and a stop do race. `OneCloser` says that one thread at most goes on to
close: a raiser that has passed its check of the state found RUNNING, and for it to be
overtaken a stop would need the stream at EOS, which the raiser's `_lockSink` forbids;
`EndIsQuiet` is the other half. `RaisedInOrder` reads the events off the label of that one
thread. With two streams both may fail at once and raise twice (`raise_once`), and a
clock stopped by the pipeline may close first, so neither hypothesis can go. Survival
is no part of it: a late failure may meet a sink that was reset already.

### StreamTimestamps

`StreamTimestamps_proofs` proves, for any intervals, widths, times and number of
sessions:

- `TypeCorrect`: both fields fit their width;
- `DecodeFirst`: no frame is decoded after it is shown, reordering and early ticks
  included (from `NotAhead`: gaps only move decode times down);
- `PlayTimeIsKept`: the time a player computes from the wrapped time stamp and the cut
  composition offset is the presentation time, for every width and gap;
- `DecodeOrder`: decode times increase, without reordering and early ticks (from
  `GapIsElapsed`: the gap is the time since the last sample, so it is taken off
  exactly);
- `NextSessionAbovePrevious`: under the same assumptions each session is above the
  one before it (from `AboveOffset`);
- `StampInvariance`: the invariant of these two.

The assumptions are those of the constants in the modules: the sample interval and
the margin of the application are positive, the width of the composition offset
divides that of the time stamp.

### RTMPHandshake

`TypeCorrect` holds of both chains and every server. The rest is proved under `AzureCase`
or `WowzaCase`: one chain, reads that take all that has arrived, refusals of one chunk; any
refusal, a close at any time and Hard limits are allowed, `Batching` is free, and so are the number of
control messages and of attempts. For the Azure chain:

- `AzureInvariance`: `IInv`, which adds `AzureInv` to the types;
- `PublishNamesItsStream`: publish names the stream created on this connection;
- `RefusalNoticed`: a handshake that was refused does not succeed, but for publish, whose
  refusal may be an onStatus;
- `FailsForAReason`: it fails only if something was refused, the connection closed or a
  Hard limit set (`LimitTold`: of what is unread, nothing else makes a read throw).

No reply says which command it answers, so the invariant has to say it: for each step of
the chain, which commands the server may not have handled (`Unhandled`) and which
replies may be unread (`Unread`). Only FCPublish and createStream are ever under way
together, and a reader of FCPublish that finds both replies has swallowed the stream
id, after which the next read waits for ever and publish is not sent.

For the Wowza chain, whose invariant is `WowzaInv` (`WowzaInvariance`):

- `WowzaRefusalNoticed` and `WowzaFailsForAReason`: the same two as above.

That chain never waits for the reply to releaseStream, so from there on two commands may
be under way at each receive function, which may read the reply to the older one and
go on. `WowzaUnread` says that it is never worse: once anything has arrived, at most one
command is unanswered, so that the function for publish has read every refusal but
publish's own, and the reader of createStream meets no reply to releaseStream, whose last
entity is no number. `PublishNamesItsStream` has no counterpart: publish may be sent
before the reply to createStream was read. No run checks `WowzaInv` itself, the run
`wowza` being about reads in pieces. With `Partial` or `LongReplies` one or another of the
properties is false of either chain.

### AggregateSession

`AggregateSession_proofs` proves, for any number of profiles and streams and any failure:
`TypeCorrect`, `Invariance` (`IInv`), `RunningChildPublished`, `ClosedOnlyOnce`, `ClosedAfterLastChild`
and `NoUseAfterRelease`. The invariant ties the place of each thread in its loop over the
children to their states: the children connect and then start in their order
(`ChildrenStart`), a child is shut down only by its own clock, after it unpublished
(`ChildrenStop`). Until a failure is announced (`Failing`) it says more: the process dies
of nothing but a child that cannot unpublish, a child's clock goes past the check only
when all children are shut down and every stream has ended (`StopOrder`), and CloseTask alone raises the event and resets children one by one
(`CloseOrder`). Properties about failures are stated with that same condition in the
module, so the theorems need no hypothesis.

### The wire

Nothing here is about bounded data: messages, samples, lists of entities and sequences of
chunks are of any length. What the code does in a loop is a recursive function of the number
of turns, and a fact about all of its turns is shown with `SetInduction`, induction for a set of
numbers, which follows from the numbers being well founded.

`RTMPChunking_proofs`, for every chunk stream id from 2 on and every message:

- `BasicReadBack`, `BasicHeaderFits`: type and id come back from each of the three forms of
  the basic header, whose fields are bytes up to id 65599;
- `HeaderReadBack`: each field of the message header is found where the parser looks,
  whatever follows (`Begins`, which `WrittenBegins` shows of everything `ToBitstream` writes);
- `ChunkReadBack`: `ParseChunk`, the code's parser, reads the chunk back; of a message with
  an extended time stamp it takes the extension for payload;
- `NumberComesBack`: a number that is representable comes back from its representation
  without what is below its last place, and with no other change; so whole numbers come
  back as they are, and numbers below one lose less than the last place of a mantissa;
- `ParsesEncoded`: `TryParse` makes of encoded entities those entities, names and order of
  properties included, each number as the conversion gives it back. The argument follows the
  loop: between two turns what is left is the encoding of the entities that were not given
  out, or of the properties of an object that is open (`Underway`).

`MessengerOutput_proofs`, for any number of attempts and packets:

- `IdsInvariance`, `StreamsApart`: the invariant `IdsInv`, and that audio, video and the
  commands that end the stream have chunk streams of their own. `OwnChunkStreams` alone is
  not inductive: an id must be known to be below the next one, through attempts that
  leave ids behind;
- `IdsFitHeader`: an attempt that fails takes four ids at most, so no id outgrows the header
  before sixteen thousand attempts (`RoomForIDs`);
- `FirstHeaderReceived`, `NextHeaderReceived`: what the server reads from the first and from a
  later chunk of a message is its id, time stamp, length, type and stream, for every time
  stamp but one; `FullStampLosesTrack`: with 16777215 it loses track, the exception that
  `ReceivedAsSent` names;
- `WireInvariance`, `MessagesReceivedAsSent`: the server puts together the messages that were
  written, in their order and whole (`ReceivedAsSent`);
- `TypeCorrect`: the types, under `RoomForIDs`;
- `ContentInvariance`, `SamplesHeldWhole`, `ConfiguredBeforeSamples`: each video packet has the
  units of its sample (`SamplesReadBack`), and the configuration of a stream is there before its
  samples and has the profile and every parameter set (`ConfiguredFirst`). The second is under
  `KeyFramesTellSets`: without a sequence parameter set in the first key frame, the record is
  three bytes short;
- `CommandsInvariance`, `CommandsHeardRight`: commands and data decode to what was encoded
  (`CommandsReadBack`).

`ReceivedAsSent` needs to know what the cells on the way are. `WireInv` says it: they are the
chunks of the messages not yet read to the end, the first of them without the chunks that
the server has (`Remaining`), each message cut with the size that holds when the server
gets to it, which a Set Chunk Size ahead of it may have changed; what the server has of
the first message is what was in those chunks, the header it remembers is that message's,
and it has nothing of any other. A write appends whole messages with the size of the
end, which `Early` ties to the handshake; a read takes one chunk off the front. That no payload is
taken for a header, for which the server looks out, is part of what a message is (`Sound`).

`ContentInv` says of each packet on the way which sample it was made of, and that a
configuration is ahead of it or already there; `ParseSplits` says of `Parse`, for every sample,
that it finds the units, one for one, a zero of the next prefix behind some. `CommandInv` says
of each command on the way that `ParsesEncoded` applies to it, entity by entity.

`MessengerInput_proofs`, for any chunk sizes, stream ids and chunk stream ids, any number of
chunks in a read and any number of connections:

- `InputInvariance`: `InputInv`, by which the chunks not yet read are pieces of messages of the
  server, each message cut by the size the server had when it wrote it (`Pieces`);
- `TypeCorrect`: no size is remembered that the server did not announce;
- `ChunkSizeFollowed`: what is unread is cut by the size that is remembered, or the size was
  changed where the code does not look for it (`ServerChunkSizeFollowed`);
- `ReadsAsWritten`: a read with the right size gives out the messages of one chunk in it, in
  their order and with their values, and nothing else (`ReadAsWritten`);
- `StreamIDsGiven`: the stream id is one that the server gave out (`StreamIDGiven`);
- `ReadStray`: with whatever size a read is parsed, every message it gives out is one of the server.

The last is what `StreamIDsGiven` rests on, for the code may read with a stale size and nothing
tells it so. A reader with the right size goes from one chunk to the next (`Ready`), a turn of the
loop at each. One with another size may lose its way (`Loose`). Inside a payload it finds no cell
that is a header, and is garbled. At a message that begins where it stands, it may take the header
of the next chunk and what follows for the rest of the payload (`CutOff`), and give that out.
`CutParse` compares the parse of such a payload with that of the whole one, cell by cell: up to the
cut they agree (`Lock`), and behind it the first is garbled or has skipped what differs
(`Swallowed`), so that what comes out is what the server said.

### What TLC has of them, and what it alone has

TLC checks the invariants behind these theorems on small instances: `IInv` of
`PublishSession` in `all`, `OrderlyInv` in `orderly`, `OneStreamInv` in `failure`, `StampInv` in
`sessions`, `IInv` of the other two in `azure` and `children`, `IdsInv` in `sent`. The
properties that follow from them are checked next to them.

Only model-checked:

- liveness: `StopCompletes`, `FailureCloses`, `HandshakeEnds`, `FinalizedChildrenEnd`, and the
  liveness half of `SessionContract` (`ContractKept` as a whole), since fairness is beyond the
  prover. The safety half of it is `OrderlyContract` and `OneStreamContract`.

`WireInv`, `ContentInv`, `CommandInv` and `InputInv` say that there are sequences such that
something holds, over all sequences: TLC checks the properties that follow from them (`sent`,
`replies`) and the provers the invariants.

## Not modelled

- Media type handlers, the event generator, event arguments, logging, constants:
  adapters and data.
- The checks of profiles and URIs: argument checks at construction. The division that
  gives the sample interval, which is by zero for a frame rate below one, is one.
- Code nothing calls: `RTMPMessenger::ProcessQueue`, the reader of an unpublish reply,
  the removal of emulation prevention bytes, the parts of the session manager that
  nobody reads.
- The layout of C0 to C2, the order of bytes within a field, and reads that end inside
  a chunk: a cell is a whole field, and what such a read makes is told above.
- `OnClockPause`, `OnClockRestart`, `OnClockSetRate` and `Flush`, which change no state;
  `SetCurrentMediaType`, whose value only the audio configuration carries.
- The sample application's user interface and its REST client; the setup package.

## Plan

Done: each module has its runs and its proofs. What a run checks and no theorem states is
liveness, or false without a hypothesis that the theorem has. What could follow:

1. `NoCrash` of `PublishSession` for a failure of one sort, if there is one that it survives.
2. Reads that end inside a chunk, in `MessengerInput`.
