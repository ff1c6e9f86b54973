--------------------------- MODULE StreamTimestamps ---------------------------
(***************************************************************************)
(* The time stamps the stream sinks of a standalone sink put on their      *)
(* packets, and how they carry over from one publish session to the next   *)
(* one on the same channel: the early-sample filter of ProcessSample,      *)
(* PrepareTimestamps and the tick markers of CompleteProcessNextWorkitem,  *)
(* ToRTMPTimestamp, the composition offset of the video packet, and the    *)
(* sample application, which remembers the time stamps that SessionClosed  *)
(* reported and starts the next session from them.                         *)
(*                                                                         *)
(* A stream's items are handled one at a time, in the order of delivery    *)
(* (PublishSession models the queue and its locks), so an item is one step *)
(* here. Only lastPTS, lastDTS, startPTS, gaplength and the two original   *)
(* time stamps live in a stream sink; packet is what it wrote last.        *)
(***************************************************************************)
EXTENDS Integers

CONSTANTS
  Streams,          \* the streams of the profile: "audio", "video"
  ClockStart,       \* _clockStartOffset
  SampleInterval,   \* _sampleInterval of each stream
  Reorder,          \* how far the encoder presents a frame after it decodes it
  EarlyTicks,       \* whether a stream tick may come before the first sample
  UseContinuousTimestamps, \* the setting of the application
  Margin,           \* what it adds to a reported time stamp (40000000)
  Tick,             \* ticks in a millisecond (10000 in the code)
  Wrap, OffsetWrap, \* values of the 32-bit time stamp and of the 24-bit offset
  MaxTime,          \* bound: the last capture time
  MaxSessions       \* bound: sessions on the channel

ASSUME StreamsAssumption == Streams \subseteq {"audio", "video"}
ASSUME ClockAssumption == ClockStart \in Nat
ASSUME IntervalAssumption == SampleInterval \in [Streams -> Nat \ {0}]
ASSUME EncoderAssumption == Reorder \in Nat /\ EarlyTicks \in BOOLEAN
ASSUME ApplicationAssumption == Margin \in Nat \ {0, 1} /\ UseContinuousTimestamps \in BOOLEAN
ASSUME WidthAssumption ==
  /\ Tick \in Nat \ {0} /\ OffsetWrap \in Nat \ {0} /\ Wrap \in Nat \ {0}
  /\ Wrap % OffsetWrap = 0
ASSUME BoundsAssumption == MaxTime \in Nat /\ MaxSessions \in Nat

VARIABLES
  session,          \* sessions started so far
  base,             \* VideoTimestampBase and AudioTimestampBase
  startPTS, lastPTS, lastDTS, lastOriginalPTS, lastOriginalDTS, gaplength,
  packet,           \* the last packet written in this session
  captured,         \* time of the last item the source delivered
  history,          \* LastVideoTS and LastAudioTS in the application's history
  before            \* what the previous session reported

sinkVars == <<startPTS, lastPTS, lastDTS, lastOriginalPTS, lastOriginalDTS, gaplength>>
vars == <<session, base, sinkVars, packet, captured, history, before>>
----------------------------------------------------------------------------
\* (unsigned int) (round(ticks * TICKSTOMILLIS) % 2^32); round is away from zero.
Millis(ts) == IF ts >= 0 THEN (2 * ts + Tick) \div (2 * Tick)
              ELSE -((Tick - 2 * ts) \div (2 * Tick))
ToRTMPTimestamp(ts) == Millis(ts) % Wrap

\* publishoffset.
PublishOffset(s) == IF base[s] > 0 THEN base[s] + SampleInterval[s] ELSE 0

NoPacket == [dts |-> -1, offset |-> 0]

\* The three bytes of the composition time: uiPTS - uiDTS in 32 bits, cut to 24.
\* Mutants: the two operands swapped; all 32 bits written.
CompositionOffset_swapped(pts, dts) ==
  ((ToRTMPTimestamp(dts) - ToRTMPTimestamp(pts)) % Wrap) % OffsetWrap
CompositionOffset_uncut(pts, dts) == (ToRTMPTimestamp(pts) - ToRTMPTimestamp(dts)) % Wrap

CompositionOffset(pts, dts) ==
  ((ToRTMPTimestamp(pts) - ToRTMPTimestamp(dts)) % Wrap) % OffsetWrap

\* The base the application sets for a session, from what its history holds.
Base(last) == IF UseContinuousTimestamps THEN last + Margin ELSE -1

\* The fields of new stream sinks.
Unset == [s \in Streams |-> -1]
NoGap == [s \in Streams |-> 0]
NothingSent == [s \in Streams |-> NoPacket]

Init ==
  /\ session = 1
  /\ history = [s \in Streams |-> 0]
  /\ base = [s \in Streams |-> Base(history[s])]
  /\ before = [s \in Streams |-> -1]
  /\ startPTS = Unset /\ lastPTS = Unset /\ lastDTS = Unset
  /\ lastOriginalPTS = Unset /\ lastOriginalDTS = Unset /\ gaplength = NoGap
  /\ packet = NothingSent /\ captured = Unset
----------------------------------------------------------------------------
\* The decode time of the next sample and the time it is shown, in the order the
\* encoder delivers; a sample with no decode time has that of its presentation.
NextSample(s, dts, pts) ==
  /\ dts > captured[s]
  /\ IF s = "audio" THEN pts = dts ELSE dts <= pts /\ pts <= dts + Reorder
  /\ captured' = [captured EXCEPT ![s] = dts]

\* ProcessSample does not pass on a sample that predates the clock start.
DropEarlySample(s, dts, pts) ==
  /\ NextSample(s, dts, pts)
  /\ pts < ClockStart
  /\ UNCHANGED <<session, base, sinkVars, packet, history, before>>

\* The sink's own bookkeeping once PTS and DTS of a packet are known.
Stamp(s, originalPTS, pts, dts) ==
  /\ lastOriginalPTS' = [lastOriginalPTS EXCEPT ![s] = originalPTS]
  /\ lastPTS' = [lastPTS EXCEPT ![s] = pts]
  /\ startPTS' = [startPTS EXCEPT ![s] = IF @ < 0 THEN pts ELSE @]
  /\ packet' = [packet EXCEPT ![s] = [dts |-> ToRTMPTimestamp(dts),
                                      offset |-> CompositionOffset(pts, dts)]]

\* The first video sample: one that comes after the clock start is moved back to it.
FirstVideoSample(dts, pts) ==
  LET late   == dts > ClockStart
      newDTS == (IF late THEN ClockStart ELSE dts) + PublishOffset("video")
      newPTS == (IF late THEN ClockStart ELSE pts) + PublishOffset("video")
  IN /\ startPTS["video"] < 0
     /\ NextSample("video", dts, pts) /\ pts >= ClockStart
     /\ Stamp("video", pts, newPTS, newDTS)
     /\ lastDTS' = [lastDTS EXCEPT !["video"] = newDTS]
     /\ lastOriginalDTS' = [lastOriginalDTS EXCEPT !["video"] = dts]
     /\ UNCHANGED <<session, base, gaplength, history, before>>

\* Mutants: a gap used again for the next sample; a gap added instead of taken off.
LaterVideoSample_keepsgap(dts, pts) ==
  LET gap    == IF gaplength["video"] > 0 THEN gaplength["video"] ELSE 0
      newDTS == lastDTS["video"] + (dts - lastOriginalDTS["video"]) - gap
  IN /\ startPTS["video"] >= 0
     /\ NextSample("video", dts, pts) /\ pts >= ClockStart
     /\ Stamp("video", pts, pts + PublishOffset("video"), newDTS)
     /\ lastDTS' = [lastDTS EXCEPT !["video"] = newDTS]
     /\ lastOriginalDTS' = [lastOriginalDTS EXCEPT !["video"] = dts]
     /\ UNCHANGED <<session, base, gaplength, history, before>>
LaterVideoSample_addsgap(dts, pts) ==
  LET gap    == IF gaplength["video"] > 0 THEN gaplength["video"] ELSE 0
      newDTS == lastDTS["video"] + (dts - lastOriginalDTS["video"]) + gap
  IN /\ startPTS["video"] >= 0
     /\ NextSample("video", dts, pts) /\ pts >= ClockStart
     /\ Stamp("video", pts, pts + PublishOffset("video"), newDTS)
     /\ lastDTS' = [lastDTS EXCEPT !["video"] = newDTS]
     /\ lastOriginalDTS' = [lastOriginalDTS EXCEPT !["video"] = dts]
     /\ gaplength' = [gaplength EXCEPT !["video"] = IF @ > 0 THEN 0 ELSE @]
     /\ UNCHANGED <<session, base, history, before>>

\* A later one: the decode time advances by that of the encoder less the gap that
\* ticks have announced, the presentation time is the encoder's.
LaterVideoSample(dts, pts) ==
  LET gap    == IF gaplength["video"] > 0 THEN gaplength["video"] ELSE 0
      newDTS == lastDTS["video"] + (dts - lastOriginalDTS["video"]) - gap
  IN /\ startPTS["video"] >= 0
     /\ NextSample("video", dts, pts) /\ pts >= ClockStart
     /\ Stamp("video", pts, pts + PublishOffset("video"), newDTS)
     /\ lastDTS' = [lastDTS EXCEPT !["video"] = newDTS]
     /\ lastOriginalDTS' = [lastOriginalDTS EXCEPT !["video"] = dts]
     /\ gaplength' = [gaplength EXCEPT !["video"] = IF @ > 0 THEN 0 ELSE @]
     /\ UNCHANGED <<session, base, history, before>>

\* An audio sample: no decode time, and the gap is only cleared.
AudioSample(pts) ==
  /\ NextSample("audio", pts, pts) /\ pts >= ClockStart
  /\ Stamp("audio", pts, pts + PublishOffset("audio"), pts + PublishOffset("audio"))
  /\ gaplength' = [gaplength EXCEPT !["audio"] = IF @ > 0 THEN 0 ELSE @]
  /\ UNCHANGED <<session, base, lastDTS, lastOriginalDTS, history, before>>

\* A tick of the source: nothing was captured up to this time.
StreamTick(s, time) ==
  /\ time > captured[s]
  /\ EarlyTicks \/ startPTS[s] >= 0
  /\ captured' = [captured EXCEPT ![s] = time]
  /\ gaplength' = [gaplength EXCEPT ![s] = @ + (time - lastOriginalPTS[s])]
  /\ lastOriginalPTS' = [lastOriginalPTS EXCEPT ![s] = time]
  /\ UNCHANGED <<session, base, startPTS, lastPTS, lastDTS, lastOriginalDTS, packet, history, before>>
----------------------------------------------------------------------------
\* LastVideoTimestamp is GetLastDTS, LastAudioTimestamp is GetLastPTS.
\* Mutant: the capture time reported in place of the time stamp written.
Reported_original(s) == IF s = "audio" THEN lastOriginalPTS[s] ELSE lastOriginalDTS[s]

Reported(s) == IF s = "audio" THEN lastPTS[s] ELSE lastDTS[s]

\* The session closes, the application remembers what it reported unless that is
\* zero, and starts another session, with new sinks, on the channel.
NextSession ==
  /\ session < MaxSessions
  /\ session' = session + 1
  /\ history' = [s \in Streams |-> IF Reported(s) # 0 THEN Reported(s) ELSE history[s]]
  /\ base' = [s \in Streams |-> Base(history'[s])]
  /\ before' = [s \in Streams |-> Reported(s)]
  /\ startPTS' = Unset /\ lastPTS' = Unset /\ lastDTS' = Unset
  /\ lastOriginalPTS' = Unset /\ lastOriginalDTS' = Unset /\ gaplength' = NoGap
  /\ packet' = NothingSent /\ captured' = Unset

VideoSample ==
  \E dts \in 0..MaxTime, pts \in 0..(MaxTime + Reorder) :
    FirstVideoSample(dts, pts) \/ LaterVideoSample(dts, pts)

Next ==
  \/ "video" \in Streams /\ VideoSample
  \/ "audio" \in Streams /\ \E pts \in 0..MaxTime : AudioSample(pts)
  \/ \E s \in Streams, dts \in 0..MaxTime, pts \in 0..(MaxTime + Reorder) :
       DropEarlySample(s, dts, pts)
  \/ \E s \in Streams, time \in 0..MaxTime : StreamTick(s, time)
  \/ NextSession

Spec == Init /\ [][Next]_vars
----------------------------------------------------------------------------
(* Properties.                                                                  *)

\* The packet's fields fit their width, whatever the sink computed.
TypeOK ==
  /\ session \in Nat
  /\ base \in [Streams -> Int]
  /\ startPTS \in [Streams -> Int] /\ lastPTS \in [Streams -> Int]
  /\ lastDTS \in [Streams -> Int]
  /\ lastOriginalPTS \in [Streams -> Int] /\ lastOriginalDTS \in [Streams -> Int]
  /\ gaplength \in [Streams -> Int]
  /\ packet \in [Streams -> [dts : -1..(Wrap - 1), offset : 0..(OffsetWrap - 1)]]
  /\ captured \in [Streams -> Int]
  /\ history \in [Streams -> Int]
  /\ before \in [Streams -> Int]

\* A frame is never decoded after it is shown, whatever gaps, reordering and late
\* starts came before it: the composition offset, an unsigned field of the packet,
\* never stands for a negative number.
DecodedBeforeShown ==
  "video" \in Streams /\ startPTS["video"] >= 0 => lastDTS["video"] <= lastPTS["video"]

\* What makes it so, step by step: a packet's decode time stays at or below the
\* encoder's, moved by the base of the session.
NotAhead ==
  "video" \in Streams /\ startPTS["video"] >= 0 =>
    /\ lastDTS["video"] <= lastOriginalDTS["video"] + PublishOffset("video")
    /\ lastDTS["video"] <= lastPTS["video"]

\* What a player computes from a video packet is the presentation time, also where
\* the 32-bit time stamp wraps around, as long as the distance fits the 24 bits.
PlayTimeKept ==
  "video" \in Streams /\ startPTS["video"] >= 0
    /\ Millis(lastPTS["video"]) - Millis(lastDTS["video"]) < OffsetWrap =>
      (packet["video"].dts + packet["video"].offset) % Wrap = ToRTMPTimestamp(lastPTS["video"])

\* What makes it so: the packet written last is that of the last time stamps.
PacketIsLast ==
  "video" \in Streams /\ startPTS["video"] >= 0 =>
    packet["video"] = [dts    |-> ToRTMPTimestamp(lastDTS["video"]),
                       offset |-> CompositionOffset(lastPTS["video"], lastDTS["video"])]

\* Within a session the decode times of the video packets increase, with gaps
\* taken out of them (stated for encoders that do not reorder and for sources that
\* announce no gap before their first sample).
DecodeTimesIncrease ==
  [][\A s \in Streams \cap {"video"} :
       session' = session /\ startPTS[s] >= 0 /\ lastOriginalDTS'[s] # lastOriginalDTS[s]
         => lastDTS'[s] > lastDTS[s]]_vars

\* What makes it so: with no reordering, the gap is the time since the last sample.
GapIsElapsed ==
  "video" \in Streams =>
    /\ startPTS["video"] < 0 => gaplength["video"] = 0
    /\ startPTS["video"] >= 0 =>
         /\ ClockStart <= captured["video"]
         /\ lastOriginalDTS["video"] <= captured["video"]
         /\ lastOriginalPTS["video"] = captured["video"]
         /\ gaplength["video"] = captured["video"] - lastOriginalDTS["video"]

\* The time stamps of a session are above those of the session before it.
AbovePrevious ==
  \A s \in Streams : UseContinuousTimestamps /\ startPTS[s] >= 0 => Reported(s) > before[s]

\* What makes it so: the offset of the session is above the previous session, and
\* its own time stamps are at or above the offset.
AboveOffset ==
  \A s \in Streams :
    /\ history[s] >= -1
    /\ startPTS[s] < 0 => Reported(s) = -1
    /\ startPTS[s] >= 0 => Reported(s) >= PublishOffset(s)
    /\ UseContinuousTimestamps => before[s] < PublishOffset(s)

\* The inductive invariant behind these properties, for encoders that do not
\* reorder: RTMPVideoStreamSink.cpp keeps its gap and its last time stamps in step.
StampInv == NotAhead /\ GapIsElapsed /\ AboveOffset /\ PacketIsLast
=============================================================================
