----------------------- MODULE StreamTimestamps_proofs -----------------------
(***************************************************************************)
(* Proofs about StreamTimestamps, for every choice of its constants: the   *)
(* fields of a packet fit their width, a video frame is decoded no later   *)
(* than it is shown, and, without reordering and early ticks, the decode   *)
(* times of a session increase and those of the next one are above them.   *)
(***************************************************************************)
EXTENDS StreamTimestamps, TLAPS

\* The conversion to milliseconds and the two fields of a packet.
LEMMA ToRTMPTimestampType ==
  \A ts \in Int : Millis(ts) \in Int /\ ToRTMPTimestamp(ts) \in 0..(Wrap - 1)
<1>1. Wrap \in Nat \ {0} /\ Tick \in Nat \ {0}
  BY WidthAssumption
<1>2. ASSUME NEW a \in Int, NEW b \in Int, b > 0 PROVE a \div b \in Int /\ a % b \in 0..(b - 1)
  BY <1>2
<1>3. ASSUME NEW ts \in Int PROVE Millis(ts) \in Int
  <2>1. 2 * ts + Tick \in Int /\ Tick - 2 * ts \in Int /\ 2 * Tick \in Int /\ 2 * Tick > 0
    BY <1>1
  <2>2. (2 * ts + Tick) \div (2 * Tick) \in Int /\ (Tick - 2 * ts) \div (2 * Tick) \in Int
    BY <2>1, <1>2
  <2>. QED  BY <2>2 DEF Millis
<1>. QED  BY <1>1, <1>2, <1>3 DEF ToRTMPTimestamp

LEMMA CompositionOffsetType ==
  \A pts, dts \in Int : CompositionOffset(pts, dts) \in 0..(OffsetWrap - 1)
<1>. SUFFICES ASSUME NEW pts \in Int, NEW dts \in Int
              PROVE  CompositionOffset(pts, dts) \in 0..(OffsetWrap - 1)
  OBVIOUS
<1>1. Wrap \in Nat \ {0} /\ OffsetWrap \in Nat \ {0}
  BY WidthAssumption
<1>2. ASSUME NEW a \in Int, NEW b \in Int, b > 0 PROVE a % b \in 0..(b - 1)
  BY <1>2
<1>3. (ToRTMPTimestamp(pts) - ToRTMPTimestamp(dts)) % Wrap \in Int
  BY <1>1, <1>2, ToRTMPTimestampType
<1>. QED  BY <1>1, <1>2, <1>3 DEF CompositionOffset

LEMMA PublishOffsetType ==
  ASSUME TypeOK, NEW s \in Streams
  PROVE  PublishOffset(s) \in Nat
  BY IntervalAssumption DEF TypeOK, PublishOffset

\* The packet a sample writes has its two fields in range.
LEMMA PacketType ==
  \A pts, dts \in Int :
    [dts |-> ToRTMPTimestamp(dts), offset |-> CompositionOffset(pts, dts)]
      \in [dts : -1..(Wrap - 1), offset : 0..(OffsetWrap - 1)]
<1>. SUFFICES ASSUME NEW pts \in Int, NEW dts \in Int
     PROVE [dts |-> ToRTMPTimestamp(dts), offset |-> CompositionOffset(pts, dts)]
             \in [dts : -1..(Wrap - 1), offset : 0..(OffsetWrap - 1)]
  OBVIOUS
<1>1. ToRTMPTimestamp(dts) \in -1..(Wrap - 1)
  BY ToRTMPTimestampType, WidthAssumption
<1>2. CompositionOffset(pts, dts) \in 0..(OffsetWrap - 1)
  BY CompositionOffsetType
<1>. QED  BY <1>1, <1>2

LEMMA InitType == Init => TypeOK
<1>. SUFFICES ASSUME Init PROVE TypeOK
  OBVIOUS
<1>1. NoPacket \in [dts : -1..(Wrap - 1), offset : 0..(OffsetWrap - 1)]
  BY WidthAssumption DEF NoPacket
<1>2. \A last \in Int : Base(last) \in Int
  BY ApplicationAssumption DEF Base
<1>. QED  BY <1>1, <1>2 DEF Init, TypeOK, Unset, NoGap, NothingSent

\* The steps of Next, one by one.
LEMMA Actions ==
  ASSUME Next
  PROVE  \/ "video" \in Streams /\ \E dts, pts \in Nat : FirstVideoSample(dts, pts)
         \/ "video" \in Streams /\ \E dts, pts \in Nat : LaterVideoSample(dts, pts)
         \/ "audio" \in Streams /\ \E pts \in Nat : AudioSample(pts)
         \/ \E s \in Streams, dts, pts \in Nat : DropEarlySample(s, dts, pts)
         \/ \E s \in Streams, time \in Nat : StreamTick(s, time)
         \/ NextSession
<1>1. 0..MaxTime \subseteq Nat /\ 0..(MaxTime + Reorder) \subseteq Nat
  BY BoundsAssumption, EncoderAssumption
<1>. QED  BY <1>1 DEF Next, VideoSample

\* Every action keeps the type invariant.
LEMMA SampleType ==
  ASSUME TypeOK, NEW s \in Streams, NEW originalPTS \in Int, NEW pts \in Int, NEW dts \in Int,
         Stamp(s, originalPTS, pts, dts)
  PROVE  /\ startPTS' \in [Streams -> Int] /\ lastPTS' \in [Streams -> Int]
         /\ lastOriginalPTS' \in [Streams -> Int]
         /\ packet' \in [Streams -> [dts : -1..(Wrap - 1), offset : 0..(OffsetWrap - 1)]]
<1>. DEFINE Field == [dts |-> ToRTMPTimestamp(dts), offset |-> CompositionOffset(pts, dts)]
<1>1. Field \in [dts : -1..(Wrap - 1), offset : 0..(OffsetWrap - 1)]
  BY PacketType
<1>2. packet' = [packet EXCEPT ![s] = Field]
  BY DEF Stamp
<1>3. packet' \in [Streams -> [dts : -1..(Wrap - 1), offset : 0..(OffsetWrap - 1)]]
  <2>. HIDE DEF Field
  <2>. QED  BY <1>1, <1>2 DEF TypeOK
<1>. QED  BY <1>3 DEF Stamp, TypeOK

LEMMA FirstVideoType ==
  ASSUME TypeOK, "video" \in Streams, NEW dts \in Nat, NEW pts \in Nat, FirstVideoSample(dts, pts)
  PROVE  TypeOK'
<1>. DEFINE newDTS == (IF dts > ClockStart THEN ClockStart ELSE dts) + PublishOffset("video")
            newPTS == (IF dts > ClockStart THEN ClockStart ELSE pts) + PublishOffset("video")
<1>1. newDTS \in Int /\ newPTS \in Int
  BY PublishOffsetType, ClockAssumption
<1>2. /\ Stamp("video", pts, newPTS, newDTS)
      /\ lastDTS' = [lastDTS EXCEPT !["video"] = newDTS]
      /\ lastOriginalDTS' = [lastOriginalDTS EXCEPT !["video"] = dts]
      /\ captured' = [captured EXCEPT !["video"] = dts]
      /\ UNCHANGED <<session, base, gaplength, history, before>>
  BY DEF FirstVideoSample, NextSample
<1>. HIDE DEF newDTS, newPTS
<1>3. /\ startPTS' \in [Streams -> Int] /\ lastPTS' \in [Streams -> Int]
      /\ lastOriginalPTS' \in [Streams -> Int]
      /\ packet' \in [Streams -> [dts : -1..(Wrap - 1), offset : 0..(OffsetWrap - 1)]]
  BY <1>1, <1>2, SampleType
<1>4. /\ lastDTS' \in [Streams -> Int] /\ lastOriginalDTS' \in [Streams -> Int]
      /\ captured' \in [Streams -> Int] /\ gaplength' \in [Streams -> Int]
  BY <1>1, <1>2 DEF TypeOK
<1>. QED  BY <1>2, <1>3, <1>4 DEF TypeOK

LEMMA LaterVideoType ==
  ASSUME TypeOK, "video" \in Streams, NEW dts \in Nat, NEW pts \in Nat, LaterVideoSample(dts, pts)
  PROVE  TypeOK'
<1>. DEFINE gap    == IF gaplength["video"] > 0 THEN gaplength["video"] ELSE 0
            newDTS == lastDTS["video"] + (dts - lastOriginalDTS["video"]) - gap
            newPTS == pts + PublishOffset("video")
<1>1. newDTS \in Int /\ newPTS \in Int
  BY PublishOffsetType DEF TypeOK
<1>2. /\ Stamp("video", pts, newPTS, newDTS)
      /\ lastDTS' = [lastDTS EXCEPT !["video"] = newDTS]
      /\ lastOriginalDTS' = [lastOriginalDTS EXCEPT !["video"] = dts]
      /\ captured' = [captured EXCEPT !["video"] = dts]
      /\ gaplength' = [gaplength EXCEPT !["video"] = IF @ > 0 THEN 0 ELSE @]
      /\ UNCHANGED <<session, base, history, before>>
  BY DEF LaterVideoSample, NextSample
<1>. HIDE DEF newDTS, newPTS
<1>3. /\ startPTS' \in [Streams -> Int] /\ lastPTS' \in [Streams -> Int]
      /\ lastOriginalPTS' \in [Streams -> Int]
      /\ packet' \in [Streams -> [dts : -1..(Wrap - 1), offset : 0..(OffsetWrap - 1)]]
  BY <1>1, <1>2, SampleType
<1>4. /\ lastDTS' \in [Streams -> Int] /\ lastOriginalDTS' \in [Streams -> Int]
      /\ captured' \in [Streams -> Int] /\ gaplength' \in [Streams -> Int]
  BY <1>1, <1>2 DEF TypeOK
<1>. QED  BY <1>2, <1>3, <1>4 DEF TypeOK

LEMMA AudioType ==
  ASSUME TypeOK, "audio" \in Streams, NEW pts \in Nat, AudioSample(pts)
  PROVE  TypeOK'
<1>. DEFINE newPTS == pts + PublishOffset("audio")
<1>1. newPTS \in Int
  BY PublishOffsetType
<1>2. /\ Stamp("audio", pts, newPTS, newPTS)
      /\ captured' = [captured EXCEPT !["audio"] = pts]
      /\ gaplength' = [gaplength EXCEPT !["audio"] = IF @ > 0 THEN 0 ELSE @]
      /\ UNCHANGED <<session, base, lastDTS, lastOriginalDTS, history, before>>
  BY DEF AudioSample, NextSample
<1>. HIDE DEF newPTS
<1>3. /\ startPTS' \in [Streams -> Int] /\ lastPTS' \in [Streams -> Int]
      /\ lastOriginalPTS' \in [Streams -> Int]
      /\ packet' \in [Streams -> [dts : -1..(Wrap - 1), offset : 0..(OffsetWrap - 1)]]
  BY <1>1, <1>2, SampleType
<1>4. /\ lastDTS' \in [Streams -> Int] /\ lastOriginalDTS' \in [Streams -> Int]
      /\ captured' \in [Streams -> Int] /\ gaplength' \in [Streams -> Int]
  BY <1>1, <1>2 DEF TypeOK
<1>. QED  BY <1>2, <1>3, <1>4 DEF TypeOK

LEMMA NextSessionType == ASSUME TypeOK, NextSession PROVE TypeOK'
<1>1. \A s \in Streams : Reported(s) \in Int
  BY DEF TypeOK, Reported
<1>2. \A last \in Int : Base(last) \in Int
  BY ApplicationAssumption DEF Base
<1>3. history' \in [Streams -> Int] /\ base' \in [Streams -> Int]
  <2>1. history' \in [Streams -> Int]
    BY <1>1 DEF TypeOK, NextSession
  <2>. QED  BY <2>1, <1>2 DEF NextSession
<1>4. before' \in [Streams -> Int]
  BY <1>1 DEF NextSession
<1>5. NoPacket \in [dts : -1..(Wrap - 1), offset : 0..(OffsetWrap - 1)]
  BY WidthAssumption DEF NoPacket
<1>. QED  BY <1>3, <1>4, <1>5 DEF NextSession, TypeOK, Unset, NoGap, NothingSent

LEMMA TypeStep == TypeOK /\ [Next]_vars => TypeOK'
<1>. SUFFICES ASSUME TypeOK, [Next]_vars PROVE TypeOK'
  OBVIOUS
<1>1. CASE UNCHANGED vars
  BY <1>1 DEF TypeOK, vars, sinkVars
<1>2. ASSUME NEW s \in Streams, NEW dts \in Nat, NEW pts \in Nat, DropEarlySample(s, dts, pts)
      PROVE  TypeOK'
  BY <1>2 DEF DropEarlySample, NextSample, sinkVars, TypeOK
<1>3. ASSUME NEW s \in Streams, NEW time \in Nat, StreamTick(s, time) PROVE TypeOK'
  BY <1>3 DEF StreamTick, TypeOK
<1>. QED
  BY <1>1, <1>2, <1>3, Actions, FirstVideoType, LaterVideoType, AudioType, NextSessionType

\* The fields of every packet fit their width.
THEOREM TypeCorrect == Spec => []TypeOK
<1>. QED  BY InitType, TypeStep, PTL DEF Spec
----------------------------------------------------------------------------
\* A frame is decoded no later than it is shown.
LEMMA NotAheadStep ==
  ASSUME TypeOK, NotAhead, [Next]_vars
  PROVE  NotAhead'
<1>. SUFFICES ASSUME "video" \in Streams, startPTS'["video"] >= 0
              PROVE  /\ lastDTS'["video"] <= lastOriginalDTS'["video"] + PublishOffset("video")'
                     /\ lastDTS'["video"] <= lastPTS'["video"]
  BY DEF NotAhead
<1>0. PublishOffset("video") \in Nat
  BY PublishOffsetType
<1>1. CASE UNCHANGED vars
  BY <1>1 DEF vars, sinkVars, NotAhead, PublishOffset
<1>2. ASSUME NEW dts \in Nat, NEW pts \in Nat, FirstVideoSample(dts, pts)
      PROVE  NotAhead'
  <2>. DEFINE newDTS == (IF dts > ClockStart THEN ClockStart ELSE dts) + PublishOffset("video")
              newPTS == (IF dts > ClockStart THEN ClockStart ELSE pts) + PublishOffset("video")
  <2>1. /\ lastDTS'["video"] = newDTS /\ lastPTS'["video"] = newPTS
        /\ lastOriginalDTS'["video"] = dts /\ dts <= pts /\ base' = base
    BY <1>2 DEF FirstVideoSample, NextSample, Stamp, TypeOK
  <2>2. PublishOffset("video")' = PublishOffset("video")
    BY <2>1 DEF PublishOffset
  <2>3. newDTS <= dts + PublishOffset("video") /\ newDTS <= newPTS
    BY <1>0, <2>1, ClockAssumption
  <2>. QED  BY <2>1, <2>2, <2>3 DEF NotAhead
<1>3. ASSUME NEW dts \in Nat, NEW pts \in Nat, LaterVideoSample(dts, pts)
      PROVE  NotAhead'
  <2>. DEFINE gap    == IF gaplength["video"] > 0 THEN gaplength["video"] ELSE 0
              newDTS == lastDTS["video"] + (dts - lastOriginalDTS["video"]) - gap
              newPTS == pts + PublishOffset("video")
  <2>1. /\ lastDTS'["video"] = newDTS /\ lastPTS'["video"] = newPTS
        /\ lastOriginalDTS'["video"] = dts /\ dts <= pts /\ base' = base
        /\ startPTS["video"] >= 0
    BY <1>3 DEF LaterVideoSample, NextSample, Stamp, TypeOK
  <2>2. PublishOffset("video")' = PublishOffset("video")
    BY <2>1 DEF PublishOffset
  <2>3. newDTS <= dts + PublishOffset("video") /\ newDTS <= newPTS
    BY <1>0, <2>1 DEF NotAhead, TypeOK
  <2>. QED  BY <2>1, <2>2, <2>3 DEF NotAhead
<1>4. ASSUME NEW pts \in Nat, "audio" \in Streams, AudioSample(pts)
      PROVE  NotAhead'
  BY <1>4 DEF AudioSample, NextSample, Stamp, NotAhead, PublishOffset, TypeOK
<1>5. ASSUME NEW s \in Streams, NEW dts \in Nat, NEW pts \in Nat, DropEarlySample(s, dts, pts)
      PROVE  NotAhead'
  BY <1>5 DEF DropEarlySample, sinkVars, NotAhead, PublishOffset
<1>6. ASSUME NEW s \in Streams, NEW time \in Nat, StreamTick(s, time)
      PROVE  NotAhead'
  BY <1>6 DEF StreamTick, NotAhead, PublishOffset
<1>7. CASE NextSession
  BY <1>7 DEF NextSession, Unset
<1>8. CASE NotAhead'
  BY <1>8 DEF NotAhead
<1>. QED  BY <1>1, <1>2, <1>3, <1>4, <1>5, <1>6, <1>7, <1>8, Actions

\* DecodedBeforeShown, for every instance: whatever the encoder's reordering, the
\* ticks of the source and the bases of the sessions.
THEOREM DecodeFirst == Spec => []DecodedBeforeShown
<1>1. Init => NotAhead
  BY DEF Init, Unset, NotAhead
<1>2. TypeOK /\ NotAhead /\ [Next]_vars => NotAhead'
  BY NotAheadStep
<1>3. NotAhead => DecodedBeforeShown
  BY DEF NotAhead, DecodedBeforeShown
<1>. QED  BY <1>1, <1>2, <1>3, TypeCorrect, PTL DEF Spec
----------------------------------------------------------------------------
\* Decode times increase, for encoders that do not reorder and sources whose ticks
\* come after a sample.
LEMMA GapStep ==
  ASSUME Reorder = 0, EarlyTicks = FALSE, TypeOK, GapIsElapsed, [Next]_vars
  PROVE  GapIsElapsed'
<1>1. CASE UNCHANGED vars
  BY <1>1 DEF vars, sinkVars, GapIsElapsed
<1>2. ASSUME NEW dts \in Nat, NEW pts \in Nat, "video" \in Streams, FirstVideoSample(dts, pts)
      PROVE  GapIsElapsed'
  <2>. DEFINE newPTS == (IF dts > ClockStart THEN ClockStart ELSE pts) + PublishOffset("video")
  <2>0. Stamp("video", pts, newPTS, (IF dts > ClockStart THEN ClockStart ELSE dts) + PublishOffset("video"))
        /\ startPTS["video"] < 0 /\ NextSample("video", dts, pts) /\ pts >= ClockStart
        /\ lastOriginalDTS' = [lastOriginalDTS EXCEPT !["video"] = dts] /\ gaplength' = gaplength
    BY <1>2 DEF FirstVideoSample
  <2>. HIDE DEF newPTS
  <2>3. pts = dts /\ captured'["video"] = dts
    BY <1>2, <2>0, Reorder = 0 DEF NextSample, TypeOK
  <2>4. lastOriginalPTS'["video"] = pts /\ startPTS'["video"] = newPTS
    BY <1>2, <2>0 DEF Stamp, TypeOK
  <2>1. /\ startPTS["video"] < 0 /\ pts = dts /\ pts >= ClockStart
        /\ captured'["video"] = dts /\ lastOriginalDTS'["video"] = dts
        /\ lastOriginalPTS'["video"] = pts /\ gaplength' = gaplength
        /\ startPTS'["video"] = newPTS
    BY <1>2, <2>0, <2>3, <2>4 DEF TypeOK
  <2>2. gaplength["video"] = 0 /\ newPTS >= 0
    BY <1>2, <2>1, PublishOffsetType, ClockAssumption DEF GapIsElapsed, newPTS
  <2>. QED  BY <2>1, <2>2 DEF GapIsElapsed
<1>3. ASSUME NEW dts \in Nat, NEW pts \in Nat, "video" \in Streams, LaterVideoSample(dts, pts)
      PROVE  GapIsElapsed'
  <2>1. /\ startPTS["video"] >= 0 /\ pts = dts /\ pts >= ClockStart
        /\ captured'["video"] = dts /\ lastOriginalDTS'["video"] = dts
        /\ lastOriginalPTS'["video"] = pts
        /\ startPTS'["video"] = startPTS["video"]
        /\ gaplength'["video"] = IF gaplength["video"] > 0 THEN 0 ELSE gaplength["video"]
    BY <1>3 DEF LaterVideoSample, NextSample, Stamp, TypeOK
  <2>2. gaplength["video"] >= 0
    BY <1>3, <2>1 DEF GapIsElapsed, TypeOK
  <2>. QED  BY <2>1, <2>2 DEF GapIsElapsed, TypeOK
<1>4. ASSUME NEW pts \in Nat, "audio" \in Streams, AudioSample(pts)
      PROVE  GapIsElapsed'
  BY <1>4 DEF AudioSample, NextSample, Stamp, GapIsElapsed, TypeOK
<1>5. ASSUME NEW s \in Streams, NEW dts \in Nat, NEW pts \in Nat, DropEarlySample(s, dts, pts)
      PROVE  GapIsElapsed'
  <2>1. /\ dts > captured[s] /\ dts <= pts /\ pts < ClockStart
        /\ captured' = [captured EXCEPT ![s] = dts] /\ UNCHANGED sinkVars
    BY <1>5 DEF DropEarlySample, NextSample
  <2>2. ASSUME "video" \in Streams, startPTS["video"] >= 0 PROVE s # "video"
    BY <2>1, <2>2, ClockAssumption DEF GapIsElapsed, TypeOK
  <2>. QED  BY <2>1, <2>2 DEF GapIsElapsed, sinkVars, TypeOK
<1>6. ASSUME NEW s \in Streams, NEW time \in Nat, StreamTick(s, time)
      PROVE  GapIsElapsed'
  <2>1. /\ time > captured[s] /\ startPTS[s] >= 0 /\ UNCHANGED <<startPTS, lastOriginalDTS>>
        /\ captured' = [captured EXCEPT ![s] = time]
        /\ gaplength' = [gaplength EXCEPT ![s] = gaplength[s] + (time - lastOriginalPTS[s])]
        /\ lastOriginalPTS' = [lastOriginalPTS EXCEPT ![s] = time]
    BY <1>6 DEF StreamTick
  <2>. QED  BY <2>1, ClockAssumption DEF GapIsElapsed, TypeOK
<1>7. CASE NextSession
  BY <1>7 DEF NextSession, Unset, NoGap, GapIsElapsed
<1>. QED  BY <1>1, <1>2, <1>3, <1>4, <1>5, <1>6, <1>7, Actions

\* The step that writes a later frame moves the decode time forward.
LEMMA LaterVideoAdvances ==
  ASSUME TypeOK, GapIsElapsed, Reorder = 0, "video" \in Streams,
         NEW dts \in Nat, NEW pts \in Nat, LaterVideoSample(dts, pts)
  PROVE  lastDTS'["video"] > lastDTS["video"]
<1>. DEFINE gap    == IF gaplength["video"] > 0 THEN gaplength["video"] ELSE 0
            newDTS == lastDTS["video"] + (dts - lastOriginalDTS["video"]) - gap
<1>1. /\ lastDTS'["video"] = newDTS /\ dts > captured["video"] /\ startPTS["video"] >= 0
  BY DEF LaterVideoSample, NextSample, TypeOK
<1>2. gap = captured["video"] - lastOriginalDTS["video"]
  BY <1>1 DEF GapIsElapsed, TypeOK
<1>. HIDE DEF gap
<1>. QED  BY <1>1, <1>2 DEF TypeOK

LEMMA IncreaseStep ==
  ASSUME Reorder = 0, TypeOK, GapIsElapsed, [Next]_vars
  PROVE  [\A s \in Streams \cap {"video"} :
            session' = session /\ startPTS[s] >= 0 /\ lastOriginalDTS'[s] # lastOriginalDTS[s]
              => lastDTS'[s] > lastDTS[s]]_vars
<1>. SUFFICES ASSUME Next, "video" \in Streams, session' = session, startPTS["video"] >= 0,
                     lastOriginalDTS'["video"] # lastOriginalDTS["video"]
              PROVE  lastDTS'["video"] > lastDTS["video"]
  BY DEF vars
<1>1. ASSUME NEW dts \in Nat, NEW pts \in Nat, LaterVideoSample(dts, pts)
      PROVE  lastDTS'["video"] > lastDTS["video"]
  BY <1>1, LaterVideoAdvances
<1>2. ~ \E dts, pts \in Nat : FirstVideoSample(dts, pts)
  BY DEF FirstVideoSample, TypeOK
<1>3. ~ \E pts \in Nat : AudioSample(pts)
  BY DEF AudioSample
<1>4. ~ \E s \in Streams, dts, pts \in Nat : DropEarlySample(s, dts, pts)
  BY DEF DropEarlySample, sinkVars
<1>5. ~ \E s \in Streams, time \in Nat : StreamTick(s, time)
  BY DEF StreamTick
<1>6. ~NextSession
  BY DEF NextSession, TypeOK
<1>. QED  BY <1>1, <1>2, <1>3, <1>4, <1>5, <1>6, Actions

\* DecodeTimesIncrease for every such instance.
THEOREM DecodeOrder ==
  ASSUME Reorder = 0, EarlyTicks = FALSE
  PROVE  Spec => DecodeTimesIncrease
<1>1. Init => GapIsElapsed
  BY DEF Init, Unset, NoGap, GapIsElapsed
<1>2. TypeOK /\ GapIsElapsed /\ [Next]_vars => GapIsElapsed'
  BY GapStep
<1>3. TypeOK /\ GapIsElapsed /\ [Next]_vars =>
        [\A s \in Streams \cap {"video"} :
           session' = session /\ startPTS[s] >= 0 /\ lastOriginalDTS'[s] # lastOriginalDTS[s]
             => lastDTS'[s] > lastDTS[s]]_vars
  BY IncreaseStep
<1>. QED  BY <1>1, <1>2, <1>3, TypeCorrect, PTL DEF Spec, DecodeTimesIncrease
----------------------------------------------------------------------------
\* The time stamps of a session are above those of the session before it, in the
\* same instances.
LEMMA SentAboveOffset ==
  ASSUME TypeOK, AboveOffset, GapIsElapsed, Reorder = 0, EarlyTicks = FALSE, Next,
         session' = session, NEW s \in Streams
  PROVE  /\ startPTS'[s] < 0 => Reported(s)' = -1
         /\ startPTS'[s] >= 0 => Reported(s)' >= PublishOffset(s)
<1>. DEFINE Goal == /\ startPTS'[s] < 0 => Reported(s)' = -1
                    /\ startPTS'[s] >= 0 => Reported(s)' >= PublishOffset(s)
<1>0. /\ PublishOffset(s) \in Nat /\ s \in {"audio", "video"}
      /\ startPTS[s] < 0 => Reported(s) = -1
      /\ startPTS[s] >= 0 => Reported(s) >= PublishOffset(s)
  BY PublishOffsetType, StreamsAssumption DEF AboveOffset
<1>1. ASSUME NEW dts \in Nat, NEW pts \in Nat, "video" \in Streams, FirstVideoSample(dts, pts)
      PROVE  Goal
  <2>. DEFINE newDTS == (IF dts > ClockStart THEN ClockStart ELSE dts) + PublishOffset("video")
              newPTS == (IF dts > ClockStart THEN ClockStart ELSE pts) + PublishOffset("video")
  <2>1. CASE s = "video"
    <3>1. lastDTS'[s] = newDTS /\ startPTS'[s] = newPTS /\ startPTS[s] < 0
      BY <1>1, <2>1 DEF FirstVideoSample, Stamp, TypeOK
    <3>2. newDTS >= PublishOffset("video") /\ newPTS >= 0 /\ newPTS \in Int
      BY <1>0, <2>1, ClockAssumption
    <3>3. Reported(s)' = newDTS /\ PublishOffset(s) = PublishOffset("video")
      BY <2>1, <3>1 DEF Reported
    <3>. HIDE DEF newDTS, newPTS
    <3>. QED  BY <3>1, <3>2, <3>3
  <2>2. CASE s # "video"
    BY <1>0, <1>1, <2>2 DEF FirstVideoSample, Stamp, TypeOK, Reported
  <2>. QED  BY <2>1, <2>2
<1>2. ASSUME NEW dts \in Nat, NEW pts \in Nat, "video" \in Streams, LaterVideoSample(dts, pts)
      PROVE  Goal
  <2>1. CASE s = "video"
    <3>1. lastDTS'["video"] > lastDTS["video"] /\ startPTS["video"] >= 0
      BY <1>2, LaterVideoAdvances DEF LaterVideoSample
    <3>2. startPTS'["video"] = startPTS["video"]
      BY <1>2, <3>1 DEF LaterVideoSample, Stamp, TypeOK
    <3>3. lastDTS'["video"] \in Int /\ lastDTS["video"] \in Int
      BY <1>2, LaterVideoType DEF TypeOK
    <3>4. Reported(s)' = lastDTS'["video"] /\ Reported(s) = lastDTS["video"]
      BY <2>1 DEF Reported
    <3>5. startPTS'[s] >= 0 /\ ~(startPTS'[s] < 0)
      BY <2>1, <3>1, <3>2 DEF TypeOK
    <3>6. Reported(s)' >= PublishOffset(s)
      BY <1>0, <2>1, <3>1, <3>3, <3>4
    <3>. QED  BY <3>5, <3>6
  <2>2. CASE s # "video"
    BY <1>0, <1>2, <2>2 DEF LaterVideoSample, Stamp, TypeOK, Reported
  <2>. QED  BY <2>1, <2>2
<1>3. ASSUME NEW pts \in Nat, "audio" \in Streams, AudioSample(pts)
      PROVE  Goal
  <2>1. CASE s = "audio"
    <3>1. lastPTS'[s] = pts + PublishOffset("audio")
          /\ startPTS'[s] = IF startPTS[s] < 0 THEN pts + PublishOffset("audio") ELSE startPTS[s]
      BY <1>3, <2>1 DEF AudioSample, Stamp, TypeOK
    <3>. QED  BY <1>0, <2>1, <3>1 DEF Reported, TypeOK
  <2>2. CASE s # "audio"
    BY <1>0, <1>3, <2>2 DEF AudioSample, Stamp, TypeOK, Reported
  <2>. QED  BY <2>1, <2>2
<1>4. ASSUME NEW r \in Streams, NEW dts \in Nat, NEW pts \in Nat, DropEarlySample(r, dts, pts)
      PROVE  Goal
  BY <1>0, <1>4 DEF DropEarlySample, sinkVars, Reported
<1>5. ASSUME NEW r \in Streams, NEW time \in Nat, StreamTick(r, time)
      PROVE  Goal
  BY <1>0, <1>5 DEF StreamTick, Reported
<1>6. ~NextSession
  BY DEF NextSession, TypeOK
<1>. QED  BY <1>1, <1>2, <1>3, <1>4, <1>5, <1>6, Actions

LEMMA NextSessionAbove ==
  ASSUME TypeOK, AboveOffset, NextSession
  PROVE  AboveOffset'
<1>. SUFFICES ASSUME NEW s \in Streams
              PROVE  /\ history'[s] >= -1
                     /\ startPTS'[s] < 0 => Reported(s)' = -1
                     /\ startPTS'[s] >= 0 => Reported(s)' >= PublishOffset(s)'
                     /\ UseContinuousTimestamps => before'[s] < PublishOffset(s)'
  BY DEF AboveOffset
<1>1. Reported(s) \in Int /\ Reported(s) >= -1
  BY PublishOffsetType DEF AboveOffset, TypeOK, Reported
<1>2. history'[s] = (IF Reported(s) # 0 THEN Reported(s) ELSE history[s])
      /\ history[s] \in Int /\ history[s] >= -1
  BY DEF NextSession, AboveOffset, TypeOK
<1>3. startPTS'[s] = -1 /\ Reported(s)' = -1
  BY DEF NextSession, Unset, Reported
<1>4. before'[s] = Reported(s) /\ base'[s] = Base(history'[s])
  BY DEF NextSession
<1>5. ASSUME UseContinuousTimestamps PROVE before'[s] < PublishOffset(s)'
  <2>1. base'[s] = history'[s] + Margin /\ Margin \in Nat /\ Margin > 1
    BY <1>4, <1>5, ApplicationAssumption DEF Base
  <2>2. base'[s] > 0 /\ PublishOffset(s)' = base'[s] + SampleInterval[s] /\ SampleInterval[s] \in Nat
    BY <1>1, <1>2, <2>1, IntervalAssumption DEF PublishOffset
  <2>. QED  BY <1>1, <1>2, <1>4, <2>1, <2>2
<1>. QED  BY <1>1, <1>2, <1>3, <1>5

LEMMA AboveOffsetStep ==
  ASSUME TypeOK, GapIsElapsed, AboveOffset, Reorder = 0, EarlyTicks = FALSE, [Next]_vars
  PROVE  AboveOffset'
<1>1. CASE UNCHANGED vars
  BY <1>1 DEF vars, sinkVars, AboveOffset, Reported, PublishOffset
<1>2. CASE NextSession
  BY <1>2, NextSessionAbove
<1>3. CASE Next /\ ~NextSession
  <2>1. UNCHANGED <<session, base, history, before>>
    BY <1>3, Actions DEF FirstVideoSample, LaterVideoSample, AudioSample, DropEarlySample, StreamTick
  <2>2. \A s \in Streams : /\ startPTS'[s] < 0 => Reported(s)' = -1
                           /\ startPTS'[s] >= 0 => Reported(s)' >= PublishOffset(s)
    BY <1>3, <2>1, SentAboveOffset
  <2>. QED  BY <2>1, <2>2 DEF AboveOffset, PublishOffset
<1>. QED  BY <1>1, <1>2, <1>3

LEMMA InitStamps == Init => GapIsElapsed /\ AboveOffset
<1>. SUFFICES ASSUME Init PROVE GapIsElapsed /\ AboveOffset
  OBVIOUS
<1>1. GapIsElapsed
  BY DEF Init, Unset, NoGap, GapIsElapsed
<1>2. \A s \in Streams : Reported(s) = -1 /\ startPTS[s] = -1 /\ history[s] = 0 /\ before[s] = -1
  BY DEF Init, Unset, Reported
<1>3. TypeOK
  BY InitType
<1>. QED  BY <1>1, <1>2, <1>3, PublishOffsetType DEF AboveOffset

\* AbovePrevious for every such instance, whatever gaps a session had and whether
\* it sent a packet at all.
THEOREM NextSessionAbovePrevious ==
  ASSUME Reorder = 0, EarlyTicks = FALSE
  PROVE  Spec => []AbovePrevious
<1>1. TypeOK /\ GapIsElapsed /\ AboveOffset /\ [Next]_vars => GapIsElapsed' /\ AboveOffset'
  BY GapStep, AboveOffsetStep
<1>2. TypeOK /\ AboveOffset => AbovePrevious
  <2>. SUFFICES ASSUME TypeOK, AboveOffset, NEW s \in Streams, UseContinuousTimestamps, startPTS[s] >= 0
                PROVE  Reported(s) > before[s]
    BY DEF AbovePrevious
  <2>1. Reported(s) \in Int /\ PublishOffset(s) \in Nat /\ before[s] \in Int
    BY PublishOffsetType DEF Reported, TypeOK
  <2>. QED  BY <2>1 DEF AboveOffset
<1>. QED  BY <1>1, <1>2, InitStamps, TypeCorrect, PTL DEF Spec
----------------------------------------------------------------------------
\* Division with remainder: the remainder is unique, and the quotient is monotone.
LEMMA DivModFacts ==
  ASSUME NEW a \in Int, NEW n \in Nat \ {0}
  PROVE  /\ a \div n \in Int /\ a % n \in 0..(n - 1)
         /\ a = n * (a \div n) + (a % n)
  OBVIOUS

LEMMA Positive ==
  ASSUME NEW n \in Nat \ {0}, NEW k \in Int, k >= 1
  PROVE  n * k >= n
  OBVIOUS

LEMMA ModUnique ==
  ASSUME NEW n \in Nat \ {0}, NEW q \in Int, NEW r \in 0..(n - 1)
  PROVE  (n * q + r) % n = r
<1>. DEFINE a == n * q + r
            p == a \div n
            s == a % n
<1>1. a \in Int /\ p \in Int /\ s \in 0..(n - 1) /\ a = n * p + s
  BY DivModFacts
<1>2. n * (q - p) = s - r /\ n * (p - q) = r - s
  BY <1>1
<1>. HIDE DEF a, p, s
<1>3. ~(q - p >= 1)
  BY <1>1, <1>2, Positive
<1>4. ~(p - q >= 1)
  BY <1>1, <1>2, Positive
<1>5. p = q
  BY <1>1, <1>3, <1>4
<1>6. s = r
  BY <1>1, <1>2, <1>5
<1>. QED  BY <1>6 DEF a, s

LEMMA DivMonotone ==
  ASSUME NEW a \in Int, NEW b \in Int, NEW n \in Nat \ {0}, a <= b
  PROVE  a \div n <= b \div n
<1>. DEFINE p == a \div n
            q == b \div n
<1>1. p \in Int /\ q \in Int /\ a % n \in 0..(n - 1) /\ b % n \in 0..(n - 1)
      /\ a = n * p + (a % n) /\ b = n * q + (b % n)
  BY DivModFacts
<1>2. n * (p - q) = a - b + (b % n) - (a % n)
  BY <1>1
<1>. HIDE DEF p, q
<1>3. ~(p - q >= 1)
  BY <1>1, <1>2, Positive
<1>4. p <= q
  BY <1>1, <1>3
<1>. QED  BY <1>4 DEF p, q

\* Wrapping a difference of wrapped numbers gives the difference, if it is small.
LEMMA WrappedDifference ==
  ASSUME NEW n \in Nat \ {0}, NEW a \in Int, NEW b \in Int, a - b \in 0..(n - 1)
  PROVE  ((a % n) - (b % n)) % n = a - b
<1>. DEFINE p == a \div n
            q == b \div n
<1>1. p \in Int /\ q \in Int /\ a % n \in Int /\ b % n \in Int
      /\ a = n * p + (a % n) /\ b = n * q + (b % n)
  BY DivModFacts
<1>2. (a % n) - (b % n) = n * (q - p) + (a - b)
  BY <1>1
<1>3. q - p \in Int
  BY <1>1
<1>. HIDE DEF p, q
<1>. QED  BY <1>2, <1>3, ModUnique

\* Adding it to the wrapped smaller number gives the wrapped greater one.
LEMMA WrappedSum ==
  ASSUME NEW n \in Nat \ {0}, NEW a \in Int, NEW b \in Int
  PROVE  ((b % n) + (a - b)) % n = a % n
<1>. DEFINE p == a \div n
            q == b \div n
<1>1. p \in Int /\ q \in Int /\ a % n \in 0..(n - 1) /\ b % n \in Int
      /\ a = n * p + (a % n) /\ b = n * q + (b % n)
  BY DivModFacts
<1>2. (b % n) + (a - b) = n * (p - q) + (a % n)
  BY <1>1
<1>3. p - q \in Int
  BY <1>1
<1>. HIDE DEF p, q
<1>. QED  BY <1>1, <1>2, <1>3, ModUnique

\* The conversion to milliseconds keeps the order, also across zero.
LEMMA MillisMonotone ==
  ASSUME NEW ts \in Int, NEW us \in Int, ts <= us
  PROVE  Millis(ts) <= Millis(us)
<1>. DEFINE up(x) == (2 * x + Tick) \div (2 * Tick)
            down(x) == (Tick - 2 * x) \div (2 * Tick)
<1>1. Tick \in Nat \ {0} /\ 2 * Tick \in Nat \ {0}
  BY WidthAssumption
<1>2. \A x, y \in Int : x <= y => x \div (2 * Tick) <= y \div (2 * Tick)
  BY <1>1, DivMonotone
<1>3. \A x \in Int : up(x) \in Int /\ down(x) \in Int
  BY <1>1, DivModFacts
<1>4. 0 \div (2 * Tick) = 0
  BY <1>1
<1>5. CASE ts >= 0
  <2>1. 2 * ts + Tick <= 2 * us + Tick /\ 2 * ts + Tick \in Int /\ 2 * us + Tick \in Int
    BY <1>1
  <2>2. up(ts) <= up(us) /\ us >= 0
    BY <1>2, <1>5, <2>1
  <2>. QED  BY <1>5, <2>2 DEF Millis
<1>6. CASE us < 0
  <2>1. Tick - 2 * us <= Tick - 2 * ts /\ Tick - 2 * us \in Int /\ Tick - 2 * ts \in Int
    BY <1>1
  <2>2. down(us) <= down(ts) /\ ts < 0
    BY <1>2, <1>6, <2>1
  <2>3. Millis(ts) = -down(ts) /\ Millis(us) = -down(us)
    BY <1>6, <2>2 DEF Millis
  <2>. HIDE DEF down
  <2>. QED  BY <1>3, <2>2, <2>3
<1>7. CASE ts < 0 /\ us >= 0
  <2>1. 0 <= Tick - 2 * ts /\ 0 <= 2 * us + Tick /\ Tick - 2 * ts \in Int /\ 2 * us + Tick \in Int
    BY <1>1, <1>7
  <2>2. down(ts) >= 0 /\ up(us) >= 0
    BY <1>2, <1>4, <2>1
  <2>3. Millis(ts) = -down(ts) /\ Millis(us) = up(us)
    BY <1>7 DEF Millis
  <2>. HIDE DEF down, up
  <2>. QED  BY <1>3, <2>2, <2>3
<1>. QED  BY <1>5, <1>6, <1>7

\* What a player computes from the two fields of a packet that is not decoded after
\* it is shown.
LEMMA PlayTime ==
  ASSUME NEW pts \in Int, NEW dts \in Int, dts <= pts, Millis(pts) - Millis(dts) < OffsetWrap
  PROVE  (ToRTMPTimestamp(dts) + CompositionOffset(pts, dts)) % Wrap = ToRTMPTimestamp(pts)
<1>. DEFINE d == Millis(pts) - Millis(dts)
<1>1. Wrap \in Nat \ {0} /\ OffsetWrap \in Nat \ {0} /\ Millis(pts) \in Int /\ Millis(dts) \in Int
  BY WidthAssumption, ToRTMPTimestampType
<1>2. d \in 0..(OffsetWrap - 1)
  BY <1>1, MillisMonotone
<1>3. OffsetWrap <= Wrap
  <2>. DEFINE k == Wrap \div OffsetWrap
  <2>1. Wrap = OffsetWrap * k /\ k \in Int
    <3>1. Wrap % OffsetWrap = 0
      BY WidthAssumption
    <3>2. k \in Int /\ Wrap = OffsetWrap * k + (Wrap % OffsetWrap)
      BY <1>1, DivModFacts
    <3>. QED  BY <1>1, <3>1, <3>2
  <2>. HIDE DEF k
  <2>2. k >= 1
    <3>1. CASE k = 0
      BY <1>1, <2>1, <3>1
    <3>2. CASE k <= -1
      <4>1. OffsetWrap * (-k) >= OffsetWrap /\ OffsetWrap * (-k) = -(OffsetWrap * k)
        BY <1>1, <2>1, <3>2, Positive
      <4>. QED  BY <1>1, <2>1, <4>1
    <3>. QED  BY <2>1, <3>1, <3>2
  <2>. QED  BY <1>1, <2>1, <2>2, Positive
<1>4. d \in 0..(Wrap - 1)
  BY <1>1, <1>2, <1>3
<1>5. CompositionOffset(pts, dts) = d
  <2>1. ((Millis(pts) % Wrap) - (Millis(dts) % Wrap)) % Wrap = d
    BY <1>1, <1>4, WrappedDifference
  <2>2. d % OffsetWrap = d
    <3>1. (OffsetWrap * 0 + d) % OffsetWrap = d
      <4>1. PICK n, zero, e : n = OffsetWrap /\ zero = 0 /\ e = d
        OBVIOUS
      <4>2. n \in Nat \ {0} /\ zero \in Int /\ e \in 0..(n - 1)
        BY <1>1, <1>2, <4>1
      <4>3. (n * zero + e) % n = e
        BY <4>2, ModUnique
      <4>. QED  BY <4>1, <4>3, Zenon
    <3>2. OffsetWrap * 0 + d = d
      BY <1>1, <1>2
    <3>. QED  BY <3>1, <3>2
  <2>. QED  BY <2>1, <2>2 DEF CompositionOffset, ToRTMPTimestamp
<1>. QED  BY <1>1, <1>5, WrappedSum DEF ToRTMPTimestamp

\* A sample of the video stream writes the packet of its own time stamps.
LEMMA PacketStep ==
  ASSUME TypeOK, PacketIsLast, [Next]_vars
  PROVE  PacketIsLast'
<1>0. ASSUME "video" \in Streams, NEW originalPTS \in Int, NEW pts \in Int, NEW dts \in Int,
             Stamp("video", originalPTS, pts, dts),
             lastDTS' = [lastDTS EXCEPT !["video"] = dts]
      PROVE  PacketIsLast'
  <2>. DEFINE Field == [dts |-> ToRTMPTimestamp(dts), offset |-> CompositionOffset(pts, dts)]
  <2>1. packet'["video"] = Field /\ lastPTS'["video"] = pts /\ lastDTS'["video"] = dts
    <3>1. packet' = [packet EXCEPT !["video"] = Field]
      BY <1>0 DEF Stamp
    <3>. HIDE DEF Field
    <3>. QED  BY <1>0, <3>1 DEF Stamp, TypeOK
  <2>. QED  BY <2>1 DEF PacketIsLast, ToRTMPTimestamp, Millis, CompositionOffset
<1>1. CASE UNCHANGED vars
  BY <1>1 DEF vars, sinkVars, PacketIsLast, ToRTMPTimestamp, Millis, CompositionOffset
<1>2. ASSUME NEW dts \in Nat, NEW pts \in Nat, "video" \in Streams, FirstVideoSample(dts, pts)
      PROVE  PacketIsLast'
  <2>. DEFINE newDTS == (IF dts > ClockStart THEN ClockStart ELSE dts) + PublishOffset("video")
              newPTS == (IF dts > ClockStart THEN ClockStart ELSE pts) + PublishOffset("video")
  <2>1. newDTS \in Int /\ newPTS \in Int
    BY <1>2, PublishOffsetType, ClockAssumption
  <2>2. Stamp("video", pts, newPTS, newDTS) /\ lastDTS' = [lastDTS EXCEPT !["video"] = newDTS]
    BY <1>2 DEF FirstVideoSample
  <2>3. pts \in Int /\ "video" \in Streams
    BY <1>2
  <2>. HIDE DEF newDTS, newPTS
  <2>. QED  BY <1>0, <2>1, <2>2, <2>3
<1>3. ASSUME NEW dts \in Nat, NEW pts \in Nat, "video" \in Streams, LaterVideoSample(dts, pts)
      PROVE  PacketIsLast'
  <2>. DEFINE gap    == IF gaplength["video"] > 0 THEN gaplength["video"] ELSE 0
              newDTS == lastDTS["video"] + (dts - lastOriginalDTS["video"]) - gap
              newPTS == pts + PublishOffset("video")
  <2>1. newDTS \in Int /\ newPTS \in Int
    BY <1>3, PublishOffsetType DEF TypeOK
  <2>2. Stamp("video", pts, newPTS, newDTS) /\ lastDTS' = [lastDTS EXCEPT !["video"] = newDTS]
    BY <1>3 DEF LaterVideoSample
  <2>3. pts \in Int /\ "video" \in Streams
    BY <1>3
  <2>. HIDE DEF newDTS, newPTS
  <2>. QED  BY <1>0, <2>1, <2>2, <2>3
<1>4. ASSUME UNCHANGED <<startPTS["video"], packet["video"], lastPTS["video"], lastDTS["video"]>>
      PROVE  PacketIsLast'
  BY <1>4 DEF PacketIsLast, ToRTMPTimestamp, Millis, CompositionOffset
<1>5. ASSUME NEW pts \in Nat, "audio" \in Streams, AudioSample(pts)
      PROVE  PacketIsLast'
  <2>1. CASE "video" \in Streams
    <3>1. UNCHANGED <<startPTS["video"], packet["video"], lastPTS["video"], lastDTS["video"]>>
      BY <1>5, <2>1 DEF AudioSample, Stamp, TypeOK
    <3>. QED  BY <1>4, <3>1
  <2>. QED  BY <2>1 DEF PacketIsLast
<1>6. ASSUME NEW s \in Streams, NEW dts \in Nat, NEW pts \in Nat, DropEarlySample(s, dts, pts)
      PROVE  PacketIsLast'
  BY <1>4, <1>6 DEF DropEarlySample, sinkVars
<1>7. ASSUME NEW s \in Streams, NEW time \in Nat, StreamTick(s, time)
      PROVE  PacketIsLast'
  BY <1>4, <1>7 DEF StreamTick
<1>8. CASE NextSession
  BY <1>8 DEF NextSession, Unset, PacketIsLast
<1>. QED  BY <1>1, <1>2, <1>3, <1>5, <1>6, <1>7, <1>8, Actions

\* What a player adds up is the presentation time, across every wrap of the 32 bits,
\* for every reordering, gap and base.
THEOREM PlayTimeIsKept == Spec => []PlayTimeKept
<1>1. Init => NotAhead /\ PacketIsLast
  BY DEF Init, Unset, NotAhead, PacketIsLast
<1>2. TypeOK /\ NotAhead /\ PacketIsLast /\ [Next]_vars => NotAhead' /\ PacketIsLast'
  BY NotAheadStep, PacketStep
<1>3. TypeOK /\ NotAhead /\ PacketIsLast => PlayTimeKept
  BY PlayTime DEF TypeOK, NotAhead, PacketIsLast, PlayTimeKept
<1>. QED  BY <1>1, <1>2, <1>3, TypeCorrect, PTL DEF Spec

\* The inductive invariant behind the time stamps, in all its parts.
THEOREM StampInvariance ==
  ASSUME Reorder = 0, EarlyTicks = FALSE
  PROVE  Spec => []StampInv
<1>1. Init => StampInv
  BY InitStamps DEF Init, Unset, NotAhead, PacketIsLast, StampInv
<1>2. TypeOK /\ StampInv /\ [Next]_vars => StampInv'
  BY NotAheadStep, GapStep, AboveOffsetStep, PacketStep DEF StampInv
<1>. QED  BY <1>1, <1>2, TypeCorrect, PTL DEF Spec
=============================================================================
