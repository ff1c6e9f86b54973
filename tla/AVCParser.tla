------------------------------- MODULE AVCParser -------------------------------
(***************************************************************************)
(* The split of an H.264 byte stream into NAL units (AVCParser.h) and the    *)
(* two payloads RTMPVideoStreamSink makes of them: the decoder              *)
(* configuration of the first packet and the sample. A byte is a cell       *)
(* <<"byte", value>>, a length field of the payloads is one cell.           *)
(***************************************************************************)
EXTENDS Integers, Sequences, SequencesExt

NALUTYPE_CODEDSLICE_NONIDR == 1
NALUTYPE_CODEDSLICEIDR == 5
NALUTYPE_SPS == 7
NALUTYPE_PPS == 8

Byte(value) == <<"byte", value>>

IsPrefix001(data, i) ==
  i + 2 <= Len(data) /\ SubSeq(data, i, i + 2) = <<Byte(0), Byte(0), Byte(1)>>

\* Leading zeros are skipped up to the first prefix; what does not begin with one
\* is taken to.
FirstPrefix(data) ==
  CHOOSE i \in 1..(Len(data) + 1) :
    /\ i > Len(data) \/ data[i] # Byte(0) \/ IsPrefix001(data, i)
    /\ \A j \in 1..(i - 1) : data[j] = Byte(0) /\ ~IsPrefix001(data, j)

\* Where the units begin: at the first prefix and after every later one, unless
\* nothing follows it.
\* Mutant: the prefixes of four bytes only.
UnitStarts_long(data) ==
  {i \in DOMAIN data : /\ i + 3 <= Len(data)
                       /\ \/ i = FirstPrefix(data)
                          \/ IsPrefix001(data, i) /\ i > 1 /\ data[i - 1] = Byte(0)}

UnitStarts(data) ==
  {i \in DOMAIN data :
     /\ i + 3 <= Len(data)
     /\ i = FirstPrefix(data) \/ (i >= FirstPrefix(data) + 3 /\ IsPrefix001(data, i))}

\* What the loops push back to their results: the items at some places, in order.
Pushed(items, places) ==
  LET retval[n \in 0..Len(items)] ==
        IF n = 0 THEN <<>>
        ELSE IF n \in places THEN Append(retval[n - 1], items[n]) ELSE retval[n - 1]
  IN retval[Len(items)]

\* AVCParser::Parse. The prefix searched for has three bytes: the zero of one of
\* four ends the unit before it.
Parse(data) ==
  LET ends == {i \in DOMAIN data : i >= FirstPrefix(data) + 3 /\ IsPrefix001(data, i)}
      unit(i) == SubSeq(data, i + 3, IF \E j \in ends : j > i
                                     THEN (CHOOSE j \in ends : j > i /\ \A k \in ends : k > i => j <= k) - 1
                                     ELSE Len(data))
  IN Pushed([i \in DOMAIN data |-> unit(i)], UnitStarts(data))

\* The low five bits of the byte after the prefix.
GetType(nalu) == IF nalu = <<>> THEN 0 ELSE nalu[1][2] % 32
----------------------------------------------------------------------------
LengthPrefixed(nalus) ==
  FlattenSeq([i \in DOMAIN nalus |-> <<<<"nalulength", Len(nalus[i])>>>> \o nalus[i]])

MakeAVCSample(sampledata) == LengthPrefixed(Parse(sampledata))

\* Version, profile, compatibility and level out of the first sequence parameter
\* set, then all sets of each kind, counted. A sample without a sequence parameter
\* set yields a record that lacks the three bytes.
MakeDecoderConfigRecord(sampledata) ==
  LET nalus == Parse(sampledata)
      sets(type) == Pushed(nalus, {i \in DOMAIN nalus : GetType(nalus[i]) = type})
      sps == sets(NALUTYPE_SPS)
      pps == sets(NALUTYPE_PPS)
  IN <<Byte(1)>>
       \o (IF sps = <<>> THEN <<>> ELSE SubSeq(sps[1], 2, 4))
       \o <<Byte(255), <<"spscount", Len(sps)>>>> \o LengthPrefixed(sps)
       \o <<<<"ppscount", Len(pps)>>>> \o LengthPrefixed(pps)

\* PreparePayload of a video packet: frame type and codec, packet type,
\* composition offset, and the record or the sample.
PrepareVideoPayload(sampledata, keyframe, compositionTimeOffset, firstPacket) ==
  <<<<"videodata", IF keyframe THEN 23 ELSE 39>>, <<"packettype", IF firstPacket THEN 0 ELSE 1>>,
    <<"ctsoffset", IF firstPacket THEN 0 ELSE compositionTimeOffset>>>>
  \o (IF firstPacket THEN MakeDecoderConfigRecord(sampledata) ELSE MakeAVCSample(sampledata))
=============================================================================
