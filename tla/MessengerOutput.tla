--------------------------- MODULE MessengerOutput ---------------------------
(***************************************************************************)
(* What RTMPMessenger writes to a connection, from connect to closeStream,  *)
(* with the chunk stream ids and the chunk size its RTMPSessionManager holds *)
(* at each write, and a server that reads it by the rules of RTMP, as fast  *)
(* or as slowly as it likes.                                               *)
(*                                                                         *)
(* Whether the handshake gets its replies is the matter of RTMPHandshake;   *)
(* here a command that waits for one is sent once the server has read the   *)
(* command before it, and an attempt may fail anywhere.                     *)
(***************************************************************************)
EXTENDS RTMPChunking, AVCParser

CONSTANTS
  DefaultChunkSize,     \* GetDefaultChunkSize: 128 in the code
  ClientChunkSizes,     \* ClientChunkSize of the publish profile
  FirstChunkStreamIDs,  \* next chunk stream id: 3, or more after failed attempts
  FrameRates,           \* of the profile
  Stamps,               \* time stamps of packets
  CompositionOffset,    \* of video packets
  Codecs,               \* properties of connect: those of the streams of the profile
  Samples,              \* video samples: sequences of NAL units behind prefixes
  MaxAttempts,          \* bound: connections of the session
  MaxPackets            \* bound: audio and video samples sent

ASSUME OutputAssumption ==
  /\ DefaultChunkSize \in Nat \ {0}
  /\ ClientChunkSizes \subseteq {n \in Nat : n >= DefaultChunkSize}
  /\ FirstChunkStreamIDs \subseteq Nat \ (0..2)
  /\ Stamps \subseteq Nat
  /\ Samples \subseteq Seq([long : BOOLEAN, nalu : Seq(0..255)])
  /\ MaxAttempts \in Nat \ {0} /\ MaxPackets \in Nat

\* A mantissa has the places of the numbers in the messages, and those of a frame rate
\* that is not below one.
ASSUME NumberAssumption ==
  /\ MantissaBits >= 4
  /\ \A rate \in FrameRates :
       rate \in Nat /\ Representable(rate) /\ (rate >= Double(1) => rate % LastPlace(rate) = 0)

\* The strings and the names of the messages: TLC computes their lengths.
Words == {"connect", "releaseStream", "FCPublish", "createStream", "publish", "closeStream", "stream",
          "live", "rtmp", "app", "tcUrl", "audioCodecs", "videoCodecs", "@setDataFrame", "onMetaData",
          "framerate", "width", "height", "videocodecid", "avc1", "videodatarate",
          "videokeyframe_frequency", "audiocodecid", "mp4a", "audiosamplerate", "audiochannels",
          "audiodatarate"}
ASSUME WordAssumption == \A word \in Words : Len(word) # 0

StreamID == 1   \* the message stream id that the reply to createStream gave

VARIABLES
  chain,         \* messages of the handshake that were sent on this connection
  attempt,       \* number of the connection
  chunkSize,     \* ClientChunkSize
  nextCsid,      \* _chunkStreamID of the session manager
  csid,          \* the chunk stream ids it keeps: of publish, video and audio
  begun,         \* streams whose first packet was sent
  packets,       \* samples sent
  toServer,      \* cells written and not read
  unread,        \* messages written, with what they encode, not yet read to the end
  inSize,        \* server: chunk size of what it reads
  heads,         \* server: the last header on each chunk stream
  partial,       \* server: what it has of the message on each chunk stream
  got,           \* server: the last message it has put together, and what was written
  configured,    \* server: streams of which it has the configuration
  lost           \* server: it read something else than the header it expected

messenger == <<chain, attempt, chunkSize, nextCsid, csid, begun, packets>>
server == <<inSize, heads, partial, got, configured, lost>>
vars == <<messenger, toServer, unread, server>>

Chain == <<"connect", "releaseStream", "FCPublish", "createStream", "publish",
           "setDataFrame", "setChunkSize">>
\* Sent when the reply to the one before has been read.
Awaiting == {"releaseStream", "publish", "setDataFrame"}
Running == chain = Len(Chain)

NoMessage == RTMPMessage(0, 0, 0, <<>>)

Init ==
  /\ chain = 0 /\ attempt = 1 /\ chunkSize \in ClientChunkSizes
  /\ nextCsid \in FirstChunkStreamIDs
  /\ csid = [publish |-> 0, video |-> 0, audio |-> 0]
  /\ begun = {} /\ packets = 0
  /\ toServer = <<>> /\ unread = <<>>
  /\ inSize = DefaultChunkSize /\ heads = <<>> /\ partial = <<>>
  /\ got = [written |-> NoMessage, from |-> <<>>, assembled |-> NoMessage]
  /\ configured = {} /\ lost = FALSE
----------------------------------------------------------------------------
(* Writing.                                                                     *)

\* Mutant: the size a profile asks for used before it is announced.
CommandChunkSize_client == chunkSize
CommandChunkSize == DefaultChunkSize

\* WriteBytes and StoreAsync of messages, each with what it was made from.
Write(id, size, items) ==
  /\ toServer' = toServer \o FlattenSeq([i \in DOMAIN items |->
                                ToChunkedBitstream(0, id, size, items[i].msg)])
  /\ unread' = unread \o items
  /\ UNCHANGED server

Encoded(type, stream, entities) ==
  [msg |-> RTMPMessage(0, type, stream, Encode(entities)), from |-> entities]
CommandMessage(stream, entities) == Encoded(COMMANDAMF0, stream, entities)

NextInChain(name) ==
  /\ ~Running /\ Chain[chain + 1] = name
  /\ name \in Awaiting => toServer = <<>>
  /\ chain' = chain + 1
  /\ UNCHANGED <<attempt, chunkSize, begun, packets>>

\* Each takes a new chunk stream id and only publish remembers it; releaseStream
\* sets the one variable that both use. Mutant: the id not used up.
OnNewChunkStream_again(messages) ==
  /\ Write(nextCsid, CommandChunkSize, messages)
  /\ UNCHANGED nextCsid

OnNewChunkStream(messages) ==
  /\ Write(nextCsid, CommandChunkSize, messages)
  /\ nextCsid' = nextCsid + 1

SendConnect ==
  /\ NextInChain("connect")
  /\ OnNewChunkStream(<<CommandMessage(0, Command_Connect(1, Codecs))>>)
  /\ UNCHANGED csid

SendReleaseStream ==
  /\ NextInChain("releaseStream")
  /\ OnNewChunkStream(<<CommandMessage(0, Command_ReleaseStream(2, "stream"))>>)
  /\ csid' = [csid EXCEPT !.publish = nextCsid]

SendFCPublish ==
  /\ NextInChain("FCPublish")
  /\ Write(csid.publish, CommandChunkSize, <<CommandMessage(0, Command_FCPublish(3, "stream"))>>)
  /\ UNCHANGED <<nextCsid, csid>>

SendCreateStream ==
  /\ NextInChain("createStream")
  /\ Write(csid.publish, CommandChunkSize, <<CommandMessage(0, Command_CreateStream(4))>>)
  /\ UNCHANGED <<nextCsid, csid>>

SendPublishStream ==
  /\ NextInChain("publish")
  /\ OnNewChunkStream(<<CommandMessage(StreamID, Command_PublishStream(0, "stream"))>>)
  /\ csid' = [csid EXCEPT !.publish = nextCsid]

SendSetDataFrame ==
  /\ NextInChain("setDataFrame")
  /\ \E frameRate \in FrameRates :
       OnNewChunkStream(<<Encoded(DATAAMF0, StreamID, Command_SetDataFrame(frameRate, Codecs))>>)
  /\ UNCHANGED csid

\* The last message of the handshake; the continuation that follows takes the chunk
\* stream ids of the two streams.
\* Mutant: both streams on the same chunk stream.
SendSetChunkSize_oneStream ==
  /\ NextInChain("setChunkSize")
  /\ Write(nextCsid, CommandChunkSize, <<[msg |-> ProtoSetChunkSizeMessage(chunkSize), from |-> <<>>]>>)
  /\ csid' = [csid EXCEPT !.video = nextCsid + 1, !.audio = nextCsid + 1]
  /\ nextCsid' = nextCsid + 2

SendSetChunkSize ==
  /\ NextInChain("setChunkSize")
  /\ Write(nextCsid, CommandChunkSize, <<[msg |-> ProtoSetChunkSizeMessage(chunkSize), from |-> <<>>]>>)
  /\ csid' = [csid EXCEPT !.video = nextCsid + 1, !.audio = nextCsid + 2]
  /\ nextCsid' = nextCsid + 3

\* QueueAudioVideoMessage, for a packet and, ahead of the first, its configuration.
SendPackets(stream, messages) ==
  /\ Running /\ packets < MaxPackets /\ csid[stream] # 0
  /\ Write(csid[stream], chunkSize, messages)
  /\ packets' = packets + 1
  /\ begun' = begun \union {stream}
  /\ UNCHANGED <<chain, attempt, chunkSize, nextCsid, csid>>

\* The bytes of a sample, prefixes and all.
SampleData(sample) ==
  FlattenSeq([i \in DOMAIN sample |->
                (IF sample[i].long THEN <<Byte(0)>> ELSE <<>>)
                  \o <<Byte(0), Byte(0), Byte(1)>> \o [b \in DOMAIN sample[i].nalu |-> Byte(sample[i].nalu[b])]])

\* What an encoder delivers: units of H.264, which hold no start code, do not end with
\* a zero, and tell profile and level in the bytes after the first of a sequence
\* parameter set. The code reads the first byte of a sample and those three bytes
\* without a look at the length.
IsNALUnit(nalu) ==
  /\ nalu # <<>> /\ nalu[Len(nalu)] # 0
  /\ \A b \in 1..(Len(nalu) - 2) : ~(nalu[b] = 0 /\ nalu[b + 1] = 0 /\ nalu[b + 2] = 1)
  /\ nalu[1] % 32 = NALUTYPE_SPS => Len(nalu) >= 4

ASSUME SampleAssumption ==
  \A sample \in Samples : sample # <<>> /\ \A i \in DOMAIN sample : IsNALUnit(sample[i].nalu)

IsKeyFrame(sample) == \E i \in DOMAIN sample : GetType(<<Byte(sample[i].nalu[1])>>) = NALUTYPE_CODEDSLICEIDR

\* Mutant: the configuration not sent, as for a later packet.
SendVideo_noConfig ==
  \E sample \in Samples, ts \in Stamps :
    /\ "video" \in begun \/ IsKeyFrame(sample)
    /\ SendPackets("video",
         <<[msg |-> RTMPMessage(ts, VIDEO, StreamID,
                       PrepareVideoPayload(SampleData(sample), IsKeyFrame(sample), CompositionOffset, FALSE)),
            from |-> sample]>>)

\* The first sample of an encoder is a key frame.
SendVideo ==
  \E sample \in Samples, ts \in Stamps :
    LET packet(first) ==
          [msg |-> RTMPMessage(ts, VIDEO, StreamID,
                     PrepareVideoPayload(SampleData(sample), IsKeyFrame(sample), CompositionOffset, first)),
           from |-> sample]
    IN IF "video" \in begun THEN SendPackets("video", <<packet(FALSE)>>)
       ELSE IsKeyFrame(sample) /\ SendPackets("video", <<packet(TRUE), packet(FALSE)>>)

PrepareAudioPayload(firstPacket) ==
  <<<<"audiodata", 175>>, <<"packettype", IF firstPacket THEN 0 ELSE 1>>>>
    \o IF firstPacket THEN <<<<"audioconfig", 18>>>> ELSE <<<<"frame", 1>>, <<"frame", 2>>>>

SendAudio ==
  \E ts \in Stamps :
    LET packet(first) == [msg |-> RTMPMessage(ts, AUDIO, StreamID, PrepareAudioPayload(first)), from |-> <<>>]
    IN SendPackets("audio", IF "audio" \in begun THEN <<packet(FALSE)>> ELSE <<packet(TRUE), packet(FALSE)>>)

\* Both commands in one write; after it the connection is closed.
SendUnpublishAndCloseStream ==
  /\ Running /\ csid.publish # 0
  /\ Write(csid.publish, chunkSize,
           <<CommandMessage(StreamID, Command_UnpublishStream(0)), CommandMessage(StreamID, Command_CloseStream(0))>>)
  /\ csid' = [publish |-> 0, video |-> 0, audio |-> 0]
  /\ UNCHANGED <<chain, attempt, chunkSize, nextCsid, begun, packets>>

\* GetCaptureSinkAsync after the handshake failed: a new connection and the session
\* manager of the old one.
ConnectAsync ==
  /\ ~Running /\ chain > 0 /\ attempt < MaxAttempts
  /\ attempt' = attempt + 1 /\ chain' = 0
  /\ toServer' = <<>> /\ unread' = <<>>
  /\ inSize' = DefaultChunkSize /\ heads' = <<>> /\ partial' = <<>>
  /\ UNCHANGED <<chunkSize, nextCsid, csid, begun, packets, got, configured, lost>>
----------------------------------------------------------------------------
(* The server, which reads a chunk at a time by the rules of RTMP.               *)

Known(id) == id \in DOMAIN heads

\* The header at the head of what it received. After a chunk of Type 3 the values of
\* the header before it on the chunk stream hold; an extended time stamp follows
\* wherever the time stamp field is all ones.
ServerHead ==
  LET fmt == Format(toServer)
      id  == ChunkStreamID(toServer)
      at  == BasicSize(toServer) + Len(Fields(fmt))
      old == heads[id]
      field(i) == toServer[BasicSize(toServer) + i][2]
      extends == IF fmt = 3 THEN old.extends ELSE field(1) = ExtendedStamp
  IN [id |-> id, extends |-> extends,
      size   |-> IF extends THEN at + 1 ELSE at,
      sound  |-> extends => IsField(toServer, at + 1, "extended"),
      ts     |-> IF extends THEN toServer[at + 1][2] ELSE IF fmt = 3 THEN old.ts ELSE field(1),
      length |-> IF fmt <= 1 THEN field(2) ELSE old.length,
      type   |-> IF fmt <= 1 THEN field(3) ELSE old.type,
      stream |-> IF fmt = 0 THEN field(4) ELSE old.stream]

LosesTrack ==
  \/ ~HeaderReads(toServer)
  \/ Format(toServer) # 0 /\ ~Known(ChunkStreamID(toServer))
  \/ ~ServerHead.sound

ServerReadsChunk ==
  LET head == ServerHead
      old  == IF head.id \in DOMAIN partial THEN partial[head.id] ELSE <<>>
      size == Least(inSize, head.length - Len(old))
      now  == old \o SubSeq(toServer, head.size + 1, head.size + size)
      message == RTMPMessage(head.ts, head.type, head.stream, now)
      rest == After(toServer, head.size + size)
      put(f, v) == [i \in DOMAIN f \union {head.id} |-> IF i = head.id THEN v ELSE f[i]]
  IN /\ toServer # <<>> /\ ~lost
     /\ UNCHANGED messenger
     /\ IF LosesTrack \/ \E i \in DOMAIN now : now[i][1] \in HeaderFields
        THEN lost' = TRUE /\ UNCHANGED <<toServer, unread, inSize, heads, partial, got, configured>>
        ELSE /\ toServer' = rest
             /\ heads' = put(heads, head)
             /\ UNCHANGED lost
             /\ IF Len(now) < head.length
                THEN partial' = put(partial, now) /\ UNCHANGED <<unread, inSize, got, configured>>
                ELSE /\ partial' = put(partial, <<>>)
                     /\ got' = [written |-> Head(unread).msg, from |-> Head(unread).from,
                                assembled |-> message]
                     /\ configured' = IF head.type \in {AUDIO, VIDEO} /\ now[2] = <<"packettype", 0>>
                                      THEN configured \union {head.type} ELSE configured
                     /\ unread' = Tail(unread)
                     /\ inSize' = IF head.type = PROTOSETCHUNKSIZE THEN now[1][2] ELSE inSize

Messenger ==
  \/ SendConnect \/ SendReleaseStream \/ SendFCPublish \/ SendCreateStream
  \/ SendPublishStream \/ SendSetDataFrame \/ SendSetChunkSize
  \/ SendVideo \/ SendAudio \/ SendUnpublishAndCloseStream \/ ConnectAsync

Next == Messenger \/ ServerReadsChunk

Spec == Init /\ [][Next]_vars
----------------------------------------------------------------------------
(* Properties.                                                                  *)

\* Chunk sizes and ids stay where the formats of a header can say them.
TypeOK ==
  /\ chain \in 0..Len(Chain) /\ attempt \in 1..MaxAttempts
  /\ nextCsid \in 3..LastID
  /\ \A s \in {"publish", "video", "audio"} : csid[s] = 0 \/ csid[s] \in 3..(nextCsid - 1)
  /\ begun \subseteq {"video", "audio"} /\ packets \in 0..MaxPackets
  /\ inSize \in ClientChunkSizes \union {DefaultChunkSize}
  /\ lost \in BOOLEAN

\* The server puts together the messages that were written, in their order, whole
\* and with their time stamps, through the change of the chunk size and whatever the
\* streams do between each other. A time stamp of exactly 16777215 is written
\* without its extension and is the one that loses it.
ReceivedAsSent ==
  /\ got.assembled = got.written
  /\ lost => unread # <<>> /\ Head(unread).msg.ts = ExtendedStamp

\* Audio, video and the commands that end the stream never share a chunk stream.
OwnChunkStreams ==
  /\ csid.video # 0 => csid.video # csid.audio /\ csid.video # csid.publish
  /\ csid.audio # 0 => csid.audio # csid.publish

\* The inductive invariant behind it: ids are taken in order and used once, four at
\* most by an attempt that fails; there is one to write the commands on from
\* releaseStream until closeStream, and one for each stream from then on.
Streams == {"publish", "video", "audio"}
IdsTaken == LET taken == <<1, 2, 2, 2, 3, 4, 7>> IN IF chain = 0 THEN 0 ELSE taken[chain]
IdsInv ==
  /\ chain \in 0..Len(Chain) /\ attempt \in 1..MaxAttempts
  /\ \E first \in FirstChunkStreamIDs : nextCsid \in first..(first + 4 * (attempt - 1) + IdsTaken)
  /\ csid \in [Streams -> {0} \union (3..(nextCsid - 1))]
  /\ OwnChunkStreams
  /\ chain \in 2..(Len(Chain) - 1) => csid.publish # 0
  /\ Running => (\A s \in Streams : csid[s] = 0) \/ (\A s \in Streams : csid[s] # 0)

\* The commands and the data the server reads decode to the entities that were
\* encoded, but for numbers below one, which are cut to the places of the mantissa.
SameEntity(e, f) ==
  \/ e = f
  \/ /\ e[1] = "Number" /\ f[1] = "Number" /\ Absolute(f[2]) < Double(1)
     /\ Absolute(f[2]) - Absolute(e[2]) \in 0..(2^(FractionBits - MantissaBits - 1) - 1)
  \/ /\ e[1] = "Object" /\ f[1] = "Object" /\ DOMAIN e[2] = DOMAIN f[2]
     /\ \A i \in DOMAIN e[2] :
          /\ e[2][i][1] = f[2][i][1]
          /\ \/ e[2][i] = f[2][i]
             \/ /\ e[2][i][2][1] = "Number" /\ f[2][i][2][1] = "Number"
                /\ f[2][i][2][2] - e[2][i][2][2] \in 0..(2^(FractionBits - MantissaBits - 1) - 1)
                /\ f[2][i][2][2] < Double(1)

CommandsReadBack ==
  got.assembled.type \in {COMMANDAMF0, DATAAMF0} =>
    LET parsed == TryParse(got.assembled.payload)
    IN /\ ~parsed.garbled /\ DOMAIN parsed.retval = DOMAIN got.from
       /\ \A i \in DOMAIN got.from : SameEntity(parsed.retval[i], got.from[i])

\* A video packet holds the NAL units of its sample, each behind its length; a zero
\* that belongs to the prefix of the next unit may end one.
Bytes(nalu) == [b \in DOMAIN nalu |-> Byte(nalu[b])]
SamplesReadBack ==
  got.assembled.type = VIDEO /\ got.assembled.payload[2] = <<"packettype", 1>> =>
    \E zeros \in [DOMAIN got.from -> {<<>>, <<Byte(0)>>}] :
      SubSeq(got.assembled.payload, 4, Len(got.assembled.payload)) =
        LengthPrefixed([i \in DOMAIN got.from |-> Bytes(got.from[i].nalu) \o zeros[i]])

\* The server has the configuration of a stream before its first sample, and the
\* record of video tells the profile and every parameter set of that sample.
ParameterSets(sample, type) ==
  LET sets == Pushed(sample, {i \in DOMAIN sample : sample[i].nalu[1] % 32 = type})
  IN [i \in DOMAIN sets |-> sets[i].nalu]
ConfiguredFirst ==
  /\ got.assembled.type \in {AUDIO, VIDEO} => got.assembled.type \in configured
  /\ got.assembled.type = VIDEO /\ got.assembled.payload[2] = <<"packettype", 0>> =>
       LET sps == ParameterSets(got.from, NALUTYPE_SPS)
           pps == ParameterSets(got.from, NALUTYPE_PPS)
           record == SubSeq(got.assembled.payload, 4, Len(got.assembled.payload))
       IN \E padded \in [((DOMAIN sps) \X {"sps"}) \union ((DOMAIN pps) \X {"pps"}) -> {<<>>, <<Byte(0)>>}] :
            record = <<Byte(1)>> \o SubSeq(Bytes(sps[1]), 2, 4) \o <<Byte(255), <<"spscount", Len(sps)>>>>
                       \o LengthPrefixed([i \in DOMAIN sps |-> Bytes(sps[i]) \o padded[<<i, "sps">>]])
                       \o <<<<"ppscount", Len(pps)>>>>
                       \o LengthPrefixed([i \in DOMAIN pps |-> Bytes(pps[i]) \o padded[<<i, "pps">>]])
=============================================================================
