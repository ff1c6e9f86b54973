------------------------ MODULE MessengerOutput_proofs ------------------------
(***************************************************************************)
(* Proofs about MessengerOutput: the chunk stream ids it takes, and what     *)
(* becomes of the messages it writes. Audio, video and the commands that end *)
(* the stream never share a chunk stream, every message goes out on an id    *)
(* that a header can hold, and the server puts together what was written,    *)
(* finds the units of every sample in it, has the configuration of a stream  *)
(* before its samples, and decodes the commands to what was encoded.         *)
(***************************************************************************)
EXTENDS MessengerOutput, RTMPChunking_proofs

\* How far the handshake is when one of its messages is sent.
LEMMA ChainFacts ==
  /\ Len(Chain) = 7
  /\ Chain[1] = "connect" /\ Chain[2] = "releaseStream" /\ Chain[3] = "FCPublish"
  /\ Chain[4] = "createStream" /\ Chain[5] = "publish" /\ Chain[6] = "setDataFrame"
  /\ Chain[7] = "setChunkSize"
  BY DEF Chain

LEMMA NextFacts ==
  ASSUME NEW name, NextInChain(name), chain \in 0..7
  PROVE  /\ chain \in 0..6 /\ Chain[chain + 1] = name /\ chain' = chain + 1
         /\ attempt' = attempt
         /\ name = "connect" => chain = 0
         /\ name = "releaseStream" => chain = 1
         /\ name = "FCPublish" => chain = 2
         /\ name = "createStream" => chain = 3
         /\ name = "publish" => chain = 4
         /\ name = "setDataFrame" => chain = 5
         /\ name = "setChunkSize" => chain = 6
<1>1. chain \in 0..6 /\ Chain[chain + 1] = name /\ chain' = chain + 1 /\ attempt' = attempt
  BY ChainFacts DEF NextInChain, Running
<1>2. \/ chain = 0 /\ name = "connect"
      \/ chain = 1 /\ name = "releaseStream"
      \/ chain = 2 /\ name = "FCPublish"
      \/ chain = 3 /\ name = "createStream"
      \/ chain = 4 /\ name = "publish"
      \/ chain = 5 /\ name = "setDataFrame"
      \/ chain = 6 /\ name = "setChunkSize"
  BY <1>1, ChainFacts
<1>. QED  BY <1>1, <1>2

\* The ids that a handshake has taken.
LEMMA TakenFacts ==
  /\ chain = 0 => IdsTaken = 0
  /\ chain = 1 => IdsTaken = 1
  /\ chain = 2 => IdsTaken = 2
  /\ chain = 3 => IdsTaken = 2
  /\ chain = 4 => IdsTaken = 2
  /\ chain = 5 => IdsTaken = 3
  /\ chain = 6 => IdsTaken = 4
  /\ chain = 7 => IdsTaken = 7
  BY DEF IdsTaken

LEMMA TakenFacts2 ==
  /\ chain' = 0 => IdsTaken' = 0
  /\ chain' = 1 => IdsTaken' = 1
  /\ chain' = 2 => IdsTaken' = 2
  /\ chain' = 3 => IdsTaken' = 2
  /\ chain' = 4 => IdsTaken' = 2
  /\ chain' = 5 => IdsTaken' = 3
  /\ chain' = 6 => IdsTaken' = 4
  /\ chain' = 7 => IdsTaken' = 7
  BY DEF IdsTaken

LEMMA InitIds == Init => IdsInv
<1> SUFFICES ASSUME Init PROVE IdsInv
  OBVIOUS
<1>1. nextCsid \in FirstChunkStreamIDs /\ nextCsid \in Nat /\ nextCsid >= 3
  BY OutputAssumption DEF Init
<1>2. \E first \in FirstChunkStreamIDs : nextCsid \in first..(first + 4 * (attempt - 1) + IdsTaken)
  BY <1>1, TakenFacts DEF Init
<1>3. csid \in [Streams -> {0} \union (3..(nextCsid - 1))] /\ OwnChunkStreams
  BY <1>1 DEF Init, Streams, OwnChunkStreams
<1>. QED  BY <1>1, <1>2, <1>3, ChainFacts, OutputAssumption DEF IdsInv, Init, Running

\* Ids taken in a step that goes on in the handshake.
LEMMA TakeIds ==
  ASSUME IdsInv, NEW n \in Nat, nextCsid' = nextCsid + n, attempt' = attempt,
         IdsTaken \in Nat, IdsTaken' = IdsTaken + n
  PROVE  /\ nextCsid \in Nat /\ nextCsid >= 3
         /\ (\E first \in FirstChunkStreamIDs :
               nextCsid \in first..(first + 4 * (attempt - 1) + IdsTaken))'
<1>1. PICK first \in FirstChunkStreamIDs :
        nextCsid \in first..(first + 4 * (attempt - 1) + IdsTaken)
  BY DEF IdsInv
<1>2. first \in Nat /\ first >= 3 /\ attempt \in Nat /\ attempt >= 1
  BY OutputAssumption DEF IdsInv
<1>3. nextCsid \in Nat /\ nextCsid >= 3
  BY <1>1, <1>2
<1>4. (nextCsid \in first..(first + 4 * (attempt - 1) + IdsTaken))'
  BY <1>1, <1>2, <1>3
<1>. QED  BY <1>3, <1>4

\* A message sent on an id that is there already: nothing changes but chain.
LEMMA KeepsIds ==
  ASSUME IdsInv, NEW name, name \in {"FCPublish", "createStream"}, NextInChain(name),
         UNCHANGED <<nextCsid, csid>>
  PROVE  IdsInv'
<1>1. chain \in {2, 3} /\ chain' = chain + 1 /\ attempt' = attempt
  BY ChainFacts, NextFacts DEF IdsInv
<1>2. IdsTaken = 2 /\ IdsTaken' = 2 + 0
  BY <1>1, TakenFacts, TakenFacts2
<1>3. (\E first \in FirstChunkStreamIDs :
         nextCsid \in first..(first + 4 * (attempt - 1) + IdsTaken))'
  BY <1>1, <1>2 DEF IdsInv
<1>. QED  BY <1>1, <1>3, ChainFacts DEF IdsInv, OwnChunkStreams, Running

\* A command on a new id that is not kept.
LEMMA TakesOne ==
  ASSUME IdsInv, NEW name, name \in {"connect", "setDataFrame"}, NextInChain(name),
         nextCsid' = nextCsid + 1, UNCHANGED csid
  PROVE  IdsInv'
<1>1. chain \in {0, 5} /\ chain' = chain + 1 /\ attempt' = attempt
  BY ChainFacts, NextFacts DEF IdsInv
<1>2. IdsTaken \in Nat /\ IdsTaken' = IdsTaken + 1
  BY <1>1, TakenFacts, TakenFacts2
<1>3. /\ nextCsid \in Nat /\ nextCsid >= 3
      /\ (\E first \in FirstChunkStreamIDs :
            nextCsid \in first..(first + 4 * (attempt - 1) + IdsTaken))'
  BY <1>1, <1>2, TakeIds
<1>4. csid' \in [Streams -> {0} \union (3..(nextCsid' - 1))]
  BY <1>3 DEF IdsInv
<1>. QED  BY <1>1, <1>3, <1>4, ChainFacts DEF IdsInv, OwnChunkStreams, Running

\* A command on a new id that the commands of the stream go on with.
LEMMA TakesForPublish ==
  ASSUME IdsInv, NEW name, name \in {"releaseStream", "publish"}, NextInChain(name),
         nextCsid' = nextCsid + 1, csid' = [csid EXCEPT !.publish = nextCsid]
  PROVE  IdsInv'
<1>1. chain \in {1, 4} /\ chain' = chain + 1 /\ attempt' = attempt
  BY ChainFacts, NextFacts DEF IdsInv
<1>2. IdsTaken \in Nat /\ IdsTaken' = IdsTaken + 1
  BY <1>1, TakenFacts, TakenFacts2
<1>3. /\ nextCsid \in Nat /\ nextCsid >= 3
      /\ (\E first \in FirstChunkStreamIDs :
            nextCsid \in first..(first + 4 * (attempt - 1) + IdsTaken))'
  BY <1>1, <1>2, TakeIds
<1>4. /\ csid' \in [Streams -> {0} \union (3..(nextCsid' - 1))]
      /\ csid'.publish = nextCsid /\ csid'.video = csid.video /\ csid'.audio = csid.audio
      /\ csid.video \in {0} \union (3..(nextCsid - 1)) /\ csid.audio \in {0} \union (3..(nextCsid - 1))
  <2>1. csid \in [Streams -> {0} \union (3..(nextCsid - 1))] /\ Streams = {"publish", "video", "audio"}
    BY DEF IdsInv, Streams
  <2>2. csid' = [csid EXCEPT !["publish"] = nextCsid] /\ nextCsid \in {0} \union (3..(nextCsid' - 1))
    BY <1>3
  <2>3. \A s \in Streams : csid[s] \in {0} \union (3..(nextCsid' - 1))
    BY <1>3, <2>1
  <2>4. csid' \in [Streams -> {0} \union (3..(nextCsid' - 1))]
    BY <2>1, <2>2, <2>3
  <2>5. csid'.publish = nextCsid /\ csid'.video = csid.video /\ csid'.audio = csid.audio
    BY <2>1, <2>2
  <2>6. csid.video \in {0} \union (3..(nextCsid - 1)) /\ csid.audio \in {0} \union (3..(nextCsid - 1))
    BY <2>1
  <2>. QED  BY <2>4, <2>5, <2>6
<1>5. OwnChunkStreams' /\ csid'.publish # 0
  BY <1>3, <1>4 DEF IdsInv, OwnChunkStreams
<1>. QED  BY <1>1, <1>3, <1>4, <1>5, ChainFacts DEF IdsInv, Running

LEMMA ReleaseStreamIds ==
  ASSUME IdsInv, SendReleaseStream PROVE IdsInv'
  BY TakesForPublish DEF SendReleaseStream, OnNewChunkStream

\* The end of the handshake, which gives the two streams theirs.
LEMMA SetChunkSizeIds ==
  ASSUME IdsInv, SendSetChunkSize
  PROVE  IdsInv'
<1>1. /\ nextCsid' = nextCsid + 3 /\ NextInChain("setChunkSize")
      /\ csid' = [csid EXCEPT !.video = nextCsid + 1, !.audio = nextCsid + 2]
  BY DEF SendSetChunkSize
<1>2. chain = 6 /\ chain' = 7 /\ attempt' = attempt
  BY <1>1, ChainFacts, NextFacts DEF IdsInv
<1>3. IdsTaken \in Nat /\ IdsTaken' = IdsTaken + 3
  BY <1>2, TakenFacts, TakenFacts2
<1>4. /\ nextCsid \in Nat /\ nextCsid >= 3
      /\ (\E first \in FirstChunkStreamIDs :
            nextCsid \in first..(first + 4 * (attempt - 1) + IdsTaken))'
  BY <1>1, <1>2, <1>3, TakeIds
<1>5. csid.publish # 0 /\ csid.publish \in {0} \union (3..(nextCsid - 1))
  BY <1>2, ChainFacts DEF IdsInv, Streams
<1>6. /\ csid' \in [Streams -> {0} \union (3..(nextCsid' - 1))]
      /\ csid'.publish = csid.publish /\ csid'.video = nextCsid + 1 /\ csid'.audio = nextCsid + 2
  <2>1. csid \in [Streams -> {0} \union (3..(nextCsid - 1))] /\ Streams = {"publish", "video", "audio"}
    BY DEF IdsInv, Streams
  <2>2. {nextCsid + 1, nextCsid + 2} \subseteq {0} \union (3..(nextCsid' - 1))
    BY <1>1, <1>4
  <2>3. \A s \in Streams : csid[s] \in {0} \union (3..(nextCsid' - 1))
    BY <1>1, <1>4, <2>1
  <2>4. csid' \in [Streams -> {0} \union (3..(nextCsid' - 1))]
    BY <1>1, <2>1, <2>2, <2>3
  <2>5. csid'.publish = csid.publish /\ csid'.video = nextCsid + 1 /\ csid'.audio = nextCsid + 2
    BY <1>1, <2>1
  <2>. QED  BY <2>4, <2>5
<1>7. OwnChunkStreams' /\ \A s \in Streams : csid'[s] # 0
  BY <1>4, <1>5, <1>6 DEF OwnChunkStreams, Streams
<1>. QED  BY <1>2, <1>4, <1>6, <1>7, ChainFacts DEF IdsInv, Running

LEMMA CloseIds ==
  ASSUME IdsInv, SendUnpublishAndCloseStream
  PROVE  IdsInv'
<1>1. /\ Running /\ csid' = [publish |-> 0, video |-> 0, audio |-> 0]
      /\ chain' = chain /\ attempt' = attempt /\ nextCsid' = nextCsid
  BY DEF SendUnpublishAndCloseStream
<1>2. nextCsid \in Nat /\ nextCsid >= 3
  <2>1. PICK first \in FirstChunkStreamIDs :
          nextCsid \in first..(first + 4 * (attempt - 1) + IdsTaken)
    BY DEF IdsInv
  <2>. QED  BY <2>1, OutputAssumption
<1>3. /\ csid' \in [Streams -> {0} \union (3..(nextCsid' - 1))] /\ OwnChunkStreams'
      /\ \A s \in Streams : csid'[s] = 0
  BY <1>1, <1>2 DEF Streams, OwnChunkStreams
<1>4. IdsTaken' = IdsTaken
  BY <1>1 DEF IdsTaken
<1>5. (\E first \in FirstChunkStreamIDs :
         nextCsid \in first..(first + 4 * (attempt - 1) + IdsTaken))'
  BY <1>1, <1>4 DEF IdsInv
<1>. QED  BY <1>1, <1>3, <1>5, ChainFacts DEF IdsInv, Running

\* A new connection: four ids of the old one are lost at most.
LEMMA ConnectIds ==
  ASSUME IdsInv, ConnectAsync
  PROVE  IdsInv'
<1>1. /\ chain \in 1..6 /\ chain' = 0 /\ attempt' = attempt + 1 /\ attempt < MaxAttempts
      /\ nextCsid' = nextCsid /\ csid' = csid
  BY ChainFacts DEF ConnectAsync, Running, IdsInv
<1>2. IdsTaken \in 0..4 /\ IdsTaken' = 0
  BY <1>1, TakenFacts, TakenFacts2
<1>3. PICK first \in FirstChunkStreamIDs :
        nextCsid \in first..(first + 4 * (attempt - 1) + IdsTaken)
  BY DEF IdsInv
<1>4. first \in Nat /\ attempt \in 1..MaxAttempts
  BY OutputAssumption DEF IdsInv
<1>5. nextCsid' \in first..(first + 4 * (attempt' - 1) + IdsTaken')
  BY <1>1, <1>2, <1>3, <1>4
<1>6. attempt' \in 1..MaxAttempts
  BY <1>1, <1>4, OutputAssumption
<1>. QED  BY <1>1, <1>5, <1>6, ChainFacts DEF IdsInv, OwnChunkStreams, Running

LEMMA SameIds ==
  ASSUME IdsInv, UNCHANGED <<chain, attempt, nextCsid, csid>>
  PROVE  IdsInv'
<1>1. IdsTaken' = IdsTaken
  BY DEF IdsTaken
<1>2. (\E first \in FirstChunkStreamIDs :
         nextCsid \in first..(first + 4 * (attempt - 1) + IdsTaken))'
  BY <1>1 DEF IdsInv
<1>. QED  BY <1>2 DEF IdsInv, OwnChunkStreams, Running

LEMMA StepIds ==
  ASSUME IdsInv, [Next]_vars
  PROVE  IdsInv'
<1>1. CASE SendConnect
  BY <1>1, TakesOne DEF SendConnect, OnNewChunkStream
<1>2. CASE SendReleaseStream
  BY <1>2, ReleaseStreamIds
<1>3. CASE SendFCPublish
  BY <1>3, KeepsIds DEF SendFCPublish
<1>4. CASE SendCreateStream
  BY <1>4, KeepsIds DEF SendCreateStream
<1>5. CASE SendPublishStream
  BY <1>5, TakesForPublish DEF SendPublishStream, OnNewChunkStream
<1>6. CASE SendSetDataFrame
  BY <1>6, TakesOne DEF SendSetDataFrame, OnNewChunkStream
<1>7. CASE SendSetChunkSize
  BY <1>7, SetChunkSizeIds
<1>8. CASE SendVideo
  <2>1. UNCHANGED <<chain, attempt, nextCsid, csid>>
    BY <1>8 DEF SendVideo, SendPackets
  <2>. QED  BY <2>1, SameIds
<1>9. CASE SendAudio
  <2>1. UNCHANGED <<chain, attempt, nextCsid, csid>>
    BY <1>9 DEF SendAudio, SendPackets
  <2>. QED  BY <2>1, SameIds
<1>10. CASE SendUnpublishAndCloseStream
  BY <1>10, CloseIds
<1>11. CASE ConnectAsync
  BY <1>11, ConnectIds
<1>12. CASE ServerReadsChunk
  BY <1>12, SameIds DEF ServerReadsChunk, messenger
<1>13. CASE UNCHANGED vars
  BY <1>13, SameIds DEF vars, messenger
<1>. QED
  BY <1>1, <1>2, <1>3, <1>4, <1>5, <1>6, <1>7, <1>8, <1>9, <1>10, <1>11, <1>12, <1>13
     DEF Next, Messenger

\* Ids are taken in order and used once, through failed attempts and the end of the
\* stream.
THEOREM IdsInvariance == Spec => []IdsInv
<1>1. Init => IdsInv
  BY InitIds
<1>2. IdsInv /\ [Next]_vars => IdsInv'
  BY StepIds
<1>. QED  BY <1>1, <1>2, PTL DEF Spec

\* RTMPSessionManager never gives audio, video and the commands that end the stream
\* the same chunk stream.
THEOREM StreamsApart == Spec => []OwnChunkStreams
<1>1. IdsInv => OwnChunkStreams
  BY DEF IdsInv
<1>. QED  BY <1>1, IdsInvariance, PTL

LEMMA RoomFacts ==
  ASSUME NEW n \in Nat, NEW first \in Nat, first >= 3, NEW a \in Nat, NEW most \in Nat, a <= most,
         a >= 1, NEW taken \in 0..7, n \in first..(first + 4 * (a - 1) + taken),
         NEW last \in Nat, first + 4 * most + 3 <= last
  PROVE  n \in 3..last
  OBVIOUS

\* Every id is one that the three bytes of a basic header can hold, for as many
\* connections as the first id leaves room for, four ids for each that fails and
\* seven for the last: more than sixteen thousand.
RoomForIDs == \A first \in FirstChunkStreamIDs : first + 4 * MaxAttempts + 3 <= LastID
IdsFit == nextCsid \in 3..LastID /\ \A s \in Streams : csid[s] \in {0} \union (3..LastID)

LEMMA FitFacts ==
  ASSUME RoomForIDs, IdsInv
  PROVE  IdsFit
<1>1. PICK first \in FirstChunkStreamIDs :
        nextCsid \in first..(first + 4 * (attempt - 1) + IdsTaken)
  BY DEF IdsInv
<1>2. first \in Nat /\ first >= 3 /\ first + 4 * MaxAttempts + 3 <= LastID
  BY OutputAssumption DEF RoomForIDs
<1>3. attempt \in Nat /\ attempt >= 1 /\ MaxAttempts \in Nat /\ attempt <= MaxAttempts
  BY OutputAssumption DEF IdsInv
<1>4. IdsTaken \in 0..7
  BY TakenFacts, ChainFacts DEF IdsInv
<1>5. nextCsid \in Nat
  BY <1>1, <1>2
<1>6. nextCsid \in 3..LastID
  BY <1>1, <1>2, <1>3, <1>4, <1>5, LastIsNat, RoomFacts
<1>7. \A s \in Streams : csid[s] \in {0} \union (3..(nextCsid - 1))
  BY DEF IdsInv
<1>8. \A n \in {0} \union (3..(nextCsid - 1)) : n \in {0} \union (3..LastID)
  BY <1>6, LastIsNat
<1>. QED  BY <1>6, <1>7, <1>8 DEF IdsFit

THEOREM IdsFitHeader ==
  ASSUME RoomForIDs
  PROVE  Spec => []IdsFit
<1>1. IdsInv => IdsFit
  BY FitFacts
<1>. QED  BY <1>1, IdsInvariance, PTL
----------------------------------------------------------------------------
(* What the server makes of a header.                                           *)

LEMMA ExtendedIsNat == ExtendedStamp \in Nat
  BY DEF ExtendedStamp

LEMMA LeastFacts ==
  ASSUME NEW ts \in Nat
  PROVE  /\ ts < ExtendedStamp => Least(ts, ExtendedStamp) = ts /\ ~(ts > ExtendedStamp)
                                  /\ Least(ts, ExtendedStamp) # ExtendedStamp
         /\ ~(ts < ExtendedStamp) => Least(ts, ExtendedStamp) = ExtendedStamp
         /\ ~(ts < ExtendedStamp) /\ ts # ExtendedStamp => ts > ExtendedStamp
         /\ ts > ExtendedStamp => ~(ts < ExtendedStamp)
  BY ExtendedIsNat DEF Least

LEMMA HeadOfFirst ==
  ASSUME Format(toServer) = 0
  PROVE  LET at == BasicSize(toServer) + Len(Fields(0))
             field(i) == toServer[BasicSize(toServer) + i][2]
         IN /\ ServerHead.id = ChunkStreamID(toServer)
            /\ ServerHead.extends = (field(1) = ExtendedStamp)
            /\ ServerHead.length = field(2) /\ ServerHead.type = field(3)
            /\ ServerHead.stream = field(4)
            /\ field(1) = ExtendedStamp =>
                 /\ ServerHead.size = at + 1 /\ ServerHead.ts = toServer[at + 1][2]
                 /\ (ServerHead.sound <=> IsField(toServer, at + 1, "extended"))
            /\ field(1) # ExtendedStamp =>
                 /\ ServerHead.size = at /\ ServerHead.ts = field(1) /\ ServerHead.sound
<1>. DEFINE at == BasicSize(toServer) + Len(Fields(0))
            first == toServer[BasicSize(toServer) + 1][2]
<1>1. /\ ServerHead.id = ChunkStreamID(toServer)
      /\ ServerHead.length = toServer[BasicSize(toServer) + 2][2]
  BY DEF ServerHead
<1>2. /\ ServerHead.type = toServer[BasicSize(toServer) + 3][2]
      /\ ServerHead.stream = toServer[BasicSize(toServer) + 4][2]
  BY DEF ServerHead
<1>3. ServerHead.extends = (first = ExtendedStamp)
  <2>1. 0 # 3
    OBVIOUS
  <2>. QED  BY <2>1, Zenon DEF ServerHead
<1>4. ASSUME first = ExtendedStamp
      PROVE  ServerHead.size = at + 1 /\ ServerHead.ts = toServer[at + 1][2]
  BY <1>4 DEF ServerHead
<1>5. ASSUME first = ExtendedStamp
      PROVE  ServerHead.sound <=> IsField(toServer, at + 1, "extended")
  <2>1. 0 # 3
    OBVIOUS
  <2>. QED  BY <1>5, <2>1, Zenon DEF ServerHead
<1>6. ASSUME first # ExtendedStamp
      PROVE  ServerHead.size = at /\ ServerHead.ts = first
  BY <1>6 DEF ServerHead
<1>7. ASSUME first # ExtendedStamp PROVE ServerHead.sound
  <2>1. 0 # 3
    OBVIOUS
  <2>. QED  BY <1>7, <2>1, Zenon DEF ServerHead
<1>. QED  BY <1>1, <1>2, <1>3, <1>4, <1>5, <1>6, <1>7

LEMMA HeadOfNext ==
  ASSUME Format(toServer) = 3
  PROVE  LET at == BasicSize(toServer) + Len(Fields(3))
             old == heads[ChunkStreamID(toServer)]
         IN /\ ServerHead.id = ChunkStreamID(toServer)
            /\ ServerHead.extends = old.extends
            /\ ServerHead.length = old.length /\ ServerHead.type = old.type
            /\ ServerHead.stream = old.stream
            /\ old.extends =>
                 /\ ServerHead.size = at + 1 /\ ServerHead.ts = toServer[at + 1][2]
                 /\ (ServerHead.sound <=> IsField(toServer, at + 1, "extended"))
            /\ ~old.extends =>
                 /\ ServerHead.size = at /\ ServerHead.ts = old.ts /\ ServerHead.sound
<1>1. /\ ServerHead.id = ChunkStreamID(toServer)
      /\ ServerHead.length = heads[ChunkStreamID(toServer)].length
  BY DEF ServerHead
<1>2. /\ ServerHead.type = heads[ChunkStreamID(toServer)].type
      /\ ServerHead.stream = heads[ChunkStreamID(toServer)].stream
  BY DEF ServerHead
<1>3. ServerHead.extends = heads[ChunkStreamID(toServer)].extends
  BY Zenon DEF ServerHead
<1>4. ASSUME heads[ChunkStreamID(toServer)].extends
      PROVE  /\ ServerHead.size = BasicSize(toServer) + Len(Fields(3)) + 1
             /\ ServerHead.ts = toServer[BasicSize(toServer) + Len(Fields(3)) + 1][2]
  BY <1>4 DEF ServerHead
<1>5. ASSUME heads[ChunkStreamID(toServer)].extends
      PROVE  ServerHead.sound <=> IsField(toServer, BasicSize(toServer) + Len(Fields(3)) + 1, "extended")
  BY <1>5, Zenon DEF ServerHead
<1>6. ASSUME ~heads[ChunkStreamID(toServer)].extends
      PROVE  /\ ServerHead.size = BasicSize(toServer) + Len(Fields(3))
             /\ ServerHead.ts = heads[ChunkStreamID(toServer)].ts
  BY <1>6 DEF ServerHead
<1>7. ASSUME ~heads[ChunkStreamID(toServer)].extends PROVE ServerHead.sound
  BY <1>7, Zenon DEF ServerHead
<1>. QED  BY <1>1, <1>2, <1>3, <1>4, <1>5, <1>6, <1>7

\* The head of the first chunk of a message: the server reads the message's own time
\* stamp, length, type and stream, and knows whether the time stamp is extended.
THEOREM FirstHeaderReceived ==
  ASSUME NEW id \in Nat, id >= 3, NEW msg, msg.ts \in Nat, msg.ts # ExtendedStamp,
         Begins(toServer, 0, id, msg)
  PROVE  /\ ~LosesTrack
         /\ ServerHead.id = id /\ ServerHead.ts = msg.ts
         /\ ServerHead.length = Len(msg.payload)
         /\ ServerHead.type = msg.type /\ ServerHead.stream = msg.stream
         /\ ServerHead.extends = (msg.ts > ExtendedStamp)
         /\ ServerHead.size = Len(BasicHeader(0, id)) + Len(MessageHeader(0, msg))
<1>. DEFINE b == BasicSize(toServer)
            k == Len(Fields(0))
            mh == MessageHeader(0, msg)
<1>1. /\ Format(toServer) = 0 /\ ChunkStreamID(toServer) = id /\ HeaderReads(toServer)
      /\ toServer[b + 1][2] = Least(msg.ts, ExtendedStamp)
      /\ toServer[b + 2][2] = Len(msg.payload)
      /\ toServer[b + 3][2] = msg.type /\ toServer[b + 4][2] = msg.stream
      /\ msg.ts > ExtendedStamp =>
           IsField(toServer, b + k + 1, "extended") /\ toServer[b + k + 1][2] = msg.ts
  <2>1. 0 \in {0, 1, 3} /\ 0 # 3
    OBVIOUS
  <2>2. Format(toServer) = 0 /\ ChunkStreamID(toServer) = id /\ HeaderReads(toServer)
    BY <2>1, HeaderReadBack
  <2>3. /\ toServer[b + 1][2] = Least(msg.ts, ExtendedStamp)
        /\ toServer[b + 2][2] = Len(msg.payload)
        /\ toServer[b + 3][2] = msg.type
    BY <2>1, HeaderReadBack
  <2>4. toServer[b + 4][2] = msg.stream
    BY <2>1, HeaderReadBack
  <2>5. msg.ts > ExtendedStamp =>
          IsField(toServer, b + k + 1, "extended") /\ toServer[b + k + 1][2] = msg.ts
    BY <2>1, HeaderReadBack
  <2>. QED  BY <2>2, <2>3, <2>4, <2>5
<1>2. b = Len(BasicHeader(0, id)) /\ b \in Nat
  BY HeaderAt
<1>3. /\ msg.ts > ExtendedStamp => Len(mh) = k + 1
      /\ ~(msg.ts > ExtendedStamp) => Len(mh) = k
  BY HeaderCells
<1>4. k = 4
  BY FieldsFacts
<1>. HIDE DEF b, k, mh
<1>5. /\ ServerHead.id = id /\ ServerHead.length = toServer[b + 2][2]
      /\ ServerHead.type = toServer[b + 3][2] /\ ServerHead.stream = toServer[b + 4][2]
      /\ ServerHead.extends = (toServer[b + 1][2] = ExtendedStamp)
  BY <1>1, HeadOfFirst DEF b
<1>6. CASE msg.ts < ExtendedStamp
  <2>1. /\ toServer[b + 1][2] = msg.ts /\ toServer[b + 1][2] # ExtendedStamp
        /\ ~(msg.ts > ExtendedStamp)
    BY <1>1, <1>6, LeastFacts
  <2>2. ServerHead.size = b + k /\ ServerHead.ts = toServer[b + 1][2] /\ ServerHead.sound
    BY <1>1, <2>1, HeadOfFirst DEF b, k
  <2>. QED  BY <1>1, <1>2, <1>3, <1>5, <2>1, <2>2 DEF LosesTrack, mh
<1>7. CASE ~(msg.ts < ExtendedStamp)
  <2>1. toServer[b + 1][2] = ExtendedStamp /\ msg.ts > ExtendedStamp
    BY <1>1, <1>7, LeastFacts
  <2>2. /\ ServerHead.size = b + k + 1 /\ ServerHead.ts = toServer[b + k + 1][2]
        /\ ServerHead.sound <=> IsField(toServer, b + k + 1, "extended")
    BY <1>1, <2>1, HeadOfFirst DEF b, k
  <2>3. b + k + 1 = b + (k + 1)
    BY <1>2, <1>4
  <2>. QED  BY <1>1, <1>2, <1>3, <1>5, <2>1, <2>2, <2>3 DEF LosesTrack, mh
<1>. QED  BY <1>6, <1>7

\* A later chunk of the message, of Type 3: the server goes by what it kept of the
\* first and looks for the extended time stamp where the library has put it again.
THEOREM NextHeaderReceived ==
  ASSUME NEW id \in Nat, id >= 3, NEW msg, msg.ts \in Nat, Known(id),
         heads[id].ts = msg.ts, heads[id].length = Len(msg.payload),
         heads[id].type = msg.type, heads[id].stream = msg.stream,
         heads[id].extends <=> msg.ts > ExtendedStamp,
         Begins(toServer, 3, id, msg)
  PROVE  /\ ~LosesTrack
         /\ ServerHead.id = id /\ ServerHead.ts = msg.ts
         /\ ServerHead.length = Len(msg.payload)
         /\ ServerHead.type = msg.type /\ ServerHead.stream = msg.stream
         /\ ServerHead.extends <=> msg.ts > ExtendedStamp
         /\ ServerHead.size = Len(BasicHeader(3, id)) + Len(MessageHeader(3, msg))
<1>. DEFINE b == BasicSize(toServer)
            k == Len(Fields(3))
            mh == MessageHeader(3, msg)
<1>1. /\ Format(toServer) = 3 /\ ChunkStreamID(toServer) = id /\ HeaderReads(toServer)
      /\ msg.ts > ExtendedStamp =>
           IsField(toServer, b + k + 1, "extended") /\ toServer[b + k + 1][2] = msg.ts
  <2>1. 3 \in {0, 1, 3}
    OBVIOUS
  <2>2. Format(toServer) = 3 /\ ChunkStreamID(toServer) = id /\ HeaderReads(toServer)
    BY <2>1, HeaderReadBack
  <2>3. msg.ts > ExtendedStamp =>
          IsField(toServer, b + k + 1, "extended") /\ toServer[b + k + 1][2] = msg.ts
    BY <2>1, HeaderReadBack
  <2>. QED  BY <2>2, <2>3
<1>2. b = Len(BasicHeader(3, id)) /\ b \in Nat
  <2>1. 3 \in {0, 1, 3}
    OBVIOUS
  <2>2. b = Len(BasicHeader(3, id)) /\ b \in 1..3
    BY <2>1, HeaderAt
  <2>. QED  BY <2>2
<1>3. /\ msg.ts > ExtendedStamp => Len(mh) = k + 1
      /\ ~(msg.ts > ExtendedStamp) => Len(mh) = k
  BY HeaderCells
<1>4. k = 0
  BY FieldsFacts
<1>5. /\ ServerHead.id = id /\ ServerHead.length = Len(msg.payload)
      /\ ServerHead.type = msg.type /\ ServerHead.stream = msg.stream
      /\ ServerHead.extends = heads[id].extends
  BY <1>1, HeadOfNext
<1>. HIDE DEF b, k, mh
<1>6. CASE ~(msg.ts > ExtendedStamp)
  <2>1. ServerHead.size = b + k /\ ServerHead.ts = msg.ts /\ ServerHead.sound
    BY <1>1, <1>6, HeadOfNext DEF b, k
  <2>2. ServerHead.extends <=> msg.ts > ExtendedStamp
    BY <1>5
  <2>3. ~LosesTrack
    BY <1>1, <2>1 DEF LosesTrack
  <2>4. ServerHead.size = Len(BasicHeader(3, id)) + Len(mh)
    BY <1>2, <1>3, <1>6, <2>1
  <2>. QED  BY <1>5, <2>1, <2>2, <2>3, <2>4 DEF mh
<1>7. CASE msg.ts > ExtendedStamp
  <2>1. /\ ServerHead.size = b + k + 1 /\ ServerHead.ts = toServer[b + k + 1][2]
        /\ (ServerHead.sound <=> IsField(toServer, b + k + 1, "extended"))
    BY <1>1, <1>7, HeadOfNext DEF b, k
  <2>2. ServerHead.extends <=> msg.ts > ExtendedStamp
    BY <1>5
  <2>3. ~LosesTrack
    BY <1>1, <1>7, <2>1 DEF LosesTrack
  <2>4. ServerHead.size = Len(BasicHeader(3, id)) + Len(mh)
    <3>1. b + k + 1 = b + (k + 1)
      BY <1>2, <1>4
    <3>. QED  BY <1>2, <1>3, <1>7, <2>1, <3>1
  <2>. QED  BY <1>1, <1>5, <1>7, <2>1, <2>2, <2>3, <2>4 DEF mh
<1>. QED  BY <1>6, <1>7

\* A time stamp of exactly 16777215 fills its field and is written without the
\* extension that the field announces: whatever follows the header, the server takes
\* it for the extension, and loses track since it is none.
THEOREM FullStampLosesTrack ==
  ASSUME NEW id \in Nat, id >= 3, NEW msg, msg.ts = ExtendedStamp,
         Begins(toServer, 0, id, msg),
         ~IsField(toServer, Len(BasicHeader(0, id)) + Len(MessageHeader(0, msg)) + 1, "extended")
  PROVE  LosesTrack
<1>. DEFINE b == BasicSize(toServer)
            k == Len(Fields(0))
            mh == MessageHeader(0, msg)
<1>1. Format(toServer) = 0 /\ toServer[b + 1][2] = Least(msg.ts, ExtendedStamp)
  <2>1. 0 \in {0, 1, 3} /\ 0 # 3
    OBVIOUS
  <2>. QED  BY <2>1, HeaderReadBack
<1>2. Least(msg.ts, ExtendedStamp) = ExtendedStamp /\ ~(msg.ts > ExtendedStamp)
  <2>1. msg.ts \in Nat /\ ~(msg.ts < ExtendedStamp) /\ ~(msg.ts > ExtendedStamp)
    BY ExtendedIsNat
  <2>. QED  BY <2>1, LeastFacts
<1>3. Len(mh) = k
  BY <1>2, HeaderCells
<1>4. b = Len(BasicHeader(0, id))
  BY HeaderAt
<1>5. ServerHead.sound <=> IsField(toServer, b + k + 1, "extended")
  BY <1>1, <1>2, HeadOfFirst
<1>. HIDE DEF b, k, mh
<1>6. ~IsField(toServer, b + k + 1, "extended")
  BY <1>3, <1>4 DEF mh
<1>. QED  BY <1>5, <1>6 DEF LosesTrack
----------------------------------------------------------------------------
(* The cells on the way and the messages they belong to.                      *)

Sizes == ClientChunkSizes \union {DefaultChunkSize}
SizeAfter(size, msg) == IF msg.type = PROTOSETCHUNKSIZE THEN msg.payload[1][2] ELSE size
SizeNow == IF Running THEN chunkSize ELSE DefaultChunkSize

\* What a message must be to get through, and all are.
Payload(cells) ==
  /\ IsSeq(cells) /\ cells # <<>>
  /\ \A i \in 1..Len(cells) : cells[i][1] \notin HeaderFields
Sound(msg) ==
  /\ msg = RTMPMessage(msg.ts, msg.type, msg.stream, msg.payload)
  /\ msg.ts \in Nat /\ Payload(msg.payload)
  /\ msg.type = PROTOSETCHUNKSIZE => msg.payload[1][2] \in Sizes

Length(item) == Len(item.msg.payload)
Held(part, id) == IF id \in DOMAIN part THEN part[id] ELSE <<>>

\* How the cells on the way belong to the messages that were not read to their end.
Wire(data, items, first, last, part, hd, ids, sizes, strips, read) ==
  /\ IsSeq(items)
  /\ \A i \in 1..Len(items) : Sound(items[i].msg) /\ ids[i] \in Nat /\ ids[i] >= 3
  /\ \A i \in 1..(Len(items) + 1) : sizes[i] \in Sizes
  /\ sizes[1] = first /\ sizes[Len(items) + 1] = last
  /\ \A i \in 1..Len(items) : sizes[i + 1] = SizeAfter(sizes[i], items[i].msg)
  /\ AllSeqs(strips) /\ Len(strips) = Len(items) /\ data = FlattenSeq(strips)
  /\ \A i \in 1..Len(items) :
       strips[i] = Remaining(ids[i], sizes[i], items[i].msg, IF i = 1 THEN read ELSE 0)
  /\ read \in Nat
  /\ IF items = <<>> THEN read = 0 /\ \A id : Held(part, id) = <<>>
     ELSE /\ read < NumChunks(Length(items[1]), sizes[1])
          /\ \A id : Held(part, id) = IF id = ids[1]
                                      THEN SubSeq(items[1].msg.payload, 1, read * sizes[1])
                                      ELSE <<>>
          /\ read > 0 =>
               /\ items[1].msg.ts # ExtendedStamp
               /\ ids[1] \in DOMAIN hd
               /\ hd[ids[1]].ts = items[1].msg.ts /\ hd[ids[1]].length = Length(items[1])
               /\ hd[ids[1]].type = items[1].msg.type /\ hd[ids[1]].stream = items[1].msg.stream
               /\ hd[ids[1]].extends <=> items[1].msg.ts > ExtendedStamp

OnTheWay(data, items, first, last, part, hd) ==
  \E ids, sizes, strips, read : Wire(data, items, first, last, part, hd, ids, sizes, strips, read)

LEMMA SizesFacts == Sizes \subseteq Nat \ {0}
  BY OutputAssumption DEF Sizes

LEMMA SoundFacts ==
  ASSUME NEW msg, Sound(msg)
  PROVE  IsSeq(msg.payload) /\ Len(msg.payload) \in Nat \ {0} /\ msg.ts \in Nat
  BY SeqLen DEF Sound, Payload

LEMMA ChunksOfMessage ==
  ASSUME NEW msg, Sound(msg), NEW size \in Nat \ {0}
  PROVE  NumChunks(Len(msg.payload), size) \in Nat \ {0}
<1>1. 0 * size = 0 /\ Len(msg.payload) \in Nat \ {0}
  BY SoundFacts
<1>2. 0 < NumChunks(Len(msg.payload), size) /\ NumChunks(Len(msg.payload), size) \in Nat
  BY <1>1, NumFacts
<1>. QED  BY <1>2

LEMMA AppendWire ==
  ASSUME NEW data, NEW items, NEW first, NEW last, NEW part, NEW hd,
         OnTheWay(data, items, first, last, part, hd),
         NEW item, Sound(item.msg), NEW id \in Nat, id >= 3
  PROVE  OnTheWay(data \o ToChunkedBitstream(0, id, last, item.msg), Append(items, item), first,
                  SizeAfter(last, item.msg), part, hd)
<1>1. PICK ids, sizes, strips, read :
        Wire(data, items, first, last, part, hd, ids, sizes, strips, read)
  BY DEF OnTheWay
<1>. DEFINE n == Len(items)
            new == ToChunkedBitstream(0, id, last, item.msg)
            items2 == Append(items, item)
            strips2 == Append(strips, new)
            ids2 == [i \in 1..(n + 1) |-> IF i <= n THEN ids[i] ELSE id]
            sizes2 == [i \in 1..(n + 2) |-> IF i <= n + 1 THEN sizes[i] ELSE SizeAfter(last, item.msg)]
<1>2. IsSeq(items) /\ n \in Nat /\ (items = <<>> <=> n = 0)
  BY <1>1, SeqLen DEF Wire
<1>3. last \in Sizes /\ last \in Nat \ {0}
  <2>1. sizes[n + 1] = last /\ \A i \in 1..(n + 1) : sizes[i] \in Sizes
    BY <1>1 DEF Wire
  <2>2. n + 1 \in 1..(n + 1)
    BY <1>2
  <2>. QED  BY <2>1, <2>2, SizesFacts
<1>4. new = Remaining(id, last, item.msg, 0) /\ IsSeq(new)
      /\ NumChunks(Len(item.msg.payload), last) \in Nat \ {0}
  <2>1. IsSeq(item.msg.payload) /\ NumChunks(Len(item.msg.payload), last) \in Nat \ {0}
    BY <1>3, SoundFacts, ChunksOfMessage
  <2>2. new = Remaining(id, last, item.msg, 0)
    BY <1>3, <2>1, WholeMessage
  <2>3. 0 \in Nat /\ 0 <= NumChunks(Len(item.msg.payload), last)
    BY <2>1
  <2>4. IsSeq(Remaining(id, last, item.msg, 0))
    BY <1>3, <2>1, <2>3, RemainingFacts
  <2>. QED  BY <2>1, <2>2, <2>4
<1>5. SizeAfter(last, item.msg) \in Sizes
  BY <1>3 DEF SizeAfter, Sound
<1>. HIDE DEF n, new
<1>6. /\ IsSeq(items2) /\ Len(items2) = n + 1 /\ items2[n + 1] = item
      /\ \A i \in 1..n : items2[i] = items[i]
  BY <1>2, SeqAppend DEF n
<1>7. /\ AllSeqs(strips2) /\ FlattenSeq(strips2) = data \o new
      /\ Len(strips2) = n + 1 /\ strips2[n + 1] = new
      /\ \A i \in 1..n : strips2[i] = strips[i]
  <2>1. AllSeqs(strips) /\ IsSeq(strips) /\ Len(strips) = n /\ data = FlattenSeq(strips)
    BY <1>1 DEF Wire, AllSeqs, n
  <2>2. AllSeqs(strips2) /\ FlattenSeq(strips2) = data \o new
    BY <1>4, <2>1, FlattenAppend
  <2>3. /\ Len(strips2) = n + 1 /\ strips2[n + 1] = new
        /\ \A i \in 1..n : strips2[i] = strips[i]
    BY <2>1, SeqAppend
  <2>. QED  BY <2>2, <2>3
<1>8. ids2[n + 1] = id /\ \A i \in 1..n : ids2[i] = ids[i]
  BY <1>2
<1>9. sizes2[n + 2] = SizeAfter(last, item.msg) /\ \A i \in 1..(n + 1) : sizes2[i] = sizes[i]
  BY <1>2
<1>. HIDE DEF items2, strips2, ids2, sizes2
<1>10. sizes[n + 1] = last /\ sizes[1] = first /\ read \in Nat
  BY <1>1 DEF Wire, n
<1>11. \A i \in 1..(n + 1) : i \in 1..n \/ i = n + 1
  BY <1>2
<1>12. \A i \in 1..(n + 1) : Sound(items2[i].msg) /\ ids2[i] \in Nat /\ ids2[i] >= 3
  <2>1. \A i \in 1..n : Sound(items[i].msg) /\ ids[i] \in Nat /\ ids[i] >= 3
    BY <1>1 DEF Wire, n
  <2>. QED  BY <1>6, <1>8, <1>11, <2>1
<1>13. \A i \in 1..((n + 1) + 1) : sizes2[i] \in Sizes
  <2>1. \A i \in 1..(n + 1) : sizes[i] \in Sizes
    BY <1>1 DEF Wire, n
  <2>2. \A i \in 1..((n + 1) + 1) : i \in 1..(n + 1) \/ i = n + 2
    BY <1>2
  <2>. QED  BY <1>5, <1>9, <2>1, <2>2
<1>14. sizes2[1] = first /\ sizes2[(n + 1) + 1] = SizeAfter(last, item.msg)
  <2>1. 1 \in 1..(n + 1) /\ (n + 1) + 1 = n + 2
    BY <1>2
  <2>. QED  BY <1>9, <1>10, <2>1
<1>15. \A i \in 1..(n + 1) : sizes2[i + 1] = SizeAfter(sizes2[i], items2[i].msg)
  <2>1. \A i \in 1..n : sizes[i + 1] = SizeAfter(sizes[i], items[i].msg)
    BY <1>1 DEF Wire, n
  <2>2. \A i \in 1..n : i \in 1..(n + 1) /\ i + 1 \in 1..(n + 1)
    BY <1>2
  <2>3. \A i \in 1..n : sizes2[i + 1] = SizeAfter(sizes2[i], items2[i].msg)
    BY <1>6, <1>9, <2>1, <2>2
  <2>4. sizes2[(n + 1) + 1] = SizeAfter(sizes2[n + 1], items2[n + 1].msg)
    <3>1. n + 1 \in 1..(n + 1) /\ (n + 1) + 1 = n + 2
      BY <1>2
    <3>. QED  BY <1>6, <1>9, <1>10, <3>1
  <2>. QED  BY <1>11, <2>3, <2>4
<1>16. CASE n # 0
  <2>1. \A i \in 1..(n + 1) :
          strips2[i] = Remaining(ids2[i], sizes2[i], items2[i].msg, IF i = 1 THEN read ELSE 0)
    <3>1. \A i \in 1..n : strips[i] = Remaining(ids[i], sizes[i], items[i].msg, IF i = 1 THEN read ELSE 0)
      BY <1>1 DEF Wire, n
    <3>2. \A i \in 1..n : i \in 1..(n + 1)
      BY <1>2
    <3>3. \A i \in 1..n :
            strips2[i] = Remaining(ids2[i], sizes2[i], items2[i].msg, IF i = 1 THEN read ELSE 0)
      BY <1>6, <1>7, <1>8, <1>9, <3>1, <3>2
    <3>4. n + 1 # 1 /\ n + 1 \in 1..(n + 1)
      BY <1>2, <1>16
    <3>5. strips2[n + 1] = Remaining(ids2[n + 1], sizes2[n + 1], items2[n + 1].msg, 0)
      BY <1>4, <1>6, <1>7, <1>8, <1>9, <1>10, <3>4
    <3>. QED  BY <1>11, <3>3, <3>4, <3>5
  <2>2. /\ items2[1] = items[1] /\ ids2[1] = ids[1] /\ sizes2[1] = sizes[1]
        /\ items # <<>> /\ items2 # <<>>
    <3>1. 1 \in 1..n /\ 1 \in 1..(n + 1) /\ n + 1 # 0
      BY <1>2, <1>16
    <3>. QED  BY <1>2, <1>6, <1>8, <1>9, <1>16, <3>1, SeqLen DEF n
  <2>3. Wire(data \o new, items2, first, SizeAfter(last, item.msg), part, hd, ids2, sizes2, strips2, read)
    BY <1>1, <1>6, <1>7, <1>10, <1>12, <1>13, <1>14, <1>15, <2>1, <2>2 DEF Wire
  <2>. QED  BY <2>3 DEF OnTheWay, items2, new
<1>17. CASE n = 0
  <2>1. read = 0 /\ \A k : Held(part, k) = <<>>
    BY <1>1, <1>2, <1>17 DEF Wire, n
  <2>2. /\ items2[1] = item /\ ids2[1] = id /\ sizes2[1] = last /\ strips2[1] = new
        /\ \A i \in 1..(n + 1) : i = 1
    BY <1>2, <1>6, <1>7, <1>8, <1>9, <1>10, <1>17
  <2>3. \A i \in 1..(n + 1) :
          strips2[i] = Remaining(ids2[i], sizes2[i], items2[i].msg, IF i = 1 THEN read ELSE 0)
    BY <1>4, <2>1, <2>2
  <2>4. items2 # <<>>
    <3>1. Len(items2) # 0
      BY <1>6, <1>17
    <3>. QED  BY <1>6, <3>1, SeqLen
  <2>5. read < NumChunks(Length(items2[1]), sizes2[1]) /\ ~(read > 0)
    BY <1>4, <2>1, <2>2 DEF Length
  <2>6. SubSeq(items2[1].msg.payload, 1, read * sizes2[1]) = <<>>
    <3>1. read * sizes2[1] = 0
      BY <1>3, <2>1, <2>2
    <3>. QED  BY <3>1, SubSeqEmpty
  <2>7. Wire(data \o new, items2, first, SizeAfter(last, item.msg), part, hd, ids2, sizes2, strips2, read)
    BY <1>6, <1>7, <1>10, <1>12, <1>13, <1>14, <1>15, <2>1, <2>3, <2>4, <2>5, <2>6 DEF Wire
  <2>. QED  BY <2>7 DEF OnTheWay, items2, new
<1>. QED  BY <1>16, <1>17
----------------------------------------------------------------------------
(* One turn of the server.                                                    *)

\* The chunk at the head of what the server received.
HeadFmt(read) == IF read = 0 THEN 0 ELSE 3

LEMMA NothingSent ==
  ASSUME NEW last, NEW ids, NEW sizes, NEW strips, NEW read,
         Wire(toServer, unread, inSize, last, partial, heads, ids, sizes, strips, read),
         toServer # <<>>
  PROVE  unread # <<>>
<1>1. SUFFICES ASSUME unread = <<>> PROVE FALSE
  OBVIOUS
<1>2. AllSeqs(strips) /\ Len(strips) = 0 /\ toServer = FlattenSeq(strips)
  BY <1>1, SeqEmpty DEF Wire
<1>3. strips = <<>>
  BY <1>2, SeqLen DEF AllSeqs
<1>. QED  BY <1>2, <1>3, FlattenEmpty

LEMMA WireFirst ==
  ASSUME NEW last, NEW ids, NEW sizes, NEW strips, NEW read,
         Wire(toServer, unread, inSize, last, partial, heads, ids, sizes, strips, read),
         unread # <<>>
  PROVE  /\ Len(unread) \in Nat \ {0} /\ Head(unread) = unread[1]
         /\ Sound(unread[1].msg) /\ ids[1] \in Nat /\ ids[1] >= 3
         /\ sizes[1] = inSize /\ inSize \in Nat \ {0} /\ inSize \in Sizes
         /\ read \in Nat /\ read < NumChunks(Length(unread[1]), inSize)
         /\ Held(partial, ids[1]) = SubSeq(unread[1].msg.payload, 1, read * inSize)
         /\ read > 0 => unread[1].msg.ts # ExtendedStamp
<1>1. IsSeq(unread) /\ Len(unread) \in Nat \ {0}
  BY SeqLen DEF Wire
<1>2. 1 \in 1..Len(unread) /\ 1 \in 1..(Len(unread) + 1) /\ Head(unread) = unread[1]
  BY <1>1, SeqTail
<1>3. Sound(unread[1].msg) /\ ids[1] \in Nat /\ ids[1] >= 3
  BY <1>2 DEF Wire
<1>4. sizes[1] = inSize /\ sizes[1] \in Sizes
  BY <1>2 DEF Wire
<1>5. inSize \in Nat \ {0}
  BY <1>4, SizesFacts
<1>6. /\ read \in Nat /\ read < NumChunks(Length(unread[1]), sizes[1])
      /\ Held(partial, ids[1]) = SubSeq(unread[1].msg.payload, 1, read * sizes[1])
      /\ read > 0 => unread[1].msg.ts # ExtendedStamp
  BY DEF Wire
<1>. QED  BY <1>1, <1>2, <1>3, <1>4, <1>5, <1>6

Behind(ids, strips, read) ==
  Remaining(ids[1], inSize, unread[1].msg, read + 1) \o FlattenSeq(Tail(strips))

LEMMA WireHead ==
  ASSUME NEW last, NEW ids, NEW sizes, NEW strips, NEW read,
         Wire(toServer, unread, inSize, last, partial, heads, ids, sizes, strips, read),
         unread # <<>>
  PROVE  LET msg == unread[1].msg
             data == ChunkData(msg, inSize, read + 1)
         IN /\ toServer = ToBitstream(HeadFmt(read), ids[1], msg, data) \o Behind(ids, strips, read)
            /\ IsSeq(Behind(ids, strips, read))
            /\ AllSeqs(strips) /\ strips # <<>> /\ AllSeqs(Tail(strips)) /\ IsSeq(FlattenSeq(Tail(strips)))
            /\ IsSeq(Remaining(ids[1], inSize, msg, read + 1))
            /\ IsSeq(data) /\ Len(data) \in Nat \ {0}
            /\ read * inSize < Len(msg.payload)
<1>. DEFINE msg == unread[1].msg
            data == ChunkData(msg, inSize, read + 1)
            n == NumChunks(Len(msg.payload), inSize)
            chunk == ToBitstream(HeadFmt(read), ids[1], msg, data)
            more == Remaining(ids[1], inSize, msg, read + 1)
            tail == FlattenSeq(Tail(strips))
<1>1. /\ Len(unread) \in Nat \ {0} /\ Sound(msg) /\ ids[1] \in Nat /\ ids[1] >= 3
      /\ sizes[1] = inSize /\ inSize \in Nat \ {0} /\ read \in Nat /\ read < n
  BY WireFirst DEF Length
<1>2. IsSeq(msg.payload) /\ Len(msg.payload) \in Nat /\ n \in Nat
  BY <1>1, SoundFacts, ChunksOfMessage
<1>3. read * inSize < Len(msg.payload)
  BY <1>1, <1>2, NumFacts
<1>4. IsSeq(data) /\ Len(data) \in Nat \ {0}
  BY <1>1, <1>2, <1>3, DataFacts
<1>5. /\ AllSeqs(strips) /\ IsSeq(strips) /\ Len(strips) = Len(unread) /\ toServer = FlattenSeq(strips)
      /\ strips[1] = Remaining(ids[1], inSize, msg, read)
  <2>1. 1 \in 1..Len(unread)
    BY <1>1
  <2>. QED  BY <1>1, <2>1 DEF Wire, AllSeqs
<1>6. strips # <<>>
  BY <1>1, <1>5, SeqLen
<1>7. /\ AllSeqs(Tail(strips)) /\ IsSeq(tail)
      /\ toServer = Remaining(ids[1], inSize, msg, read) \o tail
  BY <1>5, <1>6, FlattenHead
<1>8. Remaining(ids[1], inSize, msg, read) = ChunkOf(ids[1], inSize, msg, read + 1) \o more
  <2>1. PICK id, m, size : id = ids[1] /\ m = msg /\ size = inSize
    OBVIOUS
  <2>2. IsSeq(m.payload) /\ size \in Nat \ {0} /\ id \in Nat /\ id >= 3
    BY <1>1, <1>2, <2>1
  <2>3. read <= NumChunks(Len(m.payload), size) /\ read < NumChunks(Len(m.payload), size)
    BY <1>1, <1>2, <2>1
  <2>4. Joins(Remaining(id, size, m, read), ChunkOf(id, size, m, read + 1),
              Remaining(id, size, m, read + 1))
    BY <1>1, <2>2, <2>3, RemainingFacts
  <2>. QED  BY <2>1, <2>4 DEF Joins
<1>9. IsSeq(more)
  <2>1. read + 1 \in Nat /\ read + 1 <= n
    BY <1>1, <1>2
  <2>. HIDE DEF n
  <2>. QED  BY <1>1, <1>2, <2>1, RemainingFacts DEF n
<1>10. ChunkOf(ids[1], inSize, msg, read + 1) = chunk
  <2>1. (IF read + 1 = 1 THEN 0 ELSE 3) = HeadFmt(read)
    BY <1>1 DEF HeadFmt
  <2>. QED  BY <2>1 DEF ChunkOf
<1>. HIDE DEF chunk, more, tail, data, n, msg
<1>11. IsSeq(chunk)
  <2>1. HeadFmt(read) \in {0, 1, 3}
    BY DEF HeadFmt
  <2>2. PICK rest, all : rest = <<>> /\ Joins(all, ToBitstream(HeadFmt(read), ids[1], msg, data), rest)
    BY DEF Joins
  <2>3. IsSeq(rest)
    BY <2>2, SeqEmpty
  <2>. QED  BY <1>1, <1>4, <2>1, <2>2, <2>3, ChunkFollowed DEF chunk
<1>12. PICK a, b, c : a = chunk /\ b = more /\ c = tail
  OBVIOUS
<1>13. IsSeq(a) /\ IsSeq(b) /\ IsSeq(c)
  BY <1>7, <1>9, <1>11, <1>12
<1>14. (a \o b) \o c = a \o (b \o c)
  BY <1>13, SeqAssoc
<1>15. IsSeq(b \o c)
  BY <1>13, SeqConcat
<1>16. toServer = chunk \o (more \o tail) /\ IsSeq(more \o tail)
  BY <1>7, <1>8, <1>10, <1>12, <1>14, <1>15
<1>. QED  BY <1>3, <1>4, <1>5, <1>6, <1>7, <1>9, <1>16 DEF Behind, chunk, more, tail, data, msg

\* A full time stamp without its extension: the server loses track at the first
\* chunk of the message.
LEMMA ReadLost ==
  ASSUME NEW last, NEW ids, NEW sizes, NEW strips, NEW read,
         Wire(toServer, unread, inSize, last, partial, heads, ids, sizes, strips, read),
         unread # <<>>, unread[1].msg.ts = ExtendedStamp
  PROVE  LosesTrack
<1>. DEFINE msg == unread[1].msg
            data == ChunkData(msg, inSize, read + 1)
            rest == Behind(ids, strips, read)
            h == HeadSize(0, ids[1], msg)
<1>1. /\ Sound(msg) /\ ids[1] \in Nat /\ ids[1] >= 3 /\ read \in Nat /\ ~(read > 0)
      /\ inSize \in Nat \ {0}
  BY WireFirst
<1>2. read = 0 /\ HeadFmt(read) = 0
  BY <1>1 DEF HeadFmt
<1>3. /\ toServer = ToBitstream(0, ids[1], msg, data) \o rest
      /\ IsSeq(rest) /\ IsSeq(data) /\ Len(data) \in Nat \ {0} /\ read * inSize < Len(msg.payload)
  BY <1>2, WireHead
<1>4. data[1] = msg.payload[1]
  <2>1. \A i \in 1..Len(data) : data[i] = msg.payload[read * inSize + i]
    <3>1. PICK of, size, k : of = msg /\ size = inSize /\ k = read
      OBVIOUS
    <3>2. IsSeq(of.payload) /\ size \in Nat \ {0} /\ k \in Nat /\ k * size < Len(of.payload)
      BY <1>1, <1>3, <3>1, SoundFacts
    <3>3. \A i \in 1..Len(ChunkData(of, size, k + 1)) :
            ChunkData(of, size, k + 1)[i] = of.payload[k * size + i]
      BY <3>2, DataFacts
    <3>. QED  BY <3>1, <3>3
  <2>2. 1 \in 1..Len(data) /\ read * inSize + 1 = 1
    BY <1>1, <1>2, <1>3
  <2>. QED  BY <2>1, <2>2
<1>5. data[1][1] # "extended"
  <2>1. \A i \in 1..Len(msg.payload) : msg.payload[i][1] \notin HeaderFields
    BY <1>1 DEF Sound, Payload
  <2>2. 1 \in 1..Len(msg.payload) /\ "extended" \in HeaderFields
    BY <1>1, SoundFacts DEF HeaderFields
  <2>. QED  BY <1>4, <2>1, <2>2
<1>. HIDE DEF msg, data, rest
<1>6. /\ Begins(toServer, 0, ids[1], msg)
      /\ \A i \in 1..Len(data) : toServer[h + i] = data[i]
  <2>1. PICK fmt, id, m, b, r : fmt = 0 /\ id = ids[1] /\ m = msg /\ b = data /\ r = rest
    OBVIOUS
  <2>2. fmt \in {0, 1, 3} /\ id \in Nat /\ id >= 3 /\ IsSeq(b) /\ IsSeq(r)
    BY <1>1, <1>3, <2>1
  <2>3. Joins(toServer, ToBitstream(fmt, id, m, b), r)
    BY <1>3, <2>1 DEF Joins
  <2>4. /\ Begins(toServer, fmt, id, m)
        /\ \A i \in 1..Len(b) : toServer[HeadSize(fmt, id, m) + i] = b[i]
    BY <2>2, <2>3, ChunkFollowed
  <2>. QED  BY <2>1, <2>4
<1>7. ~IsField(toServer, h + 1, "extended")
  <2>1. 1 \in 1..Len(data)
    BY <1>3
  <2>. QED  BY <1>5, <1>6, <2>1 DEF IsField
<1>8. msg.ts = ExtendedStamp
  BY DEF msg
<1>. QED  BY <1>1, <1>6, <1>7, <1>8, FullStampLosesTrack DEF HeadSize

\* What is cut out of a sequence between its head and the rest.
LEMMA TakenApart ==
  ASSUME NEW data, IsSeq(data), NEW body, IsSeq(body), NEW rest, IsSeq(rest), NEW h \in Nat,
         Len(data) = h + Len(body) + Len(rest),
         \A i \in 1..Len(body) : data[h + i] = body[i],
         \A i \in 1..Len(rest) : data[h + Len(body) + i] = rest[i]
  PROVE  SubSeq(data, h + 1, h + Len(body)) = body /\ After(data, h + Len(body)) = rest
<1>1. Len(body) \in Nat /\ Len(rest) \in Nat /\ Len(data) \in Nat
  BY SeqLen
<1>2. PICK m, n : m = h + 1 /\ n = h + Len(body)
  OBVIOUS
<1>3. m \in Nat \ {0} /\ n \in 0..Len(data) /\ m <= n + 1 /\ n - m + 1 = Len(body)
      /\ n + 1 \in Nat \ {0} /\ Len(data) \in 0..Len(data) /\ n + 1 <= Len(data) + 1
      /\ Len(data) - (n + 1) + 1 = Len(rest)
  BY <1>1, <1>2
<1>4. PICK a, b : a = SubSeq(data, m, n) /\ b = SubSeq(data, n + 1, Len(data))
  OBVIOUS
<1>5. IsSeq(a) /\ Len(a) = Len(body) /\ \A i \in 1..Len(body) : a[i] = data[m + i - 1]
  BY <1>3, <1>4, SeqSub
<1>6. IsSeq(b) /\ Len(b) = Len(rest) /\ \A i \in 1..Len(rest) : b[i] = data[(n + 1) + i - 1]
  <2>1. PICK k : k = n + 1
    OBVIOUS
  <2>2. k \in Nat \ {0} /\ k <= Len(data) + 1 /\ Len(data) - k + 1 = Len(rest)
    BY <1>3, <2>1
  <2>3. /\ IsSeq(SubSeq(data, k, Len(data))) /\ Len(SubSeq(data, k, Len(data))) = Len(data) - k + 1
        /\ \A i \in 1..(Len(data) - k + 1) : SubSeq(data, k, Len(data))[i] = data[k + i - 1]
    BY <1>3, <2>2, SeqSub
  <2>. QED  BY <1>4, <2>1, <2>2, <2>3
<1>7. \A i \in 1..Len(body) : m + i - 1 = h + i
  BY <1>1, <1>2
<1>8. \A i \in 1..Len(rest) : (n + 1) + i - 1 = h + Len(body) + i
  BY <1>1, <1>2
<1>9. \A i \in 1..Len(a) : a[i] = body[i]
  BY <1>5, <1>7
<1>10. \A i \in 1..Len(b) : b[i] = rest[i]
  BY <1>6, <1>8
<1>11. a = body /\ b = rest
  BY <1>5, <1>6, <1>9, <1>10, SeqSame
<1>. QED  BY <1>2, <1>4, <1>11 DEF After

\* What ServerReadsChunk reads, by the names it has there.
ReadOld == Held(partial, ServerHead.id)
ReadSize == Least(inSize, ServerHead.length - Len(ReadOld))
ReadNow == ReadOld \o SubSeq(toServer, ServerHead.size + 1, ServerHead.size + ReadSize)
ReadRest == After(toServer, ServerHead.size + ReadSize)

\* The payload up to the end of the chunk that is read.
ReadTo(read) == Least((read + 1) * inSize, Length(unread[1]))

LEMMA ReadHead ==
  ASSUME NEW last, NEW ids, NEW sizes, NEW strips, NEW read,
         Wire(toServer, unread, inSize, last, partial, heads, ids, sizes, strips, read),
         unread # <<>>, unread[1].msg.ts # ExtendedStamp
  PROVE  /\ ~LosesTrack
         /\ ServerHead.id = ids[1] /\ ServerHead.ts = unread[1].msg.ts
         /\ ServerHead.length = Length(unread[1])
         /\ ServerHead.type = unread[1].msg.type /\ ServerHead.stream = unread[1].msg.stream
         /\ ServerHead.extends <=> unread[1].msg.ts > ExtendedStamp
         /\ ReadNow = SubSeq(unread[1].msg.payload, 1, ReadTo(read))
         /\ ReadRest = Behind(ids, strips, read)
         /\ ReadTo(read) \in 1..Length(unread[1])
<1>. DEFINE msg == unread[1].msg
            data == ChunkData(msg, inSize, read + 1)
            rest == Behind(ids, strips, read)
            len == Len(msg.payload)
            old == SubSeq(msg.payload, 1, read * inSize)
<1>1. /\ Sound(msg) /\ ids[1] \in Nat /\ ids[1] >= 3 /\ read \in Nat
      /\ inSize \in Nat \ {0} /\ Held(partial, ids[1]) = old
      /\ IsSeq(msg.payload) /\ len \in Nat \ {0} /\ msg.ts \in Nat
  BY WireFirst, SoundFacts
<1>2. PICK fmt, id : fmt = HeadFmt(read) /\ id = ids[1]
  OBVIOUS
<1>3. fmt \in {0, 1, 3} /\ id \in Nat /\ id >= 3
  BY <1>1, <1>2 DEF HeadFmt
<1>4. /\ Joins(toServer, ToBitstream(fmt, id, msg, data), rest)
      /\ IsSeq(rest) /\ IsSeq(data) /\ Len(data) \in Nat \ {0} /\ read * inSize < len
  BY <1>2, WireHead DEF Joins
<1>5. /\ Len(data) = Least(inSize, len - read * inSize)
      /\ Len(old) = read * inSize
      /\ old \o data = SubSeq(msg.payload, 1, ReadTo(read))
      /\ ReadTo(read) = read * inSize + Len(data)
      /\ \A i \in 1..Len(data) : data[i] = msg.payload[read * inSize + i]
  <2>1. PICK m, size, j : m = msg /\ size = inSize /\ j = read
    OBVIOUS
  <2>2. IsSeq(m.payload) /\ size \in Nat \ {0} /\ j \in Nat /\ j * size < Len(m.payload)
    BY <1>1, <1>4, <2>1
  <2>3. /\ Len(ChunkData(m, size, j + 1)) = Least(size, Len(m.payload) - j * size)
        /\ \A i \in 1..Len(ChunkData(m, size, j + 1)) :
             ChunkData(m, size, j + 1)[i] = m.payload[j * size + i]
        /\ Len(SubSeq(m.payload, 1, j * size)) = j * size
        /\ SubSeq(m.payload, 1, j * size) \o ChunkData(m, size, j + 1) =
             SubSeq(m.payload, 1, Least((j + 1) * size, Len(m.payload)))
        /\ Least((j + 1) * size, Len(m.payload)) = j * size + Len(ChunkData(m, size, j + 1))
    BY <2>2, DataFacts
  <2>4. ReadTo(read) = Least((j + 1) * size, Len(m.payload))
    BY <2>1 DEF ReadTo, Length
  <2>. QED  BY <2>1, <2>3, <2>4
<1>6. ReadTo(read) \in 1..Length(unread[1])
  <2>1. PICK o, d, l : o = read * inSize /\ d = Len(data) /\ l = len
    OBVIOUS
  <2>2. o \in Nat /\ l \in Nat /\ d \in Nat \ {0} /\ o < l /\ d = Least(inSize, l - o) /\ inSize \in Nat
    <3>1. read * inSize \in Nat
      BY <1>1
    <3>2. o \in Nat /\ l \in Nat /\ d \in Nat \ {0} /\ inSize \in Nat
      BY <1>1, <1>4, <2>1, <3>1
    <3>3. o < l
      BY <1>4, <2>1
    <3>4. Len(data) = Least(inSize, len - read * inSize)
      BY <1>5
    <3>. QED  BY <2>1, <3>2, <3>3, <3>4
  <2>3. d <= l - o /\ o + d \in 1..l
    BY <2>2 DEF Least
  <2>4. ReadTo(read) = o + d
    BY <1>5, <2>1
  <2>. QED  BY <2>1, <2>3, <2>4 DEF Length
<1>. HIDE DEF data, rest, old
<1>7. PICK h : h = HeadSize(fmt, id, msg)
  OBVIOUS
<1>8. /\ h \in Nat /\ IsSeq(toServer) /\ Len(toServer) = h + Len(data) + Len(rest)
      /\ Begins(toServer, fmt, id, msg)
      /\ \A i \in 1..Len(data) : toServer[h + i] = data[i]
      /\ \A i \in 1..Len(rest) : toServer[h + Len(data) + i] = rest[i]
  BY <1>3, <1>4, <1>7, ChunkFollowed
<1>9. SubSeq(toServer, h + 1, h + Len(data)) = data /\ After(toServer, h + Len(data)) = rest
  BY <1>4, <1>8, TakenApart
<1>10. /\ ~LosesTrack
       /\ ServerHead.id = id /\ ServerHead.ts = msg.ts /\ ServerHead.length = len
       /\ ServerHead.type = msg.type /\ ServerHead.stream = msg.stream
       /\ ServerHead.extends <=> msg.ts > ExtendedStamp
       /\ ServerHead.size = h
  <2>1. CASE read = 0
    <3>1. fmt = 0
      BY <1>2, <2>1 DEF HeadFmt
    <3>2. Begins(toServer, 0, id, msg) /\ h = Len(BasicHeader(0, id)) + Len(MessageHeader(0, msg))
      BY <1>7, <1>8, <3>1 DEF HeadSize
    <3>3. msg.ts # ExtendedStamp /\ msg.ts \in Nat
      BY <1>1
    <3>. HIDE DEF msg
    <3>4. /\ ~LosesTrack
          /\ ServerHead.id = id /\ ServerHead.ts = msg.ts /\ ServerHead.length = Len(msg.payload)
          /\ ServerHead.type = msg.type /\ ServerHead.stream = msg.stream
          /\ ServerHead.extends = (msg.ts > ExtendedStamp)
          /\ ServerHead.size = Len(BasicHeader(0, id)) + Len(MessageHeader(0, msg))
      BY <1>3, <3>2, <3>3, FirstHeaderReceived
    <3>. QED  BY <3>2, <3>4
  <2>2. CASE read # 0
    <3>1. fmt = 3
      BY <1>2, <2>2 DEF HeadFmt
    <3>2. Begins(toServer, 3, id, msg) /\ h = Len(BasicHeader(3, id)) + Len(MessageHeader(3, msg))
      BY <1>7, <1>8, <3>1 DEF HeadSize
    <3>3. /\ Known(id) /\ heads[id].ts = msg.ts /\ heads[id].length = len
          /\ heads[id].type = msg.type /\ heads[id].stream = msg.stream
          /\ heads[id].extends <=> msg.ts > ExtendedStamp
      <4>1. read > 0
        BY <1>1, <2>2
      <4>. QED  BY <1>2, <4>1 DEF Wire, Known, Length
    <3>. HIDE DEF msg
    <3>. QED  BY <1>1, <1>3, <3>2, <3>3, NextHeaderReceived
  <2>. QED  BY <2>1, <2>2
<1>11. ReadOld = old /\ ReadSize = Len(data)
  BY <1>1, <1>2, <1>5, <1>10 DEF ReadOld, ReadSize
<1>12. ReadNow = SubSeq(msg.payload, 1, ReadTo(read)) /\ ReadRest = rest
  BY <1>5, <1>9, <1>10, <1>11 DEF ReadNow, ReadRest
<1>. QED  BY <1>2, <1>6, <1>10, <1>12 DEF Length, rest

\* Nothing of the payload is taken for a header.
LEMMA ReadPlain ==
  ASSUME NEW msg, Sound(msg), NEW n \in 1..Len(msg.payload), NEW now, now = SubSeq(msg.payload, 1, n)
  PROVE  /\ ~ \E i \in DOMAIN now : now[i][1] \in HeaderFields
         /\ IsSeq(now) /\ Len(now) = n
         /\ \A i \in 1..n : now[i] = msg.payload[i]
<1>1. IsSeq(msg.payload) /\ Len(msg.payload) \in Nat
  BY SoundFacts
<1>2. n \in Nat /\ n \in 0..Len(msg.payload) /\ n - 1 + 1 = n /\ 1 <= n + 1 /\ 1 \in Nat \ {0}
  BY <1>1
<1>3. /\ IsSeq(now) /\ Len(now) = n /\ \A i \in 1..n : now[i] = msg.payload[1 + i - 1]
  BY <1>1, <1>2, SeqSub
<1>4. \A i \in 1..n : now[i] = msg.payload[i] /\ i \in 1..Len(msg.payload)
  <2>1. \A i \in 1..n : 1 + i - 1 = i /\ i \in 1..Len(msg.payload)
    BY <1>1, <1>2
  <2>. QED  BY <1>3, <2>1
<1>5. \A i \in 1..n : now[i][1] \notin HeaderFields
  BY <1>4 DEF Sound, Payload
<1>. QED  BY <1>3, <1>4, <1>5, SeqLen

LEMMA WireMiddle ==
  ASSUME NEW data, NEW items, NEW first, NEW last, NEW part, NEW hd, NEW ids, NEW sizes, NEW strips,
         NEW read, Wire(data, items, first, last, part, hd, ids, sizes, strips, read),
         items # <<>>, items[1].msg.ts # ExtendedStamp,
         read + 1 < NumChunks(Length(items[1]), first),
         NEW part2, \A id : Held(part2, id) =
                       IF id = ids[1] THEN SubSeq(items[1].msg.payload, 1, (read + 1) * first)
                       ELSE Held(part, id),
         NEW hd2, ids[1] \in DOMAIN hd2,
         hd2[ids[1]].ts = items[1].msg.ts, hd2[ids[1]].length = Length(items[1]),
         hd2[ids[1]].type = items[1].msg.type, hd2[ids[1]].stream = items[1].msg.stream,
         hd2[ids[1]].extends <=> items[1].msg.ts > ExtendedStamp,
         NEW data2, IsSeq(Remaining(ids[1], first, items[1].msg, read + 1)),
         data2 = Remaining(ids[1], first, items[1].msg, read + 1) \o FlattenSeq(Tail(strips))
  PROVE  OnTheWay(data2, items, first, last, part2, hd2)
<1>. DEFINE n == Len(items)
            more == Remaining(ids[1], first, items[1].msg, read + 1)
            strips2 == [i \in 1..n |-> IF i = 1 THEN more ELSE strips[i]]
<1>1. /\ IsSeq(items) /\ n \in Nat \ {0} /\ sizes[1] = first /\ read \in Nat
      /\ AllSeqs(strips) /\ IsSeq(strips) /\ Len(strips) = n
      /\ strips # <<>>
  BY SeqLen DEF Wire, AllSeqs
<1>2. n \in Nat /\ IsSeq(more) /\ data2 = more \o FlattenSeq(Tail(strips))
  BY <1>1
<1>. HIDE DEF n, more
<1>3. /\ DOMAIN strips2 = 1..n /\ strips2 = [i \in 1..n |-> strips2[i]]
      /\ strips2[1] = more /\ \A i \in 2..n : strips2[i] = strips[i] /\ i \in 1..n
  BY <1>1
<1>. HIDE DEF strips2
<1>4. IsSeq(strips2) /\ Len(strips2) = n
  BY <1>2, <1>3, SeqMade
<1>5. AllSeqs(strips2) /\ strips2 # <<>>
  <2>1. \A i \in 1..n : i = 1 \/ i \in 2..n
    BY <1>1
  <2>2. \A i \in 1..n : IsSeq(strips[i])
    BY <1>1 DEF AllSeqs
  <2>3. \A i \in 1..n : IsSeq(strips2[i])
    BY <1>2, <1>3, <2>1, <2>2
  <2>. QED  BY <1>1, <1>4, <2>3, SeqLen DEF AllSeqs
<1>6. Tail(strips2) = Tail(strips)
  <2>1. PICK a, b : a = Tail(strips) /\ b = Tail(strips2)
    OBVIOUS
  <2>2. IsSeq(a) /\ Len(a) = n - 1 /\ \A i \in 1..(n - 1) : a[i] = strips[i + 1]
    BY <1>1, <2>1, SeqTail
  <2>3. IsSeq(b) /\ Len(b) = n - 1 /\ \A i \in 1..(n - 1) : b[i] = strips2[i + 1]
    BY <1>4, <1>5, <2>1, SeqTail
  <2>4. \A i \in 1..(n - 1) : i + 1 \in 2..n
    BY <1>1
  <2>5. ASSUME NEW i \in 1..(n - 1) PROVE a[i] = b[i]
    <3>1. a[i] = strips[i + 1] /\ b[i] = strips2[i + 1] /\ i + 1 \in 2..n
      BY <2>2, <2>3, <2>4
    <3>2. strips2[i + 1] = strips[i + 1]
      BY <1>3, <3>1
    <3>. QED  BY <3>1, <3>2
  <2>. QED  BY <2>1, <2>2, <2>3, <2>5, SeqSame
<1>7. data2 = FlattenSeq(strips2)
  <2>1. FlattenSeq(strips2) = strips2[1] \o FlattenSeq(Tail(strips2))
    BY <1>5, FlattenHead, Zenon
  <2>2. strips2[1] = more /\ Tail(strips2) = Tail(strips)
    BY <1>3, <1>6, Zenon
  <2>. QED  BY <1>2, <2>1, <2>2, Zenon
<1>8. \A i \in 1..n :
        strips2[i] = Remaining(ids[i], sizes[i], items[i].msg, IF i = 1 THEN read + 1 ELSE 0)
  <2>1. \A i \in 1..n : strips[i] = Remaining(ids[i], sizes[i], items[i].msg, IF i = 1 THEN read ELSE 0)
    BY DEF Wire, n
  <2>2. strips2[1] = Remaining(ids[1], sizes[1], items[1].msg, read + 1)
    BY <1>1, <1>3 DEF more
  <2>3. \A i \in 2..n : strips2[i] = Remaining(ids[i], sizes[i], items[i].msg, 0)
    <3>1. \A i \in 2..n : i # 1 /\ i \in 1..n
      OBVIOUS
    <3>. QED  BY <1>3, <2>1, <3>1
  <2>4. \A i \in 1..n : i = 1 \/ (i \in 2..n /\ i # 1)
    BY <1>1
  <2>. QED  BY <2>2, <2>3, <2>4
<1>9. \A id : Held(part2, id) = IF id = ids[1]
                                THEN SubSeq(items[1].msg.payload, 1, (read + 1) * sizes[1]) ELSE <<>>
  <2>1. \A id : id # ids[1] => Held(part, id) = <<>>
    BY DEF Wire
  <2>. QED  BY <1>1, <2>1
<1>10. read + 1 \in Nat /\ read + 1 < NumChunks(Length(items[1]), sizes[1])
  BY <1>1
<1>11. PICK r : r = read + 1
  OBVIOUS
<1>12. Wire(data2, items, first, last, part2, hd2, ids, sizes, strips2, r)
  <2>1. /\ IsSeq(items)
        /\ \A i \in 1..Len(items) : Sound(items[i].msg) /\ ids[i] \in Nat /\ ids[i] >= 3
        /\ \A i \in 1..(Len(items) + 1) : sizes[i] \in Sizes
        /\ sizes[1] = first /\ sizes[Len(items) + 1] = last
        /\ \A i \in 1..Len(items) : sizes[i + 1] = SizeAfter(sizes[i], items[i].msg)
    BY DEF Wire
  <2>2. AllSeqs(strips2) /\ Len(strips2) = Len(items) /\ data2 = FlattenSeq(strips2)
    BY <1>4, <1>5, <1>7 DEF n
  <2>3. \A i \in 1..Len(items) :
          strips2[i] = Remaining(ids[i], sizes[i], items[i].msg, IF i = 1 THEN r ELSE 0)
    BY <1>8, <1>11 DEF n
  <2>4. /\ r \in Nat /\ r < NumChunks(Length(items[1]), sizes[1])
        /\ \A id : Held(part2, id) = IF id = ids[1]
                                     THEN SubSeq(items[1].msg.payload, 1, r * sizes[1]) ELSE <<>>
    BY <1>9, <1>10, <1>11
  <2>. QED  BY <2>1, <2>2, <2>3, <2>4 DEF Wire
<1>. QED  BY <1>12 DEF OnTheWay

Cut(t, s) == t = Tail(s)
Cleared(new, part, id) == \A i : Held(new, i) = IF i = id THEN <<>> ELSE Held(part, i)

LEMMA WireLast ==
  ASSUME NEW data, NEW items, NEW first, NEW last, NEW part, NEW hd, NEW ids, NEW sizes, NEW strips,
         NEW read, Wire(data, items, first, last, part, hd, ids, sizes, strips, read),
         items # <<>>,
         NEW part2, Cleared(part2, part, ids[1]),
         NEW hd2, NEW data2, data2 = FlattenSeq(Tail(strips)), NEW items2, Cut(items2, items)
  PROVE  OnTheWay(data2, items2, SizeAfter(first, items[1].msg), last, part2, hd2)
<1>. DEFINE n == Len(items)
            ids2 == [i \in 1..(n - 1) |-> ids[i + 1]]
            sizes2 == [i \in 1..n |-> sizes[i + 1]]
            strips2 == Tail(strips)
            first2 == SizeAfter(first, items[1].msg)
<1>1. /\ IsSeq(items) /\ n \in Nat \ {0} /\ sizes[1] = first /\ sizes[n + 1] = last
      /\ AllSeqs(strips) /\ IsSeq(strips) /\ Len(strips) = n
      /\ strips # <<>>
  BY SeqLen DEF Wire, AllSeqs
<1>. HIDE DEF n
<1>2. /\ IsSeq(items2) /\ Len(items2) = n - 1 /\ \A i \in 1..(n - 1) : items2[i] = items[i + 1]
      /\ items2 = <<>> <=> n - 1 = 0
  BY <1>1, SeqTail, SeqLen DEF n, Cut
<1>3. /\ IsSeq(strips2) /\ Len(strips2) = n - 1 /\ \A i \in 1..(n - 1) : strips2[i] = strips[i + 1]
      /\ AllSeqs(strips2)
  BY <1>1, SeqTail, FlattenHead
<1>4. /\ \A i \in 1..(n - 1) : ids2[i] = ids[i + 1] /\ i \in 1..n /\ i + 1 \in 1..n /\ i + 1 # 1
      /\ \A i \in 1..n : sizes2[i] = sizes[i + 1] /\ i + 1 \in 1..(n + 1)
  BY <1>1
<1>. HIDE DEF ids2, sizes2, strips2
<1>5. \A i \in 1..(n - 1) : Sound(items2[i].msg) /\ ids2[i] \in Nat /\ ids2[i] >= 3
  <2>1. \A i \in 1..n : Sound(items[i].msg) /\ ids[i] \in Nat /\ ids[i] >= 3
    BY DEF Wire, n
  <2>. QED  BY <1>2, <1>4, <2>1
<1>6. \A i \in 1..n : sizes2[i] \in Sizes
  <2>1. \A i \in 1..(n + 1) : sizes[i] \in Sizes
    BY DEF Wire, n
  <2>. QED  BY <1>4, <2>1
<1>7. \A i \in 1..n : sizes[i + 1] = SizeAfter(sizes[i], items[i].msg)
  BY DEF Wire, n
<1>8. sizes2[1] = first2 /\ sizes2[n] = last
  <2>1. 1 \in 1..n /\ n \in 1..n
    BY <1>1
  <2>2. sizes2[1] = sizes[1 + 1] /\ sizes2[n] = sizes[n + 1]
    BY <1>4, <2>1
  <2>3. sizes[1 + 1] = SizeAfter(sizes[1], items[1].msg)
    BY <1>7, <2>1
  <2>. QED  BY <1>1, <2>2, <2>3
<1>9. \A i \in 1..(n - 1) : sizes2[i + 1] = SizeAfter(sizes2[i], items2[i].msg)
  <2>1. ASSUME NEW i \in 1..(n - 1) PROVE sizes2[i + 1] = SizeAfter(sizes2[i], items2[i].msg)
    <3>1. i \in 1..n /\ i + 1 \in 1..n
      BY <1>4
    <3>2. PICK k : k = i + 1
      OBVIOUS
    <3>3. sizes2[k] = sizes[k + 1] /\ sizes2[i] = sizes[k] /\ items2[i] = items[k]
      BY <1>2, <1>4, <3>1, <3>2
    <3>4. sizes[k + 1] = SizeAfter(sizes[k], items[k].msg)
      BY <1>7, <3>1, <3>2
    <3>. QED  BY <3>2, <3>3, <3>4
  <2>. QED  BY <2>1
<1>10. \A i \in 1..(n - 1) :
         strips2[i] = Remaining(ids2[i], sizes2[i], items2[i].msg, IF i = 1 THEN 0 ELSE 0)
  <2>1. \A i \in 1..n : strips[i] = Remaining(ids[i], sizes[i], items[i].msg, IF i = 1 THEN read ELSE 0)
    BY DEF Wire, n
  <2>2. \A i \in 1..n : i # 1 => strips[i] = Remaining(ids[i], sizes[i], items[i].msg, 0)
    BY <2>1
  <2>3. ASSUME NEW i \in 1..(n - 1)
        PROVE  strips2[i] = Remaining(ids2[i], sizes2[i], items2[i].msg, 0)
    <3>1. i \in 1..n /\ i + 1 \in 1..n /\ i + 1 # 1
      BY <1>4
    <3>2. PICK k : k = i + 1
      OBVIOUS
    <3>3. strips2[i] = strips[k] /\ ids2[i] = ids[k] /\ sizes2[i] = sizes[k] /\ items2[i] = items[k]
      BY <1>2, <1>3, <1>4, <3>1, <3>2
    <3>4. strips[k] = Remaining(ids[k], sizes[k], items[k].msg, 0)
      BY <2>2, <3>1, <3>2
    <3>. QED  BY <3>3, <3>4
  <2>. QED  BY <2>3
<1>11. \A id : Held(part2, id) = <<>>
  <2>1. \A id : id # ids[1] => Held(part, id) = <<>>
    BY DEF Wire
  <2>. QED  BY <2>1 DEF Cleared
<1>12. (n - 1) + 1 = n /\ Len(items2) = n - 1 /\ first2 = SizeAfter(first, items[1].msg)
  BY <1>1, <1>2
<1>13. PICK zero : zero = 0
  OBVIOUS
<1>14. items2 # <<>> =>
         /\ zero < NumChunks(Length(items2[1]), sizes2[1])
         /\ \A id : Held(part2, id) = IF id = ids2[1]
                                      THEN SubSeq(items2[1].msg.payload, 1, zero * sizes2[1]) ELSE <<>>
  <2>1. ASSUME items2 # <<>>
        PROVE  /\ zero < NumChunks(Length(items2[1]), sizes2[1])
               /\ SubSeq(items2[1].msg.payload, 1, zero * sizes2[1]) = <<>>
    <3>1. 1 \in 1..(n - 1) /\ 1 \in 1..n
      BY <1>1, <1>2, <2>1
    <3>2. Sound(items2[1].msg) /\ sizes2[1] \in Nat \ {0}
      BY <1>5, <1>6, <3>1, SizesFacts
    <3>3. NumChunks(Length(items2[1]), sizes2[1]) \in Nat \ {0}
      BY <3>2, ChunksOfMessage DEF Length
    <3>4. PICK c, s : c = NumChunks(Length(items2[1]), sizes2[1]) /\ s = sizes2[1]
      OBVIOUS
    <3>5. c \in Nat \ {0} /\ s \in Nat
      BY <3>2, <3>3, <3>4
    <3>6. zero < c /\ zero * s = 0
      BY <1>13, <3>5
    <3>7. SubSeq(items2[1].msg.payload, 1, zero * s) = <<>>
      BY <3>6, SubSeqEmpty
    <3>. QED  BY <3>4, <3>6, <3>7
  <2>2. ASSUME items2 # <<>>, NEW id
        PROVE  Held(part2, id) = IF id = ids2[1]
                                 THEN SubSeq(items2[1].msg.payload, 1, zero * sizes2[1]) ELSE <<>>
    BY <1>11, <2>1, <2>2
  <2>. QED  BY <2>1, <2>2
<1>15. Wire(data2, items2, first2, last, part2, hd2, ids2, sizes2, strips2, zero)
  <2>1. /\ IsSeq(items2)
        /\ \A i \in 1..Len(items2) : Sound(items2[i].msg) /\ ids2[i] \in Nat /\ ids2[i] >= 3
        /\ \A i \in 1..(Len(items2) + 1) : sizes2[i] \in Sizes
    BY <1>2, <1>5, <1>6, <1>12
  <2>2. sizes2[1] = first2 /\ sizes2[Len(items2) + 1] = last
    BY <1>8, <1>12
  <2>3. \A i \in 1..Len(items2) : sizes2[i + 1] = SizeAfter(sizes2[i], items2[i].msg)
    BY <1>9, <1>12
  <2>4. AllSeqs(strips2) /\ Len(strips2) = Len(items2) /\ data2 = FlattenSeq(strips2)
    BY <1>3, <1>12 DEF strips2
  <2>5. \A i \in 1..Len(items2) :
          strips2[i] = Remaining(ids2[i], sizes2[i], items2[i].msg, IF i = 1 THEN zero ELSE 0)
    BY <1>10, <1>12, <1>13
  <2>6. zero \in Nat /\ ~(zero > 0) /\ zero = 0
    BY <1>13
  <2>. QED  BY <1>11, <1>14, <2>1, <2>2, <2>3, <2>4, <2>5, <2>6 DEF Wire
<1>. QED  BY <1>15 DEF OnTheWay

Early(items) == \A i \in 1..Len(items) : items[i].msg.ts = 0
WireInv ==
  /\ chunkSize \in ClientChunkSizes
  /\ OnTheWay(toServer, unread, inSize, SizeNow, partial, heads)
  /\ ~Running => Early(unread)
  /\ ReceivedAsSent

ReadMessage == RTMPMessage(ServerHead.ts, ServerHead.type, ServerHead.stream, ReadNow)
Put(f, k, v) == [i \in DOMAIN f \union {k} |-> IF i = k THEN v ELSE f[i]]
LosesIt == LosesTrack \/ \E i \in DOMAIN ReadNow : ReadNow[i][1] \in HeaderFields
Reads ==
  /\ toServer' = ReadRest /\ heads' = Put(heads, ServerHead.id, ServerHead) /\ UNCHANGED lost
  /\ IF Len(ReadNow) < ServerHead.length
     THEN partial' = Put(partial, ServerHead.id, ReadNow) /\ UNCHANGED <<unread, inSize, got>>
     ELSE /\ partial' = Put(partial, ServerHead.id, <<>>)
          /\ got' = [written |-> Head(unread).msg, from |-> Head(unread).from,
                     assembled |-> ReadMessage]
          /\ unread' = Tail(unread)
          /\ inSize' = IF ServerHead.type = PROTOSETCHUNKSIZE THEN ReadNow[1][2] ELSE inSize

LEMMA ReadUnfolds ==
  ASSUME ServerReadsChunk
  PROVE  /\ toServer # <<>> /\ ~lost /\ UNCHANGED messenger
         /\ LosesIt => lost' = TRUE /\ UNCHANGED <<toServer, unread, inSize, heads, partial, got>>
         /\ ~LosesIt => Reads
<1>. USE DEF ReadOld, Held, ReadSize, ReadNow, ReadRest, ReadMessage, Put
<1>1. toServer # <<>> /\ ~lost /\ UNCHANGED messenger
  BY DEF ServerReadsChunk
<1>2. ASSUME LosesIt
      PROVE  lost' = TRUE /\ UNCHANGED <<toServer, unread, inSize, heads, partial, got>>
  BY <1>2, Zenon DEF ServerReadsChunk, LosesIt
<1>3. ASSUME ~LosesIt PROVE Reads
  BY <1>3, Zenon DEF ServerReadsChunk, LosesIt, Reads
<1>. QED  BY <1>1, <1>2, <1>3

LEMMA PutFacts ==
  ASSUME NEW f, NEW k, NEW v
  PROVE  /\ k \in DOMAIN Put(f, k, v) /\ Put(f, k, v)[k] = v
         /\ \A id : Held(Put(f, k, v), id) = IF id = k THEN v ELSE Held(f, id)
BY DEF Put, Held

LEMMA MessengerIdle ==
  ASSUME UNCHANGED messenger
  PROVE  chunkSize' = chunkSize /\ SizeNow' = SizeNow /\ (Running' <=> Running)
BY DEF messenger, SizeNow, Running

LEMMA ReadLoses ==
  ASSUME WireInv, ServerReadsChunk, LosesIt
  PROVE  WireInv'
<1>1. /\ toServer # <<>> /\ lost' = TRUE /\ UNCHANGED messenger
      /\ UNCHANGED <<toServer, unread, inSize, heads, partial, got>>
  BY ReadUnfolds
<1>2. PICK ids, sizes, strips, read :
        Wire(toServer, unread, inSize, SizeNow, partial, heads, ids, sizes, strips, read)
  BY DEF WireInv, OnTheWay
<1>3. unread # <<>>
  BY <1>1, <1>2, NothingSent
<1>4. unread[1].msg.ts = ExtendedStamp
  <2>1. SUFFICES ASSUME unread[1].msg.ts # ExtendedStamp PROVE FALSE
    OBVIOUS
  <2>2. /\ ~LosesTrack /\ ReadNow = SubSeq(unread[1].msg.payload, 1, ReadTo(read))
        /\ ReadTo(read) \in 1..Length(unread[1])
    BY <1>2, <1>3, <2>1, ReadHead
  <2>3. Sound(unread[1].msg)
    BY <1>2, <1>3, WireFirst
  <2>4. ~ \E i \in DOMAIN ReadNow : ReadNow[i][1] \in HeaderFields
    BY <2>2, <2>3, ReadPlain DEF Length
  <2>. QED  BY <2>2, <2>4 DEF LosesIt
<1>5. Head(unread) = unread[1]
  BY <1>2, <1>3, WireFirst
<1>6. ReceivedAsSent'
  BY <1>1, <1>3, <1>4, <1>5 DEF WireInv, ReceivedAsSent
<1>. QED  BY <1>1, <1>6, MessengerIdle DEF WireInv

LEMMA ReadKeeps ==
  ASSUME WireInv, ServerReadsChunk, ~LosesIt
  PROVE  WireInv'
<1>1. /\ toServer # <<>> /\ ~lost /\ UNCHANGED messenger /\ Reads
  BY ReadUnfolds
<1>2. PICK ids, sizes, strips, read :
        Wire(toServer, unread, inSize, SizeNow, partial, heads, ids, sizes, strips, read)
  BY DEF WireInv, OnTheWay
<1>3. unread # <<>>
  BY <1>1, <1>2, NothingSent
<1>. DEFINE msg == unread[1].msg
<1>4. msg.ts # ExtendedStamp
  BY <1>2, <1>3, ReadLost DEF LosesIt
<1>5. /\ Len(unread) \in Nat \ {0} /\ Head(unread) = unread[1] /\ Sound(msg)
      /\ inSize \in Nat \ {0} /\ read \in Nat /\ read < NumChunks(Length(unread[1]), inSize)
  BY <1>2, <1>3, WireFirst
<1>6. /\ ServerHead.id = ids[1] /\ ServerHead.ts = msg.ts
      /\ ServerHead.length = Length(unread[1])
      /\ ServerHead.type = msg.type /\ ServerHead.stream = msg.stream
      /\ ServerHead.extends <=> msg.ts > ExtendedStamp
      /\ ReadNow = SubSeq(msg.payload, 1, ReadTo(read))
      /\ ReadRest = Behind(ids, strips, read)
      /\ ReadTo(read) \in 1..Length(unread[1])
  BY <1>2, <1>3, <1>4, ReadHead
<1>7. IsSeq(ReadNow) /\ Len(ReadNow) = ReadTo(read)
  <2>1. PICK n, m : n = ReadTo(read) /\ m = msg
    OBVIOUS
  <2>2. Sound(m) /\ n \in 1..Len(m.payload) /\ ReadNow = SubSeq(m.payload, 1, n)
    BY <1>5, <1>6, <2>1 DEF Length
  <2>. QED  BY <2>1, <2>2, ReadPlain
<1>8. IsSeq(msg.payload) /\ Length(unread[1]) \in Nat \ {0}
  BY <1>5, SoundFacts DEF Length
<1>9. /\ ids[1] \in DOMAIN heads' /\ heads'[ids[1]] = ServerHead
  BY <1>1, <1>6, PutFacts DEF Reads
<1>10. toServer' = Remaining(ids[1], inSize, msg, read + 1) \o FlattenSeq(Tail(strips))
  BY <1>1, <1>6 DEF Reads, Behind
<1>11. IsSeq(Remaining(ids[1], inSize, msg, read + 1)) /\ AllSeqs(Tail(strips))
       /\ IsSeq(FlattenSeq(Tail(strips)))
  BY <1>2, <1>3, WireHead
<1>12. (read + 1) * inSize \in Nat
  BY <1>5
<1>13. read + 1 < NumChunks(Length(unread[1]), inSize) <=> (read + 1) * inSize < Length(unread[1])
  <2>1. read + 1 \in Nat
    BY <1>5
  <2>. QED  BY <1>5, <1>8, <2>1, NumFacts
<1>14. NumChunks(Length(unread[1]), inSize) \in Nat
  BY <1>5, <1>8, NumFacts
<1>. HIDE DEF msg
<1>15. CASE Len(ReadNow) < ServerHead.length
  <2>1. ReadTo(read) < Length(unread[1])
    BY <1>6, <1>7, <1>15
  <2>2. ReadTo(read) = (read + 1) * inSize /\ (read + 1) * inSize < Length(unread[1])
    <3>1. PICK a, b : a = (read + 1) * inSize /\ b = Length(unread[1])
      OBVIOUS
    <3>2. a \in Nat /\ b \in Nat /\ Least(a, b) < b
      BY <1>8, <1>12, <2>1, <3>1 DEF ReadTo
    <3>3. Least(a, b) = a /\ a < b
      BY <3>2 DEF Least
    <3>. QED  BY <3>1, <3>3 DEF ReadTo
  <2>3. read + 1 < NumChunks(Length(unread[1]), inSize)
    BY <1>13, <2>2
  <2>4. partial' = Put(partial, ids[1], ReadNow) /\ UNCHANGED <<unread, inSize, got, lost>>
    BY <1>1, <1>6, <1>15 DEF Reads
  <2>5. \A id : Held(partial', id) = IF id = ids[1]
                                     THEN SubSeq(msg.payload, 1, (read + 1) * inSize)
                                     ELSE Held(partial, id)
    BY <1>6, <2>2, <2>4, PutFacts
  <2>6. OnTheWay(toServer', unread, inSize, SizeNow, partial', heads')
    <3>1. PICK part2, hd2, data2 : part2 = partial' /\ hd2 = heads' /\ data2 = toServer'
      OBVIOUS
    <3>2. /\ ids[1] \in DOMAIN hd2 /\ hd2[ids[1]].ts = msg.ts
          /\ hd2[ids[1]].length = Length(unread[1])
          /\ hd2[ids[1]].type = msg.type /\ hd2[ids[1]].stream = msg.stream
          /\ hd2[ids[1]].extends <=> msg.ts > ExtendedStamp
      BY <1>6, <1>9, <3>1
    <3>4. PICK data, items, first, last, part, hd :
            /\ data = toServer /\ items = unread /\ first = inSize /\ last = SizeNow
            /\ part = partial /\ hd = heads
      OBVIOUS
    <3>5. /\ Wire(data, items, first, last, part, hd, ids, sizes, strips, read)
          /\ items # <<>> /\ items[1].msg = msg /\ msg.ts # ExtendedStamp
      BY <1>2, <1>3, <1>4, <3>4 DEF msg
    <3>6. /\ read + 1 < NumChunks(Length(items[1]), first)
          /\ \A id : Held(part2, id) = IF id = ids[1]
                                       THEN SubSeq(items[1].msg.payload, 1, (read + 1) * first)
                                       ELSE Held(part, id)
          /\ IsSeq(Remaining(ids[1], first, items[1].msg, read + 1))
          /\ data2 = Remaining(ids[1], first, items[1].msg, read + 1) \o FlattenSeq(Tail(strips))
      BY <1>10, <1>11, <2>3, <2>5, <3>1, <3>4, <3>5
    <3>7. /\ ids[1] \in DOMAIN hd2 /\ hd2[ids[1]].ts = items[1].msg.ts
          /\ hd2[ids[1]].length = Length(items[1])
          /\ hd2[ids[1]].type = items[1].msg.type /\ hd2[ids[1]].stream = items[1].msg.stream
          /\ hd2[ids[1]].extends <=> items[1].msg.ts > ExtendedStamp
      BY <3>2, <3>4, <3>5
    <3>8. OnTheWay(data2, items, first, last, part2, hd2)
      BY <3>5, <3>6, <3>7, WireMiddle
    <3>. QED  BY <3>1, <3>4, <3>8
  <2>. QED  BY <1>1, <2>4, <2>6, MessengerIdle DEF WireInv, ReceivedAsSent
<1>16. CASE ~(Len(ReadNow) < ServerHead.length)
  <2>1. ~(ReadTo(read) < Length(unread[1]))
    BY <1>6, <1>7, <1>16
  <2>2. ReadTo(read) = Length(unread[1]) /\ ~((read + 1) * inSize < Length(unread[1]))
    <3>1. PICK a, b : a = (read + 1) * inSize /\ b = Length(unread[1])
      OBVIOUS
    <3>2. a \in Nat /\ b \in Nat /\ ~(Least(a, b) < b)
      BY <1>8, <1>12, <2>1, <3>1 DEF ReadTo
    <3>3. Least(a, b) = b /\ ~(a < b)
      BY <3>2 DEF Least
    <3>. QED  BY <3>1, <3>3 DEF ReadTo
  <2>3. read + 1 = NumChunks(Length(unread[1]), inSize)
    BY <1>5, <1>13, <1>14, <2>2
  <2>4. ReadNow = msg.payload
    <3>1. Len(ReadNow) = Len(msg.payload) /\ \A i \in 1..Len(ReadNow) : ReadNow[i] = msg.payload[i]
      BY <1>5, <1>6, <1>7, <2>2, ReadPlain DEF Length, msg
    <3>. QED  BY <1>7, <1>8, <3>1, SeqSame
  <2>5. Remaining(ids[1], inSize, msg, read + 1) = <<>>
    <3>1. PICK m, size, j, id : m = msg /\ size = inSize /\ j = read + 1 /\ id = ids[1]
      OBVIOUS
    <3>2. /\ IsSeq(m.payload) /\ size \in Nat \ {0} /\ j \in Nat /\ id \in Nat /\ id >= 3
          /\ j = NumChunks(Len(m.payload), size) /\ j <= NumChunks(Len(m.payload), size)
      <4>1. ids[1] \in Nat /\ ids[1] >= 3
        BY <1>2, <1>3, WireFirst
      <4>. QED  BY <1>5, <1>8, <2>3, <3>1, <4>1 DEF Length, msg
    <3>4. IsSeq(m.payload) /\ size \in Nat \ {0} /\ id \in Nat /\ id >= 2
      BY <3>2
    <3>3. Remaining(id, size, m, j) = <<>>
      BY <3>2, <3>4, RemainingFacts
    <3>. QED  BY <3>1, <3>3
  <2>6. toServer' = FlattenSeq(Tail(strips))
    BY <1>10, <1>11, <2>5, SeqEmpty
  <2>7. /\ partial' = Put(partial, ids[1], <<>>)
        /\ got' = [written |-> msg, from |-> unread[1].from, assembled |-> ReadMessage]
        /\ unread' = Tail(unread) /\ UNCHANGED lost
        /\ inSize' = SizeAfter(inSize, msg)
    <3>1. inSize' = IF ServerHead.type = PROTOSETCHUNKSIZE THEN ReadNow[1][2] ELSE inSize
      BY <1>1, <1>16 DEF Reads
    <3>2. inSize' = SizeAfter(inSize, msg)
      BY <1>6, <2>4, <3>1 DEF SizeAfter
    <3>. QED  BY <1>1, <1>5, <1>6, <1>16, <3>2 DEF Reads, msg
  <2>8. ReadMessage = msg
    BY <1>5, <1>6, <2>4 DEF Sound, ReadMessage
  <2>9. ReceivedAsSent'
    BY <1>1, <2>7, <2>8 DEF ReceivedAsSent
  <2>10. OnTheWay(toServer', unread', inSize', SizeNow, partial', heads')
    <3>1. PICK part2, hd2, data2, items2 :
            part2 = partial' /\ hd2 = heads' /\ data2 = toServer' /\ items2 = unread'
      OBVIOUS
    <3>2. \A id : Held(part2, id) = IF id = ids[1] THEN <<>> ELSE Held(partial, id)
      BY <2>7, <3>1, PutFacts
    <3>4. PICK data, items, first, last, part, hd :
            /\ data = toServer /\ items = unread /\ first = inSize /\ last = SizeNow
            /\ part = partial /\ hd = heads
      OBVIOUS
    <3>5. /\ Wire(data, items, first, last, part, hd, ids, sizes, strips, read)
          /\ items # <<>> /\ items[1].msg = msg /\ msg.ts # ExtendedStamp
      BY <1>2, <1>3, <1>4, <3>4 DEF msg
    <3>6. /\ Cleared(part2, part, ids[1])
          /\ data2 = FlattenSeq(Tail(strips)) /\ Cut(items2, items)
      BY <2>6, <2>7, <3>1, <3>2, <3>4 DEF Cut, Cleared
    <3>7. OnTheWay(data2, items2, SizeAfter(first, items[1].msg), last, part2, hd2)
      BY <3>5, <3>6, WireLast
    <3>. QED  BY <2>7, <3>1, <3>4, <3>5, <3>7
  <2>11. ~Running' => Early(unread')
    <3>1. ~Running' => Early(unread)
      BY <1>1, MessengerIdle DEF WireInv
    <3>2. /\ IsSeq(unread) /\ Len(unread') = Len(unread) - 1
          /\ \A i \in 1..(Len(unread) - 1) : unread'[i] = unread[i + 1]
      BY <1>2, <1>3, <2>7, SeqTail DEF Wire
    <3>3. \A i \in 1..(Len(unread) - 1) : i + 1 \in 1..Len(unread)
      BY <1>5
    <3>. QED  BY <3>1, <3>2, <3>3 DEF Early
  <2>. QED  BY <1>1, <2>9, <2>10, <2>11, MessengerIdle DEF WireInv
<1>. QED  BY <1>15, <1>16
----------------------------------------------------------------------------
(* No cell of a payload is taken for a field of a header.                     *)

\* Cells of a payload: none is taken for a field of a header.
Plain(cells) == IsSeq(cells) /\ \A i \in 1..Len(cells) : cells[i][1] \notin HeaderFields
PlainCells(S) == \A c \in S : c[1] \notin HeaderFields

LEMMA PlainTyped == ASSUME NEW S, PlainCells(S), NEW s \in Seq(S) PROVE Plain(s)
<1>1. IsSeq(s) /\ Len(s) \in Nat /\ \A i \in 1..Len(s) : s[i] \in S
  BY SeqIsSeq, LenProperties, ElementOfSeq
<1>. QED  BY <1>1 DEF Plain, PlainCells

LEMMA PlainConcat == ASSUME NEW s, NEW t, Plain(s), Plain(t) PROVE Plain(s \o t)
<1>1. /\ IsSeq(s \o t) /\ Len(s \o t) = Len(s) + Len(t)
      /\ \A i \in 1..Len(s) : (s \o t)[i] = s[i]
      /\ \A i \in 1..Len(t) : (s \o t)[Len(s) + i] = t[i]
  BY SeqConcat DEF Plain
<1>2. Len(s) \in Nat /\ Len(t) \in Nat
  BY SeqLen DEF Plain
<1>3. PICK u : u = s \o t
  OBVIOUS
<1>4. ASSUME NEW i \in 1..Len(u) PROVE u[i][1] \notin HeaderFields
  <2>1. CASE i \in 1..Len(s)
    BY <1>1, <1>3, <2>1 DEF Plain
  <2>2. CASE i \notin 1..Len(s)
    <3>1. i - Len(s) \in 1..Len(t) /\ Len(s) + (i - Len(s)) = i
      BY <1>1, <1>2, <1>3, <2>2
    <3>2. u[Len(s) + (i - Len(s))] = t[i - Len(s)]
      BY <1>1, <1>3, <3>1
    <3>. QED  BY <3>1, <3>2 DEF Plain
  <2>. QED  BY <2>1, <2>2
<1>. QED  BY <1>1, <1>3, <1>4 DEF Plain

AllPlain(s) == IsSeq(s) /\ \A i \in 1..Len(s) : Plain(s[i])

LEMMA PlainFlatten == ASSUME NEW s, AllPlain(s) PROVE Plain(FlattenSeq(s))
<1>. DEFINE S == UNION {{s[i][j] : j \in 1..Len(s[i])} : i \in 1..Len(s)}
<1>1. AllSeqs(s)
  BY DEF AllPlain, AllSeqs, Plain
<1>2. ASSUME NEW i \in 1..Len(s) PROVE s[i] \in Seq(S)
  <2>1. IsSeq(s[i]) /\ \A j \in 1..Len(s[i]) : s[i][j] \in S
    BY DEF AllPlain, Plain
  <2>. HIDE DEF S
  <2>. QED  BY <2>1, SeqTyped
<1>3. PlainCells(S)
  BY DEF PlainCells, AllPlain, Plain
<1>. HIDE DEF S
<1>4. FlattenSeq(s) \in Seq(S)
  BY <1>1, <1>2, FlattenTyped
<1>. QED  BY <1>3, <1>4, PlainTyped

LEMMA PlainSub ==
  ASSUME NEW s, Plain(s), NEW m \in Nat \ {0}, NEW n \in Int, n <= Len(s)
  PROVE  Plain(SubSeq(s, m, n))
<1>0. Len(s) \in Nat
  BY SeqLen DEF Plain
<1>1. CASE m <= n
  <2>1. n \in 0..Len(s) /\ m <= n + 1
    BY <1>0, <1>1
  <2>2. /\ IsSeq(SubSeq(s, m, n)) /\ Len(SubSeq(s, m, n)) = n - m + 1
        /\ \A i \in 1..(n - m + 1) : SubSeq(s, m, n)[i] = s[m + i - 1]
    BY <2>1, SeqSub DEF Plain
  <2>3. \A i \in 1..(n - m + 1) : m + i - 1 \in 1..Len(s)
    BY <1>0, <1>1
  <2>4. PICK t : t = SubSeq(s, m, n)
    OBVIOUS
  <2>5. Plain(t)
    BY <2>2, <2>3, <2>4 DEF Plain
  <2>. QED  BY <2>4, <2>5
<1>2. CASE ~(m <= n)
  <2>1. SubSeq(s, m, n) = <<>>
    BY <1>2, SubSeqEmpty
  <2>. QED  BY <2>1, SeqEmpty DEF Plain
<1>. QED  BY <1>1, <1>2

LEMMA PlainNone == Plain(<<>>)
  BY SeqEmpty DEF Plain
LEMMA PlainOne == ASSUME NEW c, c[1] \notin HeaderFields PROVE Plain(<<c>>)
<1>1. <<c>> \in Seq({c}) /\ PlainCells({c})
  BY DEF PlainCells
<1>. QED  BY <1>1, PlainTyped
LEMMA PlainTwo ==
  ASSUME NEW c, c[1] \notin HeaderFields, NEW d, d[1] \notin HeaderFields PROVE Plain(<<c, d>>)
<1>1. <<c, d>> \in Seq({c, d}) /\ PlainCells({c, d})
  BY DEF PlainCells
<1>. QED  BY <1>1, PlainTyped
LEMMA PlainThree ==
  ASSUME NEW c, c[1] \notin HeaderFields, NEW d, d[1] \notin HeaderFields,
         NEW e, e[1] \notin HeaderFields
  PROVE  Plain(<<c, d, e>>)
<1>1. <<c, d, e>> \in Seq({c, d, e}) /\ PlainCells({c, d, e})
  BY DEF PlainCells
<1>. QED  BY <1>1, PlainTyped

LEMMA NameIsPlain == ASSUME NEW str PROVE Plain(EncodeName(str)) /\ EncodeName(str) # <<>>
<1>1. PICK n : n = Len(str)
  OBVIOUS
<1>2. Plain(<<<<"strlen", 0>>>>) /\ Plain(<<<<"strlen", n>>, <<"chars", str>>>>)
  BY PlainOne, PlainTwo DEF HeaderFields
<1>. QED  BY <1>1, <1>2 DEF EncodeName

Scalars == {"String", "Number", "Boolean", "Null"}

LEMMA PropertyIsPlain ==
  ASSUME NEW entity, entity[1] \in Scalars
  PROVE  Plain(EncodeProperty(entity)) /\ EncodeProperty(entity) # <<>>
<1>1. /\ Plain(<<Marker("String")>>) /\ Plain(<<Marker("Null")>>)
      /\ \A c : Plain(<<Marker("Number"), <<"fprep", c>>>>)
      /\ \A c : Plain(<<Marker("Boolean"), <<"byte", c>>>>)
  BY PlainOne, PlainTwo DEF HeaderFields, Marker
<1>2. CASE entity[1] = "String"
  <2>1. PICK a, b : a = <<Marker("String")>> /\ b = EncodeName(entity[2])
    OBVIOUS
  <2>2. Plain(a) /\ Plain(b) /\ Len(a) = 1
    BY <1>1, <2>1, NameIsPlain
  <2>3. Plain(a \o b) /\ Len(a \o b) # 0
    BY <2>2, PlainConcat, SeqConcat, SeqLen DEF Plain
  <2>4. a \o b # <<>>
    BY <2>3, SeqLen DEF Plain
  <2>5. EncodeProperty(entity) = a \o b
    BY <1>2, <2>1 DEF EncodeProperty, EncodeString
  <2>. QED  BY <2>3, <2>4, <2>5
<1>3. CASE entity[1] = "Number"
  <2>1. PICK c : c = FromDoubleToFPRep(entity[2])
    OBVIOUS
  <2>2. EncodeProperty(entity) = <<Marker("Number"), <<"fprep", c>>>>
    BY <1>3, <2>1 DEF EncodeProperty, EncodeNumber
  <2>. QED  BY <1>1, <2>2
<1>4. CASE entity[1] = "Boolean"
  <2>1. PICK c : c = IF entity[2] THEN 1 ELSE 0
    OBVIOUS
  <2>2. EncodeProperty(entity) = <<Marker("Boolean"), <<"byte", c>>>>
    BY <1>4, <2>1 DEF EncodeProperty, EncodeBoolean
  <2>. QED  BY <1>1, <2>2
<1>5. CASE entity[1] = "Null"
  BY <1>1, <1>5 DEF EncodeProperty, EncodeNull
<1>. QED  BY <1>2, <1>3, <1>4, <1>5 DEF Scalars

\* Properties of an object and entities of a message, as the messages have them.
Props(props) == \E S : props \in Seq(S) /\ \A p \in S : p[2][1] \in Scalars
Entity(e) == e[1] \in Scalars \/ (e[1] = "Object" /\ Props(e[2]))
Entities(es) == \E S : es \in Seq(S) /\ \A e \in S : Entity(e)

LEMMA PropsConcat == ASSUME NEW s, NEW t, Props(s), Props(t) PROVE Props(s \o t)
<1>1. PICK S : s \in Seq(S) /\ \A p \in S : p[2][1] \in Scalars
  BY DEF Props
<1>2. PICK T : t \in Seq(T) /\ \A p \in T : p[2][1] \in Scalars
  BY DEF Props
<1>3. PICK U : U = S \union T
  OBVIOUS
<1>4. s \in Seq(U) /\ t \in Seq(U) /\ \A p \in U : p[2][1] \in Scalars
  BY <1>1, <1>2, <1>3, SeqMonotonic
<1>5. s \o t \in Seq(U)
  BY <1>4, ConcatProperties
<1>. QED  BY <1>4, <1>5 DEF Props

LEMMA EntitiesConcat == ASSUME NEW s, NEW t, Entities(s), Entities(t) PROVE Entities(s \o t)
<1>1. PICK S : s \in Seq(S) /\ \A e \in S : Entity(e)
  BY DEF Entities
<1>2. PICK T : t \in Seq(T) /\ \A e \in T : Entity(e)
  BY DEF Entities
<1>3. PICK U : U = S \union T
  OBVIOUS
<1>4. s \in Seq(U) /\ t \in Seq(U) /\ \A e \in U : Entity(e)
  BY <1>1, <1>2, <1>3, SeqMonotonic
<1>5. s \o t \in Seq(U)
  BY <1>4, ConcatProperties
<1>. QED  BY <1>4, <1>5 DEF Entities

LEMMA EntitiesOne == ASSUME NEW d, Entity(d) PROVE Entities(<<d>>)
<1>1. PICK s, S : s = <<d>> /\ S = {d}
  OBVIOUS
<1>2. s \in Seq(S) /\ \A e \in S : Entity(e)
  BY <1>1
<1>3. Entities(s)
  BY <1>2 DEF Entities
<1>. QED  BY <1>1, <1>3
LEMMA EntitiesTwo == ASSUME NEW c, Entity(c), NEW d, Entity(d) PROVE Entities(<<c, d>>)
<1>1. PICK s, S : s = <<c, d>> /\ S = {c, d}
  OBVIOUS
<1>2. s \in Seq(S) /\ \A e \in S : Entity(e)
  BY <1>1
<1>3. Entities(s)
  BY <1>2 DEF Entities
<1>. QED  BY <1>1, <1>3
LEMMA EntitiesThree ==
  ASSUME NEW b, Entity(b), NEW c, Entity(c), NEW d, Entity(d) PROVE Entities(<<b, c, d>>)
<1>1. PICK s, S : s = <<b, c, d>> /\ S = {b, c, d}
  OBVIOUS
<1>2. s \in Seq(S) /\ \A e \in S : Entity(e)
  BY <1>1
<1>3. Entities(s)
  BY <1>2 DEF Entities
<1>. QED  BY <1>1, <1>3

LEMMA ObjectIsPlain ==
  ASSUME NEW props, Props(props)
  PROVE  Plain(EncodeObject(props)) /\ EncodeObject(props) # <<>>
<1>. DEFINE parts == [i \in DOMAIN props |-> EncodeName(props[i][1]) \o EncodeProperty(props[i][2])]
<1>1. PICK S : props \in Seq(S) /\ \A p \in S : p[2][1] \in Scalars
  BY DEF Props
<1>2. Len(props) \in Nat /\ DOMAIN props = 1..Len(props) /\ \A i \in 1..Len(props) : props[i] \in S
  BY <1>1, LenProperties, ElementOfSeq
<1>3. DOMAIN parts = 1..Len(props) /\ parts = [i \in 1..Len(props) |-> parts[i]]
  BY <1>2
<1>4. ASSUME NEW i \in 1..Len(props) PROVE Plain(parts[i])
  <2>1. parts[i] = EncodeName(props[i][1]) \o EncodeProperty(props[i][2])
    BY <1>2
  <2>2. Plain(EncodeName(props[i][1])) /\ Plain(EncodeProperty(props[i][2]))
    BY <1>1, <1>2, NameIsPlain, PropertyIsPlain
  <2>3. PICK a, b : a = EncodeName(props[i][1]) /\ b = EncodeProperty(props[i][2])
    OBVIOUS
  <2>4. Plain(a \o b)
    BY <2>2, <2>3, PlainConcat
  <2>. QED  BY <2>1, <2>3, <2>4
<1>. HIDE DEF parts
<1>5. IsSeq(parts) /\ Len(parts) = Len(props)
  BY <1>2, <1>3, SeqMade
<1>6. Plain(FlattenSeq(parts))
  BY <1>4, <1>5, PlainFlatten DEF AllPlain
<1>7. PICK a, b, c, d : /\ a = <<Marker("Object")>> /\ b = FlattenSeq(parts)
                        /\ c = EncodeName("") /\ d = <<Marker("ObjectEnd")>>
  OBVIOUS
<1>8. Plain(a) /\ Plain(b) /\ Plain(c) /\ Plain(d) /\ Len(d) = 1
  BY <1>6, <1>7, NameIsPlain, PlainOne DEF HeaderFields, Marker
<1>9. Plain(a \o b)
  BY <1>8, PlainConcat
<1>10. PICK ab : ab = a \o b
  OBVIOUS
<1>11. Plain(ab \o c)
  BY <1>8, <1>9, <1>10, PlainConcat
<1>12. PICK abc : abc = ab \o c
  OBVIOUS
<1>13. Plain(abc \o d)
  BY <1>8, <1>11, <1>12, PlainConcat
<1>14. Len(abc \o d) = Len(abc) + 1 /\ Len(abc) \in Nat
  <2>1. IsSeq(abc) /\ IsSeq(d) /\ Len(d) = 1
    BY <1>8, <1>11, <1>12 DEF Plain
  <2>2. Len(abc \o d) = Len(abc) + Len(d) /\ Len(abc) \in Nat
    BY <2>1, SeqConcat, SeqLen, Zenon
  <2>. QED  BY <2>1, <2>2
<1>15. abc \o d # <<>>
  BY <1>13, <1>14, SeqLen DEF Plain
<1>16. EncodeObject(props) = abc \o d
  BY <1>7, <1>10, <1>12 DEF EncodeObject, parts
<1>. QED  BY <1>13, <1>15, <1>16

LEMMA EntityIsPlain ==
  ASSUME NEW e, Entity(e) PROVE Plain(EncodeEntity(e)) /\ EncodeEntity(e) # <<>>
<1>1. CASE e[1] = "Object"
  BY <1>1, ObjectIsPlain DEF Entity, EncodeEntity, Scalars
<1>2. CASE e[1] # "Object"
  BY <1>2, PropertyIsPlain DEF Entity, EncodeEntity
<1>. QED  BY <1>1, <1>2

\* What the library encodes can be told from a header.
LEMMA EncodedIsPayload ==
  ASSUME NEW entities, Entities(entities), entities # <<>>
  PROVE  Payload(Encode(entities))
<1>. DEFINE parts == [i \in DOMAIN entities |-> EncodeEntity(entities[i])]
<1>1. PICK S : entities \in Seq(S) /\ \A e \in S : Entity(e)
  BY DEF Entities
<1>2. /\ Len(entities) \in Nat \ {0} /\ DOMAIN entities = 1..Len(entities)
      /\ \A i \in 1..Len(entities) : entities[i] \in S
  BY <1>1, LenProperties, ElementOfSeq, EmptySeq
<1>3. DOMAIN parts = 1..Len(entities) /\ parts = [i \in 1..Len(entities) |-> parts[i]]
  BY <1>2
<1>4. ASSUME NEW i \in 1..Len(entities) PROVE Plain(parts[i]) /\ parts[i] # <<>>
  <2>1. parts[i] = EncodeEntity(entities[i])
    BY <1>2
  <2>. HIDE DEF parts
  <2>. QED  BY <1>1, <1>2, <2>1, EntityIsPlain
<1>. HIDE DEF parts
<1>5. IsSeq(parts) /\ Len(parts) = Len(entities)
  BY <1>2, <1>3, SeqMade
<1>6. AllPlain(parts) /\ AllSeqs(parts) /\ parts # <<>>
  BY <1>2, <1>4, <1>5, SeqLen DEF AllPlain, AllSeqs, Plain
<1>7. Plain(FlattenSeq(parts))
  BY <1>6, PlainFlatten
<1>8. FlattenSeq(parts) # <<>>
  <2>1. PICK a, b : a = parts[1] /\ b = FlattenSeq(Tail(parts))
    OBVIOUS
  <2>2. FlattenSeq(parts) = a \o b /\ IsSeq(b)
    BY <1>6, <2>1, FlattenHead
  <2>3. IsSeq(a) /\ a # <<>>
    <3>1. 1 \in 1..Len(entities)
      BY <1>2
    <3>. QED  BY <1>4, <2>1, <3>1 DEF Plain
  <2>4. Len(a) \in Nat \ {0} /\ Len(b) \in Nat /\ Len(a \o b) = Len(a) + Len(b) /\ IsSeq(a \o b)
    BY <2>2, <2>3, SeqConcat, SeqLen
  <2>5. Len(a \o b) # 0
    BY <2>4
  <2>6. a \o b # <<>>
    BY <2>4, <2>5, SeqLen
  <2>. QED  BY <2>2, <2>6
<1>9. Encode(entities) = FlattenSeq(parts)
  BY DEF Encode, parts
<1>. QED  BY <1>7, <1>8, <1>9 DEF Payload, Plain

LEMMA EntityFacts ==
  /\ \A s : Entity(Str(s))
  /\ \A n : Entity(Num(n))
  /\ Entity(Null) /\ \A b : Entity(<<"Boolean", b>>)
  /\ \A p : Props(p) => Entity(<<"Object", p>>)
BY DEF Entity, Str, Num, Null, Scalars

LEMMA PropsNone == Props(<<>>)
<1>1. PICK s, S : s = <<>> /\ S = {}
  OBVIOUS
<1>2. s \in Seq(S) /\ \A p \in S : p[2][1] \in Scalars
  BY <1>1, EmptySeq
<1>3. Props(s)
  BY <1>2 DEF Props
<1>. QED  BY <1>1, <1>3

LEMMA PropsOne == ASSUME NEW p, p[2][1] \in Scalars PROVE Props(<<p>>)
<1>1. PICK s, S : s = <<p>> /\ S = {p}
  OBVIOUS
<1>2. s \in Seq(S) /\ \A q \in S : q[2][1] \in Scalars
  BY <1>1
<1>3. Props(s)
  BY <1>2 DEF Props
<1>. QED  BY <1>1, <1>3

LEMMA PropsTwo ==
  ASSUME NEW p, p[2][1] \in Scalars, NEW q, q[2][1] \in Scalars PROVE Props(<<p, q>>)
<1>1. PICK s, S : s = <<p, q>> /\ S = {p, q}
  OBVIOUS
<1>2. s \in Seq(S) /\ \A r \in S : r[2][1] \in Scalars
  BY <1>1
<1>3. Props(s)
  BY <1>2 DEF Props
<1>. QED  BY <1>1, <1>3

\* Entities of a message, and something of them.
Message(entities) == Entities(entities) /\ entities # <<>>

LEMMA MessageConcat ==
  ASSUME NEW s, NEW t, Message(s), Entities(t) PROVE Message(s \o t)
<1>1. Entities(s \o t)
  BY EntitiesConcat DEF Message
<1>2. IsSeq(s) /\ IsSeq(t)
  <2>1. PICK S, T : s \in Seq(S) /\ t \in Seq(T)
    BY DEF Message, Entities
  <2>. QED  BY <2>1, SeqIsSeq
<1>3. Len(s) \in Nat \ {0} /\ Len(t) \in Nat /\ Len(s \o t) = Len(s) + Len(t) /\ IsSeq(s \o t)
  BY <1>2, SeqLen, SeqConcat DEF Message
<1>4. Len(s \o t) # 0
  BY <1>3
<1>. QED  BY <1>1, <1>3, <1>4, SeqLen DEF Message

LEMMA CommandIs ==
  ASSUME NEW name, NEW id, NEW args, Entities(args)
  PROVE  Message(AMF0Command(name, id) \o args)
<1>1. PICK a, b : a = Str(name) /\ b = Num(id)
  OBVIOUS
<1>2. Message(<<a, b>>)
  BY <1>1, EntityFacts, EntitiesTwo DEF Message
<1>3. PICK s : s = <<a, b>>
  OBVIOUS
<1>4. Message(s \o args)
  BY <1>2, <1>3, MessageConcat
<1>. QED  BY <1>1, <1>3, <1>4 DEF AMF0Command

LEMMA CommandsAre ==
  /\ \A id, name : Message(Command_ReleaseStream(id, name)) /\ Message(Command_FCPublish(id, name))
  /\ \A id : Message(Command_CreateStream(id))
  /\ \A id, name : Message(Command_PublishStream(id, name))
  /\ \A id : Message(Command_UnpublishStream(id)) /\ Message(Command_CloseStream(id))
<1>1. PICK null : null = Null
  OBVIOUS
<1>2. /\ Entities(<<null>>) /\ \A s : Entities(<<null, Str(s)>>)
      /\ \A s, t : Entities(<<null, Str(s), Str(t)>>)
      /\ Entities(<<null, <<"Boolean", FALSE>>>>)
  <2>1. Entities(<<null>>)
    BY <1>1, EntityFacts, EntitiesOne
  <2>2. ASSUME NEW s PROVE Entities(<<null, Str(s)>>)
    BY <1>1, EntityFacts, EntitiesTwo
  <2>3. ASSUME NEW s, NEW t PROVE Entities(<<null, Str(s), Str(t)>>)
    BY <1>1, EntityFacts, EntitiesThree
  <2>4. Entities(<<null, <<"Boolean", FALSE>>>>)
    BY <1>1, EntityFacts, EntitiesTwo
  <2>. QED  BY <2>1, <2>2, <2>3, <2>4
<1>3. ASSUME NEW id, NEW name
      PROVE  Message(Command_ReleaseStream(id, name)) /\ Message(Command_FCPublish(id, name))
             /\ Message(Command_PublishStream(id, name))
  <2>1. PICK s, t : s = <<null, Str(name)>> /\ t = <<null, Str(name), Str("live")>>
    OBVIOUS
  <2>2. Entities(s) /\ Entities(t)
    BY <1>2, <2>1
  <2>3. /\ Message(AMF0Command("releaseStream", id) \o s)
        /\ Message(AMF0Command("FCPublish", id) \o s)
        /\ Message(AMF0Command("publish", id) \o t)
    BY <2>2, CommandIs
  <2>. QED
    BY <1>1, <2>1, <2>3 DEF Command_ReleaseStream, Command_FCPublish, Command_PublishStream
<1>4. ASSUME NEW id
      PROVE  Message(Command_CreateStream(id)) /\ Message(Command_CloseStream(id))
             /\ Message(Command_UnpublishStream(id))
  <2>1. PICK s, t : s = <<null>> /\ t = <<null, <<"Boolean", FALSE>>>>
    OBVIOUS
  <2>2. Entities(s) /\ Entities(t)
    BY <1>2, <2>1
  <2>3. /\ Message(AMF0Command("createStream", id) \o s)
        /\ Message(AMF0Command("closeStream", id) \o s)
        /\ Message(AMF0Command("publish", id) \o t)
    BY <2>2, CommandIs
  <2>. QED
    BY <1>1, <2>1, <2>3 DEF Command_CreateStream, Command_CloseStream, Command_UnpublishStream
<1>. QED  BY <1>3, <1>4

LEMMA ScalarFacts ==
  /\ \A s : Str(s)[1] \in Scalars
  /\ \A n : Num(n)[1] \in Scalars
  /\ \A n : <<"Number", n>>[1] \in Scalars
BY DEF Str, Num, Scalars

LEMMA ConnectIs == ASSUME NEW id, NEW codecs PROVE Message(Command_Connect(id, codecs))
<1>1. PICK p, a, v : /\ p = <<<<"app", Str("live")>>, <<"tcUrl", Str("rtmp")>>>>
                     /\ a = IF "audioCodecs" \in codecs THEN <<<<"audioCodecs", Num(4)>>>> ELSE <<>>
                     /\ v = IF "videoCodecs" \in codecs THEN <<<<"videoCodecs", Num(8)>>>> ELSE <<>>
  OBVIOUS
<1>2. Props(p) /\ Props(a) /\ Props(v)
  <2>1. Props(<<<<"app", Str("live")>>, <<"tcUrl", Str("rtmp")>>>>)
    BY ScalarFacts, PropsTwo
  <2>2. Props(<<<<"audioCodecs", Num(4)>>>>) /\ Props(<<<<"videoCodecs", Num(8)>>>>)
    BY ScalarFacts, PropsOne
  <2>. QED  BY <1>1, <2>1, <2>2, PropsNone
<1>3. PICK pa : pa = p \o a
  OBVIOUS
<1>4. PICK pav : pav = pa \o v
  OBVIOUS
<1>5. Props(pav)
  BY <1>2, <1>3, <1>4, PropsConcat
<1>6. PICK o : o = <<"Object", pav>>
  OBVIOUS
<1>7. Entities(<<o>>)
  BY <1>5, <1>6, EntityFacts, EntitiesOne
<1>8. PICK s : s = <<o>>
  OBVIOUS
<1>9. Message(AMF0Command("connect", id) \o s)
  BY <1>7, <1>8, CommandIs
<1>. QED  BY <1>1, <1>3, <1>4, <1>6, <1>8, <1>9 DEF Command_Connect

LEMMA DataFrameIs == ASSUME NEW rate, NEW codecs PROVE Message(Command_SetDataFrame(rate, codecs))
<1>. DEFINE video == <<<<"framerate", <<"Number", rate>>>>, <<"width", Num(16)>>, <<"height", Num(9)>>,
                       <<"videocodecid", Str("avc1")>>, <<"videodatarate", Num(24)>>,
                       <<"videokeyframe_frequency", Num(2)>>>>
            audio == <<<<"audiocodecid", Str("mp4a")>>, <<"audiosamplerate", Num(11)>>,
                       <<"audiochannels", Num(2)>>, <<"audiodatarate", Num(7)>>>>
<1>1. Props(video)
  <2>1. PICK a, b, c, d, e, f :
          /\ a = <<"framerate", <<"Number", rate>>>> /\ b = <<"width", Num(16)>>
          /\ c = <<"height", Num(9)>> /\ d = <<"videocodecid", Str("avc1")>>
          /\ e = <<"videodatarate", Num(24)>> /\ f = <<"videokeyframe_frequency", Num(2)>>
    OBVIOUS
  <2>2. \A p \in {a, b, c, d, e, f} : p[2][1] \in Scalars
    BY <2>1, ScalarFacts
  <2>3. PICK s, S : s = <<a, b, c, d, e, f>> /\ S = {a, b, c, d, e, f}
    OBVIOUS
  <2>4. s \in Seq(S)
    BY <2>3
  <2>5. Props(s)
    BY <2>2, <2>3, <2>4 DEF Props
  <2>. QED  BY <2>1, <2>3, <2>5
<1>2. Props(audio)
  <2>1. PICK a, b, c, d :
          /\ a = <<"audiocodecid", Str("mp4a")>> /\ b = <<"audiosamplerate", Num(11)>>
          /\ c = <<"audiochannels", Num(2)>> /\ d = <<"audiodatarate", Num(7)>>
    OBVIOUS
  <2>2. \A p \in {a, b, c, d} : p[2][1] \in Scalars
    BY <2>1, ScalarFacts
  <2>3. PICK s, S : s = <<a, b, c, d>> /\ S = {a, b, c, d}
    OBVIOUS
  <2>4. s \in Seq(S)
    BY <2>3
  <2>5. Props(s)
    BY <2>2, <2>3, <2>4 DEF Props
  <2>. QED  BY <2>1, <2>3, <2>5
<1>. HIDE DEF video, audio
<1>3. PICK v, a : /\ v = IF "videoCodecs" \in codecs THEN video ELSE <<>>
                  /\ a = IF "audioCodecs" \in codecs THEN audio ELSE <<>>
  OBVIOUS
<1>4. Props(v \o a)
  BY <1>1, <1>2, <1>3, PropsNone, PropsConcat
<1>5. PICK va : va = v \o a
  OBVIOUS
<1>6. PICK x, y, o : x = Str("@setDataFrame") /\ y = Str("onMetaData") /\ o = <<"Object", va>>
  OBVIOUS
<1>7. Message(<<x, y, o>>)
  BY <1>4, <1>5, <1>6, EntityFacts, EntitiesThree DEF Message
<1>8. Command_SetDataFrame(rate, codecs) = <<x, y, o>>
  BY <1>3, <1>5, <1>6 DEF Command_SetDataFrame, video, audio
<1>. QED  BY <1>7, <1>8

LEMMA BytesArePlain == ASSUME NEW b PROVE Byte(b)[1] \notin HeaderFields
  BY DEF Byte, HeaderFields

\* The recursion of Pushed.
PushesTo(f, items, places, n) ==
  f = [i \in 0..n |-> IF i = 0 THEN <<>>
                      ELSE IF i \in places THEN Append(f[i - 1], items[i]) ELSE f[i - 1]]

LEMMA PushesAt ==
  ASSUME NEW f, NEW items, NEW places, NEW n \in Nat, PushesTo(f, items, places, n)
  PROVE  \A i \in 0..n : f[i] = IF i = 0 THEN <<>>
                                ELSE IF i \in places THEN Append(f[i - 1], items[i]) ELSE f[i - 1]
<1>. DEFINE F == [i \in 0..n |-> IF i = 0 THEN <<>>
                                 ELSE IF i \in places THEN Append(f[i - 1], items[i]) ELSE f[i - 1]]
<1>1. f = F
  BY DEF PushesTo
<1>2. \A i \in 0..n : F[i] = IF i = 0 THEN <<>>
                             ELSE IF i \in places THEN Append(f[i - 1], items[i]) ELSE f[i - 1]
  OBVIOUS
<1>. HIDE DEF F
<1>. QED  BY <1>1, <1>2

LEMMA PushesExists ==
  ASSUME NEW items, NEW places
  PROVE  \A n \in Nat : \E f : PushesTo(f, items, places, n)
<1>. DEFINE S == {n \in Nat : \E f : PushesTo(f, items, places, n)}
<1>1. 0 \in S
  <2>. DEFINE f == [i \in 0..0 |-> <<>>]
  <2>1. PushesTo(f, items, places, 0)
    BY DEF PushesTo
  <2>. QED  BY <2>1
<1>2. ASSUME NEW n \in Nat, n \in S PROVE n + 1 \in S
  <2>1. PICK f : PushesTo(f, items, places, n)
    BY <1>2
  <2>2. PICK last : last = IF n + 1 \in places THEN Append(f[n], items[n + 1]) ELSE f[n]
    OBVIOUS
  <2>. DEFINE h == [i \in 0..(n + 1) |-> IF i = n + 1 THEN last ELSE f[i]]
              H == [i \in 0..(n + 1) |->
                      IF i = 0 THEN <<>>
                      ELSE IF i \in places THEN Append(h[i - 1], items[i]) ELSE h[i - 1]]
  <2>3. h[n + 1] = last /\ \A i \in 0..n : h[i] = f[i]
    OBVIOUS
  <2>4. ASSUME NEW i \in 0..(n + 1) PROVE h[i] = H[i]
    <3>1. H[i] = IF i = 0 THEN <<>>
                 ELSE IF i \in places THEN Append(h[i - 1], items[i]) ELSE h[i - 1]
      OBVIOUS
    <3>2. CASE i = n + 1
      <4>1. i # 0 /\ i - 1 = n /\ n \in 0..n
        BY <3>2
      <4>. HIDE DEF h, H
      <4>2. h[i - 1] = f[n]
        BY <2>3, <4>1
      <4>. QED  BY <2>2, <2>3, <3>1, <3>2, <4>1, <4>2
    <3>3. CASE i # n + 1
      <4>1. i \in 0..n /\ (i # 0 => i - 1 \in 0..n)
        BY <3>3
      <4>2. f[i] = IF i = 0 THEN <<>>
                   ELSE IF i \in places THEN Append(f[i - 1], items[i]) ELSE f[i - 1]
        BY <2>1, <4>1, PushesAt
      <4>. HIDE DEF h, H
      <4>. QED  BY <2>3, <3>1, <4>1, <4>2
    <3>. QED  BY <3>2, <3>3
  <2>5. h = H
    BY <2>4
  <2>6. PushesTo(h, items, places, n + 1)
    BY <2>5 DEF PushesTo
  <2>. HIDE DEF h
  <2>. QED  BY <2>6
<1>. HIDE DEF S
<1>3. \A n \in Nat : n \in S
  BY <1>1, <1>2, SetInduction
<1>. QED  BY <1>3 DEF S

LEMMA PushedIs ==
  ASSUME NEW items, Len(items) \in Nat, NEW places
  PROVE  \E f : PushesTo(f, items, places, Len(items)) /\ Pushed(items, places) = f[Len(items)]
<1>. DEFINE f == CHOOSE f : f = [n \in 0..Len(items) |->
                                   IF n = 0 THEN <<>>
                                   ELSE IF n \in places THEN Append(f[n - 1], items[n]) ELSE f[n - 1]]
<1>1. Pushed(items, places) = f[Len(items)]
  BY DEF Pushed
<1>2. \E h : h = [n \in 0..Len(items) |->
                    IF n = 0 THEN <<>>
                    ELSE IF n \in places THEN Append(h[n - 1], items[n]) ELSE h[n - 1]]
  <2>1. PICK h : PushesTo(h, items, places, Len(items))
    BY PushesExists
  <2>2. h = [n \in 0..Len(items) |->
               IF n = 0 THEN <<>>
               ELSE IF n \in places THEN Append(h[n - 1], items[n]) ELSE h[n - 1]]
    BY <2>1 DEF PushesTo
  <2>. QED  BY <2>2
<1>3. f = [n \in 0..Len(items) |->
             IF n = 0 THEN <<>>
             ELSE IF n \in places THEN Append(f[n - 1], items[n]) ELSE f[n - 1]]
  BY <1>2
<1>. HIDE DEF f
<1>4. PushesTo(f, items, places, Len(items))
  BY <1>3 DEF PushesTo
<1>. QED  BY <1>1, <1>4

\* Only items are pushed.
LEMMA PushedTyped ==
  ASSUME NEW S, NEW items, Len(items) \in Nat, NEW places,
         \A i \in 1..Len(items) : i \in places => items[i] \in S
  PROVE  Pushed(items, places) \in Seq(S)
<1>0. Len(items) \in Nat /\ \A i \in 1..Len(items) : i \in places => items[i] \in S
  OBVIOUS
<1>1. PICK f : PushesTo(f, items, places, Len(items)) /\ Pushed(items, places) = f[Len(items)]
  BY <1>0, PushedIs
<1>2. \A i \in 0..Len(items) : f[i] = IF i = 0 THEN <<>>
                                      ELSE IF i \in places THEN Append(f[i - 1], items[i]) ELSE f[i - 1]
  BY <1>0, <1>1, PushesAt
<1>. DEFINE T == {n \in Nat : n <= Len(items) => f[n] \in Seq(S)}
<1>3. 0 \in T
  <2>1. f[0] = <<>>
    BY <1>0, <1>2
  <2>. QED  BY <2>1, EmptySeq
<1>4. ASSUME NEW n \in Nat, n \in T PROVE n + 1 \in T
  <2>1. SUFFICES ASSUME n + 1 <= Len(items) PROVE f[n + 1] \in Seq(S)
    OBVIOUS
  <2>2. n + 1 \in 0..Len(items) /\ n + 1 # 0 /\ (n + 1) - 1 = n /\ n + 1 \in 1..Len(items) /\ n <= Len(items)
    BY <1>0, <2>1
  <2>3. f[n + 1] = IF n + 1 \in places THEN Append(f[n], items[n + 1]) ELSE f[n]
    BY <1>2, <2>2
  <2>4. f[n] \in Seq(S) /\ (n + 1 \in places => items[n + 1] \in S)
    BY <1>0, <1>4, <2>2
  <2>5. PICK a, b : a = f[n] /\ b = items[n + 1]
    OBVIOUS
  <2>6. n + 1 \in places => Append(a, b) \in Seq(S)
    BY <2>4, <2>5, AppendProperties
  <2>. QED  BY <2>3, <2>4, <2>5, <2>6
<1>. HIDE DEF T
<1>5. \A n \in Nat : n \in T
  BY <1>3, <1>4, SetInduction
<1>6. f[Len(items)] \in Seq(S)
  BY <1>0, <1>5 DEF T
<1>. QED  BY <1>1, <1>6

LEMMA LeastMember ==
  ASSUME NEW n \in Nat, NEW T, T \subseteq 1..n, T # {}
  PROVE  \E m \in T : \A k \in T : m <= k
<1>1. IsWellFoundedOn(Below, Nat)
  BY NatLessThanWellFounded DEF OpToRel, Below
<1>2. T \subseteq Nat
  OBVIOUS
<1>3. PICK m \in T : \A k \in T : ~ (<<k, m>> \in Below)
  BY <1>1, <1>2, WFMin
<1>4. \A k \in T : ~(k < m)
  BY <1>2, <1>3 DEF Below
<1>. QED  BY <1>2, <1>4

\* The units of plain bytes, their concatenation with lengths, and the record.
PlainUnits(nalus) == \E S : nalus \in Seq(S) /\ \A u \in S : Plain(u)

LEMMA UnitsArePlain == ASSUME NEW data, Plain(data) PROVE PlainUnits(Parse(data))
<1>. DEFINE ends == {i \in DOMAIN data : i >= FirstPrefix(data) + 3 /\ IsPrefix001(data, i)}
            end(i) == IF \E j \in ends : j > i
                      THEN (CHOOSE j \in ends : j > i /\ \A k \in ends : k > i => j <= k) - 1
                      ELSE Len(data)
            units == [i \in DOMAIN data |-> SubSeq(data, i + 3, end(i))]
            S == {s \in {units[i] : i \in DOMAIN data} : Plain(s)}
<1>1. Len(data) \in Nat /\ DOMAIN data = 1..Len(data)
  BY SeqLen DEF Plain
<1>2. ends \subseteq 1..Len(data)
  BY <1>1
<1>. HIDE DEF ends
<1>3. ASSUME NEW i \in 1..Len(data) PROVE end(i) \in Int /\ end(i) <= Len(data)
  <2>1. CASE \E j \in ends : j > i
    <3>1. \E j \in ends : j > i /\ \A k \in ends : k > i => j <= k
      <4>1. PICK T : T = {j \in ends : j > i}
        OBVIOUS
      <4>2. T \subseteq 1..Len(data) /\ T # {}
        BY <1>2, <2>1, <4>1
      <4>3. \E m \in T : \A k \in T : m <= k
        BY <1>1, <4>2, LeastMember
      <4>. QED  BY <4>1, <4>3
    <3>2. PICK j : j = CHOOSE m \in ends : m > i /\ \A k \in ends : k > i => m <= k
      OBVIOUS
    <3>3. j \in ends
      BY <3>1, <3>2
    <3>4. j \in 1..Len(data) /\ end(i) = j - 1
      BY <1>2, <2>1, <3>2, <3>3
    <3>. QED  BY <1>1, <3>4
  <2>2. CASE ~ \E j \in ends : j > i
    BY <1>1, <2>2
  <2>. QED  BY <2>1, <2>2
<1>. HIDE DEF end
<1>4. ASSUME NEW i \in 1..Len(data) PROVE Plain(units[i])
  <2>1. PICK m, n : m = i + 3 /\ n = end(i)
    OBVIOUS
  <2>2. m \in Nat \ {0} /\ n \in Int /\ n <= Len(data)
    BY <1>1, <1>3, <2>1
  <2>3. Plain(SubSeq(data, m, n))
    BY <2>2, PlainSub
  <2>4. units[i] = SubSeq(data, i + 3, end(i))
    BY <1>1
  <2>. QED  BY <2>1, <2>3, <2>4
<1>5. DOMAIN units = 1..Len(data) /\ units = [i \in 1..Len(data) |-> units[i]]
  BY <1>1
<1>6. \A i \in 1..Len(data) : units[i] \in S
  BY <1>1, <1>4
<1>7. \A u \in S : Plain(u)
  OBVIOUS
<1>8. Parse(data) = Pushed(units, UnitStarts(data))
  BY DEF Parse, ends, end
<1>. HIDE DEF units, S
<1>9. IsSeq(units) /\ Len(units) = Len(data)
  BY <1>1, <1>5, SeqMade
<1>10. units \in Seq(S)
  BY <1>6, <1>9, SeqTyped
<1>11. Pushed(units, UnitStarts(data)) \in Seq(S)
  <2>1. Len(units) \in Nat /\ \A i \in 1..Len(units) : i \in UnitStarts(data) => units[i] \in S
    BY <1>1, <1>6, <1>9
  <2>. QED  BY <2>1, PushedTyped
<1>. QED  BY <1>7, <1>8, <1>11 DEF PlainUnits

LEMMA PrefixedIsPlain == ASSUME NEW nalus, PlainUnits(nalus) PROVE Plain(LengthPrefixed(nalus))
<1>. DEFINE parts == [i \in DOMAIN nalus |-> <<<<"nalulength", Len(nalus[i])>>>> \o nalus[i]]
<1>1. PICK S : nalus \in Seq(S) /\ \A u \in S : Plain(u)
  BY DEF PlainUnits
<1>2. Len(nalus) \in Nat /\ DOMAIN nalus = 1..Len(nalus) /\ \A i \in 1..Len(nalus) : nalus[i] \in S
  BY <1>1, LenProperties, ElementOfSeq
<1>3. DOMAIN parts = 1..Len(nalus) /\ parts = [i \in 1..Len(nalus) |-> parts[i]]
  BY <1>2
<1>4. ASSUME NEW i \in 1..Len(nalus) PROVE Plain(parts[i])
  <2>1. PICK c, a, b : c = <<"nalulength", Len(nalus[i])>> /\ a = <<c>> /\ b = nalus[i]
    OBVIOUS
  <2>2. c[1] \notin HeaderFields
    BY <2>1 DEF HeaderFields
  <2>3. Plain(a) /\ Plain(b)
    BY <1>1, <1>2, <2>1, <2>2, PlainOne
  <2>4. Plain(a \o b)
    BY <2>3, PlainConcat
  <2>5. parts[i] = a \o b
    BY <1>2, <2>1
  <2>. QED  BY <2>4, <2>5
<1>. HIDE DEF parts
<1>5. IsSeq(parts) /\ Len(parts) = Len(nalus)
  BY <1>2, <1>3, SeqMade
<1>6. Plain(FlattenSeq(parts))
  BY <1>4, <1>5, PlainFlatten DEF AllPlain
<1>. QED  BY <1>6 DEF LengthPrefixed, parts

\* Some of the units, those of one type.
LEMMA SetsArePlain ==
  ASSUME NEW nalus, PlainUnits(nalus), NEW type
  PROVE  LET sets == Pushed(nalus, {i \in DOMAIN nalus : GetType(nalus[i]) = type})
         IN /\ PlainUnits(sets)
            /\ sets # <<>> => /\ Plain(sets[1]) /\ GetType(sets[1]) = type
                             /\ \E i \in 1..Len(nalus) : sets[1] = nalus[i]
<1>. DEFINE places == {i \in DOMAIN nalus : GetType(nalus[i]) = type}
            S == {nalus[i] : i \in places}
<1>1. PICK U : nalus \in Seq(U) /\ \A u \in U : Plain(u)
  BY DEF PlainUnits
<1>2. Len(nalus) \in Nat /\ DOMAIN nalus = 1..Len(nalus) /\ \A i \in 1..Len(nalus) : nalus[i] \in U
  BY <1>1, LenProperties, ElementOfSeq
<1>3. /\ \A i \in 1..Len(nalus) : i \in places => nalus[i] \in S
      /\ \A u \in S : /\ Plain(u) /\ GetType(u) = type
                      /\ \E i \in 1..Len(nalus) : u = nalus[i]
  BY <1>1, <1>2
<1>. HIDE DEF places, S
<1>4. PICK sets : sets = Pushed(nalus, places)
  OBVIOUS
<1>5. sets \in Seq(S)
  BY <1>2, <1>3, <1>4, PushedTyped
<1>6. ASSUME sets # <<>> PROVE sets[1] \in S
  <2>1. Len(sets) \in Nat \ {0}
    BY <1>5, <1>6, LenProperties, EmptySeq
  <2>. QED  BY <1>5, <2>1, ElementOfSeq
<1>7. PlainUnits(sets)
  BY <1>3, <1>5 DEF PlainUnits
<1>. QED  BY <1>3, <1>4, <1>6, <1>7 DEF places

\* Of a sequence parameter set there are at least four bytes.
WholeSets(nalus) == \A i \in 1..Len(nalus) : GetType(nalus[i]) = NALUTYPE_SPS => Len(nalus[i]) >= 4

LEMMA RecordIsPlain ==
  ASSUME NEW data, Plain(data), WholeSets(Parse(data))
  PROVE  Plain(MakeDecoderConfigRecord(data))
<1>. DEFINE nalus == Parse(data)
            sets(type) == Pushed(nalus, {i \in DOMAIN nalus : GetType(nalus[i]) = type})
<1>1. PlainUnits(nalus)
  BY UnitsArePlain
<1>2. PICK sps, pps : sps = sets(NALUTYPE_SPS) /\ pps = sets(NALUTYPE_PPS)
  OBVIOUS
<1>3. /\ PlainUnits(sps) /\ PlainUnits(pps)
      /\ sps # <<>> => /\ Plain(sps[1]) /\ GetType(sps[1]) = NALUTYPE_SPS
                       /\ \E i \in 1..Len(nalus) : sps[1] = nalus[i]
  BY <1>1, <1>2, SetsArePlain
<1>4. PICK a, b, c, d, e, f :
        /\ a = <<Byte(1)>>
        /\ b = IF sps = <<>> THEN <<>> ELSE SubSeq(sps[1], 2, 4)
        /\ c = <<Byte(255), <<"spscount", Len(sps)>>>>
        /\ d = LengthPrefixed(sps) /\ e = <<<<"ppscount", Len(pps)>>>> /\ f = LengthPrefixed(pps)
  OBVIOUS
<1>5. Plain(a) /\ Plain(d) /\ Plain(f)
  BY <1>3, <1>4, BytesArePlain, PlainOne, PrefixedIsPlain
<1>6. Plain(b)
  <2>1. CASE sps = <<>>
    BY <1>4, <2>1, PlainNone
  <2>2. CASE sps # <<>>
    <3>1. Plain(sps[1]) /\ Len(sps[1]) >= 4
      BY <1>3, <2>2 DEF WholeSets
    <3>2. 2 \in Nat \ {0} /\ 4 \in Int /\ 4 <= Len(sps[1])
      <4>1. Len(sps[1]) \in Nat
        BY <3>1, SeqLen DEF Plain
      <4>. QED  BY <3>1, <4>1
    <3>3. PICK m, n, s : m = 2 /\ n = 4 /\ s = sps[1]
      OBVIOUS
    <3>4. Plain(SubSeq(s, m, n))
      BY <3>1, <3>2, <3>3, PlainSub
    <3>. QED  BY <1>4, <2>2, <3>3, <3>4
  <2>. QED  BY <2>1, <2>2
<1>7. Plain(c) /\ Plain(e)
  <2>1. PICK x, y, z : x = Byte(255) /\ y = <<"spscount", Len(sps)>> /\ z = <<"ppscount", Len(pps)>>
    OBVIOUS
  <2>2. x[1] \notin HeaderFields /\ y[1] \notin HeaderFields /\ z[1] \notin HeaderFields
    BY <2>1, BytesArePlain DEF HeaderFields
  <2>3. Plain(<<x, y>>) /\ Plain(<<z>>)
    BY <2>2, PlainOne, PlainTwo
  <2>. QED  BY <1>4, <2>1, <2>3
<1>8. PICK ab : ab = a \o b
  OBVIOUS
<1>9. PICK abc : abc = ab \o c
  OBVIOUS
<1>10. PICK abcd : abcd = abc \o d
  OBVIOUS
<1>11. PICK abcde : abcde = abcd \o e
  OBVIOUS
<1>12. Plain(ab)
  BY <1>5, <1>6, <1>8, PlainConcat
<1>13. Plain(abc)
  BY <1>7, <1>9, <1>12, PlainConcat
<1>14. Plain(abcd)
  BY <1>5, <1>10, <1>13, PlainConcat
<1>15. Plain(abcde)
  BY <1>7, <1>11, <1>14, PlainConcat
<1>16. Plain(abcde \o f)
  BY <1>5, <1>15, PlainConcat
<1>17. MakeDecoderConfigRecord(data) = abcde \o f
  BY <1>2, <1>4, <1>8, <1>9, <1>10, <1>11 DEF MakeDecoderConfigRecord
<1>. QED  BY <1>16, <1>17

\* A sequence of plain cells behind another that is not empty.
LEMMA PayloadConcat ==
  ASSUME NEW s, NEW t, Plain(s), s # <<>>, Plain(t) PROVE Payload(s \o t)
<1>1. Plain(s \o t) /\ IsSeq(s) /\ IsSeq(t)
  BY PlainConcat DEF Plain
<1>2. Len(s) \in Nat \ {0} /\ Len(t) \in Nat /\ Len(s \o t) = Len(s) + Len(t)
  BY <1>1, SeqLen, SeqConcat
<1>3. Len(s \o t) # 0
  BY <1>2
<1>. QED  BY <1>1, <1>3, SeqLen DEF Plain, Payload

LEMMA VideoIsPayload ==
  ASSUME NEW data, Plain(data), WholeSets(Parse(data)), NEW key, NEW offset, NEW first
  PROVE  Payload(PrepareVideoPayload(data, key, offset, first))
<1>1. PICK x, y, z : /\ x = <<"videodata", IF key THEN 23 ELSE 39>>
                     /\ y = <<"packettype", IF first THEN 0 ELSE 1>>
                     /\ z = <<"ctsoffset", IF first THEN 0 ELSE offset>>
  OBVIOUS
<1>2. x[1] \notin HeaderFields /\ y[1] \notin HeaderFields /\ z[1] \notin HeaderFields
  BY <1>1 DEF HeaderFields
<1>3. Plain(<<x, y, z>>)
  BY <1>2, PlainThree
<1>4. PICK s, t : /\ s = <<x, y, z>>
                  /\ t = IF first THEN MakeDecoderConfigRecord(data) ELSE MakeAVCSample(data)
  OBVIOUS
<1>5. s # <<>>
  BY <1>4
<1>6. Plain(t)
  BY <1>4, RecordIsPlain, UnitsArePlain, PrefixedIsPlain DEF MakeAVCSample
<1>7. Payload(s \o t)
  BY <1>3, <1>4, <1>5, <1>6, PayloadConcat
<1>. QED  BY <1>1, <1>4, <1>7 DEF PrepareVideoPayload

LEMMA AudioIsPayload == ASSUME NEW first PROVE Payload(PrepareAudioPayload(first))
<1>1. PICK x, y, c, f, g : /\ x = <<"audiodata", 175>> /\ y = <<"packettype", IF first THEN 0 ELSE 1>>
                           /\ c = <<"audioconfig", 18>> /\ f = <<"frame", 1>> /\ g = <<"frame", 2>>
  OBVIOUS
<1>2. /\ x[1] \notin HeaderFields /\ y[1] \notin HeaderFields /\ c[1] \notin HeaderFields
      /\ f[1] \notin HeaderFields /\ g[1] \notin HeaderFields
  BY <1>1 DEF HeaderFields
<1>3. Plain(<<x, y>>) /\ Plain(<<c>>) /\ Plain(<<f, g>>)
  BY <1>2, PlainOne, PlainTwo
<1>4. PICK s, t : s = <<x, y>> /\ t = IF first THEN <<c>> ELSE <<f, g>>
  OBVIOUS
<1>5. Payload(s \o t)
  <2>1. Plain(s) /\ s # <<>> /\ Plain(t)
    BY <1>3, <1>4
  <2>. QED  BY <2>1, PayloadConcat
<1>. QED  BY <1>1, <1>4, <1>5 DEF PrepareAudioPayload
----------------------------------------------------------------------------
(* The parser finds the units of a sample.                                    *)


\* at lists the places, in increasing order.
Lists(at, n, places, L) ==
  /\ n \in Nat /\ L \in Nat
  /\ \A i \in 1..n : at[i] \in 1..L
  /\ \A i, j \in 1..n : i < j => at[i] < at[j]
  /\ \A p \in 1..L : p \in places <=> \E i \in 1..n : p = at[i]

\* What is pushed back of the places of an increasing sequence.
LEMMA PushedAt ==
  ASSUME NEW items, NEW n, NEW at, NEW places, Lists(at, n, places, Len(items)),
         NEW out, out = Pushed(items, places)
  PROVE  IsSeq(out) /\ Len(out) = n /\ \A i \in 1..n : out[i] = items[at[i]]
<1>. DEFINE L == Len(items)
<1>0. /\ n \in Nat /\ L \in Nat /\ (\A i \in 1..n : at[i] \in 1..L)
      /\ \A i, j \in 1..n : i < j => at[i] < at[j]
      /\ \A p \in 1..L : p \in places <=> \E i \in 1..n : p = at[i]
  BY DEF Lists
<1>1. PICK f : PushesTo(f, items, places, L) /\ Pushed(items, places) = f[L]
  BY <1>0, PushedIs
<1>. HIDE DEF L
<1>2. \A p \in 0..L : f[p] = IF p = 0 THEN <<>>
                             ELSE IF p \in places THEN Append(f[p - 1], items[p]) ELSE f[p - 1]
  BY <1>0, <1>1, PushesAt
<1>. DEFINE Upto(p, k) ==
              /\ IsSeq(f[p]) /\ Len(f[p]) = k
              /\ \A i \in 1..k : at[i] <= p /\ f[p][i] = items[at[i]]
              /\ \A i \in (k + 1)..n : at[i] > p
            S == {p \in Nat : p \in 0..L => \E k \in 0..n : Upto(p, k)}
<1>3. 0 \in S
  <2>0. 0 \in 0..L
    BY <1>0
  <2>1. f[0] = <<>>
    BY <1>2, <2>0
  <2>. USE <1>0
  <2>2. PICK e : e = f[0]
    OBVIOUS
  <2>3. IsSeq(e) /\ Len(e) = 0
    BY <2>1, <2>2, SeqEmpty
  <2>4. \A i \in (0 + 1)..n : at[i] > 0
    OBVIOUS
  <2>5. Upto(0, 0)
    BY <2>2, <2>3, <2>4
  <2>. QED  BY <2>5
<1>4. ASSUME NEW p \in Nat, p \in S PROVE p + 1 \in S
  <2>. SUFFICES ASSUME p + 1 \in 0..L PROVE \E k \in 0..n : Upto(p + 1, k)
    OBVIOUS
  <2>. USE <1>0
  <2>1. p \in 0..L /\ p + 1 # 0 /\ (p + 1) - 1 = p /\ p + 1 \in 1..L
    OBVIOUS
  <2>2. PICK k \in 0..n : Upto(p, k)
    BY <1>4, <2>1
  <2>3. CASE p + 1 \in places
    <3>1. PICK j \in 1..n : p + 1 = at[j]
      BY <2>1, <2>3
    <3>2. j = k + 1
      <4>1. j > k
        <5>1. j \in 1..k => at[j] <= p
          BY <2>2
        <5>. QED  BY <3>1, <5>1
      <4>2. ASSUME j > k + 1 PROVE FALSE
        <5>1. k + 1 \in 1..n /\ k + 1 \in (k + 1)..n
          BY <4>2
        <5>2. at[k + 1] < p + 1 /\ at[k + 1] > p /\ at[k + 1] \in 1..L
          BY <2>2, <3>1, <4>2, <5>1
        <5>. QED  BY <5>2
      <4>. QED  BY <4>1, <4>2
    <3>3. PICK a, b, c : a = f[p] /\ b = items[p + 1] /\ c = f[p + 1]
      OBVIOUS
    <3>4. c = Append(a, b) /\ IsSeq(a) /\ Len(a) = k
      BY <1>2, <2>1, <2>2, <2>3, <3>3
    <3>5. /\ IsSeq(c) /\ Len(c) = k + 1 /\ c[k + 1] = b
          /\ \A i \in 1..k : c[i] = a[i]
      BY <3>4, SeqAppend
    <3>6. \A i \in 1..(k + 1) : at[i] <= p + 1 /\ c[i] = items[at[i]]
      <4>1. \A i \in 1..(k + 1) : i \in 1..k \/ i = k + 1
        OBVIOUS
      <4>2. \A i \in 1..k : at[i] <= p + 1 /\ c[i] = items[at[i]]
        <5>1. \A i \in 1..k : at[i] <= p /\ a[i] = items[at[i]]
          BY <2>2, <3>3
        <5>2. \A i \in 1..k : at[i] \in 1..L
          OBVIOUS
        <5>. QED  BY <3>5, <5>1, <5>2
      <4>3. at[k + 1] <= p + 1 /\ c[k + 1] = items[at[k + 1]]
        BY <3>1, <3>2, <3>3, <3>5
      <4>. QED  BY <4>1, <4>2, <4>3
    <3>7. \A i \in ((k + 1) + 1)..n : at[i] > p + 1
      <4>1. \A i \in ((k + 1) + 1)..n : i \in 1..n /\ j < i
        BY <3>2
      <4>. QED  BY <3>1, <4>1
    <3>8. k + 1 \in 0..n
      BY <3>2
    <3>9. Upto(p + 1, k + 1)
      BY <3>3, <3>5, <3>6, <3>7
    <3>. QED  BY <3>8, <3>9
  <2>4. CASE p + 1 \notin places
    <3>1. f[p + 1] = f[p]
      BY <1>2, <2>1, <2>4
    <3>2. \A i \in 1..n : at[i] # p + 1
      BY <2>1, <2>4
    <3>3. \A i \in (k + 1)..n : at[i] > p + 1
      <4>1. \A i \in (k + 1)..n : i \in 1..n
        OBVIOUS
      <4>. QED  BY <2>2, <3>2, <4>1
    <3>4. \A i \in 1..k : at[i] <= p + 1
      <4>1. \A i \in 1..k : i \in 1..n
        OBVIOUS
      <4>. QED  BY <2>2, <4>1
    <3>5. Upto(p + 1, k)
      BY <2>2, <3>1, <3>3, <3>4
    <3>. QED  BY <3>5
  <2>. QED  BY <2>3, <2>4
<1>. HIDE DEF S
<1>5. \A p \in Nat : p \in S
  BY <1>3, <1>4, SetInduction
<1>6. PICK k \in 0..n : Upto(L, k)
  <2>1. L \in Nat /\ L \in 0..L
    BY <1>0
  <2>. QED  BY <1>5, <2>1 DEF S
<1>. USE <1>0
<1>7. k = n
  <2>1. ASSUME k # n PROVE FALSE
    <3>1. k + 1 \in (k + 1)..n /\ k + 1 \in 1..n
      BY <2>1
    <3>. QED  BY <1>6, <3>1
  <2>. QED  BY <2>1
<1>. QED  BY <1>1, <1>6, <1>7

LEMMA BytesDiffer == \A a, b : Byte(a) = Byte(b) <=> a = b
  BY DEF Byte

LEMMA PrefixIs ==
  ASSUME NEW data, IsSeq(data), NEW i \in Nat \ {0}
  PROVE  IsPrefix001(data, i) <=> /\ i + 2 <= Len(data) /\ data[i] = Byte(0)
                                  /\ data[i + 1] = Byte(0) /\ data[i + 2] = Byte(1)
<1>1. CASE ~(i + 2 <= Len(data))
  BY <1>1 DEF IsPrefix001
<1>2. CASE i + 2 <= Len(data)
  <2>1. PICK n, s, a, b, c : /\ n = i + 2 /\ s = SubSeq(data, i, n)
                             /\ a = Byte(0) /\ b = Byte(0) /\ c = Byte(1)
    OBVIOUS
  <2>2. n \in 0..Len(data) /\ i <= n + 1 /\ n - i + 1 = 3
    BY <1>2, <2>1, SeqLen
  <2>3. IsSeq(s) /\ Len(s) = 3 /\ \A k \in 1..3 : s[k] = data[i + k - 1]
    <3>1. /\ IsSeq(SubSeq(data, i, n)) /\ Len(SubSeq(data, i, n)) = n - i + 1
          /\ \A k \in 1..(n - i + 1) : SubSeq(data, i, n)[k] = data[i + k - 1]
      BY <2>2, SeqSub
    <3>. QED  BY <2>1, <2>2, <3>1
  <2>4. s[1] = data[i] /\ s[2] = data[i + 1] /\ s[3] = data[i + 2]
    <3>1. i + 1 - 1 = i /\ i + 2 - 1 = i + 1 /\ i + 3 - 1 = i + 2 /\ 1 \in 1..3 /\ 2 \in 1..3 /\ 3 \in 1..3
      OBVIOUS
    <3>. QED  BY <2>3, <3>1
  <2>5. PICK t, S : t = <<a, b, c>> /\ S = {a, b, c}
    OBVIOUS
  <2>6. t \in Seq(S) /\ Len(t) = 3 /\ t[1] = a /\ t[2] = b /\ t[3] = c
    BY <2>5
  <2>7. IsSeq(t)
    BY <2>6, SeqIsSeq
  <2>8. s = t <=> s[1] = a /\ s[2] = b /\ s[3] = c
    <3>1. \A k \in 1..3 : k = 1 \/ k = 2 \/ k = 3
      OBVIOUS
    <3>2. ASSUME s[1] = a, s[2] = b, s[3] = c PROVE s = t
      <4>1. \A k \in 1..Len(s) : s[k] = t[k]
        BY <2>3, <2>6, <3>1, <3>2
      <4>. QED  BY <2>3, <2>6, <2>7, <4>1, SeqSame
    <3>. QED  BY <2>6, <3>2
  <2>. QED  BY <1>2, <2>1, <2>4, <2>5, <2>8 DEF IsPrefix001
<1>. QED  BY <1>1, <1>2

LEMMA UnitsOf ==
  ASSUME NEW sample \in Samples
  PROVE  /\ IsSeq(sample) /\ Len(sample) \in Nat \ {0} /\ DOMAIN sample = 1..Len(sample)
         /\ \A i \in 1..Len(sample) :
              /\ sample[i].nalu \in Seq(0..255) /\ Len(sample[i].nalu) \in Nat \ {0}
              /\ DOMAIN sample[i].nalu = 1..Len(sample[i].nalu)
              /\ IsNALUnit(sample[i].nalu)
<1>1. PICK U : U = [long : BOOLEAN, nalu : Seq(0..255)]
  OBVIOUS
<1>2. sample \in Seq(U) /\ sample # <<>> /\ \A i \in DOMAIN sample : IsNALUnit(sample[i].nalu)
  BY <1>1, OutputAssumption, SampleAssumption
<1>3. /\ Len(sample) \in Nat \ {0} /\ DOMAIN sample = 1..Len(sample)
      /\ \A i \in 1..Len(sample) : sample[i] \in U
  BY <1>2, LenProperties, ElementOfSeq, EmptySeq
<1>4. ASSUME NEW i \in 1..Len(sample)
      PROVE  /\ sample[i].nalu \in Seq(0..255) /\ Len(sample[i].nalu) \in Nat \ {0}
             /\ DOMAIN sample[i].nalu = 1..Len(sample[i].nalu)
             /\ IsNALUnit(sample[i].nalu)
  <2>1. PICK s : s = sample[i].nalu
    OBVIOUS
  <2>2. s \in Seq(0..255) /\ IsNALUnit(s) /\ s # <<>>
    BY <1>1, <1>2, <1>3, <2>1 DEF IsNALUnit
  <2>3. Len(s) \in Nat \ {0} /\ DOMAIN s = 1..Len(s)
    BY <2>2, LenProperties, EmptySeq
  <2>. QED  BY <2>1, <2>2, <2>3
<1>. QED  BY <1>2, <1>3, <1>4, SeqIsSeq

Pre(unit) == IF unit.long THEN 1 ELSE 0
Part(unit) == ((IF unit.long THEN <<Byte(0)>> ELSE <<>>) \o <<Byte(0), Byte(0), Byte(1)>>)
                \o [b \in DOMAIN unit.nalu |-> Byte(unit.nalu[b])]

\* A unit behind its prefix.
PartCells(q, unit) ==
  /\ IsSeq(q) /\ Len(q) = Pre(unit) + 3 + Len(unit.nalu)
  /\ unit.long => q[1] = Byte(0)
  /\ q[Pre(unit) + 1] = Byte(0) /\ q[Pre(unit) + 2] = Byte(0) /\ q[Pre(unit) + 3] = Byte(1)
  /\ \A b \in 1..Len(unit.nalu) : q[Pre(unit) + 3 + b] = Byte(unit.nalu[b])

LEMMA PartIs ==
  ASSUME NEW unit \in [long : BOOLEAN, nalu : Seq(0..255)]
  PROVE  PartCells(Part(unit), unit)
<1>1. PICK n, z, o : n = unit.nalu /\ z = Byte(0) /\ o = Byte(1)
  OBVIOUS
<1>2. n \in Seq(0..255) /\ unit.long \in BOOLEAN
  BY <1>1
<1>3. Len(n) \in Nat /\ DOMAIN n = 1..Len(n)
  BY <1>2, LenProperties
<1>4. PICK r : r = [b \in DOMAIN n |-> Byte(n[b])]
  OBVIOUS
<1>5. IsSeq(r) /\ Len(r) = Len(n) /\ \A b \in 1..Len(n) : r[b] = Byte(n[b])
  <2>1. DOMAIN r = 1..Len(n) /\ r = [b \in 1..Len(n) |-> r[b]] /\ \A b \in 1..Len(n) : r[b] = Byte(n[b])
    BY <1>3, <1>4
  <2>. QED  BY <1>3, <2>1, SeqMade
<1>6. PICK p, q, S : p = (IF unit.long THEN <<z>> ELSE <<>>) /\ q = <<z, z, o>> /\ S = {z, o}
  OBVIOUS
<1>7. /\ q \in Seq(S) /\ Len(q) = 3 /\ q[1] = z /\ q[2] = z /\ q[3] = o
  BY <1>6
<1>8. /\ p \in Seq(S) /\ Len(p) = Pre(unit) /\ (unit.long => p[1] = z)
  <2>1. CASE unit.long
    <3>1. p = <<z>>
      BY <1>6, <2>1
    <3>. QED  BY <1>6, <2>1, <3>1 DEF Pre
  <2>2. CASE ~unit.long
    <3>1. p = <<>>
      BY <1>6, <2>2
    <3>. QED  BY <2>2, <3>1 DEF Pre
  <2>. QED  BY <2>1, <2>2
<1>9. PICK k : k = Pre(unit)
  OBVIOUS
<1>10. k \in Nat /\ (unit.long => k = 1)
  BY <1>9 DEF Pre
<1>11. IsSeq(p) /\ IsSeq(q)
  BY <1>7, <1>8, SeqIsSeq
<1>12. PICK t : t = p \o q
  OBVIOUS
<1>13. IsSeq(t) /\ Len(t) = k + 3 /\ (\A i \in 1..k : t[i] = p[i]) /\ \A i \in 1..3 : t[k + i] = q[i]
  <2>1. /\ IsSeq(p \o q) /\ Len(p \o q) = Len(p) + Len(q)
        /\ \A i \in 1..Len(p) : (p \o q)[i] = p[i]
        /\ \A i \in 1..Len(q) : (p \o q)[Len(p) + i] = q[i]
    BY <1>11, SeqConcat
  <2>2. Len(p) = k /\ Len(q) = 3
    BY <1>7, <1>8, <1>9
  <2>. QED  BY <1>12, <2>1, <2>2
<1>14. PICK u : u = t \o r
  OBVIOUS
<1>15. /\ IsSeq(u) /\ Len(u) = (k + 3) + Len(n)
       /\ \A i \in 1..(k + 3) : u[i] = t[i]
       /\ \A i \in 1..Len(n) : u[(k + 3) + i] = r[i]
  BY <1>5, <1>13, <1>14, SeqConcat
<1>16. /\ k + 1 \in 1..(k + 3) /\ k + 2 \in 1..(k + 3) /\ k + 3 \in 1..(k + 3)
       /\ 1 \in 1..3 /\ 2 \in 1..3 /\ 3 \in 1..3
       /\ (unit.long => 1 \in 1..k /\ 1 \in 1..(k + 3))
  BY <1>10
<1>17. u[k + 1] = z /\ u[k + 2] = z /\ u[k + 3] = o /\ (unit.long => u[1] = z)
  BY <1>7, <1>8, <1>13, <1>15, <1>16
<1>18. Part(unit) = u
  BY <1>1, <1>4, <1>6, <1>12, <1>14 DEF Part
<1>. QED  BY <1>1, <1>5, <1>9, <1>15, <1>17, <1>18 DEF PartCells

\* How the units lie in the bytes of a sample: at[i] is where the prefix of unit i
\* begins that the parser looks for.
Prefixed(data, unit, a) ==
  /\ a \in Nat /\ a >= 1 + Pre(unit) /\ a + 2 + Len(unit.nalu) <= Len(data)
  /\ data[a] = Byte(0) /\ data[a + 1] = Byte(0) /\ data[a + 2] = Byte(1)
  /\ \A b \in 1..Len(unit.nalu) : data[a + 2 + b] = Byte(unit.nalu[b])
  /\ unit.long => data[a - 1] = Byte(0)
Within(unit, a, p) ==
  \/ unit.long /\ p = a - 1
  \/ p = a \/ p = a + 1 \/ p = a + 2
  \/ \E b \in 1..Len(unit.nalu) : p = a + 2 + b
Lies(data, sample, at) ==
  /\ IsSeq(data) /\ IsSeq(sample) /\ sample # <<>>
  /\ \A i \in 1..Len(sample) : /\ Prefixed(data, sample[i], at[i])
                               /\ Len(sample[i].nalu) \in Nat \ {0} /\ IsNALUnit(sample[i].nalu)
  /\ at[1] = 1 + Pre(sample[1])
  /\ \A i \in 1..(Len(sample) - 1) :
       at[i + 1] = at[i] + 3 + Len(sample[i].nalu) + Pre(sample[i + 1])
  /\ Len(data) = at[Len(sample)] + 2 + Len(sample[Len(sample)].nalu)
  /\ \A p \in 1..Len(data) : \E i \in 1..Len(sample) : Within(sample[i], at[i], p)

LEMMA SampleLies ==
  ASSUME NEW sample \in Samples
  PROVE  \E at : Lies(SampleData(sample), sample, at)
<1>. DEFINE parts == [i \in DOMAIN sample |-> Part(sample[i])]
<1>1. PICK U : U = [long : BOOLEAN, nalu : Seq(0..255)]
  OBVIOUS
<1>2. sample \in Seq(U) /\ sample # <<>> /\ \A i \in DOMAIN sample : IsNALUnit(sample[i].nalu)
  BY <1>1, OutputAssumption, SampleAssumption
<1>3. PICK n : n = Len(sample)
  OBVIOUS
<1>4. n \in Nat \ {0} /\ DOMAIN sample = 1..n /\ \A i \in 1..n : sample[i] \in U
  BY <1>2, <1>3, LenProperties, ElementOfSeq, EmptySeq
<1>5. IsSeq(sample)
  BY <1>2, SeqIsSeq
<1>6. \A i \in 1..n : Len(sample[i].nalu) \in Nat \ {0} /\ Pre(sample[i]) \in {0, 1}
  <2>. SUFFICES ASSUME NEW i \in 1..n
                PROVE  Len(sample[i].nalu) \in Nat \ {0} /\ Pre(sample[i]) \in {0, 1}
    OBVIOUS
  <2>1. PICK s : s = sample[i].nalu
    OBVIOUS
  <2>2. s \in Seq(0..255) /\ s # <<>>
    BY <1>1, <1>2, <1>4, <2>1 DEF IsNALUnit
  <2>3. Len(s) \in Nat \ {0}
    BY <2>2, LenProperties, EmptySeq
  <2>. QED  BY <2>1, <2>3 DEF Pre
<1>7. \A i \in 1..n : parts[i] = Part(sample[i]) /\ PartCells(parts[i], sample[i])
  BY <1>1, <1>4, PartIs
<1>8. DOMAIN parts = 1..n /\ parts = [i \in 1..n |-> parts[i]]
  BY <1>4
<1>9. SampleData(sample) = FlattenSeq(parts)
  BY DEF SampleData, Part
<1>. HIDE DEF parts
<1>10. IsSeq(parts) /\ Len(parts) = n
  BY <1>4, <1>8, SeqMade
<1>11. AllSeqs(parts) /\ parts # <<>>
  BY <1>4, <1>7, <1>10, SeqLen DEF AllSeqs, PartCells
<1>12. PICK data : data = FlattenSeq(parts)
  OBVIOUS
<1>13. PICK off : Places(data, parts, off)
  BY <1>11, <1>12, FlattenPlaces
<1>14. IsSeq(data)
  BY <1>11, <1>12, FlattenIsSeq
<1>. DEFINE at == [i \in 1..n |-> off[i] + 1 + Pre(sample[i])]
<1>15. \A i \in 1..n : at[i] = off[i] + 1 + Pre(sample[i])
  OBVIOUS
<1>. HIDE DEF at
<1>16. /\ off[1] = 0 /\ Len(data) = off[n + 1]
       /\ \A i \in 1..n : /\ off[i] \in Nat
                          /\ off[i + 1] = off[i] + Pre(sample[i]) + 3 + Len(sample[i].nalu)
  <2>1. \A i \in 1..n : Len(parts[i]) = Pre(sample[i]) + 3 + Len(sample[i].nalu)
    BY <1>7 DEF PartCells
  <2>2. off[1] = 0 /\ Len(data) = off[n + 1]
    BY <1>10, <1>13 DEF Places
  <2>3. \A i \in 1..n : off[i] \in Nat /\ off[i + 1] = off[i] + Len(parts[i])
    BY <1>10, <1>13 DEF Places
  <2>4. ASSUME NEW i \in 1..n
        PROVE  off[i + 1] = off[i] + Pre(sample[i]) + 3 + Len(sample[i].nalu)
    <3>1. PICK o, x, k, m : /\ o = off[i] /\ x = Len(parts[i]) /\ k = Pre(sample[i])
                            /\ m = Len(sample[i].nalu)
      OBVIOUS
    <3>2. o \in Nat /\ k \in {0, 1} /\ m \in Nat \ {0} /\ x = k + 3 + m /\ off[i + 1] = o + x
      BY <1>6, <2>1, <2>3, <3>1
    <3>3. o + x = o + k + 3 + m
      BY <3>2
    <3>. QED  BY <3>1, <3>2, <3>3
  <2>. QED  BY <2>2, <2>3, <2>4
<1>17. \A i \in 1..n : off[i + 1] \in Nat /\ off[i + 1] <= Len(data)
  <2>. DEFINE S == {j \in Nat : j \in 0..(n - 1) => off[(n - j) + 1] <= Len(data)}
  <2>1. 0 \in S
    BY <1>4, <1>16
  <2>2. ASSUME NEW j \in Nat, j \in S PROVE j + 1 \in S
    <3>. SUFFICES ASSUME j + 1 \in 0..(n - 1) PROVE off[(n - (j + 1)) + 1] <= Len(data)
      OBVIOUS
    <3>1. j \in 0..(n - 1) /\ (n - (j + 1)) + 1 = n - j /\ n - j \in 1..n
      BY <1>4
    <3>2. off[n - j] \in Nat /\ off[(n - j) + 1] = off[n - j] + Pre(sample[n - j]) + 3 + Len(sample[n - j].nalu)
      BY <1>16, <3>1
    <3>3. off[(n - j) + 1] <= Len(data) /\ Len(data) \in Nat
      BY <1>14, <2>2, <3>1, SeqLen
    <3>4. Len(sample[n - j].nalu) \in Nat /\ Pre(sample[n - j]) \in Nat
      BY <1>6, <3>1
    <3>5. off[n - j] <= Len(data)
      BY <3>2, <3>3, <3>4
    <3>. QED  BY <3>1, <3>5
  <2>. HIDE DEF S
  <2>3. \A j \in Nat : j \in S
    BY <2>1, <2>2, SetInduction
  <2>4. \A i \in 1..n : n - i \in Nat /\ n - i \in 0..(n - 1) /\ n - (n - i) = i
    BY <1>4
  <2>5. \A i \in 1..n : off[i + 1] <= Len(data)
    BY <2>3, <2>4 DEF S
  <2>6. ASSUME NEW i \in 1..n PROVE off[i + 1] \in Nat
    <3>1. off[i] \in Nat /\ off[i + 1] = off[i] + Pre(sample[i]) + 3 + Len(sample[i].nalu)
      BY <1>16
    <3>2. Len(sample[i].nalu) \in Nat /\ Pre(sample[i]) \in Nat
      BY <1>6
    <3>. QED  BY <3>1, <3>2
  <2>. QED  BY <2>5, <2>6
<1>18. ASSUME NEW i \in 1..n PROVE Prefixed(data, sample[i], at[i])
  <2>1. PICK a, o, k, m, q : /\ a = at[i] /\ o = off[i] /\ k = Pre(sample[i])
                             /\ m = Len(sample[i].nalu) /\ q = parts[i]
    OBVIOUS
  <2>2. a = o + 1 + k /\ o \in Nat /\ k \in {0, 1} /\ m \in Nat \ {0} /\ o + k + 3 + m <= Len(data)
    BY <1>6, <1>15, <1>16, <1>17, <2>1
  <2>3. /\ Len(q) = k + 3 + m /\ q[k + 1] = Byte(0) /\ q[k + 2] = Byte(0) /\ q[k + 3] = Byte(1)
        /\ \A b \in 1..m : q[k + 3 + b] = Byte(sample[i].nalu[b])
        /\ sample[i].long => q[1] = Byte(0)
    BY <1>7, <2>1 DEF PartCells
  <2>4. \A c \in 1..(k + 3 + m) : data[o + c] = q[c]
    BY <1>10, <1>13, <2>1, <2>3 DEF Places
  <2>5. /\ a = o + (k + 1) /\ a + 1 = o + (k + 2) /\ a + 2 = o + (k + 3)
        /\ k + 1 \in 1..(k + 3 + m) /\ k + 2 \in 1..(k + 3 + m) /\ k + 3 \in 1..(k + 3 + m)
    BY <2>2
  <2>6. \A b \in 1..m : a + 2 + b = o + (k + 3 + b) /\ k + 3 + b \in 1..(k + 3 + m)
    BY <2>2
  <2>7. sample[i].long => a - 1 = o + 1 /\ 1 \in 1..(k + 3 + m)
    BY <2>1, <2>2 DEF Pre
  <2>8. data[a] = Byte(0) /\ data[a + 1] = Byte(0) /\ data[a + 2] = Byte(1)
    BY <2>3, <2>4, <2>5
  <2>9. \A b \in 1..m : data[a + 2 + b] = Byte(sample[i].nalu[b])
    BY <2>3, <2>4, <2>6
  <2>10. sample[i].long => data[a - 1] = Byte(0)
    BY <2>3, <2>4, <2>7
  <2>11. a \in Nat /\ a >= 1 + k /\ a + 2 + m <= Len(data)
    <3>1. Len(data) \in Nat
      BY <1>14, SeqLen
    <3>. QED  BY <2>2, <3>1
  <2>. QED  BY <2>1, <2>8, <2>9, <2>10, <2>11 DEF Prefixed
<1>19. at[1] = 1 + Pre(sample[1])
  <2>1. 1 \in 1..n
    BY <1>4
  <2>. QED  BY <1>6, <1>15, <1>16, <2>1
<1>20. \A i \in 1..(n - 1) : at[i + 1] = at[i] + 3 + Len(sample[i].nalu) + Pre(sample[i + 1])
  <2>. SUFFICES ASSUME NEW i \in 1..(n - 1)
                PROVE  at[i + 1] = at[i] + 3 + Len(sample[i].nalu) + Pre(sample[i + 1])
    OBVIOUS
  <2>1. i \in 1..n /\ i + 1 \in 1..n
    BY <1>4
  <2>2. PICK o, k, m, l : /\ o = off[i] /\ k = Pre(sample[i]) /\ m = Len(sample[i].nalu)
                          /\ l = Pre(sample[i + 1])
    OBVIOUS
  <2>3. /\ o \in Nat /\ k \in {0, 1} /\ l \in {0, 1} /\ m \in Nat
        /\ off[i + 1] = o + k + 3 + m /\ at[i] = o + 1 + k /\ at[i + 1] = off[i + 1] + 1 + l
    BY <1>6, <1>15, <1>16, <2>1, <2>2
  <2>4. (o + k + 3 + m) + 1 + l = (o + 1 + k) + 3 + m + l
    BY <2>3
  <2>. QED  BY <2>2, <2>3, <2>4
<1>21. Len(data) = at[n] + 2 + Len(sample[n].nalu)
  <2>1. n \in 1..n
    BY <1>4
  <2>2. PICK o, k, m : o = off[n] /\ k = Pre(sample[n]) /\ m = Len(sample[n].nalu)
    OBVIOUS
  <2>3. o \in Nat /\ k \in {0, 1} /\ m \in Nat /\ off[n + 1] = o + k + 3 + m /\ at[n] = o + 1 + k
    BY <1>6, <1>15, <1>16, <2>1, <2>2
  <2>4. Len(data) = off[n + 1]
    BY <1>16
  <2>5. o + k + 3 + m = (o + 1 + k) + 2 + m
    BY <2>3
  <2>. QED  BY <2>2, <2>3, <2>4, <2>5
<1>22. ASSUME NEW p \in 1..Len(data) PROVE \E i \in 1..n : Within(sample[i], at[i], p)
  <2>1. PICK i \in 1..n : \E k \in 1..Len(parts[i]) : p = off[i] + k
    <3>1. n # 0
      BY <1>4
    <3>. QED  BY <1>10, <1>13, <3>1, PlacesCover
  <2>2. PICK c \in 1..Len(parts[i]) : p = off[i] + c
    BY <2>1
  <2>3. PICK a, o, k, m : /\ a = at[i] /\ o = off[i] /\ k = Pre(sample[i])
                          /\ m = Len(sample[i].nalu)
    OBVIOUS
  <2>4. a = o + 1 + k /\ o \in Nat /\ k \in {0, 1} /\ m \in Nat \ {0}
    BY <1>6, <1>15, <1>16, <2>3
  <2>5. c \in 1..(k + 3 + m) /\ p = o + c
    BY <1>7, <2>2, <2>3 DEF PartCells
  <2>6. k = 1 => sample[i].long
    BY <2>3 DEF Pre
  <2>7. CASE c <= k
    <3>1. k = 1 /\ p = a - 1
      BY <2>4, <2>5, <2>7
    <3>. QED  BY <2>3, <2>6, <3>1 DEF Within
  <2>8. CASE c > k /\ c <= k + 3
    <3>1. p = a \/ p = a + 1 \/ p = a + 2
      BY <2>4, <2>5, <2>8
    <3>. QED  BY <2>3, <3>1 DEF Within
  <2>9. CASE c > k + 3
    <3>1. c - (k + 3) \in 1..m /\ p = a + 2 + (c - (k + 3))
      BY <2>4, <2>5, <2>9
    <3>. QED  BY <2>3, <3>1 DEF Within
  <2>. QED  BY <2>4, <2>5, <2>7, <2>8, <2>9
<1>23. Lies(data, sample, at)
  BY <1>2, <1>3, <1>4, <1>5, <1>6, <1>14, <1>18, <1>19, <1>20, <1>21, <1>22 DEF Lies
<1>. QED  BY <1>9, <1>12, <1>23

LEMMA LiesOrdered ==
  ASSUME NEW data, NEW sample, NEW at, Lies(data, sample, at)
  PROVE  /\ Len(sample) \in Nat \ {0} /\ Len(data) \in Nat
         /\ \A i \in 1..Len(sample) : at[i] \in 1..Len(data)
         /\ \A i, j \in 1..Len(sample) : i < j => at[i] + 4 <= at[j]
<1>. DEFINE n == Len(sample)
<1>1. n \in Nat \ {0} /\ Len(data) \in Nat
  BY SeqLen DEF Lies
<1>2. \A i \in 1..n : Len(sample[i].nalu) \in Nat \ {0} /\ Pre(sample[i]) \in {0, 1}
  BY DEF Lies, Pre
<1>3. \A i \in 1..n : at[i] \in 1..Len(data)
  <2>. SUFFICES ASSUME NEW i \in 1..n PROVE at[i] \in 1..Len(data)
    OBVIOUS
  <2>1. PICK a, m, k : a = at[i] /\ m = Len(sample[i].nalu) /\ k = Pre(sample[i])
    OBVIOUS
  <2>2. a \in Nat /\ a >= 1 + k /\ a + 2 + m <= Len(data)
    BY <2>1 DEF Lies, Prefixed
  <2>3. m \in Nat /\ k \in {0, 1}
    BY <1>2, <2>1
  <2>. QED  BY <1>1, <2>1, <2>2, <2>3
<1>4. \A i \in 1..(n - 1) : at[i] + 4 <= at[i + 1]
  <2>. SUFFICES ASSUME NEW i \in 1..(n - 1) PROVE at[i] + 4 <= at[i + 1]
    OBVIOUS
  <2>1. i \in 1..n /\ i + 1 \in 1..n
    BY <1>1
  <2>2. PICK a, b, m, k : a = at[i] /\ b = at[i + 1] /\ m = Len(sample[i].nalu) /\ k = Pre(sample[i + 1])
    OBVIOUS
  <2>3. b = a + 3 + m + k
    BY <2>2 DEF Lies
  <2>4. a \in Nat /\ m \in Nat \ {0} /\ k \in {0, 1}
    BY <1>2, <1>3, <2>1, <2>2
  <2>5. a + 4 <= b
    BY <2>3, <2>4
  <2>. QED  BY <2>2, <2>5
<1>. DEFINE S == {d \in Nat : \A i \in 1..n : i + d + 1 <= n => at[i] + 4 <= at[i + d + 1]}
<1>. HIDE DEF n
<1>5. 0 \in S
  <2>1. \A i \in 1..n : i + 0 + 1 = i + 1 /\ (i + 0 + 1 <= n => i \in 1..(n - 1))
    BY <1>1
  <2>. QED  BY <1>4, <2>1
<1>6. ASSUME NEW d \in Nat, d \in S PROVE d + 1 \in S
  <2>. SUFFICES ASSUME NEW i \in 1..n, i + (d + 1) + 1 <= n PROVE at[i] + 4 <= at[i + (d + 1) + 1]
    OBVIOUS
  <2>1. /\ i + d + 1 \in 1..(n - 1) /\ (i + d + 1) + 1 = i + (d + 1) + 1
        /\ i + d + 1 \in 1..n /\ i + (d + 1) + 1 \in 1..n /\ i + d + 1 <= n
    BY <1>1
  <2>2. at[i] + 4 <= at[i + d + 1]
    BY <1>6, <2>1
  <2>3. at[i + d + 1] + 4 <= at[i + (d + 1) + 1]
    BY <1>4, <2>1
  <2>4. at[i] \in 1..Len(data) /\ at[i + d + 1] \in 1..Len(data) /\ at[i + (d + 1) + 1] \in 1..Len(data)
    BY <1>3, <2>1
  <2>. QED  BY <1>1, <2>2, <2>3, <2>4
<1>. HIDE DEF S
<1>7. \A d \in Nat : d \in S
  BY <1>5, <1>6, SetInduction
<1>8. ASSUME NEW i \in 1..n, NEW j \in 1..n, i < j PROVE at[i] + 4 <= at[j]
  <2>1. j - i - 1 \in Nat /\ i + (j - i - 1) + 1 = j /\ j <= n
    BY <1>1, <1>8
  <2>2. \A k \in 1..n : k + (j - i - 1) + 1 <= n => at[k] + 4 <= at[k + (j - i - 1) + 1]
    BY <1>7, <2>1 DEF S
  <2>. QED  BY <2>1, <2>2
<1>. QED  BY <1>1, <1>3, <1>8 DEF n

\* A unit of H.264 holds no start code and does not end with a zero: the parser finds
\* the prefixes of the units and no other.
LEMMA PrefixesAt ==
  ASSUME NEW data, NEW sample, NEW at, Lies(data, sample, at)
  PROVE  \A p \in 1..Len(data) : IsPrefix001(data, p) <=> \E i \in 1..Len(sample) : p = at[i]
<1>1. Len(data) \in Nat /\ IsSeq(data)
  BY LiesOrdered DEF Lies
<1>2. ASSUME NEW i \in 1..Len(sample) PROVE IsPrefix001(data, at[i])
  <2>1. PICK a, m : a = at[i] /\ m = Len(sample[i].nalu)
    OBVIOUS
  <2>2. /\ a \in Nat /\ a + 2 + m <= Len(data) /\ m \in Nat \ {0}
        /\ data[a] = Byte(0) /\ data[a + 1] = Byte(0) /\ data[a + 2] = Byte(1)
    BY <2>1 DEF Lies, Prefixed
  <2>3. a \in 1..Len(data)
    BY <2>1, LiesOrdered
  <2>4. a \in Nat \ {0} /\ a + 2 <= Len(data)
    BY <1>1, <2>2, <2>3
  <2>. QED  BY <1>1, <2>1, <2>2, <2>4, PrefixIs
<1>3. ASSUME NEW p \in 1..Len(data), IsPrefix001(data, p) PROVE \E i \in 1..Len(sample) : p = at[i]
  <2>1. /\ p + 2 <= Len(data) /\ data[p] = Byte(0) /\ data[p + 1] = Byte(0) /\ data[p + 2] = Byte(1)
    BY <1>1, <1>3, PrefixIs
  <2>2. PICK i \in 1..Len(sample) : Within(sample[i], at[i], p)
    BY DEF Lies
  <2>3. PICK a, m, nalu : a = at[i] /\ nalu = sample[i].nalu /\ m = Len(nalu)
    OBVIOUS
  <2>4. /\ a \in Nat /\ m \in Nat \ {0}
        /\ data[a] = Byte(0) /\ data[a + 1] = Byte(0) /\ data[a + 2] = Byte(1)
        /\ \A b \in 1..m : data[a + 2 + b] = Byte(nalu[b])
    BY <2>3 DEF Lies, Prefixed
  <2>5. nalu[m] # 0 /\ \A b \in 1..(m - 2) : ~(nalu[b] = 0 /\ nalu[b + 1] = 0 /\ nalu[b + 2] = 1)
    BY <2>3 DEF Lies, IsNALUnit
  <2>6. Byte(0) # Byte(1)
    BY BytesDiffer
  <2>7. ASSUME p = a - 1 PROVE FALSE
    <3>1. p + 2 = a + 1
      BY <2>4, <2>7
    <3>. QED  BY <2>1, <2>4, <2>6, <3>1
  <2>8. ASSUME p = a + 1 PROVE FALSE
    <3>1. p + 1 = a + 2
      BY <2>4, <2>8
    <3>. QED  BY <2>1, <2>4, <2>6, <3>1
  <2>9. ASSUME p = a + 2 PROVE FALSE
    BY <2>1, <2>4, <2>6, <2>9
  <2>10. ASSUME NEW b \in 1..m, p = a + 2 + b PROVE FALSE
    <3>1. nalu[b] = 0
      <4>1. Byte(nalu[b]) = Byte(0)
        BY <2>1, <2>4, <2>10
      <4>. QED  BY <4>1, BytesDiffer
    <3>2. b # m
      BY <2>5, <3>1
    <3>3. b + 1 \in 1..m /\ p + 1 = a + 2 + (b + 1)
      BY <2>4, <2>10, <3>2
    <3>4. nalu[b + 1] = 0
      <4>1. PICK c : c = b + 1
        OBVIOUS
      <4>2. data[a + 2 + c] = Byte(nalu[c]) /\ p + 1 = a + 2 + c
        BY <2>4, <3>3, <4>1
      <4>3. Byte(nalu[c]) = Byte(0)
        BY <2>1, <4>2
      <4>. QED  BY <4>1, <4>3, BytesDiffer
    <3>5. b + 1 # m
      BY <2>5, <3>4
    <3>6. b + 2 \in 1..m /\ p + 2 = a + 2 + (b + 2) /\ b \in 1..(m - 2)
      BY <2>4, <2>10, <3>3, <3>5
    <3>7. nalu[b + 2] = 1
      <4>1. PICK c : c = b + 2
        OBVIOUS
      <4>2. data[a + 2 + c] = Byte(nalu[c]) /\ p + 2 = a + 2 + c
        BY <2>4, <3>6, <4>1
      <4>3. Byte(nalu[c]) = Byte(1)
        BY <2>1, <4>2
      <4>. QED  BY <4>1, <4>3, BytesDiffer
    <3>. QED  BY <2>5, <3>1, <3>4, <3>6, <3>7
  <2>11. p = a
    <3>1. \/ p = a - 1 \/ p = a \/ p = a + 1 \/ p = a + 2
          \/ \E b \in 1..m : p = a + 2 + b
      BY <2>2, <2>3 DEF Within
    <3>2. ~\E b \in 1..m : p = a + 2 + b
      BY <2>10
    <3>. QED  BY <2>7, <2>8, <2>9, <3>1, <3>2
  <2>. QED  BY <2>3, <2>11
<1>. QED  BY <1>2, <1>3

LEMMA FirstIs ==
  ASSUME NEW data, NEW sample, NEW at, Lies(data, sample, at)
  PROVE  FirstPrefix(data) = at[1]
<1>1. /\ 1 \in 1..Len(sample) /\ at[1] \in 1..Len(data) /\ Len(data) \in Nat
      /\ \A i \in 1..Len(sample) : at[1] <= at[i]
  <2>1. /\ Len(sample) \in Nat \ {0} /\ Len(data) \in Nat
        /\ \A i \in 1..Len(sample) : at[i] \in 1..Len(data)
        /\ \A i, j \in 1..Len(sample) : i < j => at[i] + 4 <= at[j]
    BY LiesOrdered
  <2>2. 1 \in 1..Len(sample) /\ \A i \in 1..Len(sample) : i = 1 \/ 1 < i
    BY <2>1
  <2>. QED  BY <2>1, <2>2
<1>2. \A p \in 1..Len(data) : IsPrefix001(data, p) <=> \E i \in 1..Len(sample) : p = at[i]
  BY PrefixesAt
<1>3. PICK a : a = at[1]
  OBVIOUS
<1>4. IsPrefix001(data, a) /\ \A p \in 1..(a - 1) : ~IsPrefix001(data, p)
  <2>1. \A p \in 1..(a - 1) : p \in 1..Len(data) /\ p < a
    BY <1>1, <1>3
  <2>. QED  BY <1>1, <1>2, <1>3, <2>1
<1>5. \A p \in 1..(a - 1) : data[p] = Byte(0)
  <2>1. /\ a = 1 + Pre(sample[1]) /\ a \in Nat /\ (sample[1].long => data[a - 1] = Byte(0))
    BY <1>1, <1>3 DEF Lies, Prefixed
  <2>2. CASE sample[1].long
    <3>1. a = 2
      BY <2>1, <2>2 DEF Pre
    <3>2. \A p \in 1..(a - 1) : p = a - 1
      BY <3>1
    <3>. QED  BY <2>1, <2>2, <3>2
  <2>3. CASE ~sample[1].long
    <3>1. a = 1
      BY <2>1, <2>3 DEF Pre
    <3>. QED  BY <3>1
  <2>. QED  BY <2>2, <2>3
<1>. DEFINE First(i) == /\ i > Len(data) \/ data[i] # Byte(0) \/ IsPrefix001(data, i)
                        /\ \A j \in 1..(i - 1) : data[j] = Byte(0) /\ ~IsPrefix001(data, j)
<1>6. a \in 1..(Len(data) + 1) /\ First(a)
  <2>1. a \in 1..(Len(data) + 1)
    BY <1>1, <1>3
  <2>. QED  BY <1>4, <1>5, <2>1
<1>7. ASSUME NEW i \in 1..(Len(data) + 1), First(i) PROVE i = a
  <2>1. i < a => i \in 1..(a - 1) /\ ~(i > Len(data))
    BY <1>1, <1>3
  <2>2. a < i => a \in 1..(i - 1)
    BY <1>1, <1>3
  <2>3. ~(i < a)
    BY <1>4, <1>5, <1>7, <2>1
  <2>4. ~(a < i)
    BY <1>4, <1>7, <2>2
  <2>. QED  BY <1>1, <1>3, <2>3, <2>4
<1>8. FirstPrefix(data) = CHOOSE i \in 1..(Len(data) + 1) : First(i)
  BY DEF FirstPrefix
<1>. HIDE DEF First
<1>. QED  BY <1>3, <1>6, <1>7, <1>8

LEMMA StartsAt ==
  ASSUME NEW data, NEW sample, NEW at, Lies(data, sample, at)
  PROVE  \A p \in 1..Len(data) : p \in UnitStarts(data) <=> \E i \in 1..Len(sample) : p = at[i]
<1>1. /\ Len(sample) \in Nat \ {0} /\ Len(data) \in Nat
      /\ \A i \in 1..Len(sample) : at[i] \in 1..Len(data)
      /\ \A i, j \in 1..Len(sample) : i < j => at[i] + 4 <= at[j]
  BY LiesOrdered
<1>2. \A p \in 1..Len(data) : IsPrefix001(data, p) <=> \E i \in 1..Len(sample) : p = at[i]
  BY PrefixesAt
<1>3. PICK a : a = at[1] /\ FirstPrefix(data) = a
  BY FirstIs
<1>4. 1 \in 1..Len(sample) /\ \A i \in 1..Len(sample) : i = 1 \/ 1 < i
  BY <1>1
<1>5. \A i \in 1..Len(sample) : at[i] = a \/ at[i] >= a + 3
  BY <1>1, <1>3, <1>4
<1>6. \A i \in 1..Len(sample) : at[i] + 3 <= Len(data)
  <2>. SUFFICES ASSUME NEW i \in 1..Len(sample) PROVE at[i] + 3 <= Len(data)
    OBVIOUS
  <2>1. PICK b, m : b = at[i] /\ m = Len(sample[i].nalu)
    OBVIOUS
  <2>2. b \in Nat /\ m \in Nat \ {0} /\ b + 2 + m <= Len(data)
    BY <2>1 DEF Lies, Prefixed
  <2>. QED  BY <1>1, <2>1, <2>2
<1>7. DOMAIN data = 1..Len(data)
  BY SeqLen DEF Lies
<1>8. \A p \in 1..Len(data) : p \in UnitStarts(data) <=>
        p + 3 <= Len(data) /\ (p = a \/ (p >= a + 3 /\ IsPrefix001(data, p)))
  BY <1>3, <1>7 DEF UnitStarts
<1>. QED  BY <1>2, <1>3, <1>4, <1>5, <1>6, <1>8

PadOf(sample, i) == IF i < Len(sample) /\ sample[i + 1].long THEN <<Byte(0)>> ELSE <<>>
Padded(sample) == [i \in DOMAIN sample |-> Bytes(sample[i].nalu) \o PadOf(sample, i)]

\* Where unit i ends.
EndOf(data, sample, at, i) == IF i < Len(sample) THEN at[i + 1] - 1 ELSE Len(data)

LEMMA UnitIs ==
  ASSUME NEW data, NEW sample, NEW at, Lies(data, sample, at), NEW i \in 1..Len(sample),
         Len(sample[i].nalu) \in Nat, DOMAIN sample[i].nalu = 1..Len(sample[i].nalu)
  PROVE  SubSeq(data, at[i] + 3, EndOf(data, sample, at, i)) = Bytes(sample[i].nalu) \o PadOf(sample, i)
<1>1. /\ Len(sample) \in Nat \ {0} /\ Len(data) \in Nat /\ IsSeq(data)
      /\ \A j \in 1..Len(sample) : at[j] \in 1..Len(data)
  BY LiesOrdered DEF Lies
<1>2. PICK a, m, nalu, e, p, k :
        /\ a = at[i] /\ nalu = sample[i].nalu /\ m = Len(nalu) /\ e = EndOf(data, sample, at, i)
        /\ p = PadOf(sample, i) /\ k = Len(p)
  OBVIOUS
<1>3. /\ a \in 1..Len(data) /\ a + 2 + m <= Len(data) /\ m \in Nat \ {0}
      /\ \A b \in 1..m : data[a + 2 + b] = Byte(nalu[b])
  BY <1>1, <1>2 DEF Lies, Prefixed
<1>4. /\ IsSeq(p) /\ k \in {0, 1} /\ e = a + 2 + m + k /\ e \in 1..Len(data)
      /\ k = 1 => p[1] = Byte(0) /\ data[e] = Byte(0)
  <2>1. CASE i < Len(sample)
    <3>1. i + 1 \in 1..Len(sample) /\ i \in 1..(Len(sample) - 1)
      BY <1>1, <2>1
    <3>2. PICK c, l : c = at[i + 1] /\ l = Pre(sample[i + 1])
      OBVIOUS
    <3>3. /\ c = a + 3 + m + l /\ e = c - 1 /\ c \in 1..Len(data)
          /\ (sample[i + 1].long => data[c - 1] = Byte(0))
      BY <1>1, <1>2, <2>1, <3>1, <3>2 DEF Lies, EndOf, Prefixed
    <3>4. CASE sample[i + 1].long
      <4>1. PICK z : z = Byte(0)
        OBVIOUS
      <4>2. p = <<z>> /\ l = 1
        BY <1>2, <2>1, <3>2, <3>4, <4>1 DEF PadOf, Pre
      <4>3. p \in Seq({z}) /\ Len(p) = 1 /\ p[1] = z
        BY <4>2
      <4>4. IsSeq(p)
        BY <4>3, SeqIsSeq
      <4>5. e = a + 2 + m + 1 /\ e \in 1..Len(data)
        BY <1>3, <3>3, <4>2
      <4>. QED  BY <1>2, <3>3, <3>4, <4>1, <4>3, <4>4, <4>5
    <3>5. CASE ~sample[i + 1].long
      <4>1. p = <<>> /\ l = 0
        BY <1>2, <3>2, <3>5 DEF PadOf, Pre
      <4>2. IsSeq(p) /\ k = 0
        BY <1>2, <4>1, SeqEmpty
      <4>3. e = a + 2 + m + 0 /\ e \in 1..Len(data)
        BY <1>1, <1>3, <3>3, <4>1
      <4>. QED  BY <4>2, <4>3
    <3>. QED  BY <3>4, <3>5
  <2>2. CASE ~(i < Len(sample))
    <3>1. i = Len(sample)
      BY <1>1, <2>2
    <3>2. p = <<>> /\ e = Len(data)
      BY <1>2, <2>2 DEF PadOf, EndOf
    <3>3. Len(data) = a + 2 + m
      BY <1>2, <3>1 DEF Lies
    <3>4. IsSeq(p) /\ k = 0
      BY <1>2, <3>2, SeqEmpty
    <3>5. e = a + 2 + m + 0 /\ e \in 1..Len(data)
      BY <1>1, <1>3, <3>2, <3>3
    <3>. QED  BY <3>4, <3>5
  <2>. QED  BY <2>1, <2>2
<1>5. PICK r : r = Bytes(nalu)
  OBVIOUS
<1>6. IsSeq(r) /\ Len(r) = m /\ \A b \in 1..m : r[b] = Byte(nalu[b])
  <2>1. DOMAIN nalu = 1..m
    BY <1>2
  <2>2. DOMAIN r = 1..m /\ r = [b \in 1..m |-> r[b]] /\ \A b \in 1..m : r[b] = Byte(nalu[b])
    BY <1>5, <2>1 DEF Bytes
  <2>. QED  BY <1>3, <2>2, SeqMade
<1>7. /\ IsSeq(r \o p) /\ Len(r \o p) = m + k
      /\ \A b \in 1..m : (r \o p)[b] = r[b]
      /\ \A b \in 1..k : (r \o p)[m + b] = p[b]
  <2>1. /\ IsSeq(r \o p) /\ Len(r \o p) = Len(r) + Len(p)
        /\ \A b \in 1..Len(r) : (r \o p)[b] = r[b]
        /\ \A b \in 1..Len(p) : (r \o p)[Len(r) + b] = p[b]
    <3>1. IsSeq(r) /\ IsSeq(p)
      BY <1>4, <1>6
    <3>. QED  BY <3>1, SeqConcat
  <2>2. Len(r) = m /\ Len(p) = k
    BY <1>2, <1>6
  <2>. QED  BY <2>1, <2>2
<1>8. PICK s, u, f : s = r \o p /\ f = a + 3 /\ u = SubSeq(data, f, e)
  OBVIOUS
<1>9. IsSeq(u) /\ Len(u) = m + k /\ \A b \in 1..(m + k) : u[b] = data[a + 2 + b]
  <2>1. f \in Nat \ {0} /\ e \in 0..Len(data) /\ f <= e + 1 /\ e - f + 1 = m + k
    BY <1>3, <1>4, <1>8
  <2>2. /\ IsSeq(SubSeq(data, f, e)) /\ Len(SubSeq(data, f, e)) = e - f + 1
        /\ \A b \in 1..(e - f + 1) : SubSeq(data, f, e)[b] = data[f + b - 1]
    BY <1>1, <2>1, SeqSub
  <2>3. \A b \in 1..(m + k) : f + b - 1 = a + 2 + b
    BY <1>3, <1>8
  <2>. QED  BY <1>8, <2>1, <2>2, <2>3
<1>10. \A b \in 1..(m + k) : u[b] = s[b]
  <2>. SUFFICES ASSUME NEW b \in 1..(m + k) PROVE u[b] = s[b]
    OBVIOUS
  <2>1. CASE b \in 1..m
    BY <1>3, <1>6, <1>7, <1>8, <1>9, <2>1
  <2>2. CASE b \notin 1..m
    <3>1. k = 1 /\ b = m + 1
      BY <1>3, <1>4, <2>2
    <3>2. a + 2 + b = e /\ 1 \in 1..k
      BY <1>3, <1>4, <3>1
    <3>3. s[b] = p[1]
      BY <1>7, <1>8, <3>1, <3>2
    <3>. QED  BY <1>4, <1>9, <3>1, <3>2, <3>3
  <2>. QED  BY <2>1, <2>2
<1>11. u = s
  BY <1>7, <1>8, <1>9, <1>10, SeqSame
<1>. QED  BY <1>2, <1>5, <1>8, <1>11

LEMMA ParseIs ==
  ASSUME NEW data, NEW sample, NEW at, Lies(data, sample, at),
         \A i \in 1..Len(sample) : DOMAIN sample[i].nalu = 1..Len(sample[i].nalu)
  PROVE  Parse(data) = Padded(sample)
<1>. DEFINE ends == {i \in DOMAIN data : i >= FirstPrefix(data) + 3 /\ IsPrefix001(data, i)}
            end(i) == IF \E j \in ends : j > i
                      THEN (CHOOSE j \in ends : j > i /\ \A k \in ends : k > i => j <= k) - 1
                      ELSE Len(data)
            unit(i) == SubSeq(data, i + 3, end(i))
            items == [i \in DOMAIN data |-> unit(i)]
            n == Len(sample)
            L == Len(data)
<1>1. Parse(data) = Pushed(items, UnitStarts(data))
  BY DEF Parse
<1>2. /\ n \in Nat \ {0} /\ L \in Nat /\ DOMAIN data = 1..L /\ DOMAIN sample = 1..n
      /\ \A i \in 1..n : at[i] \in 1..L
      /\ \A i, j \in 1..n : i < j => at[i] + 4 <= at[j]
  BY LiesOrdered, SeqLen DEF Lies
<1>3. FirstPrefix(data) = at[1]
  BY FirstIs
<1>4. \A p \in 1..L : p \in ends <=> \E i \in 1..n : i # 1 /\ p = at[i]
  <2>1. \A p \in 1..L : IsPrefix001(data, p) <=> \E i \in 1..n : p = at[i]
    BY PrefixesAt
  <2>2. PICK a : a = at[1]
    OBVIOUS
  <2>3. 1 \in 1..n /\ \A i \in 1..n : i = 1 \/ 1 < i
    BY <1>2
  <2>4. a \in 1..L /\ \A i \in 1..n : i # 1 => at[i] >= a + 3
    BY <1>2, <2>2, <2>3
  <2>5. \A p \in 1..L : p \in ends <=> p >= a + 3 /\ IsPrefix001(data, p)
    BY <1>2, <1>3, <2>2
  <2>. QED  BY <2>1, <2>2, <2>4, <2>5
<1>5. ends \subseteq 1..L
  BY <1>2
<1>. HIDE DEF ends, n, L
<1>6. ASSUME NEW i \in 1..n PROVE end(at[i]) = EndOf(data, sample, at, i)
  <2>1. CASE i < n
    <3>1. i + 1 \in 1..n /\ i + 1 # 1 /\ i < i + 1
      BY <1>2, <2>1
    <3>2. PICK a, b : a = at[i] /\ b = at[i + 1]
      OBVIOUS
    <3>3. b \in ends /\ b > a /\ a \in 1..L /\ b \in 1..L
      BY <1>2, <1>4, <3>1, <3>2
    <3>4. ASSUME NEW k \in ends, k > a PROVE b <= k
      <4>1. PICK j \in 1..n : k = at[j]
        BY <1>4, <1>5
      <4>2. ~(j < i) /\ j # i
        BY <1>2, <3>2, <3>4, <4>1
      <4>3. j = i + 1 \/ i + 1 < j
        BY <1>2, <4>2
      <4>. QED  BY <1>2, <3>1, <3>2, <3>3, <4>1, <4>3
    <3>5. \A j \in ends : (j > a /\ \A k \in ends : k > a => j <= k) => j = b
      BY <1>5, <3>3, <3>4
    <3>6. b = CHOOSE j \in ends : j > a /\ \A k \in ends : k > a => j <= k
      BY <3>3, <3>4, <3>5
    <3>7. end(a) = b - 1
      BY <3>3, <3>6
    <3>. QED  BY <2>1, <3>2, <3>7 DEF EndOf, n
  <2>2. CASE ~(i < n)
    <3>1. i = n
      BY <1>2, <2>2
    <3>2. ASSUME NEW k \in ends, k > at[i] PROVE FALSE
      <4>1. PICK j \in 1..n : k = at[j]
        BY <1>4, <1>5
      <4>2. j = i \/ j < i
        BY <1>2, <3>1
      <4>. QED  BY <1>2, <3>2, <4>1, <4>2
    <3>. QED  BY <2>2, <3>2 DEF EndOf, n, L
  <2>. QED  BY <2>1, <2>2
<1>. HIDE DEF end
<1>7. \A i \in 1..n : at[i] \in 1..L /\ items[at[i]] = SubSeq(data, at[i] + 3, end(at[i]))
  BY <1>2
<1>8. DOMAIN items = 1..L /\ items = [p \in 1..L |-> items[p]]
  BY <1>2
<1>. HIDE DEF items
<1>9. IsSeq(items) /\ Len(items) = L
  BY <1>2, <1>8, SeqMade
<1>10. \A p \in 1..L : p \in UnitStarts(data) <=> \E i \in 1..n : p = at[i]
  BY StartsAt DEF n, L
<1>11. PICK out : out = Pushed(items, UnitStarts(data))
  OBVIOUS
<1>12. IsSeq(out) /\ Len(out) = n /\ \A i \in 1..n : out[i] = items[at[i]]
  <2>1. \A i, j \in 1..n : i < j => at[i] < at[j]
    BY <1>2
  <2>2. PICK places : places = UnitStarts(data)
    OBVIOUS
  <2>3. \A p \in 1..L : p \in places <=> \E i \in 1..n : p = at[i]
    BY <1>10, <2>2
  <2>4. n \in Nat /\ \A i \in 1..n : at[i] \in 1..L
    BY <1>2
  <2>5. PICK its : its = items
    OBVIOUS
  <2>6. Len(its) = L /\ out = Pushed(its, places)
    BY <1>9, <1>11, <2>2, <2>5
  <2>7. Lists(at, n, places, Len(its))
    BY <1>2, <2>1, <2>3, <2>4, <2>6 DEF Lists
  <2>8. IsSeq(out) /\ Len(out) = n /\ \A i \in 1..n : out[i] = its[at[i]]
    BY <2>6, <2>7, PushedAt
  <2>. QED  BY <2>5, <2>8
<1>13. PICK padded : padded = Padded(sample)
  OBVIOUS
<1>14. IsSeq(padded) /\ Len(padded) = n /\ \A i \in 1..n : padded[i] = Bytes(sample[i].nalu) \o PadOf(sample, i)
  <2>1. /\ DOMAIN padded = 1..n /\ padded = [i \in 1..n |-> padded[i]]
        /\ \A i \in 1..n : padded[i] = Bytes(sample[i].nalu) \o PadOf(sample, i)
    BY <1>2, <1>13 DEF Padded
  <2>. QED  BY <1>2, <2>1, SeqMade
<1>15. \A i \in 1..n : out[i] = padded[i]
  <2>. SUFFICES ASSUME NEW i \in 1..n PROVE out[i] = padded[i]
    OBVIOUS
  <2>1. i \in 1..Len(sample) /\ Len(sample[i].nalu) \in Nat /\ DOMAIN sample[i].nalu = 1..Len(sample[i].nalu)
    BY DEF n, Lies
  <2>2. SubSeq(data, at[i] + 3, EndOf(data, sample, at, i)) = Bytes(sample[i].nalu) \o PadOf(sample, i)
    BY <2>1, UnitIs
  <2>. QED  BY <1>6, <1>7, <1>12, <1>14, <2>2
<1>16. out = padded
  BY <1>12, <1>14, <1>15, SeqSame
<1>. QED  BY <1>1, <1>11, <1>13, <1>16

\* The units of a sample come back in order, one for one; a zero of the prefix
\* behind it may end one.
LEMMA ParseSplits ==
  ASSUME NEW sample \in Samples
  PROVE  Parse(SampleData(sample)) = Padded(sample)
<1>1. PICK at : Lies(SampleData(sample), sample, at)
  BY SampleLies
<1>2. \A i \in 1..Len(sample) : DOMAIN sample[i].nalu = 1..Len(sample[i].nalu)
  BY UnitsOf
<1>3. PICK data : data = SampleData(sample)
  OBVIOUS
<1>. QED  BY <1>1, <1>2, <1>3, ParseIs

\* A zero behind a unit leaves its type.
LEMMA PaddedIs ==
  ASSUME NEW sample \in Samples
  PROVE  /\ IsSeq(Padded(sample)) /\ Len(Padded(sample)) = Len(sample)
         /\ \A i \in 1..Len(sample) :
              /\ Padded(sample)[i] = Bytes(sample[i].nalu) \o PadOf(sample, i)
              /\ GetType(Padded(sample)[i]) = sample[i].nalu[1] % 32
              /\ Len(Padded(sample)[i]) >= Len(sample[i].nalu)
              /\ Len(Padded(sample)[i]) \in Nat
<1>1. /\ Len(sample) \in Nat /\ DOMAIN sample = 1..Len(sample)
      /\ \A i \in 1..Len(sample) : /\ Len(sample[i].nalu) \in Nat \ {0}
                                   /\ DOMAIN sample[i].nalu = 1..Len(sample[i].nalu)
                                   /\ sample[i].nalu \in Seq(0..255)
  BY UnitsOf
<1>2. PICK padded : padded = Padded(sample)
  OBVIOUS
<1>3. /\ DOMAIN padded = 1..Len(sample) /\ padded = [i \in 1..Len(sample) |-> padded[i]]
      /\ \A i \in 1..Len(sample) : padded[i] = Bytes(sample[i].nalu) \o PadOf(sample, i)
  BY <1>1, <1>2 DEF Padded
<1>4. IsSeq(padded) /\ Len(padded) = Len(sample)
  BY <1>1, <1>3, SeqMade
<1>5. ASSUME NEW i \in 1..Len(sample)
      PROVE  /\ GetType(padded[i]) = sample[i].nalu[1] % 32
             /\ Len(padded[i]) >= Len(sample[i].nalu) /\ Len(padded[i]) \in Nat
  <2>1. PICK n, m, r, p, u : /\ n = sample[i].nalu /\ m = Len(n) /\ r = Bytes(n)
                             /\ p = PadOf(sample, i) /\ u = padded[i]
    OBVIOUS
  <2>2. n \in Seq(0..255) /\ m \in Nat \ {0} /\ DOMAIN n = 1..m
    BY <1>1, <2>1
  <2>3. IsSeq(r) /\ Len(r) = m /\ r[1] = Byte(n[1])
    <3>1. DOMAIN r = 1..m /\ r = [b \in 1..m |-> r[b]] /\ \A b \in 1..m : r[b] = Byte(n[b])
      BY <2>1, <2>2 DEF Bytes
    <3>2. 1 \in 1..m
      BY <2>2
    <3>. QED  BY <2>2, <3>1, <3>2, SeqMade
  <2>4. IsSeq(p)
    <3>1. PICK z : z = Byte(0)
      OBVIOUS
    <3>2. <<z>> \in Seq({z})
      OBVIOUS
    <3>3. IsSeq(<<z>>)
      BY <3>2, SeqIsSeq
    <3>. QED  BY <2>1, <3>1, <3>3, SeqEmpty DEF PadOf
  <2>5. u = r \o p
    BY <1>3, <2>1
  <2>6. /\ IsSeq(r \o p) /\ Len(r \o p) = Len(r) + Len(p)
        /\ \A k \in 1..Len(r) : (r \o p)[k] = r[k]
    BY <2>3, <2>4, SeqConcat
  <2>7. Len(p) \in Nat /\ 1 \in 1..Len(r)
    BY <2>2, <2>3, <2>4, SeqLen
  <2>8. IsSeq(u) /\ Len(u) \in Nat \ {0} /\ Len(u) >= m /\ u[1] = Byte(n[1])
    BY <2>2, <2>3, <2>5, <2>6, <2>7
  <2>9. u # <<>>
    BY <2>8, SeqLen
  <2>10. GetType(u) = n[1] % 32
    <3>1. GetType(u) = u[1][2] % 32
      BY <2>9 DEF GetType
    <3>2. Byte(n[1])[2] = n[1]
      BY DEF Byte
    <3>. QED  BY <2>8, <3>1, <3>2
  <2>. QED  BY <2>1, <2>8, <2>10
<1>. QED  BY <1>2, <1>3, <1>4, <1>5

LEMMA SampleIsPlain ==
  ASSUME NEW sample \in Samples
  PROVE  Plain(SampleData(sample)) /\ WholeSets(Parse(SampleData(sample)))
<1>. DEFINE prefix(i) == (IF sample[i].long THEN <<Byte(0)>> ELSE <<>>) \o <<Byte(0), Byte(0), Byte(1)>>
            bytes(i) == [b \in DOMAIN sample[i].nalu |-> Byte(sample[i].nalu[b])]
            parts == [i \in DOMAIN sample |-> prefix(i) \o bytes(i)]
<1>1. PICK U : U = [long : BOOLEAN, nalu : Seq(0..255)]
  OBVIOUS
<1>2. sample \in Seq(U)
  BY <1>1, OutputAssumption
<1>3. Len(sample) \in Nat /\ DOMAIN sample = 1..Len(sample) /\ \A i \in 1..Len(sample) : sample[i] \in U
  BY <1>2, LenProperties, ElementOfSeq
<1>4. ASSUME NEW i \in 1..Len(sample) PROVE Plain(prefix(i)) /\ Plain(bytes(i))
  <2>1. PICK n : n = sample[i].nalu
    OBVIOUS
  <2>2. n \in Seq(0..255)
    BY <1>1, <1>3, <2>1
  <2>3. Len(n) \in Nat /\ DOMAIN n = 1..Len(n)
    BY <2>2, LenProperties
  <2>4. PICK s : s = bytes(i)
    OBVIOUS
  <2>5. DOMAIN s = 1..Len(n) /\ s = [b \in 1..Len(n) |-> s[b]] /\ \A b \in 1..Len(n) : s[b] = Byte(n[b])
    BY <2>1, <2>3, <2>4
  <2>6. IsSeq(s) /\ Len(s) = Len(n)
    BY <2>3, <2>5, SeqMade
  <2>7. Plain(s)
    BY <2>5, <2>6, BytesArePlain DEF Plain
  <2>8. PICK a, b : a = (IF sample[i].long THEN <<Byte(0)>> ELSE <<>>) /\ b = <<Byte(0), Byte(0), Byte(1)>>
    OBVIOUS
  <2>9. Plain(a) /\ Plain(b)
    BY <2>8, BytesArePlain, PlainNone, PlainOne, PlainThree
  <2>10. Plain(a \o b)
    BY <2>9, PlainConcat
  <2>. QED  BY <2>4, <2>7, <2>8, <2>10
<1>5. ASSUME NEW i \in 1..Len(sample) PROVE Plain(parts[i])
  <2>1. PICK a, b : a = prefix(i) /\ b = bytes(i)
    OBVIOUS
  <2>2. Plain(a \o b)
    BY <1>4, <2>1, PlainConcat
  <2>3. parts[i] = prefix(i) \o bytes(i)
    BY <1>3
  <2>. QED  BY <2>1, <2>2, <2>3
<1>6. DOMAIN parts = 1..Len(sample) /\ parts = [i \in 1..Len(sample) |-> parts[i]]
  BY <1>3
<1>7. SampleData(sample) = FlattenSeq(parts)
  BY DEF SampleData
<1>. HIDE DEF parts
<1>8. IsSeq(parts) /\ Len(parts) = Len(sample)
  BY <1>3, <1>6, SeqMade
<1>9. Plain(FlattenSeq(parts))
  BY <1>5, <1>8, PlainFlatten DEF AllPlain
<1>10. Plain(SampleData(sample))
  BY <1>7, <1>9
<1>11. WholeSets(Parse(SampleData(sample)))
  <2>1. PICK nalus : nalus = Parse(SampleData(sample))
    OBVIOUS
  <2>2. nalus = Padded(sample)
    BY <2>1, ParseSplits
  <2>3. /\ Len(nalus) = Len(sample)
        /\ \A i \in 1..Len(sample) : /\ GetType(nalus[i]) = sample[i].nalu[1] % 32
                                     /\ Len(nalus[i]) >= Len(sample[i].nalu)
                                     /\ Len(nalus[i]) \in Nat
    BY <2>2, PaddedIs
  <2>4. \A i \in 1..Len(sample) : /\ Len(sample[i].nalu) \in Nat
                                  /\ sample[i].nalu[1] % 32 = NALUTYPE_SPS => Len(sample[i].nalu) >= 4
    BY UnitsOf DEF IsNALUnit
  <2>5. ASSUME NEW i \in 1..Len(nalus), GetType(nalus[i]) = NALUTYPE_SPS PROVE Len(nalus[i]) >= 4
    BY <2>3, <2>4, <2>5
  <2>. QED  BY <2>1, <2>5 DEF WholeSets
<1>. QED  BY <1>10, <1>11
----------------------------------------------------------------------------
(* What a step writes.                                                        *)

LEMMA ChunkedIsSeq ==
  ASSUME NEW msg, Sound(msg), NEW id \in Nat, id >= 3, NEW size \in Nat \ {0}
  PROVE  IsSeq(ToChunkedBitstream(0, id, size, msg))
<1>1. IsSeq(msg.payload) /\ NumChunks(Len(msg.payload), size) \in Nat \ {0}
  BY SoundFacts, ChunksOfMessage
<1>2. ToChunkedBitstream(0, id, size, msg) = Remaining(id, size, msg, 0)
  BY <1>1, WholeMessage
<1>3. 0 \in Nat /\ 0 <= NumChunks(Len(msg.payload), size)
  BY <1>1
<1>4. IsSeq(Remaining(id, size, msg, 0))
  BY <1>1, <1>3, RemainingFacts
<1>. QED  BY <1>2, <1>4

LEMMA Pair == ASSUME NEW x, NEW y PROVE Append(<<x>>, y) = <<x, y>> /\ <<x>> \o <<y>> = <<x, y>>
<1>1. PICK s, S : s = <<x>> /\ S = {x, y}
  OBVIOUS
<1>2. s \in Seq(S) /\ x \in S /\ y \in S /\ IsSeq(s) /\ Len(s) = 1 /\ s[1] = x
  <2>1. s \in Seq(S) /\ x \in S /\ y \in S /\ Len(s) = 1 /\ s[1] = x
    BY <1>1
  <2>. QED  BY <2>1, SeqIsSeq
<1>3. PICK t, u : t = Append(s, y) /\ u = <<x, y>>
  OBVIOUS
<1>4. IsSeq(t) /\ Len(t) = 2 /\ t[2] = y /\ t[1] = x
  <2>1. /\ IsSeq(t) /\ Len(t) = Len(s) + 1 /\ t[Len(s) + 1] = y
        /\ \A i \in 1..Len(s) : t[i] = s[i]
    <3>1. IsSeq(s)
      BY <1>2
    <3>2. /\ IsSeq(Append(s, y)) /\ Len(Append(s, y)) = Len(s) + 1 /\ Append(s, y)[Len(s) + 1] = y
          /\ \A i \in 1..Len(s) : Append(s, y)[i] = s[i]
      BY <3>1, SeqAppend
    <3>. QED  BY <1>3, <3>2, Zenon
  <2>. QED  BY <1>2, <2>1
<1>5. IsSeq(u) /\ Len(u) = 2 /\ u[1] = x /\ u[2] = y
  <2>1. u \in Seq(S) /\ Len(u) = 2 /\ u[1] = x /\ u[2] = y
    BY <1>1, <1>3
  <2>. QED  BY <2>1, SeqIsSeq
<1>6. \A i \in 1..Len(t) : t[i] = u[i]
  <2>1. \A i \in 1..2 : i = 1 \/ i = 2
    OBVIOUS
  <2>. QED  BY <1>4, <1>5, <2>1
<1>7. t = u
  BY <1>4, <1>5, <1>6, SeqSame
<1>8. Append(s, y) = s \o <<y>>
  BY <1>2, AppendIsConcat
<1>. QED  BY <1>1, <1>3, <1>7, <1>8

\* The cells of a write of one message and of two.
LEMMA WriteOne ==
  ASSUME NEW id, NEW size, NEW item, Write(id, size, <<item>>), IsSeq(unread)
  PROVE  /\ toServer' = toServer \o ToChunkedBitstream(0, id, size, item.msg)
         /\ unread' = Append(unread, item) /\ UNCHANGED server
<1>1. PICK x : x = ToChunkedBitstream(0, id, size, item.msg)
  OBVIOUS
<1>2. [i \in DOMAIN <<item>> |-> ToChunkedBitstream(0, id, size, <<item>>[i].msg)] = <<x>>
  BY <1>1
<1>3. toServer' = toServer \o FlattenSeq(<<x>>) /\ unread' = unread \o <<item>> /\ UNCHANGED server
  BY <1>2 DEF Write
<1>4. FlattenSeq(<<x>>) = x
  BY FlattenOne
<1>5. unread \o <<item>> = Append(unread, item)
  <2>1. PICK S : S = Range(unread) \union {item}
    OBVIOUS
  <2>2. unread \in Seq(S) /\ item \in S
    BY <2>1, SeqMonotonic DEF IsSeq
  <2>. QED  BY <2>2, AppendIsConcat
<1>. QED  BY <1>1, <1>3, <1>4, <1>5

LEMMA FlattenTwo ==
  ASSUME NEW x, NEW y, IsSeq(x), IsSeq(y)
  PROVE  FlattenSeq(<<x, y>>) = x \o y
<1>1. PICK s : s = <<x>>
  OBVIOUS
<1>2. s \in Seq({x}) /\ Len(s) = 1 /\ s[1] = x
  BY <1>1
<1>3. AllSeqs(s)
  BY <1>2, SeqIsSeq DEF AllSeqs
<1>4. FlattenSeq(Append(s, y)) = FlattenSeq(s) \o y
  BY <1>3, FlattenAppend
<1>5. Append(s, y) = <<x, y>> /\ FlattenSeq(s) = x
  BY <1>1, FlattenOne, Pair
<1>. QED  BY <1>4, <1>5

LEMMA AppendTwo ==
  ASSUME NEW u, IsSeq(u), NEW a, NEW b
  PROVE  u \o <<a, b>> = Append(Append(u, a), b)
<1>1. PICK S : S = Range(u) \union {a, b}
  OBVIOUS
<1>2. u \in Seq(S) /\ a \in S /\ b \in S
  BY <1>1, SeqMonotonic DEF IsSeq
<1>3. Append(u, a) = u \o <<a>> /\ Append(u, a) \in Seq(S)
  BY <1>2, AppendIsConcat, AppendProperties
<1>4. Append(Append(u, a), b) = Append(u, a) \o <<b>>
  BY <1>2, <1>3, AppendIsConcat
<1>5. (u \o <<a>>) \o <<b>> = u \o (<<a>> \o <<b>>)
  <2>1. <<a>> \in Seq(S) /\ <<b>> \in Seq(S)
    BY <1>2
  <2>. QED  BY <1>2, <2>1, ConcatAssociative
<1>6. <<a>> \o <<b>> = <<a, b>>
  BY Pair
<1>. QED  BY <1>3, <1>4, <1>5, <1>6

LEMMA WireSeqs == ASSUME WireInv PROVE IsSeq(toServer) /\ IsSeq(unread) /\ SizeNow \in Nat \ {0}
<1>1. PICK ids, sizes, strips, read :
        Wire(toServer, unread, inSize, SizeNow, partial, heads, ids, sizes, strips, read)
  BY DEF WireInv, OnTheWay
<1>2. IsSeq(unread) /\ AllSeqs(strips) /\ toServer = FlattenSeq(strips)
  BY <1>1 DEF Wire
<1>3. SizeNow \in Sizes
  <2>1. Len(unread) + 1 \in 1..(Len(unread) + 1)
    BY <1>2, SeqLen
  <2>. QED  BY <1>1, <2>1 DEF Wire
<1>. QED  BY <1>2, <1>3, FlattenIsSeq, SizesFacts

\* What is at the head of unread stays there.
LEMMA LostStays ==
  ASSUME ReceivedAsSent, IsSeq(unread), NEW item, UNCHANGED server, unread' = Append(unread, item)
  PROVE  ReceivedAsSent'
<1>1. UNCHANGED <<got, lost>>
  BY DEF server
<1>2. ASSUME unread # <<>> PROVE unread' # <<>> /\ Head(unread') = Head(unread)
  <2>1. /\ Len(unread) \in Nat \ {0} /\ IsSeq(Append(unread, item))
        /\ Len(Append(unread, item)) = Len(unread) + 1
        /\ \A i \in 1..Len(unread) : Append(unread, item)[i] = unread[i]
    BY <1>2, SeqLen, SeqAppend
  <2>2. PICK u : u = Append(unread, item)
    OBVIOUS
  <2>3. 1 \in 1..Len(unread) /\ IsSeq(u) /\ Len(u) # 0 /\ u[1] = unread[1]
    BY <2>1, <2>2
  <2>4. u # <<>>
    BY <2>3, SeqLen
  <2>5. Head(u) = u[1] /\ Head(unread) = unread[1]
    BY <1>2, <2>3, <2>4, SeqTail
  <2>. QED  BY <2>2, <2>3, <2>4, <2>5
<1>. QED  BY <1>1, <1>2 DEF ReceivedAsSent

LEMMA EarlyStays ==
  ASSUME NEW items, IsSeq(items), Early(items), NEW item, item.msg.ts = 0
  PROVE  Early(Append(items, item))
<1>1. /\ Len(items) \in Nat /\ Len(Append(items, item)) = Len(items) + 1
      /\ Append(items, item)[Len(items) + 1] = item
      /\ \A i \in 1..Len(items) : Append(items, item)[i] = items[i]
  BY SeqLen, SeqAppend
<1>2. \A i \in 1..(Len(items) + 1) : i \in 1..Len(items) \/ i = Len(items) + 1
  BY <1>1
<1>. QED  BY <1>1, <1>2 DEF Early

LEMMA OneWritten ==
  ASSUME WireInv, NEW item, Sound(item.msg), NEW id \in Nat, id >= 3,
         NEW size, size = SizeNow, Write(id, size, <<item>>),
         chunkSize' = chunkSize, SizeNow' = SizeAfter(size, item.msg),
         ~Running' => ~Running /\ item.msg.ts = 0
  PROVE  WireInv'
<1>1. IsSeq(unread) /\ size \in Nat \ {0}
  BY WireSeqs
<1>2. /\ toServer' = toServer \o ToChunkedBitstream(0, id, size, item.msg)
      /\ unread' = Append(unread, item) /\ UNCHANGED server
  BY <1>1, WriteOne
<1>3. OnTheWay(toServer \o ToChunkedBitstream(0, id, size, item.msg), Append(unread, item), inSize,
               SizeAfter(size, item.msg), partial, heads)
  <2>1. PICK d, u, i, p, h : d = toServer /\ u = unread /\ i = inSize /\ p = partial /\ h = heads
    OBVIOUS
  <2>2. OnTheWay(d, u, i, size, p, h)
    BY <2>1 DEF WireInv
  <2>3. OnTheWay(d \o ToChunkedBitstream(0, id, size, item.msg), Append(u, item), i,
                 SizeAfter(size, item.msg), p, h)
    BY <2>2, AppendWire
  <2>. QED  BY <2>1, <2>3
<1>4. OnTheWay(toServer', unread', inSize', SizeNow', partial', heads')
  <2>1. UNCHANGED <<inSize, partial, heads>>
    BY <1>2 DEF server
  <2>. QED  BY <1>2, <1>3, <2>1
<1>5. ReceivedAsSent'
  BY <1>1, <1>2, LostStays DEF WireInv
<1>6. ~Running' => Early(unread')
  BY <1>1, <1>2, EarlyStays DEF WireInv
<1>. QED  BY <1>4, <1>5, <1>6 DEF WireInv

\* Two messages, that are written while the streams run.
LEMMA TwoWritten ==
  ASSUME WireInv, NEW a, Sound(a.msg), a.msg.type # PROTOSETCHUNKSIZE,
         NEW b, Sound(b.msg), b.msg.type # PROTOSETCHUNKSIZE, NEW id \in Nat, id >= 3,
         NEW size, size = SizeNow, Write(id, size, <<a, b>>),
         chunkSize' = chunkSize, SizeNow' = size, Running'
  PROVE  WireInv'
<1>1. IsSeq(unread) /\ IsSeq(toServer) /\ size \in Nat \ {0}
  BY WireSeqs
<1>2. /\ toServer' = (toServer \o ToChunkedBitstream(0, id, size, a.msg))
                       \o ToChunkedBitstream(0, id, size, b.msg)
      /\ unread' = Append(Append(unread, a), b) /\ UNCHANGED server
  <2>1. PICK x, y : /\ x = ToChunkedBitstream(0, id, size, a.msg)
                    /\ y = ToChunkedBitstream(0, id, size, b.msg)
    OBVIOUS
  <2>2. IsSeq(x) /\ IsSeq(y)
    BY <1>1, <2>1, ChunkedIsSeq
  <2>3. [k \in DOMAIN <<a, b>> |-> ToChunkedBitstream(0, id, size, <<a, b>>[k].msg)] = <<x, y>>
    BY <2>1
  <2>4. toServer' = toServer \o FlattenSeq(<<x, y>>) /\ unread' = unread \o <<a, b>> /\ UNCHANGED server
    BY <2>3 DEF Write
  <2>5. FlattenSeq(<<x, y>>) = x \o y
    BY <2>2, FlattenTwo
  <2>6. (toServer \o x) \o y = toServer \o (x \o y)
    BY <1>1, <2>2, SeqAssoc
  <2>7. unread \o <<a, b>> = Append(Append(unread, a), b)
    BY <1>1, AppendTwo
  <2>. QED  BY <2>1, <2>4, <2>5, <2>6, <2>7
<1>3. SizeAfter(size, a.msg) = size /\ SizeAfter(size, b.msg) = size
  BY DEF SizeAfter
<1>4. PICK d, u, i, p, h : d = toServer /\ u = unread /\ i = inSize /\ p = partial /\ h = heads
  OBVIOUS
<1>5. PICK d2, u2 : d2 = d \o ToChunkedBitstream(0, id, size, a.msg) /\ u2 = Append(u, a)
  OBVIOUS
<1>6. OnTheWay(d2, u2, i, size, p, h)
  <2>1. OnTheWay(d, u, i, size, p, h)
    BY <1>4 DEF WireInv
  <2>2. OnTheWay(d \o ToChunkedBitstream(0, id, size, a.msg), Append(u, a), i,
                 SizeAfter(size, a.msg), p, h)
    BY <2>1, AppendWire
  <2>. QED  BY <1>3, <1>5, <2>2
<1>7. OnTheWay(d2 \o ToChunkedBitstream(0, id, size, b.msg), Append(u2, b), i, size, p, h)
  <2>1. OnTheWay(d2 \o ToChunkedBitstream(0, id, size, b.msg), Append(u2, b), i,
                 SizeAfter(size, b.msg), p, h)
    BY <1>6, AppendWire
  <2>. QED  BY <1>3, <2>1
<1>8. OnTheWay(toServer', unread', inSize', SizeNow', partial', heads')
  <2>1. UNCHANGED <<inSize, partial, heads>>
    BY <1>2 DEF server
  <2>. QED  BY <1>2, <1>4, <1>5, <1>7, <2>1
<1>9. ReceivedAsSent'
  <2>1. UNCHANGED <<got, lost>>
    BY <1>2 DEF server
  <2>2. ASSUME unread # <<>> PROVE unread' # <<>> /\ Head(unread') = Head(unread)
    <3>1. PICK w : w = Append(u2, b)
      OBVIOUS
    <3>2. /\ Len(u) \in Nat \ {0} /\ IsSeq(u2) /\ Len(u2) = Len(u) + 1
          /\ \A k \in 1..Len(u) : u2[k] = u[k]
      BY <1>1, <1>4, <1>5, <2>2, SeqLen, SeqAppend
    <3>3. IsSeq(w) /\ Len(w) = Len(u2) + 1 /\ \A k \in 1..Len(u2) : w[k] = u2[k]
      BY <3>1, <3>2, SeqAppend
    <3>4. 1 \in 1..Len(u) /\ 1 \in 1..Len(u2) /\ Len(w) # 0
      BY <3>2, <3>3
    <3>5. w # <<>> /\ w[1] = u[1]
      BY <3>2, <3>3, <3>4, SeqLen
    <3>6. Head(w) = w[1] /\ Head(u) = u[1]
      BY <1>1, <1>4, <2>2, <3>3, <3>5, SeqTail
    <3>. QED  BY <1>2, <1>4, <1>5, <3>1, <3>5, <3>6
  <2>. QED  BY <2>1, <2>2 DEF ReceivedAsSent, WireInv
<1>. QED  BY <1>8, <1>9 DEF WireInv

\* A command or data of the handshake is a message as it must be.
LEMMA EncodedIsSound ==
  ASSUME NEW type, type \in {COMMANDAMF0, DATAAMF0}, NEW stream, NEW entities, Message(entities),
         NEW item, item = Encoded(type, stream, entities)
  PROVE  Sound(item.msg) /\ item.msg.ts = 0 /\ item.msg.type # PROTOSETCHUNKSIZE
<1>1. PICK p : p = Encode(entities)
  OBVIOUS
<1>2. Payload(p)
  BY <1>1, EncodedIsPayload DEF Message
<1>3. item.msg = RTMPMessage(0, type, stream, p)
  BY <1>1 DEF Encoded
<1>4. /\ item.msg.ts = 0 /\ item.msg.type = type /\ item.msg.stream = stream
      /\ item.msg.payload = p
  BY <1>3 DEF RTMPMessage
<1>5. type # PROTOSETCHUNKSIZE
  BY DEF COMMANDAMF0, DATAAMF0, PROTOSETCHUNKSIZE
<1>. QED  BY <1>2, <1>3, <1>4, <1>5 DEF Sound

\* A packet, of audio or of video.
LEMMA PacketIsSound ==
  ASSUME NEW ts \in Stamps, NEW type, type \in {AUDIO, VIDEO}, NEW payload, Payload(payload),
         NEW msg, msg = RTMPMessage(ts, type, StreamID, payload)
  PROVE  Sound(msg) /\ msg.type # PROTOSETCHUNKSIZE
<1>1. ts \in Nat
  BY OutputAssumption
<1>2. msg.ts = ts /\ msg.type = type /\ msg.stream = StreamID /\ msg.payload = payload
  BY DEF RTMPMessage
<1>3. type # PROTOSETCHUNKSIZE
  BY DEF AUDIO, VIDEO, PROTOSETCHUNKSIZE
<1>. QED  BY <1>1, <1>2, <1>3 DEF Sound

LEMMA IdsAre ==
  ASSUME IdsInv
  PROVE  /\ chain \in 0..7 /\ nextCsid \in Nat /\ nextCsid >= 3
         /\ \A s \in Streams : csid[s] # 0 => csid[s] \in Nat /\ csid[s] >= 3
         /\ chain \in 2..6 => csid.publish # 0
<1>1. PICK first \in FirstChunkStreamIDs :
        nextCsid \in first..(first + 4 * (attempt - 1) + IdsTaken)
  BY DEF IdsInv
<1>2. nextCsid \in Nat /\ nextCsid >= 3 /\ chain \in 0..7
  BY <1>1, ChainFacts, OutputAssumption DEF IdsInv
<1>3. \A s \in Streams : csid[s] \in {0} \union (3..(nextCsid - 1))
  BY DEF IdsInv
<1>4. chain \in 2..6 => csid.publish # 0
  BY ChainFacts DEF IdsInv
<1>. QED  BY <1>2, <1>3, <1>4

\* A message of the handshake but the last.
LEMMA HandshakeWrites ==
  ASSUME IdsInv, WireInv, NEW name, NextInChain(name), name # "setChunkSize",
         NEW type, type \in {COMMANDAMF0, DATAAMF0}, NEW stream, NEW entities, Message(entities),
         NEW id \in Nat, id >= 3, Write(id, CommandChunkSize, <<Encoded(type, stream, entities)>>)
  PROVE  WireInv'
<1>1. PICK item : item = Encoded(type, stream, entities)
  OBVIOUS
<1>2. Sound(item.msg) /\ item.msg.ts = 0 /\ item.msg.type # PROTOSETCHUNKSIZE
  BY <1>1, EncodedIsSound
<1>3. chain \in 0..5 /\ chain' = chain + 1 /\ chunkSize' = chunkSize
  <2>1. /\ chain \in 0..6 /\ chain' = chain + 1 /\ Chain[chain + 1] = name
    BY IdsAre, NextFacts
  <2>2. chain # 6
    BY <2>1, ChainFacts
  <2>. QED  BY <2>1, <2>2 DEF NextInChain
<1>4. ~Running /\ ~Running'
  BY <1>3, ChainFacts DEF Running
<1>5. PICK size : size = DefaultChunkSize
  OBVIOUS
<1>6. size = SizeNow /\ SizeNow' = SizeAfter(size, item.msg)
  BY <1>2, <1>4, <1>5 DEF SizeNow, SizeAfter
<1>7. Write(id, size, <<item>>)
  BY <1>1, <1>5 DEF CommandChunkSize
<1>. QED  BY <1>2, <1>3, <1>4, <1>6, <1>7, OneWritten

LEMMA SetChunkSizeWrites ==
  ASSUME IdsInv, WireInv, SendSetChunkSize
  PROVE  WireInv'
<1>1. PICK item : item = [msg |-> ProtoSetChunkSizeMessage(chunkSize), from |-> <<>>]
  OBVIOUS
<1>2. PICK p : p = <<<<"chunksize", chunkSize>>>>
  OBVIOUS
<1>3. item.msg = RTMPMessage(0, PROTOSETCHUNKSIZE, 0, p)
  BY <1>1, <1>2 DEF ProtoSetChunkSizeMessage
<1>4. /\ item.msg.ts = 0 /\ item.msg.type = PROTOSETCHUNKSIZE /\ item.msg.stream = 0
      /\ item.msg.payload = p
  BY <1>3 DEF RTMPMessage
<1>5. Payload(p) /\ p[1][2] = chunkSize
  <2>1. PICK c : c = <<"chunksize", chunkSize>>
    OBVIOUS
  <2>2. c[1] \notin HeaderFields
    BY <2>1 DEF HeaderFields
  <2>3. Plain(<<c>>) /\ <<c>> # <<>> /\ p = <<c>>
    BY <1>2, <2>1, <2>2, PlainOne
  <2>4. p[1][2] = chunkSize
    BY <1>2
  <2>. QED  BY <2>3, <2>4 DEF Payload, Plain
<1>6. chunkSize \in Sizes
  BY DEF WireInv, Sizes
<1>7. Sound(item.msg)
  BY <1>3, <1>4, <1>5, <1>6 DEF Sound
<1>8. /\ NextInChain("setChunkSize") /\ nextCsid \in Nat /\ nextCsid >= 3
      /\ Write(nextCsid, CommandChunkSize, <<[msg |-> ProtoSetChunkSizeMessage(chunkSize), from |-> <<>>]>>)
  BY IdsAre DEF SendSetChunkSize
<1>9. chain = 6 /\ chain' = 7 /\ chunkSize' = chunkSize
  BY <1>8, IdsAre, NextFacts DEF NextInChain
<1>10. ~Running /\ Running'
  BY <1>9, ChainFacts DEF Running
<1>11. PICK size : size = DefaultChunkSize
  OBVIOUS
<1>12. size = SizeNow /\ SizeNow' = SizeAfter(size, item.msg)
  BY <1>4, <1>5, <1>9, <1>10, <1>11 DEF SizeNow, SizeAfter
<1>13. Write(nextCsid, size, <<item>>)
  BY <1>1, <1>8, <1>11 DEF CommandChunkSize
<1>14. PICK id : id = nextCsid
  OBVIOUS
<1>. QED  BY <1>7, <1>8, <1>9, <1>10, <1>12, <1>13, <1>14, OneWritten

\* While the streams run every message is cut by the size that was announced.
LEMMA RunningWrites ==
  ASSUME WireInv, Running, UNCHANGED <<chain, chunkSize>>
  PROVE  chunkSize' = chunkSize /\ SizeNow = chunkSize /\ SizeNow' = chunkSize /\ Running'
BY DEF SizeNow, Running

LEMMA PacketWrites ==
  ASSUME IdsInv, WireInv, NEW stream \in Streams, NEW a, Sound(a.msg), a.msg.type # PROTOSETCHUNKSIZE,
         SendPackets(stream, <<a>>)
  PROVE  WireInv'
<1>1. /\ Running /\ UNCHANGED <<chain, chunkSize>> /\ csid[stream] # 0
      /\ Write(csid[stream], chunkSize, <<a>>)
  BY DEF SendPackets
<1>2. PICK id, size : id = csid[stream] /\ size = chunkSize
  OBVIOUS
<1>3. id \in Nat /\ id >= 3 /\ Write(id, size, <<a>>)
  BY <1>1, <1>2, IdsAre
<1>4. chunkSize' = chunkSize /\ SizeNow = size /\ SizeNow' = size /\ Running'
  BY <1>1, <1>2, RunningWrites
<1>5. SizeNow' = SizeAfter(size, a.msg)
  BY <1>4 DEF SizeAfter
<1>. QED  BY <1>3, <1>4, <1>5, OneWritten

LEMMA PacketsWrite ==
  ASSUME IdsInv, WireInv, NEW stream \in Streams, NEW a, Sound(a.msg), a.msg.type # PROTOSETCHUNKSIZE,
         NEW b, Sound(b.msg), b.msg.type # PROTOSETCHUNKSIZE, SendPackets(stream, <<a, b>>)
  PROVE  WireInv'
<1>1. /\ Running /\ UNCHANGED <<chain, chunkSize>> /\ csid[stream] # 0
      /\ Write(csid[stream], chunkSize, <<a, b>>)
  BY DEF SendPackets
<1>2. PICK id, size : id = csid[stream] /\ size = chunkSize
  OBVIOUS
<1>3. id \in Nat /\ id >= 3 /\ Write(id, size, <<a, b>>)
  BY <1>1, <1>2, IdsAre
<1>4. chunkSize' = chunkSize /\ SizeNow = size /\ SizeNow' = size /\ Running'
  BY <1>1, <1>2, RunningWrites
<1>. QED  BY <1>3, <1>4, TwoWritten

LEMMA VideoWrites ==
  ASSUME IdsInv, WireInv, SendVideo
  PROVE  WireInv'
<1>. DEFINE packet(sample, ts, first) ==
              [msg |-> RTMPMessage(ts, VIDEO, StreamID,
                         PrepareVideoPayload(SampleData(sample), IsKeyFrame(sample), CompositionOffset, first)),
               from |-> sample]
<1>1. PICK sample \in Samples, ts \in Stamps :
        IF "video" \in begun THEN SendPackets("video", <<packet(sample, ts, FALSE)>>)
        ELSE IsKeyFrame(sample)
             /\ SendPackets("video", <<packet(sample, ts, TRUE), packet(sample, ts, FALSE)>>)
  BY Zenon DEF SendVideo
<1>2. ASSUME NEW first \in BOOLEAN, NEW a, a = packet(sample, ts, first)
      PROVE  Sound(a.msg) /\ a.msg.type # PROTOSETCHUNKSIZE
  <2>1. PICK data, key : data = SampleData(sample) /\ key = IsKeyFrame(sample)
    OBVIOUS
  <2>2. PICK p : p = PrepareVideoPayload(data, key, CompositionOffset, first)
    OBVIOUS
  <2>3. Plain(data) /\ WholeSets(Parse(data))
    BY <2>1, SampleIsPlain
  <2>4. Payload(p)
    BY <2>2, <2>3, VideoIsPayload
  <2>5. a.msg = RTMPMessage(ts, VIDEO, StreamID, p)
    BY <1>2, <2>1, <2>2
  <2>. QED  BY <2>4, <2>5, PacketIsSound
<1>3. PICK a, b : a = packet(sample, ts, FALSE) /\ b = packet(sample, ts, TRUE)
  OBVIOUS
<1>4. /\ Sound(a.msg) /\ a.msg.type # PROTOSETCHUNKSIZE
      /\ Sound(b.msg) /\ b.msg.type # PROTOSETCHUNKSIZE
  <2>. HIDE DEF packet
  <2>. QED  BY <1>2, <1>3
<1>5. SendPackets("video", <<a>>) \/ SendPackets("video", <<b, a>>)
  <2>. HIDE DEF packet
  <2>. QED  BY <1>1, <1>3
<1>6. "video" \in Streams
  BY DEF Streams
<1>. QED  BY <1>4, <1>5, <1>6, PacketWrites, PacketsWrite

LEMMA AudioWrites ==
  ASSUME IdsInv, WireInv, SendAudio
  PROVE  WireInv'
<1>. DEFINE packet(ts, first) ==
              [msg |-> RTMPMessage(ts, AUDIO, StreamID, PrepareAudioPayload(first)), from |-> <<>>]
<1>1. PICK ts \in Stamps :
        SendPackets("audio", IF "audio" \in begun THEN <<packet(ts, FALSE)>>
                             ELSE <<packet(ts, TRUE), packet(ts, FALSE)>>)
  BY Zenon DEF SendAudio
<1>2. ASSUME NEW first \in BOOLEAN, NEW a, a = packet(ts, first)
      PROVE  Sound(a.msg) /\ a.msg.type # PROTOSETCHUNKSIZE
  <2>1. PICK p : p = PrepareAudioPayload(first)
    OBVIOUS
  <2>2. Payload(p)
    BY <2>1, AudioIsPayload
  <2>3. a.msg = RTMPMessage(ts, AUDIO, StreamID, p)
    BY <1>2, <2>1
  <2>. QED  BY <2>2, <2>3, PacketIsSound
<1>3. PICK a, b : a = packet(ts, FALSE) /\ b = packet(ts, TRUE)
  OBVIOUS
<1>4. /\ Sound(a.msg) /\ a.msg.type # PROTOSETCHUNKSIZE
      /\ Sound(b.msg) /\ b.msg.type # PROTOSETCHUNKSIZE
  <2>. HIDE DEF packet
  <2>. QED  BY <1>2, <1>3
<1>5. SendPackets("audio", <<a>>) \/ SendPackets("audio", <<b, a>>)
  <2>. HIDE DEF packet
  <2>. QED  BY <1>1, <1>3
<1>6. "audio" \in Streams
  BY DEF Streams
<1>. QED  BY <1>4, <1>5, <1>6, PacketWrites, PacketsWrite

LEMMA CloseWrites ==
  ASSUME IdsInv, WireInv, SendUnpublishAndCloseStream
  PROVE  WireInv'
<1>1. PICK x, y : x = Command_UnpublishStream(0) /\ y = Command_CloseStream(0)
  OBVIOUS
<1>2. PICK a, b : a = Encoded(COMMANDAMF0, StreamID, x) /\ b = Encoded(COMMANDAMF0, StreamID, y)
  OBVIOUS
<1>3. Message(x) /\ Message(y)
  BY <1>1, CommandsAre
<1>4. /\ Sound(a.msg) /\ a.msg.type # PROTOSETCHUNKSIZE
      /\ Sound(b.msg) /\ b.msg.type # PROTOSETCHUNKSIZE
  BY <1>2, <1>3, EncodedIsSound
<1>5. /\ Running /\ csid.publish # 0 /\ UNCHANGED <<chain, chunkSize>>
      /\ Write(csid.publish, chunkSize, <<a, b>>)
  BY <1>1, <1>2 DEF SendUnpublishAndCloseStream, CommandMessage
<1>6. PICK id, size : id = csid.publish /\ size = chunkSize
  OBVIOUS
<1>7. id \in Nat /\ id >= 3 /\ Write(id, size, <<a, b>>)
  <2>1. "publish" \in Streams
    BY DEF Streams
  <2>. QED  BY <1>5, <1>6, <2>1, IdsAre
<1>8. chunkSize' = chunkSize /\ SizeNow = size /\ SizeNow' = size /\ Running'
  BY <1>5, <1>6, RunningWrites
<1>. QED  BY <1>4, <1>7, <1>8, TwoWritten
----------------------------------------------------------------------------
(* ReceivedAsSent.                                                            *)

\* Nothing is on the way of a new connection.
LEMMA NothingOnTheWay == OnTheWay(<<>>, <<>>, DefaultChunkSize, DefaultChunkSize, <<>>, <<>>)
<1>1. PICK e, sizes, size : e = <<>> /\ size = DefaultChunkSize /\ sizes = [i \in 1..1 |-> size]
  OBVIOUS
<1>2. IsSeq(e) /\ Len(e) = 0 /\ FlattenSeq(e) = e /\ DOMAIN e = {}
  <2>1. e \in Seq({}) /\ Len(e) = 0 /\ DOMAIN e = {}
    BY <1>1
  <2>2. FlattenSeq(e) = e
    BY <1>1, FlattenEmpty
  <2>. QED  BY <2>1, <2>2, SeqIsSeq
<1>3. AllSeqs(e)
  BY <1>2 DEF AllSeqs
<1>4. size \in Sizes
  BY <1>1 DEF Sizes
<1>5. /\ sizes[1] = size /\ sizes[Len(e) + 1] = size
      /\ \A i \in 1..(Len(e) + 1) : sizes[i] \in Sizes
  <2>1. \A i \in 1..(Len(e) + 1) : i = 1
    BY <1>2
  <2>2. Len(e) + 1 = 1 /\ sizes[1] = size
    BY <1>1, <1>2
  <2>. QED  BY <1>4, <2>1, <2>2
<1>6. \A id : Held(e, id) = e
  BY <1>1, <1>2 DEF Held
<1>7. \A i \in 1..Len(e) : FALSE
  BY <1>2
<1>8. PICK read : read = 0
  OBVIOUS
<1>9. Wire(e, e, size, size, e, e, e, sizes, e, read)
  BY <1>1, <1>2, <1>3, <1>5, <1>6, <1>7, <1>8 DEF Wire
<1>10. OnTheWay(e, e, size, size, e, e)
  BY <1>9 DEF OnTheWay
<1>. QED  BY <1>1, <1>10

LEMMA NothingEarly == Early(<<>>)
<1>1. Len(<<>>) = 0
  OBVIOUS
<1>. QED  BY <1>1 DEF Early

LEMMA InitWire == Init => WireInv
<1>. SUFFICES ASSUME Init PROVE WireInv
  OBVIOUS
<1>1. SizeNow = DefaultChunkSize /\ chunkSize \in ClientChunkSizes
  BY ChainFacts DEF Init, SizeNow, Running
<1>2. OnTheWay(toServer, unread, inSize, SizeNow, partial, heads)
  BY <1>1, NothingOnTheWay DEF Init
<1>3. Early(unread)
  BY NothingEarly DEF Init
<1>4. ReceivedAsSent
  BY DEF Init, ReceivedAsSent
<1>. QED  BY <1>1, <1>2, <1>3, <1>4 DEF WireInv

LEMMA ConnectWire ==
  ASSUME WireInv, ConnectAsync
  PROVE  WireInv'
<1>1. /\ chain' = 0 /\ toServer' = <<>> /\ unread' = <<>> /\ inSize' = DefaultChunkSize
      /\ heads' = <<>> /\ partial' = <<>> /\ UNCHANGED <<chunkSize, got, lost>> /\ ~Running
  BY DEF ConnectAsync
<1>2. ~lost
  <2>1. SUFFICES ASSUME lost PROVE FALSE
    OBVIOUS
  <2>2. unread # <<>> /\ Head(unread).msg.ts = ExtendedStamp /\ Early(unread)
    BY <1>1, <2>1 DEF WireInv, ReceivedAsSent
  <2>3. IsSeq(unread)
    BY WireSeqs
  <2>4. Head(unread) = unread[1] /\ 1 \in 1..Len(unread)
    <3>1. Len(unread) \in Nat \ {0}
      BY <2>2, <2>3, SeqLen
    <3>. QED  BY <2>2, <2>3, <3>1, SeqTail
  <2>. QED  BY <2>2, <2>4 DEF Early, ExtendedStamp
<1>3. SizeNow' = DefaultChunkSize /\ chunkSize' \in ClientChunkSizes
  BY <1>1, ChainFacts DEF SizeNow, Running, WireInv
<1>4. OnTheWay(toServer', unread', inSize', SizeNow', partial', heads')
  BY <1>1, <1>3, NothingOnTheWay
<1>5. Early(unread')
  BY <1>1, NothingEarly
<1>6. ReceivedAsSent'
  BY <1>1, <1>2 DEF ReceivedAsSent, WireInv
<1>. QED  BY <1>3, <1>4, <1>5, <1>6 DEF WireInv

LEMMA NewStreamWrites ==
  ASSUME IdsInv, WireInv, NEW name, NextInChain(name), name # "setChunkSize",
         NEW type, type \in {COMMANDAMF0, DATAAMF0}, NEW stream, NEW entities, Message(entities),
         OnNewChunkStream(<<Encoded(type, stream, entities)>>)
  PROVE  WireInv'
<1>1. PICK id : id = nextCsid
  OBVIOUS
<1>2. id \in Nat /\ id >= 3 /\ Write(id, CommandChunkSize, <<Encoded(type, stream, entities)>>)
  BY <1>1, IdsAre DEF OnNewChunkStream
<1>. QED  BY <1>2, HandshakeWrites

LEMMA PublishStreamWrites ==
  ASSUME IdsInv, WireInv, NEW name, name \in {"FCPublish", "createStream"}, NextInChain(name),
         NEW type, type \in {COMMANDAMF0, DATAAMF0}, NEW stream, NEW entities, Message(entities),
         Write(csid.publish, CommandChunkSize, <<Encoded(type, stream, entities)>>)
  PROVE  WireInv'
<1>1. PICK id : id = csid.publish
  OBVIOUS
<1>2. chain \in {2, 3} /\ "publish" \in Streams
  BY IdsAre, NextFacts DEF Streams
<1>3. id \in Nat /\ id >= 3 /\ Write(id, CommandChunkSize, <<Encoded(type, stream, entities)>>)
  BY <1>1, <1>2, IdsAre
<1>. QED  BY <1>3, HandshakeWrites

LEMMA HandshakeWire ==
  ASSUME IdsInv, WireInv,
         \/ SendConnect \/ SendReleaseStream \/ SendFCPublish \/ SendCreateStream
         \/ SendPublishStream \/ SendSetDataFrame
  PROVE  WireInv'
<1>. USE DEF CommandMessage
<1>1. CASE SendConnect
  <2>1. PICK e : e = Command_Connect(1, Codecs)
    OBVIOUS
  <2>2. Message(e)
    BY <2>1, ConnectIs
  <2>3. NextInChain("connect") /\ OnNewChunkStream(<<Encoded(COMMANDAMF0, 0, e)>>)
    BY <1>1, <2>1 DEF SendConnect
  <2>. QED  BY <2>2, <2>3, NewStreamWrites
<1>2. CASE SendReleaseStream
  <2>1. PICK e : e = Command_ReleaseStream(2, "stream")
    OBVIOUS
  <2>2. Message(e)
    BY <2>1, CommandsAre
  <2>3. NextInChain("releaseStream") /\ OnNewChunkStream(<<Encoded(COMMANDAMF0, 0, e)>>)
    BY <1>2, <2>1 DEF SendReleaseStream
  <2>. QED  BY <2>2, <2>3, NewStreamWrites
<1>3. CASE SendFCPublish
  <2>1. PICK e : e = Command_FCPublish(3, "stream")
    OBVIOUS
  <2>2. Message(e)
    BY <2>1, CommandsAre
  <2>3. /\ NextInChain("FCPublish")
        /\ Write(csid.publish, CommandChunkSize, <<Encoded(COMMANDAMF0, 0, e)>>)
    BY <1>3, <2>1 DEF SendFCPublish
  <2>. QED  BY <2>2, <2>3, PublishStreamWrites
<1>4. CASE SendCreateStream
  <2>1. PICK e : e = Command_CreateStream(4)
    OBVIOUS
  <2>2. Message(e)
    BY <2>1, CommandsAre
  <2>3. /\ NextInChain("createStream")
        /\ Write(csid.publish, CommandChunkSize, <<Encoded(COMMANDAMF0, 0, e)>>)
    BY <1>4, <2>1 DEF SendCreateStream
  <2>. QED  BY <2>2, <2>3, PublishStreamWrites
<1>5. CASE SendPublishStream
  <2>1. PICK e : e = Command_PublishStream(0, "stream")
    OBVIOUS
  <2>2. Message(e)
    BY <2>1, CommandsAre
  <2>3. NextInChain("publish") /\ OnNewChunkStream(<<Encoded(COMMANDAMF0, StreamID, e)>>)
    BY <1>5, <2>1 DEF SendPublishStream
  <2>. QED  BY <2>2, <2>3, NewStreamWrites
<1>6. CASE SendSetDataFrame
  <2>1. PICK rate \in FrameRates :
          OnNewChunkStream(<<Encoded(DATAAMF0, StreamID, Command_SetDataFrame(rate, Codecs))>>)
    BY <1>6 DEF SendSetDataFrame
  <2>2. PICK e : e = Command_SetDataFrame(rate, Codecs)
    OBVIOUS
  <2>3. Message(e)
    BY <2>2, DataFrameIs
  <2>4. NextInChain("setDataFrame") /\ OnNewChunkStream(<<Encoded(DATAAMF0, StreamID, e)>>)
    BY <1>6, <2>1, <2>2 DEF SendSetDataFrame
  <2>. QED  BY <2>3, <2>4, NewStreamWrites
<1>. QED  BY <1>1, <1>2, <1>3, <1>4, <1>5, <1>6

LEMMA StepWire ==
  ASSUME IdsInv, WireInv, [Next]_vars
  PROVE  WireInv'
<1>1. CASE \/ SendConnect \/ SendReleaseStream \/ SendFCPublish \/ SendCreateStream
           \/ SendPublishStream \/ SendSetDataFrame
  BY <1>1, HandshakeWire
<1>2. CASE SendSetChunkSize
  BY <1>2, SetChunkSizeWrites
<1>3. CASE SendVideo
  BY <1>3, VideoWrites
<1>4. CASE SendAudio
  BY <1>4, AudioWrites
<1>5. CASE SendUnpublishAndCloseStream
  BY <1>5, CloseWrites
<1>6. CASE ConnectAsync
  BY <1>6, ConnectWire
<1>7. CASE ServerReadsChunk
  BY <1>7, ReadLoses, ReadKeeps
<1>8. CASE UNCHANGED vars
  <2>1. /\ UNCHANGED <<chain, chunkSize, toServer, unread, inSize, heads, partial, got, lost>>
    BY <1>8 DEF vars, messenger, server
  <2>2. SizeNow' = SizeNow /\ (Running' <=> Running)
    BY <2>1 DEF SizeNow, Running
  <2>3. ReceivedAsSent'
    BY <2>1 DEF WireInv, ReceivedAsSent
  <2>4. OnTheWay(toServer', unread', inSize', SizeNow', partial', heads')
    BY <2>1, <2>2 DEF WireInv
  <2>5. chunkSize' \in ClientChunkSizes /\ (~Running' => Early(unread'))
    BY <2>1, <2>2 DEF WireInv
  <2>. QED  BY <2>3, <2>4, <2>5 DEF WireInv
<1>. QED  BY <1>1, <1>2, <1>3, <1>4, <1>5, <1>6, <1>7, <1>8 DEF Next, Messenger

THEOREM WireInvariance == Spec => []WireInv
<1>1. Init => WireInv
  BY InitWire
<1>2. IdsInv /\ WireInv /\ [Next]_vars => WireInv'
  BY StepWire
<1>. QED  BY <1>1, <1>2, IdsInvariance, PTL DEF Spec

THEOREM MessagesReceivedAsSent == Spec => []ReceivedAsSent
<1>1. WireInv => ReceivedAsSent
  BY DEF WireInv
<1>. QED  BY <1>1, WireInvariance, PTL
----------------------------------------------------------------------------
(* TypeOK.                                                                    *)

\* What else a state of the messenger is made of.
RestOK == begun \subseteq {"video", "audio"} /\ packets \in 0..MaxPackets /\ lost \in BOOLEAN

LEMMA SendPacketsRest ==
  ASSUME RestOK, NEW stream \in {"video", "audio"}, NEW messages, SendPackets(stream, messages)
  PROVE  RestOK'
<1>1. /\ packets < MaxPackets /\ packets' = packets + 1 /\ begun' = begun \union {stream}
      /\ UNCHANGED lost
  BY DEF SendPackets, Write, server
<1>. QED  BY <1>1, OutputAssumption DEF RestOK

LEMMA StepRest == RestOK /\ [Next]_vars => RestOK'
<1>. SUFFICES ASSUME RestOK, [Next]_vars PROVE RestOK'
  OBVIOUS
<1>1. CASE SendVideo
  <2>1. \E messages : SendPackets("video", messages)
    BY <1>1, Zenon DEF SendVideo
  <2>. QED  BY <2>1, SendPacketsRest
<1>2. CASE SendAudio
  <2>1. \E messages : SendPackets("audio", messages)
    BY <1>2, Zenon DEF SendAudio
  <2>. QED  BY <2>1, SendPacketsRest
<1>3. CASE ServerReadsChunk
  <2>1. UNCHANGED messenger /\ (lost' = TRUE \/ lost' = lost)
    <3>1. UNCHANGED messenger /\ (LosesIt => lost' = TRUE) /\ (~LosesIt => Reads)
      BY <1>3, ReadUnfolds
    <3>. QED  BY <3>1 DEF Reads
  <2>. QED  BY <2>1 DEF RestOK, messenger
<1>4. ASSUME UNCHANGED <<begun, packets, lost>> PROVE RestOK'
  BY <1>4 DEF RestOK
<1>5. CASE UNCHANGED vars
  BY <1>4, <1>5 DEF vars, messenger, server
<1>6. CASE ConnectAsync
  BY <1>4, <1>6 DEF ConnectAsync
<1>7. CASE SendUnpublishAndCloseStream
  BY <1>4, <1>7 DEF SendUnpublishAndCloseStream, Write, server
<1>8. CASE SendConnect \/ SendReleaseStream \/ SendPublishStream \/ SendSetDataFrame
  BY <1>4, <1>8 DEF SendConnect, SendReleaseStream, SendPublishStream, SendSetDataFrame,
     NextInChain, OnNewChunkStream, Write, server
<1>9. CASE SendFCPublish \/ SendCreateStream \/ SendSetChunkSize
  BY <1>4, <1>9 DEF SendFCPublish, SendCreateStream, SendSetChunkSize, NextInChain, Write, server
<1>. QED  BY <1>1, <1>2, <1>3, <1>5, <1>6, <1>7, <1>8, <1>9 DEF Next, Messenger

\* A type correct state, but for the room that the ids have.
TypedButRoom ==
  /\ chain \in 0..Len(Chain) /\ attempt \in 1..MaxAttempts
  /\ \A s \in {"publish", "video", "audio"} : csid[s] = 0 \/ csid[s] \in 3..(nextCsid - 1)
  /\ begun \subseteq {"video", "audio"} /\ packets \in 0..MaxPackets
  /\ inSize \in ClientChunkSizes \union {DefaultChunkSize}
  /\ lost \in BOOLEAN

LEMMA TypedWithRoom ==
  ASSUME TypedButRoom, nextCsid \in 3..LastID PROVE TypeOK
  BY Zenon DEF TypeOK, TypedButRoom

LEMMA TypedIs ==
  ASSUME RestOK, IdsInv, WireInv PROVE TypedButRoom
<1>1. chain \in 0..Len(Chain) /\ attempt \in 1..MaxAttempts
  BY Zenon DEF IdsInv
<1>2. \A s \in {"publish", "video", "audio"} : csid[s] = 0 \/ csid[s] \in 3..(nextCsid - 1)
  BY DEF IdsInv, Streams
<1>3. inSize \in ClientChunkSizes \union {DefaultChunkSize}
  <2>1. PICK ids, sizes, strips, read :
          Wire(toServer, unread, inSize, SizeNow, partial, heads, ids, sizes, strips, read)
    BY DEF WireInv, OnTheWay
  <2>2. 1 \in 1..(Len(unread) + 1)
    BY WireSeqs, SeqLen
  <2>. QED  BY <2>1, <2>2 DEF Wire, Sizes
<1>. QED  BY <1>1, <1>2, <1>3, Zenon DEF TypedButRoom, RestOK

\* Every state of a connection has its type, as long as there is room for the ids.
THEOREM TypeCorrect == ASSUME RoomForIDs PROVE Spec => []TypeOK
<1>1. Init => RestOK
  <2>1. 0 \in 0..MaxPackets
    BY OutputAssumption
  <2>2. Init => begun = {} /\ packets = 0 /\ lost = FALSE
    BY Zenon DEF Init
  <2>. QED  BY <2>1, <2>2 DEF RestOK
<1>2. RestOK /\ [Next]_vars => RestOK'
  BY StepRest
<1>3. ASSUME RestOK, IdsInv, WireInv PROVE TypeOK
  <2>1. nextCsid \in 3..LastID
    BY <1>3, FitFacts DEF IdsFit
  <2>2. TypedButRoom
    BY <1>3, TypedIs
  <2>. QED  BY <2>1, <2>2, TypedWithRoom
<1>. QED  BY <1>1, <1>2, <1>3, IdsInvariance, WireInvariance, PTL DEF Spec
----------------------------------------------------------------------------
(* What is on the way, and SamplesReadBack.                                   *)

\* What the packets are made of.
Made(item) ==
  /\ item.msg.type = VIDEO =>
       /\ item.from \in Samples
       /\ \E first \in BOOLEAN :
            /\ first => IsKeyFrame(item.from)
            /\ item.msg.payload = PrepareVideoPayload(SampleData(item.from), IsKeyFrame(item.from),
                                                     CompositionOffset, first)
  /\ item.msg.type = AUDIO =>
       \E first \in BOOLEAN : item.msg.payload = PrepareAudioPayload(first)

\* A packet that brings the configuration of its stream.
Configures(item, type) == item.msg.type = type /\ item.msg.payload[2] = <<"packettype", 0>>
TypeOf(stream) == IF stream = "video" THEN VIDEO ELSE AUDIO

\* The configuration is there or ahead of every packet on the way and of every one
\* that follows.
Announced(items, conf, type, n) == type \in conf \/ \E j \in 1..n : Configures(items[j], type)
Ready(items, conf, streams) ==
  /\ \A i \in 1..Len(items) : Made(items[i])
  /\ \A i \in 1..Len(items) :
       items[i].msg.type \in {AUDIO, VIDEO} => Announced(items, conf, items[i].msg.type, i)
  /\ \A s \in streams : Announced(items, conf, TypeOf(s), Len(items))

Received == [msg |-> got.written, from |-> got.from]
ContentInv ==
  /\ Ready(unread, configured, begun)
  /\ Made(Received)
  /\ got.written.type \in {AUDIO, VIDEO} => got.written.type \in configured
  /\ ~Running => begun = {}

LEMMA ReadyAppend ==
  ASSUME NEW items, IsSeq(items), NEW conf, NEW streams, Ready(items, conf, streams),
         NEW item, Made(item),
         item.msg.type \in {AUDIO, VIDEO} =>
           Configures(item, item.msg.type) \/ \E s \in streams : TypeOf(s) = item.msg.type,
         NEW streams2, \A s \in streams2 : s \in streams \/ Configures(item, TypeOf(s))
  PROVE  Ready(Append(items, item), conf, streams2)
<1>1. PICK n, items2 : n = Len(items) /\ items2 = Append(items, item)
  OBVIOUS
<1>2. /\ n \in Nat /\ Len(items2) = n + 1 /\ items2[n + 1] = item
      /\ \A i \in 1..n : items2[i] = items[i]
  BY <1>1, SeqLen, SeqAppend
<1>3. \A i \in 1..(n + 1) : i \in 1..n \/ i = n + 1
  BY <1>2
<1>4. \A type : \A i \in 1..n : Announced(items, conf, type, i) => Announced(items2, conf, type, i)
  <2>1. \A i \in 1..n : \A j \in 1..i : j \in 1..n
    BY <1>2
  <2>. QED  BY <1>2, <2>1 DEF Announced
<1>5. \A type : Announced(items, conf, type, n) => Announced(items2, conf, type, n + 1)
  <2>1. \A j \in 1..n : j \in 1..(n + 1)
    BY <1>2
  <2>. QED  BY <1>2, <2>1 DEF Announced
<1>6. \A type : Configures(item, type) => Announced(items2, conf, type, n + 1)
  <2>1. n + 1 \in 1..(n + 1)
    BY <1>2
  <2>. QED  BY <1>2, <2>1 DEF Announced
<1>7. /\ \A i \in 1..n : Made(items[i])
      /\ \A i \in 1..n : items[i].msg.type \in {AUDIO, VIDEO} =>
           Announced(items, conf, items[i].msg.type, i)
      /\ \A s \in streams : Announced(items, conf, TypeOf(s), n)
  BY <1>1 DEF Ready
<1>8. \A i \in 1..(n + 1) : Made(items2[i])
  BY <1>2, <1>3, <1>7
<1>9. item.msg.type \in {AUDIO, VIDEO} => Announced(items2, conf, item.msg.type, n + 1)
  BY <1>5, <1>6, <1>7
<1>10. ASSUME NEW i \in 1..(n + 1), items2[i].msg.type \in {AUDIO, VIDEO}
       PROVE  Announced(items2, conf, items2[i].msg.type, i)
  <2>1. CASE i \in 1..n
    BY <1>2, <1>4, <1>7, <1>10, <2>1
  <2>2. CASE i = n + 1
    BY <1>2, <1>9, <1>10, <2>2
  <2>. QED  BY <1>3, <2>1, <2>2
<1>11. \A s \in streams2 : Announced(items2, conf, TypeOf(s), n + 1)
  BY <1>5, <1>6, <1>7
<1>. QED  BY <1>1, <1>2, <1>8, <1>10, <1>11 DEF Ready

LEMMA ReadyTail ==
  ASSUME NEW items, IsSeq(items), items # <<>>, NEW conf, NEW streams, Ready(items, conf, streams),
         NEW conf2, conf \subseteq conf2,
         \A type \in {AUDIO, VIDEO} : Configures(items[1], type) => type \in conf2,
         \A s \in streams : TypeOf(s) \in {AUDIO, VIDEO}
  PROVE  /\ Ready(Tail(items), conf2, streams)
         /\ items[1].msg.type \in {AUDIO, VIDEO} => items[1].msg.type \in conf2
         /\ Made(items[1])
<1>1. PICK n, items2 : n = Len(items) /\ items2 = Tail(items)
  OBVIOUS
<1>2. /\ n \in Nat \ {0} /\ Len(items2) = n - 1 /\ \A i \in 1..(n - 1) : items2[i] = items[i + 1]
  BY <1>1, SeqLen, SeqTail
<1>3. ASSUME NEW type \in {AUDIO, VIDEO}, NEW i \in 1..n, Announced(items, conf, type, i)
      PROVE  type \in conf2 \/ \E j \in 1..(i - 1) : Configures(items2[j], type)
  <2>1. CASE type \in conf
    BY <2>1
  <2>2. CASE \E j \in 1..i : Configures(items[j], type)
    <3>1. PICK j \in 1..i : Configures(items[j], type)
      BY <2>2
    <3>2. CASE j = 1
      BY <3>1, <3>2
    <3>3. CASE j # 1
      <4>1. j - 1 \in 1..(i - 1) /\ j - 1 \in 1..(n - 1) /\ (j - 1) + 1 = j
        BY <1>2, <3>3
      <4>2. items2[j - 1] = items[j]
        BY <1>2, <4>1
      <4>. QED  BY <3>1, <4>1, <4>2
    <3>. QED  BY <3>2, <3>3
  <2>. QED  BY <1>3, <2>1, <2>2 DEF Announced
<1>4. /\ \A i \in 1..n : Made(items[i])
      /\ \A i \in 1..n : items[i].msg.type \in {AUDIO, VIDEO} =>
           Announced(items, conf, items[i].msg.type, i)
      /\ \A s \in streams : Announced(items, conf, TypeOf(s), n)
  BY <1>1 DEF Ready
<1>5. 1 \in 1..n /\ n \in 1..n /\ \A i \in 1..(n - 1) : i + 1 \in 1..n /\ (i + 1) - 1 = i
  BY <1>2
<1>6. \A i \in 1..(n - 1) : Made(items2[i])
  BY <1>2, <1>4, <1>5
<1>7. ASSUME NEW i \in 1..(n - 1), items2[i].msg.type \in {AUDIO, VIDEO}
      PROVE  Announced(items2, conf2, items2[i].msg.type, i)
  <2>1. PICK type, k : type = items2[i].msg.type /\ k = i + 1
    OBVIOUS
  <2>2. k \in 1..n /\ k - 1 = i /\ items2[i] = items[k]
    BY <1>2, <1>5, <2>1
  <2>3. Announced(items, conf, type, k) /\ type \in {AUDIO, VIDEO}
    BY <1>4, <1>7, <2>1, <2>2
  <2>4. type \in conf2 \/ \E j \in 1..(k - 1) : Configures(items2[j], type)
    BY <1>3, <2>2, <2>3
  <2>. QED  BY <2>1, <2>2, <2>4 DEF Announced
<1>8. \A s \in streams : Announced(items2, conf2, TypeOf(s), n - 1)
  BY <1>3, <1>4, <1>5 DEF Announced
<1>9. items[1].msg.type \in {AUDIO, VIDEO} => items[1].msg.type \in conf2
  <2>. SUFFICES ASSUME items[1].msg.type \in {AUDIO, VIDEO} PROVE items[1].msg.type \in conf2
    OBVIOUS
  <2>1. PICK type : type = items[1].msg.type
    OBVIOUS
  <2>2. Announced(items, conf, type, 1) /\ type \in {AUDIO, VIDEO}
    BY <1>4, <1>5, <2>1
  <2>3. type \in conf2 \/ \E j \in 1..(1 - 1) : Configures(items2[j], type)
    BY <1>3, <1>5, <2>2
  <2>. QED  BY <2>1, <2>3
<1>. QED  BY <1>1, <1>2, <1>4, <1>5, <1>6, <1>7, <1>8, <1>9 DEF Ready

LEMMA TypesApart ==
  /\ AUDIO # VIDEO /\ COMMANDAMF0 \notin {AUDIO, VIDEO} /\ DATAAMF0 \notin {AUDIO, VIDEO}
  /\ PROTOSETCHUNKSIZE \notin {AUDIO, VIDEO}
  /\ \A s : TypeOf(s) \in {AUDIO, VIDEO}
  /\ TypeOf("video") = VIDEO /\ TypeOf("audio") = AUDIO
BY DEF AUDIO, VIDEO, COMMANDAMF0, DATAAMF0, PROTOSETCHUNKSIZE, TypeOf

LEMMA ServerIdle ==
  ASSUME UNCHANGED server
  PROVE  configured' = configured /\ Received' = Received /\ got' = got
BY DEF server, Received

\* A message that is no packet.
LEMMA OtherWritten ==
  ASSUME ContentInv, IsSeq(unread), NEW item, item.msg.type \notin {AUDIO, VIDEO},
         unread' = Append(unread, item), UNCHANGED server, begun' = begun, ~Running' => ~Running
  PROVE  ContentInv'
<1>1. Made(item)
  BY DEF Made
<1>2. Ready(Append(unread, item), configured, begun)
  BY <1>1, ReadyAppend DEF ContentInv
<1>3. configured' = configured /\ Received' = Received /\ got' = got
  BY ServerIdle
<1>. QED  BY <1>2, <1>3 DEF ContentInv

LEMMA OneOther ==
  ASSUME ContentInv, WireInv, NEW id, NEW size, NEW item, Write(id, size, <<item>>),
         item.msg.type \notin {AUDIO, VIDEO}, begun' = begun, ~Running' => ~Running
  PROVE  ContentInv'
<1>1. IsSeq(unread)
  BY WireSeqs
<1>2. unread' = Append(unread, item) /\ UNCHANGED server
  BY <1>1, WriteOne
<1>. QED  BY <1>1, <1>2, OtherWritten

LEMMA EncodedIsNoPacket ==
  ASSUME NEW type, type \in {COMMANDAMF0, DATAAMF0}, NEW stream, NEW entities
  PROVE  Encoded(type, stream, entities).msg.type \notin {AUDIO, VIDEO}
BY TypesApart DEF Encoded, RTMPMessage

LEMMA CommandContent ==
  ASSUME ContentInv, WireInv, NEW type, type \in {COMMANDAMF0, DATAAMF0}, NEW stream, NEW entities,
         NEW id, NEW size, Write(id, size, <<Encoded(type, stream, entities)>>),
         begun' = begun, ~Running' => ~Running
  PROVE  ContentInv'
<1>1. PICK item : item = Encoded(type, stream, entities)
  OBVIOUS
<1>2. item.msg.type \notin {AUDIO, VIDEO} /\ Write(id, size, <<item>>)
  BY <1>1, EncodedIsNoPacket
<1>. QED  BY <1>2, OneOther

LEMMA NextInChainRuns ==
  ASSUME NEW name, NextInChain(name)
  PROVE  begun' = begun /\ ~Running /\ (~Running' => ~Running)
BY DEF NextInChain

LEMMA HandshakeContent ==
  ASSUME ContentInv, WireInv,
         \/ SendConnect \/ SendReleaseStream \/ SendFCPublish \/ SendCreateStream
         \/ SendPublishStream \/ SendSetDataFrame \/ SendSetChunkSize
  PROVE  ContentInv'
<1>. USE DEF CommandMessage, OnNewChunkStream
<1>1. begun' = begun /\ (~Running' => ~Running)
  BY NextInChainRuns DEF SendConnect, SendReleaseStream, SendFCPublish, SendCreateStream,
     SendPublishStream, SendSetDataFrame, SendSetChunkSize
<1>2. PICK size : size = CommandChunkSize
  OBVIOUS
<1>3. CASE SendConnect
  <2>1. PICK e : e = Command_Connect(1, Codecs)
    OBVIOUS
  <2>2. Write(nextCsid, size, <<Encoded(COMMANDAMF0, 0, e)>>)
    BY <1>2, <1>3, <2>1 DEF SendConnect
  <2>3. PICK id : id = nextCsid
    OBVIOUS
  <2>. QED  BY <1>1, <2>2, <2>3, CommandContent
<1>4. CASE SendReleaseStream
  <2>1. PICK e : e = Command_ReleaseStream(2, "stream")
    OBVIOUS
  <2>2. PICK id : id = nextCsid
    OBVIOUS
  <2>3. Write(id, size, <<Encoded(COMMANDAMF0, 0, e)>>)
    BY <1>2, <1>4, <2>1, <2>2 DEF SendReleaseStream
  <2>. QED  BY <1>1, <2>3, CommandContent
<1>5. CASE SendFCPublish
  <2>1. PICK e : e = Command_FCPublish(3, "stream")
    OBVIOUS
  <2>2. PICK id : id = csid.publish
    OBVIOUS
  <2>3. Write(id, size, <<Encoded(COMMANDAMF0, 0, e)>>)
    BY <1>2, <1>5, <2>1, <2>2 DEF SendFCPublish
  <2>. QED  BY <1>1, <2>3, CommandContent
<1>6. CASE SendCreateStream
  <2>1. PICK e : e = Command_CreateStream(4)
    OBVIOUS
  <2>2. PICK id : id = csid.publish
    OBVIOUS
  <2>3. Write(id, size, <<Encoded(COMMANDAMF0, 0, e)>>)
    BY <1>2, <1>6, <2>1, <2>2 DEF SendCreateStream
  <2>. QED  BY <1>1, <2>3, CommandContent
<1>7. CASE SendPublishStream
  <2>1. PICK e : e = Command_PublishStream(0, "stream")
    OBVIOUS
  <2>2. PICK id : id = nextCsid
    OBVIOUS
  <2>3. Write(id, size, <<Encoded(COMMANDAMF0, StreamID, e)>>)
    BY <1>2, <1>7, <2>1, <2>2 DEF SendPublishStream
  <2>. QED  BY <1>1, <2>3, CommandContent
<1>8. CASE SendSetDataFrame
  <2>1. PICK rate \in FrameRates :
          OnNewChunkStream(<<Encoded(DATAAMF0, StreamID, Command_SetDataFrame(rate, Codecs))>>)
    BY <1>8 DEF SendSetDataFrame
  <2>2. PICK e : e = Command_SetDataFrame(rate, Codecs)
    OBVIOUS
  <2>3. PICK id : id = nextCsid
    OBVIOUS
  <2>4. Write(id, size, <<Encoded(DATAAMF0, StreamID, e)>>)
    BY <1>2, <2>1, <2>2, <2>3
  <2>. QED  BY <1>1, <2>4, CommandContent
<1>9. CASE SendSetChunkSize
  <2>1. PICK item : item = [msg |-> ProtoSetChunkSizeMessage(chunkSize), from |-> <<>>]
    OBVIOUS
  <2>2. PICK id : id = nextCsid
    OBVIOUS
  <2>3. Write(id, size, <<item>>)
    BY <1>2, <1>9, <2>1, <2>2 DEF SendSetChunkSize
  <2>4. item.msg.type \notin {AUDIO, VIDEO}
    BY <2>1, TypesApart DEF ProtoSetChunkSizeMessage, RTMPMessage
  <2>. QED  BY <1>1, <2>3, <2>4, OneOther
<1>. QED  BY <1>3, <1>4, <1>5, <1>6, <1>7, <1>8, <1>9

LEMMA CloseContent ==
  ASSUME ContentInv, WireInv, SendUnpublishAndCloseStream
  PROVE  ContentInv'
<1>1. PICK a, b : /\ a = CommandMessage(StreamID, Command_UnpublishStream(0))
                  /\ b = CommandMessage(StreamID, Command_CloseStream(0))
  OBVIOUS
<1>2. /\ Running /\ chain' = chain /\ begun' = begun
      /\ Write(csid.publish, chunkSize, <<a, b>>)
  BY <1>1 DEF SendUnpublishAndCloseStream
<1>3. Running'
  BY <1>2 DEF Running
<1>4. IsSeq(unread)
  BY WireSeqs
<1>5. unread' = Append(Append(unread, a), b) /\ UNCHANGED server
  BY <1>2, <1>4, AppendTwo DEF Write
<1>6. a.msg.type \notin {AUDIO, VIDEO} /\ b.msg.type \notin {AUDIO, VIDEO}
  BY <1>1, EncodedIsNoPacket DEF CommandMessage
<1>7. Made(a) /\ Made(b)
  BY <1>6 DEF Made
<1>8. PICK u : u = Append(unread, a)
  OBVIOUS
<1>9. IsSeq(u) /\ Ready(u, configured, begun)
  <2>1. Ready(Append(unread, a), configured, begun)
    BY <1>4, <1>6, <1>7, ReadyAppend DEF ContentInv
  <2>. QED  BY <1>4, <1>8, <2>1, SeqAppend
<1>10. Ready(Append(u, b), configured, begun)
  BY <1>6, <1>7, <1>9, ReadyAppend
<1>11. configured' = configured /\ Received' = Received /\ got' = got
  BY <1>5, ServerIdle
<1>. QED  BY <1>2, <1>3, <1>5, <1>8, <1>10, <1>11 DEF ContentInv

\* A packet, and ahead of the first of a stream its configuration.
LEMMA PacketContent ==
  ASSUME ContentInv, WireInv, NEW stream \in {"video", "audio"},
         NEW a, Made(a), a.msg.type = TypeOf(stream), stream \in begun, SendPackets(stream, <<a>>)
  PROVE  ContentInv'
<1>1. /\ Running /\ chain' = chain /\ begun' = begun \union {stream}
      /\ Write(csid[stream], chunkSize, <<a>>)
  BY DEF SendPackets
<1>2. Running'
  BY <1>1 DEF Running
<1>3. IsSeq(unread)
  BY WireSeqs
<1>4. PICK id, size : id = csid[stream] /\ size = chunkSize
  OBVIOUS
<1>5. unread' = Append(unread, a) /\ UNCHANGED server
  <2>1. Write(id, size, <<a>>)
    BY <1>1, <1>4
  <2>. QED  BY <1>3, <2>1, WriteOne
<1>6. PICK streams : streams = begun \union {stream}
  OBVIOUS
<1>7. Ready(Append(unread, a), configured, streams)
  <2>1. \A s \in streams : s \in begun
    BY <1>6
  <2>. QED  BY <1>3, <2>1, ReadyAppend DEF ContentInv
<1>8. configured' = configured /\ Received' = Received /\ got' = got
  BY <1>5, ServerIdle
<1>. QED  BY <1>1, <1>2, <1>5, <1>6, <1>7, <1>8 DEF ContentInv

LEMMA PacketsContent ==
  ASSUME ContentInv, WireInv, NEW stream \in {"video", "audio"},
         NEW a, Made(a), Configures(a, TypeOf(stream)),
         NEW b, Made(b), b.msg.type = TypeOf(stream), SendPackets(stream, <<a, b>>)
  PROVE  ContentInv'
<1>1. /\ Running /\ chain' = chain /\ begun' = begun \union {stream}
      /\ Write(csid[stream], chunkSize, <<a, b>>)
  BY DEF SendPackets
<1>2. Running'
  BY <1>1 DEF Running
<1>3. IsSeq(unread)
  BY WireSeqs
<1>4. unread' = Append(Append(unread, a), b) /\ UNCHANGED server
  BY <1>1, <1>3, AppendTwo DEF Write
<1>5. PICK streams, u : streams = begun \union {stream} /\ u = Append(unread, a)
  OBVIOUS
<1>6. IsSeq(u) /\ Ready(u, configured, streams)
  <2>1. \A s \in streams : s \in begun \/ Configures(a, TypeOf(s))
    BY <1>5
  <2>2. Configures(a, a.msg.type)
    BY DEF Configures
  <2>3. Ready(Append(unread, a), configured, streams)
    BY <1>3, <2>1, <2>2, ReadyAppend DEF ContentInv
  <2>. QED  BY <1>3, <1>5, <2>3, SeqAppend
<1>7. Ready(Append(u, b), configured, streams)
  <2>1. stream \in streams /\ \A s \in streams : s \in streams
    BY <1>5
  <2>. QED  BY <1>6, <2>1, ReadyAppend
<1>8. configured' = configured /\ Received' = Received /\ got' = got
  BY <1>4, ServerIdle
<1>. QED  BY <1>1, <1>2, <1>4, <1>5, <1>7, <1>8 DEF ContentInv

\* What is behind the first cells of a packet.
LEMMA BehindThree ==
  ASSUME NEW x, NEW y, NEW z, NEW t, IsSeq(t), NEW s, s = <<x, y, z>> \o t
  PROVE  s[2] = y /\ SubSeq(s, 4, Len(s)) = t
<1>1. PICK h, H : h = <<x, y, z>> /\ H = {x, y, z}
  OBVIOUS
<1>2. h \in Seq(H) /\ Len(h) = 3 /\ h[2] = y
  BY <1>1
<1>3. IsSeq(h)
  BY <1>2, SeqIsSeq
<1>4. /\ IsSeq(s) /\ Len(s) = 3 + Len(t) /\ Len(t) \in Nat
      /\ \A i \in 1..3 : s[i] = h[i]
      /\ \A i \in 1..Len(t) : s[3 + i] = t[i]
  <2>1. IsSeq(h \o t) /\ s = h \o t
    BY <1>1, <1>3, SeqConcat
  <2>2. /\ Len(h \o t) = Len(h) + Len(t)
        /\ \A i \in 1..Len(h) : (h \o t)[i] = h[i]
        /\ \A i \in 1..Len(t) : (h \o t)[Len(h) + i] = t[i]
    BY <1>3, SeqConcat
  <2>. QED  BY <1>2, <2>1, <2>2, SeqLen
<1>5. s[2] = y
  BY <1>2, <1>4
<1>6. PICK m, n : m = 4 /\ n = Len(s)
  OBVIOUS
<1>7. m \in Nat \ {0} /\ n \in 0..Len(s) /\ m <= n + 1 /\ n - m + 1 = Len(t)
      /\ \A i \in 1..Len(t) : m + i - 1 = 3 + i
  BY <1>4, <1>6
<1>8. PICK u : u = SubSeq(s, m, n)
  OBVIOUS
<1>9. IsSeq(u) /\ Len(u) = Len(t) /\ \A i \in 1..Len(t) : u[i] = s[m + i - 1]
  <2>1. /\ IsSeq(SubSeq(s, m, n)) /\ Len(SubSeq(s, m, n)) = n - m + 1
        /\ \A i \in 1..(n - m + 1) : SubSeq(s, m, n)[i] = s[m + i - 1]
    <3>1. IsSeq(s) /\ m \in Nat \ {0} /\ n \in 0..Len(s) /\ m <= n + 1
      BY <1>4, <1>7
    <3>. QED  BY <3>1, SeqSub
  <2>. QED  BY <1>7, <1>8, <2>1
<1>10. \A i \in 1..Len(u) : u[i] = t[i]
  BY <1>4, <1>7, <1>9
<1>11. u = t
  BY <1>9, <1>10, SeqSame
<1>. QED  BY <1>5, <1>6, <1>8, <1>11

LEMMA VideoPayloadIs ==
  ASSUME NEW sample \in Samples, NEW key, NEW first, NEW p,
         p = PrepareVideoPayload(SampleData(sample), key, CompositionOffset, first)
  PROVE  /\ p[2] = <<"packettype", IF first THEN 0 ELSE 1>>
         /\ SubSeq(p, 4, Len(p)) = IF first THEN MakeDecoderConfigRecord(SampleData(sample))
                                   ELSE MakeAVCSample(SampleData(sample))
<1>1. PICK x, y, z, t :
        /\ x = <<"videodata", IF key THEN 23 ELSE 39>>
        /\ y = <<"packettype", IF first THEN 0 ELSE 1>>
        /\ z = <<"ctsoffset", IF first THEN 0 ELSE CompositionOffset>>
        /\ t = IF first THEN MakeDecoderConfigRecord(SampleData(sample))
               ELSE MakeAVCSample(SampleData(sample))
  OBVIOUS
<1>2. PICK data : data = SampleData(sample)
  OBVIOUS
<1>3. Plain(data) /\ WholeSets(Parse(data))
  BY <1>2, SampleIsPlain
<1>4. Plain(MakeDecoderConfigRecord(data)) /\ Plain(MakeAVCSample(data))
  BY <1>3, RecordIsPlain, UnitsArePlain, PrefixedIsPlain DEF MakeAVCSample
<1>5. IsSeq(t)
  BY <1>1, <1>2, <1>4 DEF Plain
<1>6. p = <<x, y, z>> \o t
  BY <1>1 DEF PrepareVideoPayload
<1>7. p[2] = y /\ SubSeq(p, 4, Len(p)) = t
  BY <1>5, <1>6, BehindThree
<1>. QED  BY <1>1, <1>7

LEMMA AudioPayloadIs ==
  ASSUME NEW first, NEW p, p = PrepareAudioPayload(first)
  PROVE  p[2] = <<"packettype", IF first THEN 0 ELSE 1>>
<1>1. PICK x, y, c, f, g : /\ x = <<"audiodata", 175>> /\ y = <<"packettype", IF first THEN 0 ELSE 1>>
                           /\ c = <<"audioconfig", 18>> /\ f = <<"frame", 1>> /\ g = <<"frame", 2>>
  OBVIOUS
<1>2. PICK s, t, S, R : /\ s = <<x, y>> /\ t = (IF first THEN <<c>> ELSE <<f, g>>)
                        /\ S = {x, y} /\ R = {c, f, g}
  OBVIOUS
<1>3. s \in Seq(S) /\ Len(s) = 2 /\ s[2] = y
  BY <1>2
<1>4. <<c>> \in Seq(R) /\ <<f, g>> \in Seq(R)
  BY <1>2
<1>5. IsSeq(s) /\ IsSeq(t)
  BY <1>2, <1>3, <1>4, SeqIsSeq
<1>6. (s \o t)[2] = s[2]
  <2>1. \A i \in 1..Len(s) : (s \o t)[i] = s[i]
    BY <1>5, SeqConcat
  <2>2. 2 \in 1..Len(s)
    BY <1>3
  <2>. QED  BY <2>1, <2>2
<1>. QED  BY <1>1, <1>2, <1>3, <1>6 DEF PrepareAudioPayload

LEMMA VideoContent ==
  ASSUME ContentInv, WireInv, SendVideo
  PROVE  ContentInv'
<1>. DEFINE packet(sample, ts, first) ==
              [msg |-> RTMPMessage(ts, VIDEO, StreamID,
                         PrepareVideoPayload(SampleData(sample), IsKeyFrame(sample), CompositionOffset, first)),
               from |-> sample]
<1>1. PICK sample \in Samples, ts \in Stamps :
        IF "video" \in begun THEN SendPackets("video", <<packet(sample, ts, FALSE)>>)
        ELSE IsKeyFrame(sample)
             /\ SendPackets("video", <<packet(sample, ts, TRUE), packet(sample, ts, FALSE)>>)
  BY Zenon DEF SendVideo
<1>2. ASSUME NEW first \in BOOLEAN, first => IsKeyFrame(sample), NEW a, a = packet(sample, ts, first)
      PROVE  Made(a) /\ a.msg.type = VIDEO /\ (first => Configures(a, VIDEO))
  <2>1. PICK key, p : /\ key = IsKeyFrame(sample)
                      /\ p = PrepareVideoPayload(SampleData(sample), key, CompositionOffset, first)
    OBVIOUS
  <2>2. first => IsKeyFrame(a.from)
    BY <1>2
  <2>3. a.msg.type = VIDEO /\ a.msg.payload = p /\ a.from = sample
    BY <1>2, <2>1 DEF RTMPMessage
  <2>4. Made(a)
    BY <2>1, <2>2, <2>3, TypesApart DEF Made
  <2>5. p[2] = <<"packettype", IF first THEN 0 ELSE 1>>
    BY <2>1, VideoPayloadIs
  <2>. QED  BY <2>3, <2>4, <2>5 DEF Configures
<1>3. PICK a, b : a = packet(sample, ts, FALSE) /\ b = packet(sample, ts, TRUE)
  OBVIOUS
<1>. HIDE DEF packet
<1>4. /\ Made(a) /\ a.msg.type = VIDEO
      /\ IsKeyFrame(sample) => Made(b) /\ Configures(b, VIDEO)
  BY <1>2, <1>3
<1>5. \/ "video" \in begun /\ SendPackets("video", <<a>>)
      \/ IsKeyFrame(sample) /\ SendPackets("video", <<b, a>>)
  BY <1>1, <1>3
<1>6. PICK stream : stream = "video"
  OBVIOUS
<1>7. stream \in {"video", "audio"} /\ TypeOf(stream) = VIDEO
  BY <1>6, TypesApart
<1>8. \/ stream \in begun /\ SendPackets(stream, <<a>>)
      \/ IsKeyFrame(sample) /\ SendPackets(stream, <<b, a>>)
  BY <1>5, <1>6
<1>. QED  BY <1>4, <1>7, <1>8, PacketContent, PacketsContent

LEMMA AudioContent ==
  ASSUME ContentInv, WireInv, SendAudio
  PROVE  ContentInv'
<1>. DEFINE packet(ts, first) ==
              [msg |-> RTMPMessage(ts, AUDIO, StreamID, PrepareAudioPayload(first)), from |-> <<>>]
<1>1. PICK ts \in Stamps :
        SendPackets("audio", IF "audio" \in begun THEN <<packet(ts, FALSE)>>
                             ELSE <<packet(ts, TRUE), packet(ts, FALSE)>>)
  BY Zenon DEF SendAudio
<1>2. ASSUME NEW first \in BOOLEAN, NEW a, a = packet(ts, first)
      PROVE  Made(a) /\ a.msg.type = AUDIO /\ (first => Configures(a, AUDIO))
  <2>1. PICK p : p = PrepareAudioPayload(first)
    OBVIOUS
  <2>2. a.msg.type = AUDIO /\ a.msg.payload = p
    BY <1>2, <2>1 DEF RTMPMessage
  <2>3. Made(a)
    BY <2>1, <2>2, TypesApart DEF Made
  <2>4. p[2] = <<"packettype", IF first THEN 0 ELSE 1>>
    BY <2>1, AudioPayloadIs
  <2>. QED  BY <2>2, <2>3, <2>4 DEF Configures
<1>3. PICK a, b : a = packet(ts, FALSE) /\ b = packet(ts, TRUE)
  OBVIOUS
<1>4. Made(a) /\ a.msg.type = AUDIO /\ Made(b) /\ Configures(b, AUDIO)
  <2>. HIDE DEF packet
  <2>. QED  BY <1>2, <1>3
<1>5. \/ "audio" \in begun /\ SendPackets("audio", <<a>>)
      \/ SendPackets("audio", <<b, a>>)
  <2>. HIDE DEF packet
  <2>. QED  BY <1>1, <1>3
<1>6. PICK stream : stream = "audio"
  OBVIOUS
<1>7. stream \in {"video", "audio"} /\ TypeOf(stream) = AUDIO
  BY <1>6, TypesApart
<1>8. \/ stream \in begun /\ SendPackets(stream, <<a>>)
      \/ SendPackets(stream, <<b, a>>)
  BY <1>5, <1>6
<1>. QED  BY <1>4, <1>7, <1>8, PacketContent, PacketsContent

\* The server, which takes a configuration when it has read it.
LEMMA ReadsConfigures ==
  ASSUME ServerReadsChunk
  PROVE  /\ LosesIt => UNCHANGED <<unread, configured, got>>
         /\ ~LosesIt =>
              IF Len(ReadNow) < ServerHead.length THEN UNCHANGED <<unread, configured, got>>
              ELSE configured' = IF ServerHead.type \in {AUDIO, VIDEO} /\ ReadNow[2] = <<"packettype", 0>>
                                 THEN configured \union {ServerHead.type} ELSE configured
<1>. USE DEF ReadOld, Held, ReadSize, ReadNow
<1>1. ASSUME LosesIt PROVE UNCHANGED <<unread, configured, got>>
  BY <1>1, Zenon DEF ServerReadsChunk, LosesIt
<1>2. ASSUME ~LosesIt
      PROVE  IF Len(ReadNow) < ServerHead.length THEN UNCHANGED <<unread, configured, got>>
             ELSE configured' = IF ServerHead.type \in {AUDIO, VIDEO} /\ ReadNow[2] = <<"packettype", 0>>
                                THEN configured \union {ServerHead.type} ELSE configured
  BY <1>2, Zenon DEF ServerReadsChunk, LosesIt
<1>. QED  BY <1>1, <1>2

LEMMA ReadContent ==
  ASSUME ContentInv, WireInv, WireInv', ServerReadsChunk
  PROVE  ContentInv'
<1>1. UNCHANGED messenger /\ (~LosesIt => Reads) /\ toServer # <<>>
  BY ReadUnfolds
<1>2. begun' = begun /\ (Running' <=> Running)
  BY <1>1 DEF messenger, Running
<1>3. ASSUME UNCHANGED <<unread, configured, got>> PROVE ContentInv'
  BY <1>2, <1>3 DEF ContentInv, Received
<1>4. CASE LosesIt
  BY <1>3, <1>4, ReadsConfigures
<1>5. CASE ~LosesIt /\ Len(ReadNow) < ServerHead.length
  BY <1>3, <1>5, ReadsConfigures
<1>6. CASE ~LosesIt /\ ~(Len(ReadNow) < ServerHead.length)
  <2>1. IsSeq(unread) /\ unread # <<>>
    <3>1. PICK ids, sizes, strips, read :
            Wire(toServer, unread, inSize, SizeNow, partial, heads, ids, sizes, strips, read)
      BY DEF WireInv, OnTheWay
    <3>. QED  BY <1>1, <3>1, WireSeqs, NothingSent
  <2>2. Head(unread) = unread[1]
    BY <2>1, SeqTail
  <2>3. PICK item : item = unread[1]
    OBVIOUS
  <2>4. /\ unread' = Tail(unread)
        /\ got' = [written |-> item.msg, from |-> item.from, assembled |-> ReadMessage]
    BY <1>1, <1>6, <2>2, <2>3 DEF Reads
  <2>5. ReadMessage = item.msg
    <3>1. got'.assembled = got'.written
      BY DEF WireInv, ReceivedAsSent
    <3>. QED  BY <2>4, <3>1
  <2>6. ServerHead.type = item.msg.type /\ ReadNow = item.msg.payload
    BY <2>5 DEF ReadMessage, RTMPMessage
  <2>7. configured' = IF item.msg.type \in {AUDIO, VIDEO} /\ item.msg.payload[2] = <<"packettype", 0>>
                      THEN configured \union {item.msg.type} ELSE configured
    BY <1>6, <2>6, ReadsConfigures
  <2>8. /\ configured \subseteq configured'
        /\ \A type \in {AUDIO, VIDEO} : Configures(unread[1], type) => type \in configured'
    BY <2>3, <2>7 DEF Configures
  <2>9. PICK conf2 : conf2 = configured'
    OBVIOUS
  <2>10. /\ Ready(Tail(unread), conf2, begun)
         /\ unread[1].msg.type \in {AUDIO, VIDEO} => unread[1].msg.type \in conf2
         /\ Made(unread[1])
    <3>1. Ready(unread, configured, begun)
      BY DEF ContentInv
    <3>2. /\ configured \subseteq conf2
          /\ \A type \in {AUDIO, VIDEO} : Configures(unread[1], type) => type \in conf2
          /\ \A s \in begun : TypeOf(s) \in {AUDIO, VIDEO}
      BY <2>8, <2>9, TypesApart
    <3>3. PICK u, c, b : u = unread /\ c = configured /\ b = begun
      OBVIOUS
    <3>4. /\ Ready(Tail(u), conf2, b)
          /\ u[1].msg.type \in {AUDIO, VIDEO} => u[1].msg.type \in conf2
          /\ Made(u[1])
      BY <2>1, <3>1, <3>2, <3>3, ReadyTail
    <3>. QED  BY <3>3, <3>4
  <2>11. Made(Received')
    <3>1. Received'.msg = item.msg /\ Received'.from = item.from
      BY <2>4 DEF Received
    <3>. QED  BY <2>3, <2>10, <3>1 DEF Made
  <2>12. got'.written.type \in {AUDIO, VIDEO} => got'.written.type \in configured'
    BY <2>3, <2>4, <2>9, <2>10
  <2>13. Ready(unread', configured', begun')
    BY <1>2, <2>4, <2>9, <2>10
  <2>. QED  BY <1>2, <2>11, <2>12, <2>13 DEF ContentInv
<1>. QED  BY <1>4, <1>5, <1>6

LEMMA InitContent == Init => ContentInv
<1>. SUFFICES ASSUME Init PROVE ContentInv
  OBVIOUS
<1>1. /\ unread = <<>> /\ begun = {}
      /\ got = [written |-> NoMessage, from |-> <<>>, assembled |-> NoMessage]
  BY Zenon DEF Init
<1>2. PICK u : u = unread
  OBVIOUS
<1>3. u = <<>> /\ Len(u) = 0
  BY <1>1, <1>2, EmptySeq
<1>4. Ready(u, configured, begun)
  BY <1>1, <1>3 DEF Ready
<1>5. Received.msg.type = 0 /\ got.written.type = 0
  BY <1>1 DEF Received, NoMessage, RTMPMessage
<1>6. 0 \notin {AUDIO, VIDEO}
  BY DEF AUDIO, VIDEO
<1>7. Made(Received)
  BY <1>5, <1>6 DEF Made
<1>. QED  BY <1>1, <1>2, <1>4, <1>5, <1>6, <1>7 DEF ContentInv

LEMMA ConnectContent == ASSUME ContentInv, ConnectAsync PROVE ContentInv'
<1>1. /\ ~Running /\ unread' = <<>> /\ begun' = begun /\ got' = got /\ configured' = configured
  BY DEF ConnectAsync
<1>2. begun' = {}
  BY <1>1 DEF ContentInv
<1>3. PICK u : u = <<>>
  OBVIOUS
<1>4. Len(u) = 0
  BY <1>3, EmptySeq
<1>5. Ready(u, configured, {})
  BY <1>4 DEF Ready
<1>6. Received' = Received
  BY <1>1 DEF Received
<1>. QED  BY <1>1, <1>2, <1>3, <1>5, <1>6 DEF ContentInv

LEMMA StepContent ==
  ASSUME ContentInv, WireInv, WireInv', [Next]_vars PROVE ContentInv'
<1>1. CASE UNCHANGED vars
  BY <1>1 DEF vars, messenger, server, ContentInv, Received, Running
<1>2. CASE ConnectAsync
  BY <1>2, ConnectContent
<1>3. CASE ServerReadsChunk
  BY <1>3, ReadContent
<1>4. CASE SendVideo
  BY <1>4, VideoContent
<1>5. CASE SendAudio
  BY <1>5, AudioContent
<1>6. CASE SendUnpublishAndCloseStream
  BY <1>6, CloseContent
<1>7. CASE \/ SendConnect \/ SendReleaseStream \/ SendFCPublish \/ SendCreateStream
           \/ SendPublishStream \/ SendSetDataFrame \/ SendSetChunkSize
  BY <1>7, HandshakeContent
<1>. QED  BY <1>1, <1>2, <1>3, <1>4, <1>5, <1>6, <1>7 DEF Next, Messenger

\* What the packets are made of, and that the configuration of a stream is ahead of
\* them wherever they are.
THEOREM ContentInvariance == Spec => []ContentInv
<1>1. Init => ContentInv
  BY InitContent
<1>2. ContentInv /\ WireInv /\ WireInv' /\ [Next]_vars => ContentInv'
  BY StepContent
<1>. QED  BY <1>1, <1>2, WireInvariance, PTL DEF Spec

LEMMA PadIsZeros == \A sample, i : PadOf(sample, i) \in {<<>>, <<Byte(0)>>}
  BY DEF PadOf

LEMMA BackFromPacket ==
  ASSUME ContentInv, ReceivedAsSent PROVE SamplesReadBack
<1>. SUFFICES ASSUME got.assembled.type = VIDEO, got.assembled.payload[2] = <<"packettype", 1>>
              PROVE  \E zeros \in [DOMAIN got.from -> {<<>>, <<Byte(0)>>}] :
                       SubSeq(got.assembled.payload, 4, Len(got.assembled.payload)) =
                         LengthPrefixed([i \in DOMAIN got.from |-> Bytes(got.from[i].nalu) \o zeros[i]])
  BY DEF SamplesReadBack
<1>1. PICK p, sample : p = got.assembled.payload /\ sample = got.from
  OBVIOUS
<1>2. Received.msg.type = VIDEO /\ Received.msg.payload = p /\ Received.from = sample
  BY <1>1 DEF Received, ReceivedAsSent
<1>3. sample \in Samples
  BY <1>2 DEF ContentInv, Made
<1>4. PICK first \in BOOLEAN :
        p = PrepareVideoPayload(SampleData(sample), IsKeyFrame(sample), CompositionOffset, first)
  BY <1>2 DEF ContentInv, Made
<1>5. PICK key : key = IsKeyFrame(sample)
  OBVIOUS
<1>6. /\ p[2] = <<"packettype", IF first THEN 0 ELSE 1>>
      /\ SubSeq(p, 4, Len(p)) = IF first THEN MakeDecoderConfigRecord(SampleData(sample))
                                ELSE MakeAVCSample(SampleData(sample))
  BY <1>3, <1>4, <1>5, VideoPayloadIs
<1>7. ~first
  BY <1>1, <1>6
<1>8. SubSeq(p, 4, Len(p)) = LengthPrefixed(Padded(sample))
  BY <1>3, <1>6, <1>7, ParseSplits DEF MakeAVCSample
<1>9. PICK zeros : zeros = [i \in DOMAIN sample |-> PadOf(sample, i)]
  OBVIOUS
<1>10. zeros \in [DOMAIN sample -> {<<>>, <<Byte(0)>>}]
  BY <1>9, PadIsZeros
<1>11. Padded(sample) = [i \in DOMAIN sample |-> Bytes(sample[i].nalu) \o zeros[i]]
  BY <1>9 DEF Padded
<1>. QED  BY <1>1, <1>8, <1>10, <1>11

\* SamplesReadBack: a video packet that the server has put together holds the units
\* of its sample, each behind its length, for every sample of an encoder.
THEOREM SamplesHeldWhole == Spec => []SamplesReadBack
<1>1. ContentInv /\ ReceivedAsSent => SamplesReadBack
  BY BackFromPacket
<1>. QED  BY <1>1, ContentInvariance, MessagesReceivedAsSent, PTL
----------------------------------------------------------------------------
(* ConfiguredFirst.                                                           *)

\* Any set of places can be listed in order.
LEMMA ListsExist ==
  ASSUME NEW places, NEW L \in Nat
  PROVE  \E n, at : Lists(at, n, places, L)
<1>. DEFINE S == {l \in Nat : \E n, at : Lists(at, n, places, l)}
<1>1. 0 \in S
  <2>1. PICK at : at = [i \in 1..0 |-> 0]
    OBVIOUS
  <2>2. 0 \in Nat /\ \A i \in 1..0 : FALSE
    OBVIOUS
  <2>3. Lists(at, 0, places, 0)
    BY <2>2 DEF Lists
  <2>. QED  BY <2>3
<1>2. ASSUME NEW l \in Nat, l \in S PROVE l + 1 \in S
  <2>1. PICK n, at : Lists(at, n, places, l)
    BY <1>2
  <2>2. /\ n \in Nat /\ (\A i \in 1..n : at[i] \in 1..l)
        /\ \A i, j \in 1..n : i < j => at[i] < at[j]
        /\ \A p \in 1..l : p \in places <=> \E i \in 1..n : p = at[i]
    BY <2>1 DEF Lists
  <2>3. \A p \in 1..(l + 1) : p \in 1..l \/ p = l + 1
    OBVIOUS
  <2>4. \A i \in 1..n : at[i] \in 1..(l + 1) /\ at[i] < l + 1
    BY <2>2
  <2>5. CASE l + 1 \notin places
    <3>1. \A p \in 1..(l + 1) : p \in places <=> \E i \in 1..n : p = at[i]
      BY <2>2, <2>3, <2>4, <2>5
    <3>2. Lists(at, n, places, l + 1)
      BY <2>2, <2>4, <3>1 DEF Lists
    <3>. QED  BY <3>2
  <2>6. CASE l + 1 \in places
    <3>1. PICK at2 : at2 = [i \in 1..(n + 1) |-> IF i = n + 1 THEN l + 1 ELSE at[i]]
      OBVIOUS
    <3>2. /\ \A i \in 1..(n + 1) : i \in 1..n \/ i = n + 1
          /\ \A i \in 1..n : i \in 1..(n + 1) /\ i # n + 1 /\ i < n + 1
          /\ n + 1 \in 1..(n + 1)
      BY <2>2
    <3>3. at2[n + 1] = l + 1 /\ \A i \in 1..n : at2[i] = at[i]
      BY <3>1, <3>2
    <3>4. \A i \in 1..(n + 1) : at2[i] \in 1..(l + 1)
      BY <2>4, <3>2, <3>3
    <3>5. ASSUME NEW i \in 1..(n + 1), NEW j \in 1..(n + 1), i < j PROVE at2[i] < at2[j]
      <4>1. i \in 1..n
        BY <2>2, <3>2, <3>5
      <4>2. CASE j = n + 1
        BY <2>4, <3>3, <4>1, <4>2
      <4>3. CASE j \in 1..n
        BY <2>2, <3>3, <3>5, <4>1, <4>3
      <4>. QED  BY <3>2, <4>2, <4>3
    <3>6. ASSUME NEW p \in 1..(l + 1) PROVE p \in places <=> \E i \in 1..(n + 1) : p = at2[i]
      <4>1. CASE p = l + 1
        BY <2>6, <3>2, <3>3, <4>1
      <4>2. CASE p \in 1..l
        <5>1. p # l + 1
          BY <4>2
        <5>2. (\E i \in 1..(n + 1) : p = at2[i]) <=> \E i \in 1..n : p = at[i]
          BY <3>2, <3>3, <5>1
        <5>. QED  BY <2>2, <4>2, <5>2
      <4>. QED  BY <2>3, <4>1, <4>2
    <3>7. Lists(at2, n + 1, places, l + 1)
      BY <2>2, <3>4, <3>5, <3>6 DEF Lists
    <3>. QED  BY <3>7
  <2>. QED  BY <2>5, <2>6
<1>. HIDE DEF S
<1>3. \A l \in Nat : l \in S
  BY <1>1, <1>2, SetInduction
<1>. QED  BY <1>3 DEF S

\* The units of one type, as the parser pushes them back, and as they are in the sample.
TypePlaces(nalus, type) == {i \in DOMAIN nalus : GetType(nalus[i]) = type}

SetsOf(sample, type, sets, padded) ==
  /\ IsSeq(sets) /\ IsSeq(padded) /\ Len(padded) = Len(sets)
  /\ \A i \in 1..Len(sets) :
       /\ \E pad \in {<<>>, <<Byte(0)>>} : padded[i] = Bytes(sets[i]) \o pad
       /\ \E k \in 1..Len(sample) : sets[i] = sample[k].nalu /\ sample[k].nalu[1] % 32 = type
  /\ (\E k \in 1..Len(sample) : sample[k].nalu[1] % 32 = type) => Len(sets) # 0

LEMMA SetsAre ==
  ASSUME NEW sample \in Samples, NEW type, NEW sets, sets = ParameterSets(sample, type),
         NEW padded, padded = Pushed(Padded(sample), TypePlaces(Padded(sample), type))
  PROVE  SetsOf(sample, type, sets, padded)
<1>. DEFINE L == Len(sample)
<1>1. PICK units, places : units = Padded(sample) /\ places = {i \in DOMAIN sample : sample[i].nalu[1] % 32 = type}
  OBVIOUS
<1>2. /\ L \in Nat /\ IsSeq(sample) /\ DOMAIN sample = 1..L
      /\ IsSeq(units) /\ Len(units) = L /\ DOMAIN units = 1..L
      /\ \A i \in 1..L : /\ units[i] = Bytes(sample[i].nalu) \o PadOf(sample, i)
                         /\ GetType(units[i]) = sample[i].nalu[1] % 32
  <2>1. /\ IsSeq(sample) /\ Len(sample) \in Nat \ {0} /\ DOMAIN sample = 1..Len(sample)
    BY UnitsOf
  <2>2. /\ IsSeq(units) /\ Len(units) = Len(sample)
        /\ \A i \in 1..Len(sample) :
             /\ units[i] = Bytes(sample[i].nalu) \o PadOf(sample, i)
             /\ GetType(units[i]) = sample[i].nalu[1] % 32
    BY <1>1, PaddedIs
  <2>. QED  BY <2>1, <2>2, SeqLen
<1>. HIDE DEF L
<1>3. TypePlaces(units, type) = places
  BY <1>1, <1>2 DEF TypePlaces
<1>4. PICK n, at : Lists(at, n, places, L)
  BY <1>2, ListsExist
<1>5. PICK s : s = Pushed(sample, places)
  OBVIOUS
<1>6. IsSeq(s) /\ Len(s) = n /\ \A i \in 1..n : s[i] = sample[at[i]]
  <2>1. Lists(at, n, places, Len(sample))
    BY <1>4 DEF L
  <2>. QED  BY <1>5, <2>1, PushedAt
<1>7. IsSeq(padded) /\ Len(padded) = n /\ \A i \in 1..n : padded[i] = units[at[i]]
  <2>1. Lists(at, n, places, Len(units)) /\ padded = Pushed(units, places)
    BY <1>1, <1>2, <1>3, <1>4
  <2>. QED  BY <2>1, PushedAt
<1>8. /\ n \in Nat /\ \A i \in 1..n : at[i] \in 1..L /\ at[i] \in places
      /\ \A p \in 1..L : p \in places => n # 0
  <2>1. /\ n \in Nat /\ (\A i \in 1..n : at[i] \in 1..L)
        /\ \A p \in 1..L : p \in places <=> \E i \in 1..n : p = at[i]
    BY <1>4 DEF Lists
  <2>2. \A p \in 1..L : p \in places => n # 0
    BY <2>1
  <2>. QED  BY <2>1, <2>2
<1>9. sets = [i \in DOMAIN s |-> s[i].nalu]
  BY <1>1, <1>5 DEF ParameterSets
<1>10. IsSeq(sets) /\ Len(sets) = n /\ \A i \in 1..n : sets[i] = sample[at[i]].nalu
  <2>1. DOMAIN s = 1..n
    BY <1>6, SeqLen
  <2>2. DOMAIN sets = 1..n /\ sets = [i \in 1..n |-> sets[i]] /\ \A i \in 1..n : sets[i] = s[i].nalu
    BY <1>9, <2>1
  <2>. QED  BY <1>6, <1>8, <2>2, SeqMade
<1>11. ASSUME NEW i \in 1..n
       PROVE  /\ \E pad \in {<<>>, <<Byte(0)>>} : padded[i] = Bytes(sets[i]) \o pad
              /\ \E k \in 1..L : sets[i] = sample[k].nalu /\ sample[k].nalu[1] % 32 = type
  <2>1. PICK k : k = at[i]
    OBVIOUS
  <2>2. k \in 1..L /\ k \in places /\ sets[i] = sample[k].nalu /\ padded[i] = units[k]
    BY <1>7, <1>8, <1>10, <2>1
  <2>3. padded[i] = Bytes(sets[i]) \o PadOf(sample, k)
    BY <1>2, <2>2
  <2>4. sample[k].nalu[1] % 32 = type
    BY <1>1, <2>2
  <2>. QED  BY <2>2, <2>3, <2>4, PadIsZeros
<1>12. (\E k \in 1..L : sample[k].nalu[1] % 32 = type) => n # 0
  BY <1>1, <1>2, <1>8
<1>. QED  BY <1>7, <1>10, <1>11, <1>12 DEF L, SetsOf

LEMMA SubOfFirst ==
  ASSUME NEW s, NEW t, IsSeq(s), IsSeq(t), NEW m \in Nat \ {0}, NEW n \in 0..Len(s), m <= n + 1
  PROVE  SubSeq(s \o t, m, n) = SubSeq(s, m, n)
<1>1. Len(s) \in Nat /\ Len(t) \in Nat
  BY SeqLen
<1>2. PICK u : u = s \o t
  OBVIOUS
<1>3. IsSeq(u) /\ Len(u) = Len(s) + Len(t) /\ \A i \in 1..Len(s) : u[i] = s[i]
  BY <1>2, SeqConcat
<1>4. n \in 0..Len(u)
  BY <1>1, <1>3
<1>5. PICK a, b : a = SubSeq(u, m, n) /\ b = SubSeq(s, m, n)
  OBVIOUS
<1>6. IsSeq(a) /\ Len(a) = n - m + 1 /\ \A i \in 1..(n - m + 1) : a[i] = u[m + i - 1]
  <2>1. /\ IsSeq(SubSeq(u, m, n)) /\ Len(SubSeq(u, m, n)) = n - m + 1
        /\ \A i \in 1..(n - m + 1) : SubSeq(u, m, n)[i] = u[m + i - 1]
    BY <1>3, <1>4, SeqSub
  <2>. QED  BY <1>5, <2>1
<1>7. IsSeq(b) /\ Len(b) = n - m + 1 /\ \A i \in 1..(n - m + 1) : b[i] = s[m + i - 1]
  <2>1. /\ IsSeq(SubSeq(s, m, n)) /\ Len(SubSeq(s, m, n)) = n - m + 1
        /\ \A i \in 1..(n - m + 1) : SubSeq(s, m, n)[i] = s[m + i - 1]
    BY SeqSub
  <2>. QED  BY <1>5, <2>1
<1>8. \A i \in 1..(n - m + 1) : m + i - 1 \in 1..Len(s)
  BY <1>1
<1>9. \A i \in 1..Len(a) : a[i] = b[i]
  BY <1>3, <1>6, <1>7, <1>8
<1>10. a = b
  BY <1>6, <1>7, <1>9, SeqSame
<1>. QED  BY <1>2, <1>5, <1>10

LEMMA BytesAre ==
  ASSUME NEW nalu \in Seq(0..255)
  PROVE  IsSeq(Bytes(nalu)) /\ Len(Bytes(nalu)) = Len(nalu)
<1>1. PICK r, m : r = Bytes(nalu) /\ m = Len(nalu)
  OBVIOUS
<1>2. m \in Nat /\ DOMAIN nalu = 1..m
  BY <1>1, LenProperties
<1>3. DOMAIN r = 1..m /\ r = [b \in 1..m |-> r[b]]
  BY <1>1, <1>2 DEF Bytes
<1>. QED  BY <1>1, <1>2, <1>3, SeqMade

\* Profile and level are in the bytes behind the first, where no zero of a prefix is.
LEMMA ProfileIs ==
  ASSUME NEW sample \in Samples, NEW k \in 1..Len(sample), sample[k].nalu[1] % 32 = NALUTYPE_SPS,
         NEW pad \in {<<>>, <<Byte(0)>>}, NEW set, set = Bytes(sample[k].nalu) \o pad
  PROVE  SubSeq(set, 2, 4) = SubSeq(Bytes(sample[k].nalu), 2, 4)
<1>1. PICK nalu, r : nalu = sample[k].nalu /\ r = Bytes(nalu)
  OBVIOUS
<1>2. nalu \in Seq(0..255) /\ Len(nalu) \in Nat /\ Len(nalu) >= 4
  BY <1>1, UnitsOf DEF IsNALUnit
<1>3. IsSeq(r) /\ Len(r) = Len(nalu)
  BY <1>1, <1>2, BytesAre
<1>4. IsSeq(pad)
  <2>1. PICK z : z = Byte(0)
    OBVIOUS
  <2>2. <<z>> \in Seq({z})
    OBVIOUS
  <2>3. IsSeq(<<z>>)
    BY <2>2, SeqIsSeq
  <2>. QED  BY <2>1, <2>3, SeqEmpty
<1>5. PICK m, n : m = 2 /\ n = 4
  OBVIOUS
<1>6. m \in Nat \ {0} /\ n \in 0..Len(r) /\ m <= n + 1
  BY <1>2, <1>3, <1>5
<1>7. SubSeq(r \o pad, m, n) = SubSeq(r, m, n)
  BY <1>3, <1>4, <1>6, SubOfFirst
<1>. QED  BY <1>1, <1>5, <1>7

\* The record of the configuration, set by set.
Pads(sps, pps) == [((DOMAIN sps) \X {"sps"}) \union ((DOMAIN pps) \X {"pps"}) -> {<<>>, <<Byte(0)>>}]
RecordOf(sps, pps, padded) ==
  <<Byte(1)>> \o SubSeq(Bytes(sps[1]), 2, 4) \o <<Byte(255), <<"spscount", Len(sps)>>>>
    \o LengthPrefixed([i \in DOMAIN sps |-> Bytes(sps[i]) \o padded[<<i, "sps">>]])
    \o <<<<"ppscount", Len(pps)>>>>
    \o LengthPrefixed([i \in DOMAIN pps |-> Bytes(pps[i]) \o padded[<<i, "pps">>]])

RecordFrom(s, p) ==
  <<Byte(1)>> \o SubSeq(s[1], 2, 4) \o <<Byte(255), <<"spscount", Len(s)>>>>
    \o LengthPrefixed(s) \o <<<<"ppscount", Len(p)>>>> \o LengthPrefixed(p)

LEMMA RecordIs ==
  ASSUME NEW data, NEW s, NEW p, s # <<>>,
         s = Pushed(Parse(data), TypePlaces(Parse(data), NALUTYPE_SPS)),
         p = Pushed(Parse(data), TypePlaces(Parse(data), NALUTYPE_PPS))
  PROVE  MakeDecoderConfigRecord(data) = RecordFrom(s, p)
<1>. DEFINE nalus == Parse(data)
            sets(type) == Pushed(nalus, {i \in DOMAIN nalus : GetType(nalus[i]) = type})
<1>1. s = sets(NALUTYPE_SPS) /\ p = sets(NALUTYPE_PPS)
  BY DEF TypePlaces
<1>2. PICK b : b = IF s = <<>> THEN <<>> ELSE SubSeq(s[1], 2, 4)
  OBVIOUS
<1>3. MakeDecoderConfigRecord(data) =
        <<Byte(1)>> \o b \o <<Byte(255), <<"spscount", Len(s)>>>>
          \o LengthPrefixed(s) \o <<<<"ppscount", Len(p)>>>> \o LengthPrefixed(p)
  BY <1>1, <1>2 DEF MakeDecoderConfigRecord
<1>4. b = SubSeq(s[1], 2, 4)
  BY <1>2
<1>. QED  BY <1>3, <1>4 DEF RecordFrom

LEMMA RecordTells ==
  ASSUME NEW sample \in Samples,
         NEW sps, sps = ParameterSets(sample, NALUTYPE_SPS), sps # <<>>,
         NEW pps, pps = ParameterSets(sample, NALUTYPE_PPS)
  PROVE  \E padded \in Pads(sps, pps) :
           MakeDecoderConfigRecord(SampleData(sample)) = RecordOf(sps, pps, padded)
<1>1. PICK nalus, s, p : /\ nalus = Padded(sample)
                         /\ s = Pushed(nalus, TypePlaces(nalus, NALUTYPE_SPS))
                         /\ p = Pushed(nalus, TypePlaces(nalus, NALUTYPE_PPS))
  OBVIOUS
<1>2. /\ IsSeq(sps) /\ IsSeq(s) /\ Len(s) = Len(sps)
      /\ \A i \in 1..Len(sps) :
           /\ \E pad \in {<<>>, <<Byte(0)>>} : s[i] = Bytes(sps[i]) \o pad
           /\ \E k \in 1..Len(sample) : sps[i] = sample[k].nalu /\ sample[k].nalu[1] % 32 = NALUTYPE_SPS
  <2>1. SetsOf(sample, NALUTYPE_SPS, sps, s)
    BY <1>1, SetsAre
  <2>. QED  BY <2>1 DEF SetsOf
<1>3. /\ IsSeq(pps) /\ IsSeq(p) /\ Len(p) = Len(pps)
      /\ \A i \in 1..Len(pps) : \E pad \in {<<>>, <<Byte(0)>>} : p[i] = Bytes(pps[i]) \o pad
  <2>1. SetsOf(sample, NALUTYPE_PPS, pps, p)
    BY <1>1, SetsAre
  <2>. QED  BY <2>1 DEF SetsOf
<1>4. DOMAIN sps = 1..Len(sps) /\ DOMAIN pps = 1..Len(pps) /\ Len(sps) \in Nat \ {0} /\ Len(pps) \in Nat
  BY <1>2, <1>3, SeqLen
<1>5. PICK zeros : zeros = {<<>>, <<Byte(0)>>}
  OBVIOUS
<1>. DEFINE padSps(i) == CHOOSE pad \in zeros : s[i] = Bytes(sps[i]) \o pad
            padPps(i) == CHOOSE pad \in zeros : p[i] = Bytes(pps[i]) \o pad
            D == ((DOMAIN sps) \X {"sps"}) \union ((DOMAIN pps) \X {"pps"})
            padded == [d \in D |-> IF d[2] = "sps" THEN padSps(d[1]) ELSE padPps(d[1])]
<1>6. \A i \in 1..Len(sps) : padSps(i) \in zeros /\ s[i] = Bytes(sps[i]) \o padSps(i)
  BY <1>2, <1>5
<1>7. \A i \in 1..Len(pps) : padPps(i) \in zeros /\ p[i] = Bytes(pps[i]) \o padPps(i)
  BY <1>3, <1>5
<1>. HIDE DEF padSps, padPps
<1>8. \A i \in 1..Len(sps) : <<i, "sps">> \in D /\ padded[<<i, "sps">>] = padSps(i)
  BY <1>4
<1>9. \A i \in 1..Len(pps) : <<i, "pps">> \in D /\ padded[<<i, "pps">>] = padPps(i)
  BY <1>4
<1>10. padded \in [D -> zeros]
  <2>1. \A d \in D : (d[2] = "sps" /\ d[1] \in 1..Len(sps)) \/ (d[2] = "pps" /\ d[1] \in 1..Len(pps))
    BY <1>4
  <2>2. \A d \in D : (IF d[2] = "sps" THEN padSps(d[1]) ELSE padPps(d[1])) \in zeros
    BY <1>6, <1>7, <2>1
  <2>. HIDE DEF D
  <2>. QED  BY <2>2
<1>. HIDE DEF padded
<1>11. s = [i \in DOMAIN sps |-> Bytes(sps[i]) \o padded[<<i, "sps">>]]
  <2>1. s = [i \in 1..Len(s) |-> s[i]]
    BY <1>2, LenProperties DEF IsSeq
  <2>2. \A i \in 1..Len(sps) : s[i] = Bytes(sps[i]) \o padded[<<i, "sps">>]
    BY <1>6, <1>8
  <2>. QED  BY <1>2, <1>4, <2>1, <2>2
<1>12. p = [i \in DOMAIN pps |-> Bytes(pps[i]) \o padded[<<i, "pps">>]]
  <2>1. p = [i \in 1..Len(p) |-> p[i]]
    BY <1>3, LenProperties DEF IsSeq
  <2>2. \A i \in 1..Len(pps) : p[i] = Bytes(pps[i]) \o padded[<<i, "pps">>]
    BY <1>7, <1>9
  <2>. QED  BY <1>3, <1>4, <2>1, <2>2
<1>13. s # <<>> /\ SubSeq(s[1], 2, 4) = SubSeq(Bytes(sps[1]), 2, 4)
  <2>1. 1 \in 1..Len(sps)
    BY <1>4
  <2>2. PICK k \in 1..Len(sample) : sps[1] = sample[k].nalu /\ sample[k].nalu[1] % 32 = NALUTYPE_SPS
    BY <1>2, <2>1
  <2>3. PICK pad \in {<<>>, <<Byte(0)>>} : s[1] = Bytes(sps[1]) \o pad
    BY <1>2, <2>1
  <2>4. PICK set : set = s[1]
    OBVIOUS
  <2>5. set = Bytes(sample[k].nalu) \o pad
    BY <2>2, <2>3, <2>4
  <2>6. SubSeq(set, 2, 4) = SubSeq(Bytes(sample[k].nalu), 2, 4)
    BY <2>2, <2>5, ProfileIs
  <2>7. s # <<>>
    BY <1>2, <1>4, SeqLen
  <2>. QED  BY <2>2, <2>4, <2>6, <2>7
<1>14. Parse(SampleData(sample)) = nalus
  BY <1>1, ParseSplits
<1>15. PICK data : data = SampleData(sample)
  OBVIOUS
<1>16. MakeDecoderConfigRecord(data) = RecordFrom(s, p)
  <2>1. /\ s # <<>> /\ s = Pushed(Parse(data), TypePlaces(Parse(data), NALUTYPE_SPS))
        /\ p = Pushed(Parse(data), TypePlaces(Parse(data), NALUTYPE_PPS))
    BY <1>1, <1>13, <1>14, <1>15
  <2>. QED  BY <2>1, RecordIs
<1>17. PICK pad : pad = padded
  OBVIOUS
<1>18. pad \in Pads(sps, pps)
  BY <1>5, <1>10, <1>17 DEF Pads
<1>19. MakeDecoderConfigRecord(data) = RecordOf(sps, pps, pad)
  <2>1. /\ LengthPrefixed(s) = LengthPrefixed([i \in DOMAIN sps |-> Bytes(sps[i]) \o pad[<<i, "sps">>]])
        /\ LengthPrefixed(p) = LengthPrefixed([i \in DOMAIN pps |-> Bytes(pps[i]) \o pad[<<i, "pps">>]])
    BY <1>11, <1>12, <1>17
  <2>2. SubSeq(s[1], 2, 4) = SubSeq(Bytes(sps[1]), 2, 4) /\ Len(s) = Len(sps) /\ Len(p) = Len(pps)
    BY <1>2, <1>3, <1>13
  <2>. QED  BY <1>16, <2>1, <2>2, Zenon DEF RecordOf, RecordFrom
<1>. QED  BY <1>15, <1>18, <1>19

\* An encoder's key frames bring their parameter sets with them; without one the
\* record has no profile to tell.
KeyFramesTellSets ==
  \A sample \in Samples : IsKeyFrame(sample) => \E i \in DOMAIN sample : sample[i].nalu[1] % 32 = NALUTYPE_SPS

LEMMA ToldFirst ==
  ASSUME KeyFramesTellSets, ContentInv, ReceivedAsSent PROVE ConfiguredFirst
<1>1. got.assembled.type \in {AUDIO, VIDEO} => got.assembled.type \in configured
  BY DEF ContentInv, ReceivedAsSent
<1>2. ASSUME got.assembled.type = VIDEO, got.assembled.payload[2] = <<"packettype", 0>>,
             NEW sps, sps = ParameterSets(got.from, NALUTYPE_SPS),
             NEW pps, pps = ParameterSets(got.from, NALUTYPE_PPS)
      PROVE  \E padded \in Pads(sps, pps) :
               SubSeq(got.assembled.payload, 4, Len(got.assembled.payload)) = RecordOf(sps, pps, padded)
  <2>1. PICK p, sample : p = got.assembled.payload /\ sample = got.from
    OBVIOUS
  <2>2. Received.msg.type = VIDEO /\ Received.msg.payload = p /\ Received.from = sample
    BY <1>2, <2>1 DEF Received, ReceivedAsSent
  <2>3. sample \in Samples
    BY <2>2 DEF ContentInv, Made
  <2>4. PICK first \in BOOLEAN :
          /\ first => IsKeyFrame(sample)
          /\ p = PrepareVideoPayload(SampleData(sample), IsKeyFrame(sample), CompositionOffset, first)
    BY <2>2 DEF ContentInv, Made
  <2>5. PICK key : key = IsKeyFrame(sample)
    OBVIOUS
  <2>6. /\ p[2] = <<"packettype", IF first THEN 0 ELSE 1>>
        /\ SubSeq(p, 4, Len(p)) = IF first THEN MakeDecoderConfigRecord(SampleData(sample))
                                  ELSE MakeAVCSample(SampleData(sample))
    BY <2>3, <2>4, <2>5, VideoPayloadIs
  <2>7. first
    BY <1>2, <2>1, <2>6
  <2>8. sps # <<>>
    <3>1. /\ IsSeq(sps)
          /\ (\E k \in 1..Len(sample) : sample[k].nalu[1] % 32 = NALUTYPE_SPS) => Len(sps) # 0
      <4>1. PICK padded, type : /\ padded = Pushed(Padded(sample), TypePlaces(Padded(sample), type))
                                /\ type = NALUTYPE_SPS
        OBVIOUS
      <4>2. sps = ParameterSets(sample, type)
        BY <1>2, <2>1, <4>1
      <4>3. SetsOf(sample, type, sps, padded)
        BY <2>3, <4>1, <4>2, SetsAre
      <4>. QED  BY <4>1, <4>3 DEF SetsOf
    <3>2. \E k \in 1..Len(sample) : sample[k].nalu[1] % 32 = NALUTYPE_SPS
      BY <2>3, <2>4, <2>7, UnitsOf DEF KeyFramesTellSets
    <3>. QED  BY <3>1, <3>2, SeqLen
  <2>9. SubSeq(p, 4, Len(p)) = MakeDecoderConfigRecord(SampleData(sample))
    BY <2>6, <2>7
  <2>10. sps = ParameterSets(sample, NALUTYPE_SPS) /\ pps = ParameterSets(sample, NALUTYPE_PPS)
    BY <1>2, <2>1
  <2>11. SubSeq(got.assembled.payload, 4, Len(got.assembled.payload)) = MakeDecoderConfigRecord(SampleData(sample))
    BY <2>1, <2>9
  <2>. QED  BY <2>3, <2>8, <2>10, <2>11, RecordTells
<1>3. ASSUME got.assembled.type = VIDEO, got.assembled.payload[2] = <<"packettype", 0>>
      PROVE  \E padded \in Pads(ParameterSets(got.from, NALUTYPE_SPS), ParameterSets(got.from, NALUTYPE_PPS)) :
               SubSeq(got.assembled.payload, 4, Len(got.assembled.payload)) =
                 RecordOf(ParameterSets(got.from, NALUTYPE_SPS), ParameterSets(got.from, NALUTYPE_PPS), padded)
  <2>1. PICK sps, pps : /\ sps = ParameterSets(got.from, NALUTYPE_SPS)
                        /\ pps = ParameterSets(got.from, NALUTYPE_PPS)
    OBVIOUS
  <2>2. \E padded \in Pads(sps, pps) :
          SubSeq(got.assembled.payload, 4, Len(got.assembled.payload)) = RecordOf(sps, pps, padded)
    BY <1>2, <1>3, <2>1
  <2>. QED  BY <2>1, <2>2, Zenon
<1>4. ConfiguredFirst <=>
        /\ got.assembled.type \in {AUDIO, VIDEO} => got.assembled.type \in configured
        /\ got.assembled.type = VIDEO /\ got.assembled.payload[2] = <<"packettype", 0>> =>
             \E padded \in Pads(ParameterSets(got.from, NALUTYPE_SPS), ParameterSets(got.from, NALUTYPE_PPS)) :
               SubSeq(got.assembled.payload, 4, Len(got.assembled.payload)) =
                 RecordOf(ParameterSets(got.from, NALUTYPE_SPS), ParameterSets(got.from, NALUTYPE_PPS), padded)
  BY Zenon DEF ConfiguredFirst, Pads, RecordOf
<1>. QED  BY <1>1, <1>3, <1>4, Zenon

\* ConfiguredFirst: the server has the configuration of a stream before a sample of it,
\* and the record of video holds the profile and every parameter set of the sample it
\* was made from.
THEOREM ConfiguredBeforeSamples == ASSUME KeyFramesTellSets PROVE Spec => []ConfiguredFirst
<1>1. ContentInv /\ ReceivedAsSent => ConfiguredFirst
  BY ToldFirst
<1>. QED  BY <1>1, ContentInvariance, MessagesReceivedAsSent, PTL
----------------------------------------------------------------------------
(* CommandsReadBack.                                                          *)

\* Entities that the parser gives back as the server is to have them.
ComesBack(e) == IsEntity(e) /\ SameEntity(DecodedEntity(e), e)
AllComeBack(entities) == \E S : entities \in Seq(S) /\ \A e \in S : ComesBack(e)

\* Properties that an object gives back.
PropertyBack(prop) ==
  /\ IsProperty(prop)
  /\ \/ DecodedProperty(prop) = prop
     \/ \E name, num :
          /\ prop = <<name, <<"Number", num>>>> /\ num < Double(1)
          /\ num - FromFPRepToDouble(FromDoubleToFPRep(num))
               \in 0..(2^(FractionBits - MantissaBits - 1) - 1)
PropsBack(props) == \E S : props \in Seq(S) /\ \A p \in S : PropertyBack(p)

LEMMA BackConcat == ASSUME NEW s, NEW t, AllComeBack(s), AllComeBack(t) PROVE AllComeBack(s \o t)
<1>1. PICK S : s \in Seq(S) /\ \A e \in S : ComesBack(e)
  BY DEF AllComeBack
<1>2. PICK T : t \in Seq(T) /\ \A e \in T : ComesBack(e)
  BY DEF AllComeBack
<1>3. PICK U : U = S \union T
  OBVIOUS
<1>4. s \in Seq(U) /\ t \in Seq(U) /\ \A e \in U : ComesBack(e)
  BY <1>1, <1>2, <1>3, SeqMonotonic
<1>5. s \o t \in Seq(U)
  BY <1>4, ConcatProperties
<1>. QED  BY <1>4, <1>5 DEF AllComeBack

LEMMA BackOne == ASSUME NEW d, ComesBack(d) PROVE AllComeBack(<<d>>)
<1>1. PICK s, S : s = <<d>> /\ S = {d}
  OBVIOUS
<1>2. s \in Seq(S) /\ \A e \in S : ComesBack(e)
  BY <1>1
<1>3. AllComeBack(s)
  BY <1>2 DEF AllComeBack
<1>. QED  BY <1>1, <1>3

LEMMA BackTwo == ASSUME NEW c, ComesBack(c), NEW d, ComesBack(d) PROVE AllComeBack(<<c, d>>)
<1>1. PICK s, S : s = <<c, d>> /\ S = {c, d}
  OBVIOUS
<1>2. s \in Seq(S) /\ \A e \in S : ComesBack(e)
  BY <1>1
<1>3. AllComeBack(s)
  BY <1>2 DEF AllComeBack
<1>. QED  BY <1>1, <1>3

LEMMA BackThree ==
  ASSUME NEW b, ComesBack(b), NEW c, ComesBack(c), NEW d, ComesBack(d) PROVE AllComeBack(<<b, c, d>>)
<1>1. PICK s, S : s = <<b, c, d>> /\ S = {b, c, d}
  OBVIOUS
<1>2. s \in Seq(S) /\ \A e \in S : ComesBack(e)
  BY <1>1
<1>3. AllComeBack(s)
  BY <1>2 DEF AllComeBack
<1>. QED  BY <1>1, <1>3

LEMMA PropsBackConcat == ASSUME NEW s, NEW t, PropsBack(s), PropsBack(t) PROVE PropsBack(s \o t)
<1>1. PICK S : s \in Seq(S) /\ \A e \in S : PropertyBack(e)
  BY DEF PropsBack
<1>2. PICK T : t \in Seq(T) /\ \A e \in T : PropertyBack(e)
  BY DEF PropsBack
<1>3. PICK U : U = S \union T
  OBVIOUS
<1>4. s \in Seq(U) /\ t \in Seq(U) /\ \A e \in U : PropertyBack(e)
  BY <1>1, <1>2, <1>3, SeqMonotonic
<1>5. s \o t \in Seq(U)
  BY <1>4, ConcatProperties
<1>. QED  BY <1>4, <1>5 DEF PropsBack

LEMMA PropsBackNone == PropsBack(<<>>)
<1>1. PICK s, S : s = <<>> /\ S = {}
  OBVIOUS
<1>2. s \in Seq(S) /\ \A e \in S : PropertyBack(e)
  BY <1>1, EmptySeq
<1>3. PropsBack(s)
  BY <1>2 DEF PropsBack
<1>. QED  BY <1>1, <1>3

LEMMA PropsBackOne == ASSUME NEW p, PropertyBack(p) PROVE PropsBack(<<p>>)
<1>1. PICK s, S : s = <<p>> /\ S = {p}
  OBVIOUS
<1>2. s \in Seq(S) /\ \A e \in S : PropertyBack(e)
  BY <1>1
<1>3. PropsBack(s)
  BY <1>2 DEF PropsBack
<1>. QED  BY <1>1, <1>3

LEMMA PropsBackTwo == ASSUME NEW p, PropertyBack(p), NEW q, PropertyBack(q) PROVE PropsBack(<<p, q>>)
<1>1. PICK s, S : s = <<p, q>> /\ S = {p, q}
  OBVIOUS
<1>2. s \in Seq(S) /\ \A e \in S : PropertyBack(e)
  BY <1>1
<1>3. PropsBack(s)
  BY <1>2 DEF PropsBack
<1>. QED  BY <1>1, <1>3

\* The numbers of the messages and their words.
Small == 0..31
LEMMA SmallBack == ASSUME NEW n \in Small PROVE FromFPRepToDouble(FromDoubleToFPRep(Double(n))) = Double(n)
<1>1. 2^5 = 32
  OBVIOUS
<1>2. PICK m, k : m = 5 /\ k = MantissaBits + 1
  OBVIOUS
<1>3. m \in Nat /\ k \in Nat /\ m <= k /\ k <= Powers
  BY <1>2, Widths, NumberAssumption DEF Powers
<1>4. 2^m <= 2^k /\ 2^k \in Nat
  BY <1>3, PowerUp, PowerPositive
<1>5. n \in Nat /\ n < 2^(MantissaBits + 1)
  BY <1>1, <1>2, <1>4 DEF Small
<1>. QED  BY <1>5, WholeNumberComesBack

LEMMA WordBack ==
  ASSUME NEW word \in Words
  PROVE  Counted(word) /\ IsPlain(Str(word)) /\ DecodedPlain(Str(word)) = Str(word)
<1>1. Counted(word)
  BY WordAssumption DEF Counted
<1>. QED  BY <1>1 DEF IsPlain, DecodedPlain, Str

LEMMA NumberBack ==
  ASSUME NEW n \in Small PROVE IsPlain(Num(n)) /\ DecodedPlain(Num(n)) = Num(n)
<1>1. PICK x : x = Double(n)
  OBVIOUS
<1>2. FromFPRepToDouble(FromDoubleToFPRep(x)) = x
  BY <1>1, SmallBack
<1>3. Num(n) = <<"Number", x>>
  BY <1>1 DEF Num
<1>. QED  BY <1>2, <1>3 DEF IsPlain, DecodedPlain

\* An entity that is no object.
LEMMA PlainBack ==
  ASSUME NEW e, IsPlain(e), DecodedPlain(e) = e PROVE ComesBack(e)
<1>1. e[1] # "Object"
  BY DEF IsPlain
<1>2. DecodedEntity(e) = e
  BY <1>1 DEF DecodedEntity
<1>. QED  BY <1>2 DEF ComesBack, IsEntity, SameEntity

LEMMA EntitiesBack ==
  /\ \A word \in Words : ComesBack(Str(word))
  /\ \A n \in Small : ComesBack(Num(n))
  /\ ComesBack(Null)
  /\ ComesBack(<<"Boolean", FALSE>>)
<1>1. ASSUME NEW word \in Words PROVE ComesBack(Str(word))
  BY WordBack, PlainBack
<1>2. ASSUME NEW n \in Small PROVE ComesBack(Num(n))
  BY NumberBack, PlainBack
<1>3. ComesBack(Null)
  <2>1. PICK e : e = Null
    OBVIOUS
  <2>2. e[1] = "Null"
    BY <2>1 DEF Null
  <2>3. DecodedEntity(e) = e
    BY <2>2 DEF DecodedEntity, DecodedPlain
  <2>4. IsEntity(e)
    BY <2>1 DEF IsEntity
  <2>5. ComesBack(e)
    BY <2>3, <2>4 DEF ComesBack, SameEntity
  <2>. QED  BY <2>1, <2>5
<1>4. ComesBack(<<"Boolean", FALSE>>)
  <2>1. PICK val \in BOOLEAN : val = FALSE
    OBVIOUS
  <2>2. PICK e : e = <<"Boolean", val>>
    OBVIOUS
  <2>3. IsPlain(e) /\ DecodedPlain(e) = e
    BY <2>2 DEF IsPlain, DecodedPlain
  <2>4. ComesBack(e)
    BY <2>3, PlainBack
  <2>. QED  BY <2>1, <2>2, <2>4
<1>. QED  BY <1>1, <1>2, <1>3, <1>4

LEMMA PropertyIsBack ==
  ASSUME NEW name \in Words, name # "", NEW e, IsPlain(e), DecodedPlain(e) = e
  PROVE  PropertyBack(<<name, e>>)
<1>1. Counted(name)
  BY WordBack
<1>2. PICK p : p = <<name, e>>
  OBVIOUS
<1>3. IsProperty(p) /\ DecodedProperty(p) = p
  BY <1>1, <1>2 DEF IsProperty, DecodedProperty
<1>. QED  BY <1>2, <1>3 DEF PropertyBack

LEMMA ObjectBack ==
  ASSUME NEW props, PropsBack(props) PROVE ComesBack(<<"Object", props>>)
<1>1. PICK S : props \in Seq(S) /\ \A p \in S : PropertyBack(p)
  BY DEF PropsBack
<1>2. IsSeq(props)
  BY <1>1, SeqIsSeq
<1>3. Len(props) \in Nat /\ DOMAIN props = 1..Len(props) /\ \A i \in 1..Len(props) : PropertyBack(props[i])
  BY <1>1, LenProperties, ElementOfSeq
<1>4. AreProperties(props)
  BY <1>2, <1>3 DEF AreProperties, PropertyBack
<1>5. PICK e, d : e = <<"Object", props>> /\ d = DecodedProps(props)
  OBVIOUS
<1>6. IsEntity(e)
  BY <1>4, <1>5 DEF IsEntity
<1>7. DecodedEntity(e) = <<"Object", d>>
  BY <1>5 DEF DecodedEntity
<1>8. DOMAIN d = DOMAIN props /\ \A i \in 1..Len(props) : d[i] = DecodedProperty(props[i])
  BY <1>3, <1>5 DEF DecodedProps
<1>9. ASSUME NEW i \in 1..Len(props)
      PROVE  /\ d[i][1] = props[i][1]
             /\ \/ d[i] = props[i]
                \/ /\ d[i][2][1] = "Number" /\ props[i][2][1] = "Number"
                   /\ props[i][2][2] - d[i][2][2] \in 0..(2^(FractionBits - MantissaBits - 1) - 1)
                   /\ props[i][2][2] < Double(1)
  <2>1. PICK p, c : p = props[i] /\ c = DecodedProperty(p)
    OBVIOUS
  <2>2. PropertyBack(p) /\ d[i] = c
    BY <1>3, <1>8, <2>1
  <2>3. c[1] = p[1]
    BY <2>1 DEF DecodedProperty
  <2>4. CASE c = p
    BY <2>1, <2>2, <2>4
  <2>5. CASE c # p
    <3>1. PICK name, num : /\ p = <<name, <<"Number", num>>>> /\ num < Double(1)
                           /\ num - FromFPRepToDouble(FromDoubleToFPRep(num))
                                \in 0..(2^(FractionBits - MantissaBits - 1) - 1)
      BY <2>1, <2>2, <2>5 DEF PropertyBack
    <3>2. c[2] = <<"Number", FromFPRepToDouble(FromDoubleToFPRep(num))>>
      BY <2>1, <3>1 DEF DecodedProperty, DecodedPlain
    <3>3. p[2] = <<"Number", num>>
      BY <3>1
    <3>. QED  BY <2>1, <2>2, <2>3, <3>1, <3>2, <3>3
  <2>. QED  BY <2>4, <2>5
<1>10. SameEntity(<<"Object", d>>, e)
  BY <1>3, <1>5, <1>8, <1>9 DEF SameEntity
<1>. QED  BY <1>5, <1>6, <1>7, <1>10 DEF ComesBack

LEMMA CommandBack ==
  ASSUME NEW name \in Words, NEW id \in Small, NEW args, AllComeBack(args)
  PROVE  AllComeBack(AMF0Command(name, id) \o args)
<1>1. PICK a, b : a = Str(name) /\ b = Num(id)
  OBVIOUS
<1>2. AllComeBack(<<a, b>>)
  BY <1>1, EntitiesBack, BackTwo
<1>3. PICK s : s = <<a, b>>
  OBVIOUS
<1>4. AllComeBack(s \o args)
  BY <1>2, <1>3, BackConcat
<1>. QED  BY <1>1, <1>3, <1>4 DEF AMF0Command

LEMMA CommandsBack ==
  ASSUME NEW id \in Small, NEW name \in Words
  PROVE  /\ AllComeBack(Command_ReleaseStream(id, name)) /\ AllComeBack(Command_FCPublish(id, name))
         /\ AllComeBack(Command_PublishStream(id, name))
         /\ AllComeBack(Command_CreateStream(id)) /\ AllComeBack(Command_CloseStream(id))
         /\ AllComeBack(Command_UnpublishStream(id))
<1>1. PICK null, str, live, false :
        /\ null = Null /\ str = Str(name) /\ live = Str("live") /\ false = <<"Boolean", FALSE>>
  OBVIOUS
<1>2. ComesBack(null) /\ ComesBack(str) /\ ComesBack(live) /\ ComesBack(false)
  <2>1. PICK word : word = "live"
    OBVIOUS
  <2>2. word \in Words
    BY <2>1 DEF Words
  <2>3. live = Str(word)
    BY <1>1, <2>1
  <2>. QED  BY <1>1, <2>2, <2>3, EntitiesBack
<1>3. PICK r, f, c, l, p : /\ r = "releaseStream" /\ f = "FCPublish" /\ c = "createStream"
                           /\ l = "closeStream" /\ p = "publish"
  OBVIOUS
<1>4. r \in Words /\ f \in Words /\ c \in Words /\ l \in Words /\ p \in Words
  BY <1>3 DEF Words
<1>5. PICK s, t, u, v : /\ s = <<null, str>> /\ t = <<null, str, live>> /\ u = <<null>>
                        /\ v = <<null, false>>
  OBVIOUS
<1>6. AllComeBack(s) /\ AllComeBack(t) /\ AllComeBack(u) /\ AllComeBack(v)
  BY <1>2, <1>5, BackOne, BackTwo, BackThree
<1>7. /\ AllComeBack(AMF0Command(r, id) \o s) /\ AllComeBack(AMF0Command(f, id) \o s)
      /\ AllComeBack(AMF0Command(p, id) \o t) /\ AllComeBack(AMF0Command(c, id) \o u)
      /\ AllComeBack(AMF0Command(l, id) \o u) /\ AllComeBack(AMF0Command(p, id) \o v)
  BY <1>4, <1>6, CommandBack
<1>. QED
  BY <1>1, <1>3, <1>5, <1>7 DEF Command_ReleaseStream, Command_FCPublish, Command_PublishStream,
     Command_CreateStream, Command_CloseStream, Command_UnpublishStream

\* A frame rate comes back, or is below one and loses what is behind its last place.
LEMMA RateBack ==
  ASSUME NEW rate \in FrameRates, NEW back, back = FromFPRepToDouble(FromDoubleToFPRep(rate))
  PROVE  \/ rate < Double(1) /\ rate - back \in 0..(2^(FractionBits - MantissaBits - 1) - 1)
         \/ back = rate
<1>1. rate \in Nat /\ Representable(rate) /\ (rate >= Double(1) => rate % LastPlace(rate) = 0)
  BY NumberAssumption
<1>2. PICK one, cut : one = Double(1) /\ cut = rate % LastPlace(rate)
  OBVIOUS
<1>3. one \in Nat
  <2>1. 2^FractionBits \in Nat \ {0}
    BY Widths, PowerPositive DEF Powers
  <2>. QED  BY <1>2, <2>1 DEF Double
<1>4. CASE rate < one
  BY <1>1, <1>2, <1>4, SmallNumberComesBack
<1>5. CASE ~(rate < one)
  <2>1. cut = 0
    BY <1>1, <1>2, <1>3, <1>5
  <2>2. back = rate - (IF rate = 0 THEN 0 ELSE cut)
    BY <1>1, <1>2, NumberComesBack
  <2>. QED  BY <1>1, <2>1, <2>2
<1>. QED  BY <1>4, <1>5

\* Properties of the messages: of a word, and of a number.
LEMMA PropertiesBack ==
  ASSUME NEW name \in Words, name # ""
  PROVE  /\ \A word \in Words : PropertyBack(<<name, Str(word)>>)
         /\ \A n \in Small : PropertyBack(<<name, Num(n)>>)
         /\ \A rate \in FrameRates : PropertyBack(<<name, <<"Number", rate>>>>)
<1>1. ASSUME NEW word \in Words PROVE PropertyBack(<<name, Str(word)>>)
  BY WordBack, PropertyIsBack
<1>2. ASSUME NEW n \in Small PROVE PropertyBack(<<name, Num(n)>>)
  BY NumberBack, PropertyIsBack
<1>3. ASSUME NEW rate \in FrameRates PROVE PropertyBack(<<name, <<"Number", rate>>>>)
  <2>1. PICK back, e : back = FromFPRepToDouble(FromDoubleToFPRep(rate)) /\ e = <<"Number", rate>>
    OBVIOUS
  <2>2. CASE rate < Double(1) /\ rate - back \in 0..(2^(FractionBits - MantissaBits - 1) - 1)
    <3>1. IsPlain(e) /\ Counted(name)
      BY <2>1, WordBack DEF IsPlain
    <3>2. PICK p : p = <<name, e>>
      OBVIOUS
    <3>3. IsProperty(p)
      BY <3>1, <3>2 DEF IsProperty
    <3>4. PropertyBack(p)
      BY <2>1, <2>2, <3>2, <3>3 DEF PropertyBack
    <3>. QED  BY <2>1, <3>2, <3>4
  <2>3. CASE back = rate
    <3>1. IsPlain(e) /\ DecodedPlain(e) = e
      BY <2>1, <2>3 DEF IsPlain, DecodedPlain
    <3>. QED  BY <2>1, <3>1, PropertyIsBack
  <2>. QED  BY <2>1, <2>2, <2>3, RateBack
<1>. QED  BY <1>1, <1>2, <1>3

LEMMA ConnectBack == ASSUME NEW id \in Small, NEW codecs PROVE AllComeBack(Command_Connect(id, codecs))
<1>1. PICK k, m, x, y, l, r, c :
        /\ k = "app" /\ m = "tcUrl" /\ x = "audioCodecs" /\ y = "videoCodecs" /\ l = "live" /\ r = "rtmp"
        /\ c = "connect"
  OBVIOUS
<1>2. /\ k \in Words /\ m \in Words /\ x \in Words /\ y \in Words /\ l \in Words /\ r \in Words /\ c \in Words
      /\ k # "" /\ m # "" /\ x # "" /\ y # ""
  BY <1>1 DEF Words
<1>3. PICK four, eight : four = 4 /\ eight = 8
  OBVIOUS
<1>4. four \in Small /\ eight \in Small
  BY <1>3 DEF Small
<1>5. PICK d, e, f, g : /\ d = <<k, Str(l)>> /\ e = <<m, Str(r)>> /\ f = <<x, Num(four)>> /\ g = <<y, Num(eight)>>
  OBVIOUS
<1>6. PropertyBack(d) /\ PropertyBack(e) /\ PropertyBack(f) /\ PropertyBack(g)
  BY <1>2, <1>4, <1>5, PropertiesBack
<1>7. PICK p, a, v : /\ p = <<d, e>>
                     /\ a = IF "audioCodecs" \in codecs THEN <<f>> ELSE <<>>
                     /\ v = IF "videoCodecs" \in codecs THEN <<g>> ELSE <<>>
  OBVIOUS
<1>8. PropsBack(p) /\ PropsBack(a) /\ PropsBack(v)
  BY <1>6, <1>7, PropsBackNone, PropsBackOne, PropsBackTwo
<1>9. PICK pa : pa = p \o a
  OBVIOUS
<1>10. PICK pav : pav = pa \o v
  OBVIOUS
<1>11. PropsBack(pav)
  BY <1>8, <1>9, <1>10, PropsBackConcat
<1>12. PICK o : o = <<"Object", pav>>
  OBVIOUS
<1>13. PICK s : s = <<o>>
  OBVIOUS
<1>14. AllComeBack(s)
  BY <1>11, <1>12, <1>13, ObjectBack, BackOne
<1>15. AllComeBack(AMF0Command(c, id) \o s)
  BY <1>2, <1>14, CommandBack
<1>. QED  BY <1>1, <1>3, <1>5, <1>7, <1>9, <1>10, <1>12, <1>13, <1>15 DEF Command_Connect

LEMMA DataFrameBack ==
  ASSUME NEW rate \in FrameRates, NEW codecs PROVE AllComeBack(Command_SetDataFrame(rate, codecs))
<1>. DEFINE video == <<<<"framerate", <<"Number", rate>>>>, <<"width", Num(16)>>, <<"height", Num(9)>>,
                       <<"videocodecid", Str("avc1")>>, <<"videodatarate", Num(24)>>,
                       <<"videokeyframe_frequency", Num(2)>>>>
            audio == <<<<"audiocodecid", Str("mp4a")>>, <<"audiosamplerate", Num(11)>>,
                       <<"audiochannels", Num(2)>>, <<"audiodatarate", Num(7)>>>>
<1>1. PropsBack(video)
  <2>1. PICK k, l, m, n, o, p, w :
          /\ k = "framerate" /\ l = "width" /\ m = "height" /\ n = "videocodecid" /\ o = "videodatarate"
          /\ p = "videokeyframe_frequency" /\ w = "avc1"
    OBVIOUS
  <2>2. /\ k \in Words /\ l \in Words /\ m \in Words /\ n \in Words /\ o \in Words /\ p \in Words /\ w \in Words
        /\ k # "" /\ l # "" /\ m # "" /\ n # "" /\ o # "" /\ p # ""
    BY <2>1 DEF Words
  <2>3. PICK x, y, u, v : x = 16 /\ y = 9 /\ u = 24 /\ v = 2
    OBVIOUS
  <2>4. x \in Small /\ y \in Small /\ u \in Small /\ v \in Small
    BY <2>3 DEF Small
  <2>5. PICK a, b, c, d, e, f :
          /\ a = <<k, <<"Number", rate>>>> /\ b = <<l, Num(x)>> /\ c = <<m, Num(y)>> /\ d = <<n, Str(w)>>
          /\ e = <<o, Num(u)>> /\ f = <<p, Num(v)>>
    OBVIOUS
  <2>6. /\ PropertyBack(a) /\ PropertyBack(b) /\ PropertyBack(c) /\ PropertyBack(d) /\ PropertyBack(e)
        /\ PropertyBack(f)
    BY <2>2, <2>4, <2>5, PropertiesBack
  <2>7. PICK s, S : s = <<a, b, c, d, e, f>> /\ S = {a, b, c, d, e, f}
    OBVIOUS
  <2>8. s \in Seq(S) /\ \A q \in S : PropertyBack(q)
    BY <2>6, <2>7
  <2>9. PropsBack(s)
    BY <2>8 DEF PropsBack
  <2>. QED  BY <2>1, <2>3, <2>5, <2>7, <2>9
<1>2. PropsBack(audio)
  <2>1. PICK k, l, m, n, w : /\ k = "audiocodecid" /\ l = "audiosamplerate" /\ m = "audiochannels"
                             /\ n = "audiodatarate" /\ w = "mp4a"
    OBVIOUS
  <2>2. /\ k \in Words /\ l \in Words /\ m \in Words /\ n \in Words /\ w \in Words
        /\ k # "" /\ l # "" /\ m # "" /\ n # ""
    BY <2>1 DEF Words
  <2>3. PICK x, y, u : x = 11 /\ y = 2 /\ u = 7
    OBVIOUS
  <2>4. x \in Small /\ y \in Small /\ u \in Small
    BY <2>3 DEF Small
  <2>5. PICK a, b, c, d : /\ a = <<k, Str(w)>> /\ b = <<l, Num(x)>> /\ c = <<m, Num(y)>> /\ d = <<n, Num(u)>>
    OBVIOUS
  <2>6. PropertyBack(a) /\ PropertyBack(b) /\ PropertyBack(c) /\ PropertyBack(d)
    BY <2>2, <2>4, <2>5, PropertiesBack
  <2>7. PICK s, S : s = <<a, b, c, d>> /\ S = {a, b, c, d}
    OBVIOUS
  <2>8. s \in Seq(S) /\ \A q \in S : PropertyBack(q)
    BY <2>6, <2>7
  <2>9. PropsBack(s)
    BY <2>8 DEF PropsBack
  <2>. QED  BY <2>1, <2>3, <2>5, <2>7, <2>9
<1>. HIDE DEF video, audio
<1>3. PICK v, a : /\ v = IF "videoCodecs" \in codecs THEN video ELSE <<>>
                  /\ a = IF "audioCodecs" \in codecs THEN audio ELSE <<>>
  OBVIOUS
<1>4. PropsBack(v) /\ PropsBack(a)
  BY <1>1, <1>2, <1>3, PropsBackNone
<1>5. PICK va : va = v \o a
  OBVIOUS
<1>6. PropsBack(va)
  BY <1>4, <1>5, PropsBackConcat
<1>7. PICK d, m : d = "@setDataFrame" /\ m = "onMetaData"
  OBVIOUS
<1>8. d \in Words /\ m \in Words
  BY <1>7 DEF Words
<1>9. PICK x, y, o : x = Str(d) /\ y = Str(m) /\ o = <<"Object", va>>
  OBVIOUS
<1>10. ComesBack(x) /\ ComesBack(y) /\ ComesBack(o)
  BY <1>6, <1>8, <1>9, EntitiesBack, ObjectBack
<1>11. AllComeBack(<<x, y, o>>)
  BY <1>10, BackThree
<1>12. Command_SetDataFrame(rate, codecs) = <<x, y, o>>
  BY <1>3, <1>5, <1>7, <1>9 DEF Command_SetDataFrame, video, audio
<1>. QED  BY <1>11, <1>12

\* What the commands and the data are made of: entities that come back.
Commanded(item) ==
  item.msg.type \in {COMMANDAMF0, DATAAMF0} =>
    AllComeBack(item.from) /\ item.msg.payload = Encode(item.from)
AllCommanded(items) == \A i \in 1..Len(items) : Commanded(items[i])
CommandInv == AllCommanded(unread) /\ Commanded(Received)

LEMMA CommandedAppend ==
  ASSUME NEW items, IsSeq(items), AllCommanded(items), NEW item, Commanded(item)
  PROVE  IsSeq(Append(items, item)) /\ AllCommanded(Append(items, item))
<1>1. PICK n, items2 : n = Len(items) /\ items2 = Append(items, item)
  OBVIOUS
<1>2. /\ n \in Nat /\ IsSeq(items2) /\ Len(items2) = n + 1 /\ items2[n + 1] = item
      /\ \A i \in 1..n : items2[i] = items[i]
  BY <1>1, SeqLen, SeqAppend
<1>3. \A i \in 1..(n + 1) : i \in 1..n \/ i = n + 1
  BY <1>2
<1>4. \A i \in 1..(n + 1) : Commanded(items2[i])
  BY <1>1, <1>2, <1>3 DEF AllCommanded
<1>. QED  BY <1>1, <1>2, <1>4 DEF AllCommanded

LEMMA CommandedTail ==
  ASSUME NEW items, IsSeq(items), items # <<>>, AllCommanded(items)
  PROVE  AllCommanded(Tail(items)) /\ Commanded(items[1])
<1>1. PICK n, items2 : n = Len(items) /\ items2 = Tail(items)
  OBVIOUS
<1>2. /\ n \in Nat \ {0} /\ Len(items2) = n - 1 /\ \A i \in 1..(n - 1) : items2[i] = items[i + 1]
  BY <1>1, SeqLen, SeqTail
<1>3. 1 \in 1..n /\ \A i \in 1..(n - 1) : i + 1 \in 1..n
  BY <1>2
<1>4. \A i \in 1..(n - 1) : Commanded(items2[i])
  BY <1>1, <1>2, <1>3 DEF AllCommanded
<1>. QED  BY <1>1, <1>2, <1>3, <1>4 DEF AllCommanded

\* A write of one message and of two.
LEMMA OneCommanded ==
  ASSUME CommandInv, WireInv, NEW item, Commanded(item), NEW id, NEW size, Write(id, size, <<item>>)
  PROVE  CommandInv'
<1>1. IsSeq(unread)
  BY WireSeqs
<1>2. unread' = Append(unread, item) /\ UNCHANGED server
  BY <1>1, WriteOne
<1>3. AllCommanded(Append(unread, item))
  BY <1>1, CommandedAppend DEF CommandInv
<1>4. Received' = Received
  BY <1>2, ServerIdle
<1>. QED  BY <1>2, <1>3, <1>4 DEF CommandInv

LEMMA TwoCommanded ==
  ASSUME CommandInv, WireInv, NEW a, Commanded(a), NEW b, Commanded(b),
         NEW id, NEW size, Write(id, size, <<a, b>>)
  PROVE  CommandInv'
<1>1. IsSeq(unread)
  BY WireSeqs
<1>2. unread' = Append(Append(unread, a), b) /\ UNCHANGED server
  BY <1>1, AppendTwo DEF Write
<1>3. PICK u : u = Append(unread, a)
  OBVIOUS
<1>4. IsSeq(u) /\ AllCommanded(u)
  <2>1. IsSeq(Append(unread, a)) /\ AllCommanded(Append(unread, a))
    BY <1>1, CommandedAppend DEF CommandInv
  <2>. QED  BY <1>3, <2>1
<1>5. AllCommanded(Append(u, b))
  BY <1>4, CommandedAppend
<1>6. Received' = Received
  BY <1>2, ServerIdle
<1>. QED  BY <1>2, <1>3, <1>5, <1>6 DEF CommandInv

LEMMA EncodedIsCommanded ==
  ASSUME NEW type, NEW stream, NEW entities, AllComeBack(entities)
  PROVE  Commanded(Encoded(type, stream, entities))
BY DEF Commanded, Encoded, RTMPMessage

LEMMA OthersAreCommanded ==
  /\ \A item : item.msg.type \in {AUDIO, VIDEO, PROTOSETCHUNKSIZE} => Commanded(item)
BY DEF Commanded, AUDIO, VIDEO, PROTOSETCHUNKSIZE, COMMANDAMF0, DATAAMF0

LEMMA EncodedWritten ==
  ASSUME CommandInv, WireInv, NEW type, NEW stream, NEW entities, AllComeBack(entities),
         NEW id, NEW size, Write(id, size, <<Encoded(type, stream, entities)>>)
  PROVE  CommandInv'
<1>1. PICK item : item = Encoded(type, stream, entities)
  OBVIOUS
<1>2. Commanded(item) /\ Write(id, size, <<item>>)
  BY <1>1, EncodedIsCommanded
<1>. QED  BY <1>2, OneCommanded

\* The numbers of the transactions and the name of the stream.
LEMMA ArgumentsBack ==
  /\ {0, 1, 2, 3, 4} \subseteq Small
  /\ \E name \in Words : name = "stream"
BY DEF Small, Words

LEMMA HandshakeCommanded ==
  ASSUME CommandInv, WireInv,
         \/ SendConnect \/ SendReleaseStream \/ SendFCPublish \/ SendCreateStream
         \/ SendPublishStream \/ SendSetDataFrame \/ SendSetChunkSize
  PROVE  CommandInv'
<1>. USE DEF CommandMessage, OnNewChunkStream
<1>1. PICK size, next, own : size = CommandChunkSize /\ next = nextCsid /\ own = csid.publish
  OBVIOUS
<1>2. PICK name \in Words : name = "stream"
  BY ArgumentsBack
<1>3. CASE SendConnect
  <2>1. PICK e : e = Command_Connect(1, Codecs)
    OBVIOUS
  <2>2. Write(next, size, <<Encoded(COMMANDAMF0, 0, e)>>)
    BY <1>1, <1>3, <2>1 DEF SendConnect
  <2>3. PICK id : id = 1
    OBVIOUS
  <2>4. id \in Small
    BY <2>3, ArgumentsBack
  <2>5. AllComeBack(Command_Connect(id, Codecs))
    BY <2>4, ConnectBack
  <2>. QED  BY <2>1, <2>2, <2>3, <2>5, EncodedWritten
<1>4. CASE SendReleaseStream
  <2>1. PICK e, id : id = 2 /\ e = Command_ReleaseStream(id, name)
    OBVIOUS
  <2>2. Write(next, size, <<Encoded(COMMANDAMF0, 0, e)>>)
    BY <1>1, <1>2, <1>4, <2>1 DEF SendReleaseStream
  <2>3. id \in Small
    BY <2>1, ArgumentsBack
  <2>4. AllComeBack(e)
    BY <2>1, <2>3, CommandsBack
  <2>. QED  BY <2>2, <2>4, EncodedWritten
<1>5. CASE SendFCPublish
  <2>1. PICK e, id : id = 3 /\ e = Command_FCPublish(id, name)
    OBVIOUS
  <2>2. Write(own, size, <<Encoded(COMMANDAMF0, 0, e)>>)
    BY <1>1, <1>2, <1>5, <2>1 DEF SendFCPublish
  <2>3. id \in Small
    BY <2>1, ArgumentsBack
  <2>4. AllComeBack(e)
    BY <2>1, <2>3, CommandsBack
  <2>. QED  BY <2>2, <2>4, EncodedWritten
<1>6. CASE SendCreateStream
  <2>1. PICK e, id : id = 4 /\ e = Command_CreateStream(id)
    OBVIOUS
  <2>2. Write(own, size, <<Encoded(COMMANDAMF0, 0, e)>>)
    BY <1>1, <1>6, <2>1 DEF SendCreateStream
  <2>3. id \in Small
    BY <2>1, ArgumentsBack
  <2>4. AllComeBack(e)
    BY <2>1, <2>3, CommandsBack
  <2>. QED  BY <2>2, <2>4, EncodedWritten
<1>7. CASE SendPublishStream
  <2>1. PICK e, id : id = 0 /\ e = Command_PublishStream(id, name)
    OBVIOUS
  <2>2. Write(next, size, <<Encoded(COMMANDAMF0, StreamID, e)>>)
    BY <1>1, <1>2, <1>7, <2>1 DEF SendPublishStream
  <2>3. id \in Small
    BY <2>1, ArgumentsBack
  <2>4. AllComeBack(e)
    BY <2>1, <2>3, CommandsBack
  <2>. QED  BY <2>2, <2>4, EncodedWritten
<1>8. CASE SendSetDataFrame
  <2>1. PICK rate \in FrameRates :
          OnNewChunkStream(<<Encoded(DATAAMF0, StreamID, Command_SetDataFrame(rate, Codecs))>>)
    BY <1>8 DEF SendSetDataFrame
  <2>2. PICK e : e = Command_SetDataFrame(rate, Codecs)
    OBVIOUS
  <2>3. Write(next, size, <<Encoded(DATAAMF0, StreamID, e)>>)
    BY <1>1, <2>1, <2>2
  <2>4. AllComeBack(e)
    BY <2>2, DataFrameBack
  <2>. QED  BY <2>3, <2>4, EncodedWritten
<1>9. CASE SendSetChunkSize
  <2>1. PICK item : item = [msg |-> ProtoSetChunkSizeMessage(chunkSize), from |-> <<>>]
    OBVIOUS
  <2>2. Write(next, size, <<item>>)
    BY <1>1, <1>9, <2>1 DEF SendSetChunkSize
  <2>3. item.msg.type = PROTOSETCHUNKSIZE
    BY <2>1 DEF ProtoSetChunkSizeMessage, RTMPMessage
  <2>4. Commanded(item)
    BY <2>3, OthersAreCommanded
  <2>. QED  BY <2>2, <2>4, OneCommanded
<1>. QED  BY <1>3, <1>4, <1>5, <1>6, <1>7, <1>8, <1>9

LEMMA CloseCommanded ==
  ASSUME CommandInv, WireInv, SendUnpublishAndCloseStream
  PROVE  CommandInv'
<1>1. PICK x, y, zero : zero = 0 /\ x = Command_UnpublishStream(zero) /\ y = Command_CloseStream(zero)
  OBVIOUS
<1>2. PICK name \in Words : name = "stream"
  BY ArgumentsBack
<1>3. AllComeBack(x) /\ AllComeBack(y)
  <2>1. zero \in Small
    BY <1>1, ArgumentsBack
  <2>. QED  BY <1>1, <2>1, CommandsBack
<1>4. PICK a, b : a = Encoded(COMMANDAMF0, StreamID, x) /\ b = Encoded(COMMANDAMF0, StreamID, y)
  OBVIOUS
<1>5. Write(csid.publish, chunkSize, <<a, b>>)
  BY <1>1, <1>4 DEF SendUnpublishAndCloseStream, CommandMessage
<1>6. Commanded(a) /\ Commanded(b)
  BY <1>3, <1>4, EncodedIsCommanded
<1>7. PICK id, size : id = csid.publish /\ size = chunkSize
  OBVIOUS
<1>. QED  BY <1>5, <1>6, <1>7, TwoCommanded

\* Packets are no commands.
LEMMA PacketsCommanded ==
  ASSUME CommandInv, WireInv, NEW stream, NEW a, NEW b, Commanded(a), Commanded(b),
         SendPackets(stream, <<a>>) \/ SendPackets(stream, <<b, a>>)
  PROVE  CommandInv'
<1>1. PICK id, size : id = csid[stream] /\ size = chunkSize
  OBVIOUS
<1>2. Write(id, size, <<a>>) \/ Write(id, size, <<b, a>>)
  BY <1>1 DEF SendPackets
<1>. QED  BY <1>2, OneCommanded, TwoCommanded

LEMMA VideoCommanded ==
  ASSUME CommandInv, WireInv, SendVideo PROVE CommandInv'
<1>. DEFINE packet(sample, ts, first) ==
              [msg |-> RTMPMessage(ts, VIDEO, StreamID,
                         PrepareVideoPayload(SampleData(sample), IsKeyFrame(sample), CompositionOffset, first)),
               from |-> sample]
<1>1. PICK sample \in Samples, ts \in Stamps :
        IF "video" \in begun THEN SendPackets("video", <<packet(sample, ts, FALSE)>>)
        ELSE IsKeyFrame(sample)
             /\ SendPackets("video", <<packet(sample, ts, TRUE), packet(sample, ts, FALSE)>>)
  BY Zenon DEF SendVideo
<1>2. ASSUME NEW first, NEW a, a = packet(sample, ts, first) PROVE Commanded(a)
  <2>1. PICK p : p = PrepareVideoPayload(SampleData(sample), IsKeyFrame(sample), CompositionOffset, first)
    OBVIOUS
  <2>2. a.msg.type = VIDEO
    BY <1>2, <2>1 DEF RTMPMessage
  <2>. QED  BY <2>2, OthersAreCommanded
<1>3. PICK a, b : a = packet(sample, ts, FALSE) /\ b = packet(sample, ts, TRUE)
  OBVIOUS
<1>4. Commanded(a) /\ Commanded(b)
  <2>. HIDE DEF packet
  <2>. QED  BY <1>2, <1>3
<1>. HIDE DEF packet
<1>5. PICK stream : stream = "video"
  OBVIOUS
<1>6. SendPackets(stream, <<a>>) \/ SendPackets(stream, <<b, a>>)
  BY <1>1, <1>3, <1>5
<1>. QED  BY <1>4, <1>6, PacketsCommanded

LEMMA AudioCommanded ==
  ASSUME CommandInv, WireInv, SendAudio PROVE CommandInv'
<1>. DEFINE packet(ts, first) ==
              [msg |-> RTMPMessage(ts, AUDIO, StreamID, PrepareAudioPayload(first)), from |-> <<>>]
<1>1. PICK ts \in Stamps :
        SendPackets("audio", IF "audio" \in begun THEN <<packet(ts, FALSE)>>
                             ELSE <<packet(ts, TRUE), packet(ts, FALSE)>>)
  BY Zenon DEF SendAudio
<1>2. ASSUME NEW first, NEW a, a = packet(ts, first) PROVE Commanded(a)
  <2>1. PICK p : p = PrepareAudioPayload(first)
    OBVIOUS
  <2>2. a.msg.type = AUDIO
    BY <1>2, <2>1 DEF RTMPMessage
  <2>. QED  BY <2>2, OthersAreCommanded
<1>3. PICK a, b : a = packet(ts, FALSE) /\ b = packet(ts, TRUE)
  OBVIOUS
<1>. HIDE DEF packet
<1>4. Commanded(a) /\ Commanded(b)
  BY <1>2, <1>3
<1>5. PICK stream : stream = "audio"
  OBVIOUS
<1>6. SendPackets(stream, <<a>>) \/ SendPackets(stream, <<b, a>>)
  BY <1>1, <1>3, <1>5
<1>. QED  BY <1>4, <1>6, PacketsCommanded

LEMMA ReadCommanded ==
  ASSUME CommandInv, WireInv, ServerReadsChunk PROVE CommandInv'
<1>1. (LosesIt => UNCHANGED <<unread, got>>) /\ (~LosesIt => Reads) /\ toServer # <<>>
  BY ReadUnfolds
<1>2. ASSUME UNCHANGED <<unread, got>> PROVE CommandInv'
  BY <1>2 DEF CommandInv, Received
<1>3. CASE LosesIt \/ Len(ReadNow) < ServerHead.length
  BY <1>1, <1>2, <1>3 DEF Reads
<1>4. CASE ~LosesIt /\ ~(Len(ReadNow) < ServerHead.length)
  <2>1. IsSeq(unread) /\ unread # <<>>
    <3>1. PICK ids, sizes, strips, read :
            Wire(toServer, unread, inSize, SizeNow, partial, heads, ids, sizes, strips, read)
      BY DEF WireInv, OnTheWay
    <3>. QED  BY <1>1, <3>1, WireSeqs, NothingSent
  <2>2. Head(unread) = unread[1]
    BY <2>1, SeqTail
  <2>3. PICK item : item = unread[1]
    OBVIOUS
  <2>4. /\ unread' = Tail(unread)
        /\ got' = [written |-> item.msg, from |-> item.from, assembled |-> ReadMessage]
    BY <1>1, <1>4, <2>2, <2>3 DEF Reads
  <2>5. AllCommanded(Tail(unread)) /\ Commanded(item)
    BY <2>1, <2>3, CommandedTail DEF CommandInv
  <2>6. Commanded(Received')
    <3>1. Received'.msg = item.msg /\ Received'.from = item.from
      BY <2>4 DEF Received
    <3>. QED  BY <2>5, <3>1 DEF Commanded
  <2>. QED  BY <2>4, <2>5, <2>6 DEF CommandInv
<1>. QED  BY <1>3, <1>4

LEMMA InitCommanded == Init => CommandInv
<1>. SUFFICES ASSUME Init PROVE CommandInv
  OBVIOUS
<1>1. unread = <<>> /\ got = [written |-> NoMessage, from |-> <<>>, assembled |-> NoMessage]
  BY Zenon DEF Init
<1>2. PICK u : u = unread
  OBVIOUS
<1>3. Len(u) = 0
  BY <1>1, <1>2, EmptySeq
<1>4. AllCommanded(u)
  BY <1>3 DEF AllCommanded
<1>5. Received.msg.type = 0
  BY <1>1 DEF Received, NoMessage, RTMPMessage
<1>6. Commanded(Received)
  BY <1>5 DEF Commanded, COMMANDAMF0, DATAAMF0
<1>. QED  BY <1>2, <1>4, <1>6 DEF CommandInv

LEMMA ConnectCommanded == ASSUME CommandInv, ConnectAsync PROVE CommandInv'
<1>1. unread' = <<>> /\ got' = got
  BY DEF ConnectAsync
<1>2. PICK u : u = <<>>
  OBVIOUS
<1>3. Len(u) = 0
  BY <1>2, EmptySeq
<1>4. AllCommanded(u)
  BY <1>3 DEF AllCommanded
<1>5. Received' = Received
  BY <1>1 DEF Received
<1>. QED  BY <1>1, <1>2, <1>4, <1>5 DEF CommandInv

LEMMA StepCommanded == ASSUME CommandInv, WireInv, [Next]_vars PROVE CommandInv'
<1>1. CASE UNCHANGED vars
  BY <1>1 DEF vars, messenger, server, CommandInv, Received
<1>2. CASE ConnectAsync
  BY <1>2, ConnectCommanded
<1>3. CASE ServerReadsChunk
  BY <1>3, ReadCommanded
<1>4. CASE SendVideo
  BY <1>4, VideoCommanded
<1>5. CASE SendAudio
  BY <1>5, AudioCommanded
<1>6. CASE SendUnpublishAndCloseStream
  BY <1>6, CloseCommanded
<1>7. CASE \/ SendConnect \/ SendReleaseStream \/ SendFCPublish \/ SendCreateStream
           \/ SendPublishStream \/ SendSetDataFrame \/ SendSetChunkSize
  BY <1>7, HandshakeCommanded
<1>. QED  BY <1>1, <1>2, <1>3, <1>4, <1>5, <1>6, <1>7 DEF Next, Messenger

LEMMA CommandsFrom ==
  ASSUME Commanded(Received), ReceivedAsSent PROVE CommandsReadBack
<1>. SUFFICES ASSUME got.assembled.type \in {COMMANDAMF0, DATAAMF0}
              PROVE  LET parsed == TryParse(got.assembled.payload)
                     IN /\ ~parsed.garbled /\ DOMAIN parsed.retval = DOMAIN got.from
                        /\ \A i \in DOMAIN got.from : SameEntity(parsed.retval[i], got.from[i])
  BY DEF CommandsReadBack
<1>1. PICK from, parsed : from = got.from /\ parsed = TryParse(got.assembled.payload)
  OBVIOUS
<1>2. AllComeBack(from) /\ got.assembled.payload = Encode(from)
  <2>1. got.assembled = got.written
    BY DEF ReceivedAsSent
  <2>2. Received.msg = got.written /\ Received.from = from
    BY <1>1 DEF Received
  <2>. QED  BY <2>1, <2>2 DEF Commanded
<1>3. PICK S : from \in Seq(S) /\ \A e \in S : ComesBack(e)
  BY <1>2 DEF AllComeBack
<1>4. /\ IsSeq(from) /\ DOMAIN from = 1..Len(from)
      /\ \A i \in 1..Len(from) : ComesBack(from[i])
  BY <1>3, SeqIsSeq, LenProperties, ElementOfSeq
<1>5. AreEntities(from)
  BY <1>4 DEF AreEntities, ComesBack
<1>6. parsed.garbled = FALSE /\ parsed.retval = Decoded(from)
  BY <1>1, <1>2, <1>5, ParsesEncoded
<1>7. PICK d : d = Decoded(from)
  OBVIOUS
<1>8. DOMAIN d = DOMAIN from /\ \A i \in DOMAIN from : d[i] = DecodedEntity(from[i])
  BY <1>4, <1>7 DEF Decoded
<1>9. \A i \in DOMAIN from : SameEntity(d[i], from[i])
  BY <1>4, <1>8 DEF ComesBack
<1>. QED  BY <1>1, <1>6, <1>7, <1>8, <1>9

\* What the commands and the data are made of, wherever they are.
THEOREM CommandsInvariance == Spec => []CommandInv
<1>1. Init => CommandInv
  BY InitCommanded
<1>2. CommandInv /\ WireInv /\ [Next]_vars => CommandInv'
  BY StepCommanded
<1>. QED  BY <1>1, <1>2, WireInvariance, PTL DEF Spec

\* The server decodes every command and the data to the entities that were encoded,
\* but for a frame rate below one.
THEOREM CommandsHeardRight == Spec => []CommandsReadBack
<1>1. CommandInv /\ ReceivedAsSent => CommandsReadBack
  BY CommandsFrom DEF CommandInv
<1>. QED  BY <1>1, CommandsInvariance, MessagesReceivedAsSent, PTL
=============================================================================
