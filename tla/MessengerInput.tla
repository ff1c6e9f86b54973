---------------------------- MODULE MessengerInput ----------------------------
(***************************************************************************)
(* What RTMPMessenger makes of the bytes a server sends in the handshake: a  *)
(* server that writes its messages in chunks by the rules of RTMP and may    *)
(* change its chunk size, the receive functions that read what happens to    *)
(* be there, and the chunk size of the server that RTMPSessionManager        *)
(* remembers from one read to the next and from one connection to the next.  *)
(*                                                                         *)
(* RTMPHandshake takes the messages of a read for granted; this is where     *)
(* they come from. A read ends between two chunks here: of one that ends     *)
(* inside a chunk the code makes a message filled up with zeros.             *)
(***************************************************************************)
EXTENDS RTMPChunking

CONSTANTS
  DefaultChunkSize,   \* what both ends begin with: 128 in the code
  ServerChunkSizes,   \* sizes the server may announce
  StreamIDs,          \* message stream ids it may give out
  ReplyIDs,           \* chunk stream ids of its replies
  LaterTypes,         \* chunk types it begins a reply with after the first: 0, 1
  LimitTypes,         \* limit types of its Set Peer Bandwidth: Hard, Soft, Dynamic
  MayRefuse,          \* commands it may answer with _error
  MaxControls,        \* bound: control messages on a connection
  MaxAttempts         \* bound: connections of the session

ASSUME InputAssumption ==
  /\ DefaultChunkSize \in Nat \ {0} /\ ServerChunkSizes \subseteq Nat \ {0}
  /\ \A size \in ServerChunkSizes : ~ConstructorThrows(PROTOSETCHUNKSIZE, size)
  /\ StreamIDs \subseteq Nat \ {0}
  /\ ReplyIDs \subseteq 3..LastID /\ LaterTypes \subseteq {0, 1}
  /\ LimitTypes \subseteq {Hard, Soft, Dynamic}
  /\ MayRefuse \subseteq {"connect", "releaseStream", "FCPublish", "createStream", "publish"}
  /\ {MaxControls, MaxAttempts} \subseteq Nat /\ MaxAttempts > 0

\* A mantissa has the places of the numbers in the replies.
ASSUME NumberAssumption ==
  MantissaBits >= 4 /\ \A id \in StreamIDs : id < 2^(MantissaBits + 1)

\* The strings and the names of the replies: TLC computes their lengths.
Words == {"_result", "_error", "onFCPublish", "onStatus", "capabilities", "level", "status", "code",
          "Success", "Start", "Rejected"}
ASSUME WordAssumption == \A word \in Words : Len(word) # 0

\* Functions that read, in the order of both chains.
Receives == <<"connect", "releaseStream", "FCPublish", "createStream", "publish">>

VARIABLES
  at,               \* the function that reads next
  attempt,          \* number of the connection
  serverChunkSize,  \* _serverChunkSize of the session manager
  streamID,         \* its _messageStreamID
  outSize,          \* server: chunk size of what it writes
  replied,          \* server: commands it has answered on this connection
  controls,         \* server: control messages it has sent on it
  given,            \* server: stream ids it has given out, on any connection
  fromServer,       \* chunks written and not read
  read,             \* chunks of the read just made, the size it began with, what came of it
  missed            \* a change of the chunk size that was not remembered, or a size
                    \* remembered from another connection

client == <<at, attempt, serverChunkSize, streamID, missed>>
server == <<outSize, replied, controls, given>>
vars == <<client, server, fromServer, read>>

Receiving == at \in DOMAIN Receives

NoRead == [chunks |-> <<>>, size |-> DefaultChunkSize, retval |-> <<>>, garbled |-> FALSE]

Init ==
  /\ at = 1 /\ attempt = 1 /\ serverChunkSize = DefaultChunkSize /\ streamID = 0
  /\ outSize = DefaultChunkSize /\ replied = 0 /\ controls = 0 /\ given = {}
  /\ fromServer = <<>> /\ read = NoRead /\ missed = FALSE
----------------------------------------------------------------------------
(* The server.                                                                  *)

\* A reply, as a server's documents give it. Only createStream's ends in a number.
Info(code) == <<"Object", <<<<"level", Str("status")>>, <<"code", Str(code)>>>>>>
Reply(command, id) ==
  CASE command = "connect"       ->
         <<Str("_result"), Num(1), <<"Object", <<<<"capabilities", Num(31)>>>>>>, Info("Success")>>
    [] command = "releaseStream" -> <<Str("_result"), Num(2), Null>>
    [] command = "FCPublish"     -> <<Str("onFCPublish"), Num(0), Null, Info("Start")>>
    [] command = "createStream"  -> <<Str("_result"), Num(4), Null, Num(id)>>
    [] command = "publish"       -> <<Str("onStatus"), Num(0), Null, Info("Start")>>

Refusal == <<Str("_error"), Num(2), Null, Info("Rejected")>>

\* The chunks of a message, with what it says at the first of them.
Chunks(fmt, csid, type, body, payload) ==
  LET msg  == RTMPMessage(0, type, 0, payload)
      size == (Len(payload) + outSize - 1) \div outSize
      part(i) == SubSeq(payload, (i - 1) * outSize + 1, Least(i * outSize, Len(payload)))
  IN [i \in 1..size |->
        [cells |-> ToBitstream(IF i = 1 THEN fmt ELSE 3, csid, msg, part(i)),
         size |-> outSize, first |-> i = 1, last |-> i = size,
         says |-> [type |-> type, body |-> body]]]

ServerSends(type, body, payload) ==
  \E fmt \in IF type = COMMANDAMF0 /\ replied > 0 THEN LaterTypes ELSE {0},
     csid \in IF type = COMMANDAMF0 THEN ReplyIDs ELSE {2} :
    /\ fromServer' = fromServer \o Chunks(fmt, csid, type, body, payload)
    /\ read' = NoRead
    /\ UNCHANGED client

\* FCPublish and createStream are sent in a batch, so createStream may be answered
\* while the function that waits for FCPublish has not read.
Sent == IF at = 3 THEN 4 ELSE at

ServerReplies ==
  /\ Receiving /\ replied < Sent
  /\ replied' = replied + 1
  /\ \E id \in StreamIDs, refuses \in {FALSE, Receives[replied + 1] \in MayRefuse} :
       LET command == Receives[replied + 1]
           body    == IF refuses THEN Refusal ELSE Reply(command, id)
       IN /\ ServerSends(COMMANDAMF0, body, Encode(body))
          /\ given' = IF command = "createStream" /\ ~refuses THEN given \union {id} ELSE given
  /\ UNCHANGED <<outSize, controls>>

ServerSendsControl(type, value) ==
  /\ Receiving /\ controls < MaxControls
  /\ controls' = controls + 1
  /\ ServerSends(type, value, <<<<"value", value>>>>)
  /\ UNCHANGED <<replied, given>>

ServerSetsChunkSize ==
  \E size \in ServerChunkSizes :
    /\ ServerSendsControl(PROTOSETCHUNKSIZE, size)
    /\ outSize' = size

\* Parts of its answer to connect.
ServerSetsAckWindow ==
  /\ replied = 0
  /\ ServerSendsControl(PROTOACKWINDOWSIZE, 1)
  /\ UNCHANGED outSize

\* The bandwidth itself is looked at by nobody.
ServerSetsPeerBandwidth ==
  /\ replied = 0
  /\ \E limit \in LimitTypes : ServerSendsControl(PROTOSETPEERBANDWIDTH, limit)
  /\ UNCHANGED outSize
----------------------------------------------------------------------------
(* The messenger.                                                                *)

IsSizeChange(message) == message.type = PROTOSETCHUNKSIZE
IsNamed(message, name) == message.type = COMMANDAMF0 /\ message.body[1] = Str(name)

\* Only the function that reads the reply to connect looks for Set Chunk Size.
\* Mutants: nobody looks; the value of any control message taken.
RemembersSize_never(function, message) == FALSE
RemembersSize_anyControl(function, message) ==
  function = "connect" /\ message.type # COMMANDAMF0

RemembersSize(function, message) ==
  function = "connect" /\ message.type = PROTOSETCHUNKSIZE

\* The last entity of a _result, whichever command it answers.
\* Mutant: the second one, the transaction id.
CreatedStream_front(message) == message.body[2]
CreatedStream(message) == message.body[Len(message.body)]

\* What a function does with one message, on top of those before it: an _error and
\* a stream id that is no number throw.
Handle(function, st, message) ==
  IF st.throws THEN st
  ELSE IF RemembersSize(function, message) THEN [st EXCEPT !.serverChunkSize = message.body]
  ELSE IF IsNamed(message, "_error") THEN [st EXCEPT !.throws = TRUE]
  ELSE IF function = "createStream" /\ IsNamed(message, "_result")
  THEN IF CreatedStream(message)[1] = "Number"
       THEN [st EXCEPT !.streamID = CreatedStream(message)[2] \div Double(1)]
       ELSE [st EXCEPT !.throws = TRUE]
  ELSE st

\* All of them, in their order.
HandleAll(function, st, messages) ==
  LET after[i \in 0..Len(messages)] ==
        IF i = 0 THEN st ELSE Handle(function, after[i - 1], messages[i])
  IN after[Len(messages)]

\* One read of n chunks, parsed with the size that is remembered. A message that the
\* library does not take throws out of the parser, before any is looked at. Bytes that
\* are no message throw or are taken for something else: that is the end here.
Receive(function, n) ==
  LET chunks == SubSeq(fromServer, 1, n)
      parsed == ChunkProcessorTryParse(FlattenSeq([i \in DOMAIN chunks |-> chunks[i].cells]),
                                       serverChunkSize)
      done   == HandleAll(function,
                          [serverChunkSize |-> serverChunkSize, streamID |-> streamID,
                           throws |-> parsed.garbled],
                          parsed.retval)
  IN /\ Receiving /\ Receives[at] = function
     /\ fromServer' = SubSeq(fromServer, n + 1, Len(fromServer))
     /\ read' = [chunks |-> chunks, size |-> serverChunkSize, retval |-> parsed.retval,
                 garbled |-> parsed.garbled]
     /\ missed' = IF function = "connect" THEN missed /\ ~IsSizeChange(chunks[1].says)
                  ELSE missed \/ \E i \in DOMAIN chunks : IsSizeChange(chunks[i].says)
     /\ serverChunkSize' = done.serverChunkSize
     /\ streamID' = done.streamID
     /\ at' = IF done.throws THEN 0 ELSE at + 1
     /\ UNCHANGED <<attempt, server>>

ReadSizes == 1..Len(fromServer)

ReceiveConnectResponse == \E n \in ReadSizes : Receive("connect", n)
ReceiveReleaseStreamResponse == \E n \in ReadSizes : Receive("releaseStream", n)
ReceiveFCPublishResponse == \E n \in ReadSizes : Receive("FCPublish", n)
ReceiveCreateStreamResponse == \E n \in ReadSizes : Receive("createStream", n)
ReceivePublishStreamResponse == \E n \in ReadSizes : Receive("publish", n)

\* GetCaptureSinkAsync again after the handshake failed: a new connection, with the
\* session manager of the old one.
ConnectAsync ==
  /\ at = 0 /\ attempt < MaxAttempts
  /\ attempt' = attempt + 1 /\ at' = 1
  /\ fromServer' = <<>> /\ read' = NoRead
  /\ outSize' = DefaultChunkSize /\ replied' = 0 /\ controls' = 0
  /\ missed' = (serverChunkSize # DefaultChunkSize)
  /\ UNCHANGED <<serverChunkSize, streamID, given>>

Next ==
  \/ ServerReplies \/ ServerSetsChunkSize \/ ServerSetsAckWindow
  \/ ServerSetsPeerBandwidth
  \/ ReceiveConnectResponse \/ ReceiveReleaseStreamResponse \/ ReceiveFCPublishResponse
  \/ ReceiveCreateStreamResponse \/ ReceivePublishStreamResponse \/ ConnectAsync

Spec == Init /\ [][Next]_vars
----------------------------------------------------------------------------
(* Properties.                                                                  *)

TypeOK ==
  /\ at \in 0..(Len(Receives) + 1) /\ attempt \in 1..MaxAttempts
  /\ serverChunkSize \in ServerChunkSizes \union {DefaultChunkSize}
  /\ outSize \in ServerChunkSizes \union {DefaultChunkSize}
  /\ replied \in 0..Len(Receives) /\ controls \in 0..MaxControls
  /\ given \subseteq StreamIDs /\ missed \in BOOLEAN

\* The size remembered is the one the next chunk was written with, as long as the
\* server changes it before the messenger has read the reply to connect, and, on a
\* second connection, before anything else.
ServerChunkSizeFollowed ==
  ~missed /\ Receiving =>
    serverChunkSize = IF fromServer = <<>> THEN outSize ELSE fromServer[1].size

\* A read that begins with a message gives out the messages of it that were written
\* whole and in one chunk, in their order, with the values they had; one that begins
\* inside a message gives out nothing, whatever follows. It does so whenever the
\* size it starts with is the right one and none of its messages is a Set Peer
\* Bandwidth with a Hard limit, which RTMP knows and the library does not: the read
\* then ends in an exception.
InOneChunk(chunk) == chunk.first /\ chunk.last
Throws(chunk) == InOneChunk(chunk) /\ chunk.says.type = PROTOSETPEERBANDWIDTH /\ chunk.says.body = Hard
SaidInOneChunk(chunks) ==
  LET of[n \in 0..Len(chunks)] ==
        IF n = 0 THEN <<>>
        ELSE IF InOneChunk(chunks[n]) THEN Append(of[n - 1], chunks[n].says) ELSE of[n - 1]
  IN of[Len(chunks)]
ReadAsWritten ==
  read.chunks # <<>> /\ read.size = read.chunks[1].size =>
    IF read.chunks[1].first
    THEN /\ read.garbled = \E i \in DOMAIN read.chunks : Throws(read.chunks[i])
         /\ ~read.garbled => read.retval = SaidInOneChunk(read.chunks)
    ELSE ~read.garbled /\ read.retval = <<>>

\* The stream id is one that the server gave out, and never another number.
StreamIDGiven == streamID \in given \union {0}
=============================================================================
