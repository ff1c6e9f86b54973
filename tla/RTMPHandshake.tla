----------------------------- MODULE RTMPHandshake -----------------------------
(***************************************************************************)
(* RTMPMessenger from ConnectAsync to RTMP_RUNNING: the chain of tasks that *)
(* HandshakeAsync builds for an Azure and for a Wowza endpoint, one action  *)
(* per Send... and Receive... function, and a server that answers.          *)
(*                                                                         *)
(* The point of the model is that the receive functions read what happens  *)
(* to be there (InputStreamOptions::Partial) and never match a reply to a   *)
(* command by its transaction id: replies that arrive together are read by *)
(* one of them, replies that arrive late by the next one.                  *)
(*                                                                         *)
(* A reply is a message, whole, with `fits' telling whether it is in one    *)
(* chunk: ChunkProcessor::TryParse gives out no other message. S2 is two    *)
(* messages, since a read may end inside it. Chunk stream and transaction  *)
(* ids are counters nobody looks at in the handshake, and are left out.    *)
(* Of the control messages a server sends of its own accord one kind ends  *)
(* the handshake: a Set Peer Bandwidth with a Hard limit, which             *)
(* ProtoSetPeerBandwidthMessage does not take (RTMPChunking.tla).           *)
(***************************************************************************)
EXTENDS Integers, Sequences

CONSTANTS
  ServerType,    \* of the publish profile: "Azure" or "Wowza"
  Partial,       \* whether a read may return less than what was sent so far
  Batching,      \* whether replies may arrive before earlier ones are read
  MayRefuse,     \* what the server may refuse
  MayClose,      \* whether it may close the connection
  LongReplies,   \* whether a refusal may take more than one chunk
  Controls,      \* control messages it sends ahead of its reply to connect
  HardLimits,    \* whether one of them may set a Hard limit of the bandwidth
  MaxAttempts    \* bound: calls of GetCaptureSinkAsync on the session

Commands == {"C0C1", "C2", "connect", "releaseStream", "FCPublish", "createStream",
             "publish", "setDataFrame", "setChunkSize"}
Refusable == Commands \ {"C2", "setDataFrame", "setChunkSize"}

ASSUME ServerAssumption ==
  /\ ServerType \in {"Azure", "Wowza"}
  /\ {Partial, Batching, MayClose, LongReplies, HardLimits} \subseteq BOOLEAN
  /\ MayRefuse \subseteq Refusable
  /\ Controls \in Nat
ASSUME AttemptsAssumption == MaxAttempts \in Nat \ {0}

VARIABLES
  at,           \* where the chain of tasks is
  phase,        \* "handshaking", "RTMP_RUNNING", or "failed": an exception ended it
  attempt,      \* number of the attempt, of its connection, and of the stream id
  open,         \* the server has not closed the connection
  toServer,     \* commands it has not handled
  fromServer,   \* replies that arrived and were not read
  streamID,     \* MessageStreamID of RTMPSessionManager; it outlives an attempt
  assigned,     \* the stream id the server gave out on this connection (0: none)
  publishedOn,  \* the stream id that publish named on it (-1: not sent)
  refused,      \* what the server refused on it
  limited       \* whether it set a Hard limit of the bandwidth on it

client == <<at, phase, attempt, streamID, publishedOn>>
server == <<open, assigned, refused, limited>>
wire == <<toServer, fromServer>>
vars == <<client, server, wire>>
----------------------------------------------------------------------------
\* The two chains. Mutant: the reply to releaseStream not waited for.
AzureChain_unread ==
  <<"SendC0C1", "ReceiveS0S1", "SendC2", "ReceiveS2", "SendConnect", "ReceiveConnect",
    "SendRelease", "SendFCPublish", "SendCreate", "ReceiveFCPublish", "ReceiveCreate",
    "SendPublish", "ReceivePublish", "SendSetDataFrame", "SendSetChunkSize", "Run">>

AzureChain ==
  <<"SendC0C1", "ReceiveS0S1", "SendC2", "ReceiveS2", "SendConnect", "ReceiveConnect",
    "SendRelease", "ReceiveRelease", "SendFCPublish", "SendCreate", "ReceiveFCPublish",
    "ReceiveCreate", "SendPublish", "ReceivePublish", "SendSetDataFrame",
    "SendSetChunkSize", "Run">>

\* Mutant: FCPublish and createStream sent in a batch, as in the other chain.
WowzaChain_batch ==
  <<"SendC0C1", "ReceiveS0S1", "SendC2", "ReceiveS2", "SendConnect", "ReceiveConnect",
    "SendRelease", "SendFCPublish", "SendCreate", "ReceiveFCPublish", "ReceiveCreate",
    "SendPublish", "ReceivePublish", "SendSetDataFrame", "SendSetChunkSize", "Run">>

WowzaChain ==
  <<"SendC0C1", "ReceiveS0S1", "SendC2", "ReceiveS2", "SendConnect", "ReceiveConnect",
    "SendRelease", "SendFCPublish", "ReceiveFCPublish", "SendCreate", "ReceiveCreate",
    "SendPublish", "ReceivePublish", "SendSetDataFrame", "SendSetChunkSize", "Run">>

Chain == IF ServerType = "Azure" THEN AzureChain ELSE WowzaChain

Receives == {"ReceiveS0S1", "ReceiveS2", "ReceiveConnect", "ReceiveRelease",
             "ReceiveFCPublish", "ReceiveCreate", "ReceivePublish"}

Init ==
  /\ at = 1 /\ phase = "handshaking" /\ attempt = 1
  /\ open = TRUE /\ toServer = <<>> /\ fromServer = <<>>
  /\ streamID = 0 /\ assigned = 0 /\ publishedOn = -1 /\ refused = {}
  /\ limited = FALSE

AtStep(step) == phase = "handshaking" /\ Chain[at] = step
Advance == at' = at + 1 /\ UNCHANGED phase
Fail == phase' = "failed" /\ UNCHANGED at
----------------------------------------------------------------------------
(* Sending.                                                                     *)

\* StoreAsync of one command; on a closed connection it throws, or the bytes are
\* lost on the way.
Send(step, command) ==
  /\ AtStep(step)
  /\ \/ open /\ toServer' = Append(toServer, command) /\ Advance
     \/ ~open /\ UNCHANGED toServer /\ (Advance \/ Fail)
  /\ UNCHANGED <<attempt, streamID, fromServer, server>>

SendC0C1 == Send("SendC0C1", "C0C1") /\ UNCHANGED publishedOn
SendC2 == Send("SendC2", "C2") /\ UNCHANGED publishedOn
SendConnect == Send("SendConnect", "connect") /\ UNCHANGED publishedOn
SendReleaseStream == Send("SendRelease", "releaseStream") /\ UNCHANGED publishedOn
SendFCPublish == Send("SendFCPublish", "FCPublish") /\ UNCHANGED publishedOn
SendCreateStream == Send("SendCreate", "createStream") /\ UNCHANGED publishedOn
SendPublishStream == Send("SendPublish", "publish") /\ publishedOn' = streamID
SendSetDataFrame == Send("SendSetDataFrame", "setDataFrame") /\ UNCHANGED publishedOn
SendSetChunkSize == Send("SendSetChunkSize", "setChunkSize") /\ UNCHANGED publishedOn
----------------------------------------------------------------------------
(* Receiving.                                                                   *)

\* How many messages LoadAsync may return: it waits for some, unless the server
\* closed the connection.
ReadSizes ==
  IF fromServer = <<>> THEN IF open THEN {} ELSE {0}
  ELSE IF Partial THEN 1..Len(fromServer) ELSE {Len(fromServer)}

\* The messages TryParse finds in what was read, by their place.
Parsed(n) == {i \in 1..n : fromServer[i].fits}
Errors(n) == {i \in Parsed(n) : fromServer[i].name = "_error"}

\* The messages TryParse throws at; the whole read is lost then.
Untaken(n) == {i \in Parsed(n) : fromServer[i].name = "hardLimit"}

\* Nothing in the read makes the function throw.
Fine(n) == Errors(n) = {} /\ Untaken(n) = {}

\* One read, of n messages; with ok false the function throws.
Receive(step, n, ok) ==
  /\ AtStep(step)
  /\ fromServer' = SubSeq(fromServer, n + 1, Len(fromServer))
  /\ IF ok THEN Advance ELSE Fail
  /\ UNCHANGED <<attempt, publishedOn, toServer, server>>

\* LoadAsync throws when the connection was reset.
ReceiveThrows ==
  /\ phase = "handshaking" /\ Chain[at] \in Receives /\ ~open
  /\ Fail
  /\ UNCHANGED <<attempt, streamID, publishedOn, server, wire>>

\* Here the read is exact: 1537 bytes or, on a closed connection, an exception.
ReceiveS0S1 ==
  /\ \/ fromServer # <<>> /\ Receive("ReceiveS0S1", 1, Head(fromServer).name = "S0S1")
     \/ fromServer = <<>> /\ ~open /\ Receive("ReceiveS0S1", 0, FALSE)
  /\ UNCHANGED streamID

\* ReadBuffer(1536) throws unless both halves of S2 were read.
\* Mutant: the 1537 bytes of LoadAsync asked of it.
ReceiveS2_oneByteMore ==
  /\ \E n \in ReadSizes : Receive("ReceiveS2", n, n > 2)
  /\ UNCHANGED streamID

ReceiveS2 ==
  /\ \E n \in ReadSizes :
       Receive("ReceiveS2", n, n >= 2 /\ \A i \in 1..n : fromServer[i].name = "S2")
  /\ UNCHANGED streamID

ReceiveConnectResponse ==
  /\ \E n \in ReadSizes : Receive("ReceiveConnect", n, n > 0 /\ Fine(n))
  /\ UNCHANGED streamID

\* Nothing read is no failure here, nor in the next function.
\* Mutant: any reply taken for a good one.
ReceiveReleaseStreamResponse_anyReply ==
  /\ \E n \in ReadSizes : Receive("ReceiveRelease", n, TRUE)
  /\ UNCHANGED streamID

ReceiveReleaseStreamResponse ==
  /\ \E n \in ReadSizes : Receive("ReceiveRelease", n, Fine(n))
  /\ UNCHANGED streamID

ReceiveFCPublishResponse ==
  /\ \E n \in ReadSizes : Receive("ReceiveFCPublish", n, Fine(n))
  /\ UNCHANGED streamID

\* Every _result read is taken for the reply to createStream: its last entity is
\* the stream id, and GetNumberValue throws if it is no number.
\* Mutant: the first number of the reply, its transaction id, taken.
ReceiveCreateStreamResponse_front ==
  \E n \in ReadSizes :
    LET results == {i \in Parsed(n) : fromServer[i].name = "_result"}
    IN /\ Receive("ReceiveCreate", n, n > 0 /\ Fine(n))
       /\ streamID' = IF results = {} THEN streamID ELSE 4

ReceiveCreateStreamResponse ==
  \E n \in ReadSizes :
    LET results == {i \in Parsed(n) : fromServer[i].name = "_result"}
        throws  == Errors(n) \union {i \in results : fromServer[i].id = 0}
        taken   == {i \in results : Untaken(n) = {} /\ \A j \in throws : i < j}
    IN /\ Receive("ReceiveCreate", n, n > 0 /\ throws = {} /\ Untaken(n) = {})
       /\ \/ taken = {} /\ UNCHANGED streamID
          \/ \E last \in taken :
               (\A i \in taken : i <= last) /\ streamID' = fromServer[last].id

\* onStatus is read and ignored, whatever it says.
ReceivePublishStreamResponse ==
  /\ \E n \in ReadSizes : Receive("ReceivePublish", n, n > 0 /\ Fine(n))
  /\ UNCHANGED streamID

\* The last continuation; GetCaptureSinkAsync then returns the sink.
HandshakeCompletes ==
  /\ AtStep("Run")
  /\ phase' = "RTMP_RUNNING"
  /\ UNCHANGED <<at, attempt, streamID, publishedOn, server, wire>>

\* GetCaptureSinkAsync after it failed: the messenger, which still exists, makes a
\* new socket, reader and writer; what its RTMPSessionManager holds stays.
ConnectAsync ==
  /\ phase = "failed" /\ attempt < MaxAttempts
  /\ attempt' = attempt + 1
  /\ at' = 1 /\ phase' = "handshaking"
  /\ open' = TRUE /\ toServer' = <<>> /\ fromServer' = <<>>
  /\ assigned' = 0 /\ publishedOn' = -1 /\ refused' = {} /\ limited' = FALSE
  /\ UNCHANGED streamID

Messenger ==
  \/ SendC0C1 \/ ReceiveS0S1 \/ SendC2 \/ ReceiveS2
  \/ SendConnect \/ ReceiveConnectResponse
  \/ SendReleaseStream \/ ReceiveReleaseStreamResponse
  \/ SendFCPublish \/ ReceiveFCPublishResponse
  \/ SendCreateStream \/ ReceiveCreateStreamResponse
  \/ SendPublishStream \/ ReceivePublishStreamResponse
  \/ SendSetDataFrame \/ SendSetChunkSize
  \/ ReceiveThrows \/ HandshakeCompletes
----------------------------------------------------------------------------
(* The server, as the functions above expect it.                                *)

Reply(name, id) == [name |-> name, id |-> id, fits |-> TRUE]

\* What goes ahead of the reply to connect, its first a Hard limit or not.
Control(i, hard) == Reply(IF hard /\ i = 1 THEN "hardLimit" ELSE "control", 0)

\* Only the reply to createStream ends in a number.
Granted(command, hard) ==
  CASE command = "C0C1"          -> <<Reply("S0S1", 0), Reply("S2", 0), Reply("S2", 0)>>
    [] command = "connect"       -> [i \in 1..(Controls + 1) |->
                                       IF i <= Controls THEN Control(i, hard)
                                       ELSE Reply("_result", 0)]
    [] command = "releaseStream" -> <<Reply("_result", 0)>>
    [] command = "FCPublish"     -> <<Reply("onFCPublish", 0)>>
    [] command = "createStream"  -> <<Reply("_result", attempt)>>
    [] command = "publish"       -> <<Reply("onStatus", 0)>>
    [] OTHER                     -> <<>>

\* A refused handshake is another version in S0 or another echo in S2; a refused
\* publish is an _error or, as RTMP has it, an onStatus.
Refusals(command) ==
  IF command = "C0C1"
  THEN {<<Reply("S0S1?", 0), Reply("S2", 0), Reply("S2", 0)>>,
        <<Reply("S0S1", 0), Reply("S2", 0), Reply("S2?", 0)>>}
  ELSE {<<[name |-> name, id |-> 0, fits |-> fits]>> :
          name \in {"_error"} \union (IF command = "publish" THEN {"onStatus"} ELSE {}),
          fits \in {TRUE, ~LongReplies}}

Handles(command) ==
  /\ open /\ toServer # <<>> /\ Head(toServer) = command
  /\ Batching \/ fromServer = <<>>
  /\ toServer' = Tail(toServer)
  /\ UNCHANGED <<client, open>>

\* Its bandwidth is limited ahead of the reply to connect, if at all.
Grant ==
  \E command \in Commands, hard \in {FALSE, HardLimits} :
    /\ Handles(command)
    /\ hard => command = "connect" /\ Controls > 0
    /\ fromServer' = fromServer \o Granted(command, hard)
    /\ limited' = (limited \/ hard)
    /\ assigned' = IF command = "createStream" THEN attempt ELSE assigned
    /\ UNCHANGED refused

Refuse ==
  \E command \in MayRefuse :
    /\ Handles(command)
    /\ \E replies \in Refusals(command) : fromServer' = fromServer \o replies
    /\ refused' = refused \union {command}
    /\ UNCHANGED <<assigned, limited>>

CloseConnection ==
  /\ MayClose /\ open
  /\ open' = FALSE /\ toServer' = <<>>
  /\ UNCHANGED <<client, fromServer, assigned, refused, limited>>

Next == Messenger \/ ConnectAsync \/ Grant \/ Refuse \/ CloseConnection

\* A task whose operation has completed is run; the server handles what it gets.
Fairness == WF_vars(Messenger) /\ WF_vars(Grant \/ Refuse)

Spec == Init /\ [][Next]_vars /\ Fairness
----------------------------------------------------------------------------
(* Properties.                                                                  *)

Messages == [name : {"S0S1", "S0S1?", "S2", "S2?", "control", "hardLimit", "_result",
                     "_error", "onFCPublish", "onStatus"},
             id : 0..MaxAttempts, fits : BOOLEAN]

\* The stream id the client keeps is one that a server gave out, or none.
TypeOK ==
  /\ at \in 1..Len(Chain)
  /\ phase \in {"handshaking", "RTMP_RUNNING", "failed"}
  /\ attempt \in 1..MaxAttempts
  /\ open \in BOOLEAN
  /\ toServer \in Seq(Commands)
  /\ fromServer \in Seq(Messages)
  /\ streamID \in 0..MaxAttempts
  /\ assigned \in 0..MaxAttempts
  /\ publishedOn \in -1..MaxAttempts
  /\ refused \subseteq Refusable
  /\ limited \in BOOLEAN

\* On the Azure chain, and if every read returns all that the server sent so far, publish
\* names the stream it gave out on this connection, never that of an earlier attempt and
\* never none, however many replies came together (the comment in HandshakeAsyncAzure
\* tells of a server where it went wrong). Both conditions are needed: a function for
\* createStream that reads the reply to FCPublish alone leaves the id as it was. So it is
\* on the Wowza chain, a reply behind, and on both if a read returns less than what was
\* sent, which the code allows it to (InputStreamOptions::Partial).
StreamIdAssigned ==
  ServerType = "Azure" /\ ~Partial => (publishedOn # -1 => publishedOn = assigned)

\* With such reads, and as long as a refusal is one chunk, the handshake does not succeed
\* once the server refused a command ahead of publish; the refusal of publish may be an
\* onStatus, which is not looked into. A refusal of several chunks is not seen at all.
RefusalFails ==
  ~Partial /\ ~LongReplies => (phase = "RTMP_RUNNING" => refused \subseteq {"publish"})

\* Every attempt comes to an end: no receive function waits for a reply that an
\* earlier one has already read.
HandshakeEnds == (phase = "handshaking") ~> (phase # "handshaking")

\* With such reads, the handshake fails only if the server refused a command, closed the
\* connection, or set a Hard limit of the bandwidth: "you can call GetCaptureSinkAsync()
\* ..., which returns a capture sink object". Neither the order nor the grouping of its
\* replies is a reason; that S2 comes in two pieces is one, where reads are partial.
HealthySucceeds == ~Partial /\ refused = {} /\ open /\ ~limited => phase # "failed"
----------------------------------------------------------------------------
(* The inductive invariant of the Azure chain with reads that take all there is *)
(* and refusals of one chunk, in named parts.                                   *)

AzureCase == ServerType = "Azure" /\ Partial = FALSE /\ LongReplies = FALSE

NoError == \A i \in 1..Len(fromServer) : fromServer[i].name # "_error"
LimitTold == \A i \in 1..Len(fromServer) : fromServer[i].name = "hardLimit" => limited
StreamKnown == {"SendPublish", "ReceivePublish", "SendSetDataFrame", "SendSetChunkSize", "Run"}

\* What the server may not have handled yet at each step of the chain.
Unhandled ==
  /\ ~open => toServer = <<>>
  /\ Chain[at] \in {"SendC0C1", "SendC2", "SendRelease", "SendFCPublish", "SendPublish",
                    "SendSetDataFrame"} => toServer = <<>>
  /\ Chain[at] = "ReceiveS0S1" => toServer \in {<<>>, <<"C0C1">>}
  /\ Chain[at] \in {"ReceiveS2", "SendConnect"} => toServer \in {<<>>, <<"C2">>}
  /\ Chain[at] = "ReceiveConnect" => toServer \in {<<>>, <<"connect">>, <<"C2", "connect">>}
  /\ Chain[at] = "ReceiveRelease" => toServer \in {<<>>, <<"releaseStream">>}
  /\ Chain[at] = "SendCreate" => toServer \in {<<>>, <<"FCPublish">>}
  /\ Chain[at] = "ReceiveFCPublish" =>
       toServer \in {<<>>, <<"createStream">>, <<"FCPublish", "createStream">>}
  /\ Chain[at] = "ReceiveCreate" => toServer \in {<<>>, <<"createStream">>}
  /\ Chain[at] = "ReceivePublish" => toServer \in {<<>>, <<"publish">>}
  /\ Chain[at] = "SendSetChunkSize" => toServer \in {<<>>, <<"setDataFrame">>}
  /\ Chain[at] = "Run" =>
       toServer \in {<<>>, <<"setChunkSize">>, <<"setDataFrame", "setChunkSize">>}

\* What the client may not have read yet. A reply to createStream is read as one of
\* FCPublish or alone.
Unread ==
  /\ Chain[at] \notin {"ReceiveS0S1", "SendC2", "ReceiveS2", "ReceiveConnect", "ReceiveRelease",
                       "SendCreate", "ReceiveFCPublish", "ReceiveCreate", "ReceivePublish"} =>
       fromServer = <<>>
  /\ Chain[at] = "ReceiveS0S1" =>
       \/ fromServer = <<>> /\ refused = {}
       \/ /\ toServer = <<>> /\ Len(fromServer) = 3
          /\ refused = {} <=> /\ fromServer[1].name = "S0S1"
                              /\ fromServer[2].name = "S2" /\ fromServer[3].name = "S2"
  /\ Chain[at] \in {"SendC2", "ReceiveS2"} =>
       /\ Len(fromServer) = 2
       /\ refused = {} <=> fromServer[1].name = "S2" /\ fromServer[2].name = "S2"
  /\ Chain[at] \in {"ReceiveConnect", "ReceiveRelease", "SendCreate", "ReceiveCreate",
                    "ReceivePublish"} => fromServer = <<>> \/ toServer = <<>>
  /\ Chain[at] = "ReceiveFCPublish" =>
       fromServer = <<>> \/ toServer # <<"FCPublish", "createStream">>
  /\ Chain[at] = "ReceiveCreate" =>
       \A i \in 1..Len(fromServer) :
         \/ fromServer[i].name = "_error"
         \/ fromServer[i].name = "_result" /\ fromServer[i].id = attempt /\ assigned = attempt

\* A refusal is an _error among the replies that are not read, until one is read.
RefusalsUnread ==
  /\ refused = {} => NoError
  /\ Chain[at] \notin StreamKnown \cup {"ReceiveS0S1", "SendC2", "ReceiveS2"} =>
       (NoError => refused = {})

AzureInv ==
  /\ Unhandled
  /\ \A i \in 1..Len(fromServer) : fromServer[i].fits = TRUE
  /\ LimitTold
  /\ phase = "handshaking" => Unread /\ RefusalsUnread
  /\ phase = "RTMP_RUNNING" => Chain[at] = "Run"
  /\ Chain[at] \in StreamKnown => streamID = assigned /\ refused \subseteq {"publish"}
  /\ publishedOn # -1 => Chain[at] \in StreamKnown /\ publishedOn = streamID
  /\ HealthySucceeds

IInv == TypeOK /\ AzureInv
----------------------------------------------------------------------------
(* The inductive invariant of the Wowza chain, for such reads and refusals. It  *)
(* is one reply behind: no receive function waits for the reply to releaseStream, *)
(* so each of the following may read the one before and go on.                  *)

WowzaCase == ServerType = "Wowza" /\ Partial = FALSE /\ LongReplies = FALSE

Published == {"SendSetDataFrame", "SendSetChunkSize", "Run"}

WowzaUnhandled ==
  /\ ~open => toServer = <<>>
  /\ Chain[at] \in {"SendC0C1", "SendC2", "SendRelease"} => toServer = <<>>
  /\ Chain[at] = "ReceiveS0S1" => toServer \in {<<>>, <<"C0C1">>}
  /\ Chain[at] \in {"ReceiveS2", "SendConnect"} => toServer \in {<<>>, <<"C2">>}
  /\ Chain[at] = "ReceiveConnect" => toServer \in {<<>>, <<"connect">>, <<"C2", "connect">>}
  /\ Chain[at] = "SendFCPublish" => toServer \in {<<>>, <<"releaseStream">>}
  /\ Chain[at] = "ReceiveFCPublish" =>
       toServer \in {<<>>, <<"FCPublish">>, <<"releaseStream", "FCPublish">>}
  /\ Chain[at] = "SendCreate" => toServer \in {<<>>, <<"FCPublish">>}
  /\ Chain[at] = "ReceiveCreate" =>
       toServer \in {<<>>, <<"createStream">>, <<"FCPublish", "createStream">>}
  /\ Chain[at] = "SendPublish" => toServer \in {<<>>, <<"createStream">>}
  /\ Chain[at] = "ReceivePublish" =>
       toServer \in {<<>>, <<"publish">>, <<"createStream", "publish">>}
  /\ Chain[at] = "SendSetDataFrame" => toServer \in {<<>>, <<"publish">>}
  /\ Chain[at] = "SendSetChunkSize" =>
       toServer \in {<<>>, <<"setDataFrame">>, <<"publish", "setDataFrame">>}
  /\ Chain[at] = "Run" =>
       toServer \in {<<>>, <<"setChunkSize">>, <<"setDataFrame", "setChunkSize">>,
                     <<"publish", "setDataFrame", "setChunkSize">>}

\* Once something arrived, the older of two commands under way is answered; and no
\* reply that ends in no number is left for the reader of createStream to take.
WowzaUnread ==
  /\ Chain[at] \in {"SendC0C1", "SendConnect", "SendRelease"} => fromServer = <<>>
  /\ Chain[at] = "SendC0C1" => refused = {}
  /\ Chain[at] = "ReceiveS0S1" =>
       \/ fromServer = <<>> /\ refused = {}
       \/ /\ toServer = <<>> /\ Len(fromServer) = 3
          /\ refused = {} <=> /\ fromServer[1].name = "S0S1"
                              /\ fromServer[2].name = "S2" /\ fromServer[3].name = "S2"
  /\ Chain[at] \in {"SendC2", "ReceiveS2"} =>
       /\ Len(fromServer) = 2
       /\ refused = {} <=> fromServer[1].name = "S2" /\ fromServer[2].name = "S2"
  /\ Chain[at] \in {"ReceiveConnect", "SendFCPublish", "SendCreate", "SendPublish"} =>
       fromServer = <<>> \/ toServer = <<>>
  /\ Chain[at] \in {"ReceiveFCPublish", "ReceiveCreate", "ReceivePublish"} =>
       fromServer = <<>> \/ Len(toServer) < 2
  /\ Chain[at] \in {"SendCreate", "ReceiveCreate"} =>
       \A i \in 1..Len(fromServer) : fromServer[i].name = "_result" => fromServer[i].id # 0

\* A refusal is an _error that is not read; until an onStatus may tell of one.
WowzaRefusalsUnread ==
  /\ refused = {} => NoError
  /\ Chain[at] \notin Published \cup {"ReceiveS0S1", "SendC2", "ReceiveS2"} =>
       (NoError => refused \subseteq {"publish"})

WowzaInv ==
  /\ WowzaUnhandled
  /\ \A i \in 1..Len(fromServer) : fromServer[i].fits = TRUE
  /\ LimitTold
  /\ phase = "handshaking" => WowzaUnread /\ WowzaRefusalsUnread
  /\ phase = "RTMP_RUNNING" => Chain[at] = "Run"
  /\ Chain[at] \in Published => refused \subseteq {"publish"}
  /\ HealthySucceeds
=============================================================================
