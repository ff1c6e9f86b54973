------------------------- MODULE RTMPHandshake_proofs -------------------------
(***************************************************************************)
(* Proofs about RTMPHandshake: the type invariant for every choice of its  *)
(* constants; and, with a transport that gives a read all that has arrived *)
(* and refusals of one chunk, for both chains that a refusal is noticed     *)
(* (that of publish excepted) and that only a refusal, a closed connection *)
(* or a Hard limit of the bandwidth makes the handshake fail, and for the   *)
(* Azure chain that publish names the stream of its own connection.         *)
(***************************************************************************)
EXTENDS RTMPHandshake, SequenceTheorems, TLAPS

\* Both chains end, and only end, in Run.
LEMMA ChainFacts ==
  /\ Len(Chain) \in {16, 17}
  /\ Chain[1] = "SendC0C1"
  /\ \A i \in 1..Len(Chain) : Chain[i] = "Run" <=> i = Len(Chain)
<1>1. CASE ServerType = "Azure"
  BY <1>1 DEF Chain, AzureChain
<1>2. CASE ServerType # "Azure"
  BY <1>2 DEF Chain, WowzaChain
<1>. QED  BY <1>1, <1>2

LEMMA AtFacts ==
  ASSUME TypeOK
  PROVE  Chain[at] # "Run" => at + 1 \in 1..Len(Chain)
  BY ChainFacts DEF TypeOK

\* What is left after a read of n messages, and what a concatenation holds.
LEMMA SubSeqFacts ==
  ASSUME NEW S, NEW s \in Seq(S), NEW n \in 0..Len(s)
  PROVE  /\ SubSeq(s, n + 1, Len(s)) \in Seq(S)
         /\ Len(SubSeq(s, n + 1, Len(s))) = Len(s) - n
         /\ \A i \in 1..(Len(s) - n) : SubSeq(s, n + 1, Len(s))[i] = s[i + n]
  OBVIOUS

LEMMA ConcatFacts ==
  ASSUME NEW S, NEW s \in Seq(S), NEW t \in Seq(S)
  PROVE  /\ s \o t \in Seq(S)
         /\ Len(s \o t) = Len(s) + Len(t)
         /\ \A i \in 1..Len(s) : (s \o t)[i] = s[i]
         /\ \A i \in 1..Len(t) : (s \o t)[Len(s) + i] = t[i]
  OBVIOUS
----------------------------------------------------------------------------
(* Type correctness.                                                            *)

LEMMA InitType == Init => TypeOK
<1>1. Init => limited \in BOOLEAN
  BY Zenon DEF Init
<1>. QED  BY <1>1, ChainFacts, AttemptsAssumption DEF Init, TypeOK

LEMMA ReadSizesType ==
  ASSUME TypeOK, NEW n \in ReadSizes
  PROVE  n \in 0..Len(fromServer) /\ (n = 0 => fromServer = <<>>)
  BY DEF ReadSizes, TypeOK

\* A command is sent.
LEMMA SendType ==
  ASSUME TypeOK, NEW step, step # "Run", NEW command \in Commands, Send(step, command),
         publishedOn' \in -1..MaxAttempts
  PROVE  TypeOK'
<1>1. at' \in 1..Len(Chain) /\ phase' \in {"handshaking", "RTMP_RUNNING", "failed"}
  BY AtFacts, ChainFacts DEF Send, AtStep, Advance, Fail, TypeOK
<1>2. toServer' \in Seq(Commands)
  <2>1. toServer' = Append(toServer, command) \/ toServer' = toServer
    BY DEF Send
  <2>2. toServer \in Seq(Commands)
    BY DEF TypeOK
  <2>3. Append(toServer, command) \in Seq(Commands)
    BY <2>2
  <2>. QED  BY <2>1, <2>2, <2>3
<1>. QED  BY <1>1, <1>2 DEF Send, TypeOK, server

\* Replies are read.
LEMMA ReceiveType ==
  ASSUME TypeOK, NEW step, step # "Run", NEW n \in 0..Len(fromServer), NEW ok,
         Receive(step, n, ok), streamID' \in 0..MaxAttempts
  PROVE  TypeOK'
<1>1. at' \in 1..Len(Chain) /\ phase' \in {"handshaking", "RTMP_RUNNING", "failed"}
  BY AtFacts, ChainFacts DEF Receive, AtStep, Advance, Fail, TypeOK
<1>2. fromServer' \in Seq(Messages)
  BY SubSeqFacts DEF Receive, TypeOK
<1>. QED  BY <1>1, <1>2 DEF Receive, TypeOK, server

LEMMA MessengerType == TypeOK /\ Messenger => TypeOK'
<1>. SUFFICES ASSUME TypeOK, Messenger PROVE TypeOK'
  OBVIOUS
<1>. USE ReadSizesType
<1>1. UNCHANGED publishedOn => publishedOn' \in -1..MaxAttempts
  BY DEF TypeOK
<1>2. streamID \in -1..MaxAttempts /\ (UNCHANGED streamID => streamID' \in 0..MaxAttempts)
  BY AttemptsAssumption DEF TypeOK
<1>3. CASE \/ SendC0C1 \/ SendC2 \/ SendConnect \/ SendReleaseStream \/ SendFCPublish
           \/ SendCreateStream \/ SendSetDataFrame \/ SendSetChunkSize
  <2>1. /\ UNCHANGED publishedOn
        /\ \E step \in {"SendC0C1", "SendC2", "SendConnect", "SendRelease", "SendFCPublish",
                        "SendCreate", "SendSetDataFrame", "SendSetChunkSize"},
              command \in Commands : Send(step, command)
    BY <1>3 DEF SendC0C1, SendC2, SendConnect, SendReleaseStream, SendFCPublish,
       SendCreateStream, SendSetDataFrame, SendSetChunkSize, Commands
  <2>. QED  BY <1>1, <2>1, SendType
<1>4. CASE SendPublishStream
  <2>1. Send("SendPublish", "publish") /\ publishedOn' \in -1..MaxAttempts /\ "publish" \in Commands
    BY <1>2, <1>4 DEF SendPublishStream, Commands
  <2>. QED  BY <2>1, SendType
<1>5. CASE ReceiveS0S1
  <2>1. Len(fromServer) \in Nat /\ (fromServer = <<>> \/ 1 \in 0..Len(fromServer))
    BY DEF TypeOK
  <2>2. /\ UNCHANGED streamID
        /\ \E n \in 0..Len(fromServer), ok \in BOOLEAN : Receive("ReceiveS0S1", n, ok)
    <3>1. CASE fromServer # <<>>
      <4>1. PICK ok \in BOOLEAN : Receive("ReceiveS0S1", 1, ok)
        BY <1>5, <3>1 DEF ReceiveS0S1
      <4>. QED  BY <1>5, <2>1, <3>1, <4>1 DEF ReceiveS0S1
    <3>2. CASE fromServer = <<>>
      <4>1. Receive("ReceiveS0S1", 0, FALSE) /\ UNCHANGED streamID
        BY <1>5, <3>2 DEF ReceiveS0S1
      <4>2. 0 \in 0..Len(fromServer)
        BY <2>1
      <4>. QED  BY <4>1, <4>2
    <3>. QED  BY <3>1, <3>2
  <2>. QED  BY <1>2, <2>2, ReceiveType
<1>6. CASE \/ ReceiveS2 \/ ReceiveConnectResponse \/ ReceiveReleaseStreamResponse
           \/ ReceiveFCPublishResponse \/ ReceivePublishStreamResponse
  <2>1. /\ UNCHANGED streamID
        /\ \E step \in {"ReceiveS2", "ReceiveConnect", "ReceiveRelease", "ReceiveFCPublish",
                        "ReceivePublish"}, n \in ReadSizes, ok \in BOOLEAN : Receive(step, n, ok)
    BY <1>6 DEF ReceiveS2, ReceiveConnectResponse, ReceiveReleaseStreamResponse,
       ReceiveFCPublishResponse, ReceivePublishStreamResponse, Fine
  <2>. QED  BY <1>2, <2>1, ReceiveType
<1>7. CASE ReceiveCreateStreamResponse
  <2>1. PICK n \in ReadSizes, ok \in BOOLEAN :
          /\ Receive("ReceiveCreate", n, ok)
          /\ UNCHANGED streamID \/ \E last \in 1..n : streamID' = fromServer[last].id
    BY <1>7 DEF ReceiveCreateStreamResponse, Parsed
  <2>2. ASSUME NEW i \in 1..n PROVE fromServer[i].id \in 0..MaxAttempts
    <3>1. n \in 0..Len(fromServer) /\ fromServer \in Seq(Messages)
      BY <2>1 DEF TypeOK
    <3>2. fromServer[i] \in Messages
      BY <3>1
    <3>. QED  BY <3>2 DEF Messages
  <2>. QED  BY <1>2, <2>1, <2>2, ReceiveType
<1>8. CASE ReceiveThrows \/ HandshakeCompletes
  BY <1>8 DEF ReceiveThrows, HandshakeCompletes, Fail, TypeOK, server, wire
<1>. QED  BY <1>3, <1>4, <1>5, <1>6, <1>7, <1>8 DEF Messenger

\* What the server answers are messages.
LEMMA RepliesType ==
  ASSUME TypeOK, NEW command \in Commands
  PROVE  /\ \A hard \in BOOLEAN : Granted(command, hard) \in Seq(Messages)
         /\ \A replies \in Refusals(command) : replies \in Seq(Messages)
<1>1. attempt \in 0..MaxAttempts /\ 0 \in 0..MaxAttempts /\ Controls + 1 \in Nat
  BY AttemptsAssumption, ServerAssumption DEF TypeOK
<1>2. \A name \in {"S0S1", "S0S1?", "S2", "S2?", "control", "hardLimit", "_result",
                   "_error", "onFCPublish", "onStatus"}, id \in 0..MaxAttempts : Reply(name, id) \in Messages
  BY DEF Reply, Messages
<1>3. ASSUME NEW hard \in BOOLEAN PROVE Granted(command, hard) \in Seq(Messages)
  <2>1. CASE command = "connect"
    <3>1. \A i \in 1..(Controls + 1) :
            (IF i <= Controls THEN Control(i, hard) ELSE Reply("_result", 0)) \in Messages
      BY <1>1, <1>2 DEF Control
    <3>. QED  BY <1>1, <2>1, <3>1 DEF Granted
  <2>2. CASE command # "connect"
    BY <1>1, <1>2, <2>2 DEF Granted, Commands
  <2>. QED  BY <2>1, <2>2
<1>4. ASSUME NEW replies \in Refusals(command) PROVE replies \in Seq(Messages)
  <2>1. CASE command = "C0C1"
    <3>1. /\ Reply("S0S1", 0) \in Messages /\ Reply("S0S1?", 0) \in Messages
          /\ Reply("S2", 0) \in Messages /\ Reply("S2?", 0) \in Messages
      BY <1>1, <1>2
    <3>. QED  BY <1>4, <2>1, <3>1 DEF Refusals
  <2>2. CASE command # "C0C1"
    <3>0. {TRUE, ~LongReplies} \subseteq BOOLEAN
      BY ServerAssumption
    <3>1. PICK name \in {"_error"} \union (IF command = "publish" THEN {"onStatus"} ELSE {}),
               fits \in {TRUE, ~LongReplies} :
            replies = <<[name |-> name, id |-> 0, fits |-> fits]>>
      BY <1>4, <2>2 DEF Refusals
    <3>2. [name |-> name, id |-> 0, fits |-> fits] \in Messages
      BY <1>1, <3>0 DEF Messages
    <3>. QED  BY <3>1, <3>2
  <2>. QED  BY <2>1, <2>2
<1>. QED  BY <1>3, <1>4

LEMMA ServerStepType ==
  TypeOK /\ (Grant \/ Refuse \/ CloseConnection) => TypeOK'
<1>. SUFFICES ASSUME TypeOK, Grant \/ Refuse \/ CloseConnection PROVE TypeOK'
  OBVIOUS
<1>1. toServer # <<>> => Tail(toServer) \in Seq(Commands)
  BY DEF TypeOK
<1>2. ASSUME NEW command \in Commands, Handles(command), NEW replies \in Seq(Messages),
             fromServer' = fromServer \o replies,
             assigned' \in {assigned, attempt}, limited' \in BOOLEAN,
             refused' \in {refused, refused \union {command}},
             refused' = refused \/ command \in Refusable
      PROVE  TypeOK'
  <2>1. fromServer' \in Seq(Messages) /\ toServer' \in Seq(Commands)
    BY <1>1, <1>2, ConcatFacts DEF Handles, TypeOK
  <2>. QED  BY <1>2, <2>1 DEF Handles, TypeOK, client
<1>3. CASE Grant
  <2>1. PICK command \in Commands, hard \in {FALSE, HardLimits} :
          /\ Handles(command) /\ fromServer' = fromServer \o Granted(command, hard)
          /\ assigned' \in {assigned, attempt} /\ refused' = refused
          /\ limited' = (limited \/ hard)
    BY <1>3 DEF Grant
  <2>2. hard \in BOOLEAN /\ limited \in BOOLEAN
    BY ServerAssumption DEF TypeOK
  <2>3. limited' \in BOOLEAN
    BY <2>1, <2>2, Zenon
  <2>. QED  BY <1>2, <2>1, <2>2, <2>3, RepliesType
<1>4. CASE Refuse
  <2>1. MayRefuse \subseteq Refusable /\ Refusable \subseteq Commands
    BY ServerAssumption DEF Refusable
  <2>2. limited' \in BOOLEAN
    BY <1>4 DEF Refuse, TypeOK
  <2>. QED  BY <1>2, <1>4, <2>1, <2>2, RepliesType DEF Refuse
<1>5. CASE CloseConnection
  <2>1. open' \in BOOLEAN
    BY <1>5, Zenon DEF CloseConnection
  <2>2. toServer' \in Seq(Commands) /\ UNCHANGED <<client, fromServer, assigned, refused, limited>>
    BY <1>5 DEF CloseConnection
  <2>. QED  BY <2>1, <2>2 DEF TypeOK, client
<1>. QED  BY <1>3, <1>4, <1>5

LEMMA TypeStep == TypeOK /\ [Next]_vars => TypeOK'
<1>. SUFFICES ASSUME TypeOK, [Next]_vars PROVE TypeOK'
  OBVIOUS
<1>1. CASE UNCHANGED vars
  BY <1>1 DEF vars, client, server, wire, TypeOK
<1>2. CASE ConnectAsync
  <2>1. limited' \in BOOLEAN
    BY <1>2, Zenon DEF ConnectAsync
  <2>. QED  BY <1>2, <2>1, ChainFacts, AttemptsAssumption DEF ConnectAsync, TypeOK
<1>. QED  BY <1>1, <1>2, MessengerType, ServerStepType DEF Next

\* Every variable keeps its type; the stream id is one that a server gave out, or none.
THEOREM TypeCorrect == Spec => []TypeOK
BY InitType, TypeStep, PTL DEF Spec
----------------------------------------------------------------------------
(* What the server answers, whichever the chain.                                *)

\* C0C1 is answered by three messages, and no granted command by an _error.
Grantable(command, replies) ==
  /\ \A i \in 1..Len(replies) : replies[i].fits = TRUE
  /\ \A i \in 1..Len(replies) : replies[i].name # "_error"
  /\ command = "C0C1" => /\ Len(replies) = 3 /\ replies[1].name = "S0S1"
                         /\ replies[2].name = "S2" /\ replies[3].name = "S2"
  /\ command \in {"C2", "setDataFrame", "setChunkSize"} => replies = <<>>
  /\ command = "createStream" => /\ Len(replies) = 1
                                 /\ replies[1].name = "_result" /\ replies[1].id = attempt
  /\ command \notin {"connect", "releaseStream"} =>
       \A i \in 1..Len(replies) : replies[i].name = "_result" => replies[i].id # 0

LEMMA GrantedFacts ==
  ASSUME TypeOK, NEW command \in Commands, NEW hard \in BOOLEAN, NEW replies,
         replies = Granted(command, hard)
  PROVE  /\ Grantable(command, replies)
         /\ \A i \in 1..Len(replies) : replies[i].name = "hardLimit" => hard
<1>1. CASE command = "connect"
  <2>1. Controls + 1 \in Nat
    BY ServerAssumption
  <2>2. /\ Len(replies) = Controls + 1
        /\ \A i \in 1..(Controls + 1) :
             replies[i] = IF i <= Controls THEN Control(i, hard) ELSE Reply("_result", 0)
    BY <1>1, <2>1 DEF Granted
  <2>3. \A i \in 1..(Controls + 1) :
          /\ replies[i].fits = TRUE /\ replies[i].name # "_error"
          /\ replies[i].name = "hardLimit" => hard
    BY <2>2 DEF Control, Reply
  <2>. QED  BY <1>1, <2>2, <2>3 DEF Grantable
<1>2. CASE command # "connect"
  <2>1. attempt # 0
    BY DEF TypeOK
  <2>. QED  BY <1>2, <2>1 DEF Granted, Grantable, Reply, Commands
<1>. QED  BY <1>1, <1>2

\* A refused command is answered with an _error, unless it is the handshake or publish.
LEMMA RefusalsFacts ==
  ASSUME LongReplies = FALSE, NEW command \in Commands, NEW replies \in Refusals(command)
  PROVE  /\ \A i \in 1..Len(replies) : replies[i].fits = TRUE
         /\ command = "C0C1" =>
              /\ Len(replies) = 3
              /\ \A i \in 1..3 : replies[i].name # "_error"
              /\ ~ /\ replies[1].name = "S0S1"
                   /\ replies[2].name = "S2" /\ replies[3].name = "S2"
         /\ command \notin {"C0C1", "publish"} => Len(replies) = 1 /\ replies[1].name = "_error"
         /\ \A i \in 1..Len(replies) : replies[i].name \notin {"_result", "hardLimit"}
<1>1. CASE command = "C0C1"
  BY <1>1 DEF Refusals, Reply
<1>2. CASE command # "C0C1"
  <2>1. PICK name \in {"_error"} \union (IF command = "publish" THEN {"onStatus"} ELSE {}),
             fits \in {TRUE, ~LongReplies} :
          replies = <<[name |-> name, id |-> 0, fits |-> fits]>>
    BY <1>2 DEF Refusals
  <2>2. fits = TRUE
    BY <2>1
  <2>. QED  BY <1>2, <2>1, <2>2
<1>. QED  BY <1>1, <1>2

\* What arrives is appended, and is whole.
Arrive(replies) ==
  /\ Len(fromServer') = Len(fromServer) + Len(replies)
  /\ \A i \in 1..Len(fromServer) : fromServer'[i] = fromServer[i]
  /\ \A i \in 1..Len(replies) : fromServer'[Len(fromServer) + i] = replies[i]
  /\ Len(fromServer) \in Nat /\ Len(replies) \in Nat
  /\ \A i \in 1..Len(fromServer') :
       \/ i \in 1..Len(fromServer) /\ fromServer'[i] = fromServer[i]
       \/ \E j \in 1..Len(replies) : i = Len(fromServer) + j /\ fromServer'[i] = replies[j]
  /\ \A i \in 1..Len(replies) : replies[i].fits = TRUE
  /\ NoError' <=> NoError /\ \A i \in 1..Len(replies) : replies[i].name # "_error"

\* It grants a command, or it tells of the refusal.
Answers(command, replies) ==
  \/ /\ UNCHANGED refused
     /\ assigned' = IF command = "createStream" THEN attempt ELSE assigned
     /\ \A i \in 1..Len(replies) : replies[i].name # "_error"
     /\ command = "C0C1" => /\ Len(replies) = 3 /\ replies[1].name = "S0S1"
                            /\ replies[2].name = "S2" /\ replies[3].name = "S2"
     /\ command \in {"C2", "setDataFrame", "setChunkSize"} => replies = <<>>
     /\ command = "createStream" => /\ Len(replies) = 1
                                    /\ replies[1].name = "_result" /\ replies[1].id = attempt
  \/ /\ command \in Refusable /\ refused' = refused \union {command}
     /\ UNCHANGED assigned
     /\ command = "C0C1" =>
          /\ Len(replies) = 3
          /\ \A i \in 1..3 : replies[i].name # "_error"
          /\ ~ /\ replies[1].name = "S0S1"
               /\ replies[2].name = "S2" /\ replies[3].name = "S2"
     /\ command \notin {"C0C1", "publish"} => Len(replies) = 1 /\ replies[1].name = "_error"

\* What Grant and Refuse do with a command.
Grants(command, replies) ==
  /\ \E hard \in BOOLEAN : replies = Granted(command, hard) /\ limited' = (limited \/ hard)
  /\ assigned' = IF command = "createStream" THEN attempt ELSE assigned
  /\ UNCHANGED refused

Refuses(command, replies) ==
  /\ command \in Refusable /\ replies \in Refusals(command)
  /\ refused' = refused \union {command}
  /\ UNCHANGED <<assigned, limited>>

LEMMA AnswerFacts ==
  ASSUME LongReplies = FALSE, TypeOK, NEW command \in Commands, NEW replies \in Seq(Messages),
         fromServer' = fromServer \o replies,
         Grants(command, replies) \/ Refuses(command, replies)
  PROVE  /\ Arrive(replies)
         /\ Answers(command, replies)
         /\ limited => limited'
         /\ LimitTold => LimitTold'
         /\ command \notin {"connect", "releaseStream"} =>
              \A i \in 1..Len(replies) : replies[i].name = "_result" => replies[i].id # 0
<1>1. /\ Len(fromServer') = Len(fromServer) + Len(replies)
      /\ \A i \in 1..Len(fromServer) : fromServer'[i] = fromServer[i]
      /\ \A i \in 1..Len(replies) : fromServer'[Len(fromServer) + i] = replies[i]
      /\ Len(fromServer) \in Nat /\ Len(replies) \in Nat
  BY ConcatFacts DEF TypeOK
<1>0. Grants(command, replies) => Grantable(command, replies)
  BY GrantedFacts, Zenon DEF Grants
<1>2. Answers(command, replies)
  <2>1. CASE Grants(command, replies)
    BY <1>0, <2>1 DEF Grants, Grantable, Answers
  <2>2. CASE Refuses(command, replies)
    BY <2>2, RefusalsFacts DEF Refuses, Answers
  <2>. QED  BY <2>1, <2>2
<1>3. /\ \A i \in 1..Len(replies) : replies[i].fits = TRUE
      /\ \A i \in 1..Len(replies) : replies[i].name = "hardLimit" => limited'
      /\ limited => limited'
  <2>1. CASE Grants(command, replies)
    <3>1. PICK hard \in BOOLEAN :
            replies = Granted(command, hard) /\ limited' = (limited \/ hard)
      BY <2>1 DEF Grants
    <3>2. \A i \in 1..Len(replies) : replies[i].name = "hardLimit" => hard
      BY <3>1, GrantedFacts
    <3>. QED  BY <1>0, <2>1, <3>1, <3>2 DEF Grantable
  <2>2. CASE Refuses(command, replies)
    BY <2>2, RefusalsFacts DEF Refuses
  <2>. QED  BY <2>1, <2>2
<1>4. command \notin {"connect", "releaseStream"} =>
        \A i \in 1..Len(replies) : replies[i].name = "_result" => replies[i].id # 0
  <2>1. CASE Grants(command, replies)
    BY <1>0, <2>1 DEF Grantable
  <2>2. CASE Refuses(command, replies)
    <3>1. \A i \in 1..Len(replies) : replies[i].name # "_result"
      BY <2>2, RefusalsFacts DEF Refuses
    <3>. QED  BY <3>1
  <2>. QED  BY <2>1, <2>2
<1>5. \A i \in 1..Len(fromServer') :
        \/ i \in 1..Len(fromServer) /\ fromServer'[i] = fromServer[i]
        \/ \E j \in 1..Len(replies) : i = Len(fromServer) + j /\ fromServer'[i] = replies[j]
  <2>1. ASSUME NEW i \in 1..Len(fromServer'), i \notin 1..Len(fromServer)
        PROVE  \E j \in 1..Len(replies) : i = Len(fromServer) + j /\ fromServer'[i] = replies[j]
    <3>1. i - Len(fromServer) \in 1..Len(replies) /\ i = Len(fromServer) + (i - Len(fromServer))
      BY <1>1, <2>1
    <3>. QED  BY <1>1, <3>1
  <2>. QED  BY <1>1, <2>1
<1>6. NoError' <=> NoError /\ \A i \in 1..Len(replies) : replies[i].name # "_error"
  <2>1. ASSUME NoError, \A i \in 1..Len(replies) : replies[i].name # "_error" PROVE NoError'
    BY <1>5, <2>1 DEF NoError
  <2>2. ASSUME NoError' PROVE NoError
    BY <1>1, <2>2 DEF NoError
  <2>3. ASSUME NoError', NEW i \in 1..Len(replies) PROVE replies[i].name # "_error"
    <3>1. Len(fromServer) + i \in 1..Len(fromServer')
      BY <1>1
    <3>2. fromServer'[Len(fromServer) + i] = replies[i]
      BY <1>1
    <3>. QED  BY <2>3, <3>1, <3>2 DEF NoError
  <2>. QED  BY <2>1, <2>2, <2>3
<1>7. LimitTold => LimitTold'
  BY <1>3, <1>5 DEF LimitTold
<1>. QED  BY <1>1, <1>2, <1>3, <1>4, <1>5, <1>6, <1>7 DEF Arrive

\* The answer to C0C1, which S0 or S2 tells of.
LEMMA HandshakeAnswered ==
  ASSUME NEW command, command = "C0C1", NEW replies, Arrive(replies), Answers(command, replies),
         fromServer = <<>>, refused = {}
  PROVE  /\ Len(fromServer') = 3
         /\ NoError'
         /\ refused' = {} <=> /\ fromServer'[1].name = "S0S1"
                             /\ fromServer'[2].name = "S2" /\ fromServer'[3].name = "S2"
<1>1. /\ Len(replies) = 3 /\ \A i \in 1..3 : replies[i].name # "_error"
      /\ refused' = {} <=> /\ replies[1].name = "S0S1"
                          /\ replies[2].name = "S2" /\ replies[3].name = "S2"
  <2>1. CASE /\ refused' = refused /\ Len(replies) = 3
             /\ replies[1].name = "S0S1" /\ replies[2].name = "S2" /\ replies[3].name = "S2"
             /\ \A i \in 1..Len(replies) : replies[i].name # "_error"
    BY <2>1
  <2>2. CASE /\ refused' = refused \union {command} /\ Len(replies) = 3
             /\ \A i \in 1..3 : replies[i].name # "_error"
             /\ ~ /\ replies[1].name = "S0S1"
                  /\ replies[2].name = "S2" /\ replies[3].name = "S2"
    BY <2>2
  <2>. QED  BY <2>1, <2>2 DEF Answers
<1>2. Len(fromServer) = 0
  OBVIOUS
<1>3. Len(fromServer') = 3 /\ \A i \in 1..3 : fromServer'[i] = replies[i]
  BY <1>1, <1>2 DEF Arrive
<1>4. NoError'
  BY <1>1, <1>3 DEF NoError
<1>. QED  BY <1>1, <1>3, <1>4
----------------------------------------------------------------------------
(* The Azure chain.                                                             *)

LEMMA AzureSteps ==
  ASSUME AzureCase, TypeOK
  PROVE  /\ Chain[at] = "SendC0C1" => Chain[at + 1] = "ReceiveS0S1"
         /\ Chain[at] = "ReceiveS0S1" => Chain[at + 1] = "SendC2"
         /\ Chain[at] = "SendC2" => Chain[at + 1] = "ReceiveS2"
         /\ Chain[at] = "ReceiveS2" => Chain[at + 1] = "SendConnect"
         /\ Chain[at] = "SendConnect" => Chain[at + 1] = "ReceiveConnect"
         /\ Chain[at] = "ReceiveConnect" => Chain[at + 1] = "SendRelease"
         /\ Chain[at] = "SendRelease" => Chain[at + 1] = "ReceiveRelease"
         /\ Chain[at] = "ReceiveRelease" => Chain[at + 1] = "SendFCPublish"
         /\ Chain[at] = "SendFCPublish" => Chain[at + 1] = "SendCreate"
         /\ Chain[at] = "SendCreate" => Chain[at + 1] = "ReceiveFCPublish"
         /\ Chain[at] = "ReceiveFCPublish" => Chain[at + 1] = "ReceiveCreate"
         /\ Chain[at] = "ReceiveCreate" => Chain[at + 1] = "SendPublish"
         /\ Chain[at] = "SendPublish" => Chain[at + 1] = "ReceivePublish"
         /\ Chain[at] = "ReceivePublish" => Chain[at + 1] = "SendSetDataFrame"
         /\ Chain[at] = "SendSetDataFrame" => Chain[at + 1] = "SendSetChunkSize"
         /\ Chain[at] = "SendSetChunkSize" => Chain[at + 1] = "Run"
<1>1. at \in 1..17 /\ Chain = AzureChain
  BY DEF AzureCase, TypeOK, Chain, AzureChain
<1>. QED  BY <1>1 DEF AzureChain

\* The sequences of commands the server may still have to handle are short.
LEMMA OneCommand == ASSUME NEW a PROVE Append(<<>>, a) = <<a>> /\ Tail(<<a>>) = <<>>
  OBVIOUS

LEMMA TwoCommands ==
  ASSUME NEW a, NEW b PROVE Append(<<a>>, b) = <<a, b>> /\ Tail(<<a, b>>) = <<b>>
<1>1. Append(<<a>>, b) = <<a, b>>
  <2>1. <<a>> \in Seq({a, b}) /\ <<a, b>> \in Seq({a, b}) /\ a \in {a, b} /\ b \in {a, b}
    OBVIOUS
  <2>2. /\ Append(<<a>>, b) \in Seq({a, b}) /\ Len(Append(<<a>>, b)) = 2
        /\ Append(<<a>>, b)[1] = a /\ Append(<<a>>, b)[2] = b
    BY <2>1, AppendProperties
  <2>3. Len(<<a, b>>) = 2 /\ <<a, b>>[1] = a /\ <<a, b>>[2] = b
    OBVIOUS
  <2>4. \A i \in 1..Len(Append(<<a>>, b)) : Append(<<a>>, b)[i] = <<a, b>>[i]
    BY <2>2, <2>3
  <2>5. Append(<<a>>, b) \in Seq({a, b}) /\ <<a, b>> \in Seq({a, b})
        /\ Len(Append(<<a>>, b)) = Len(<<a, b>>)
    BY <2>1, <2>2, <2>3
  <2>. QED  BY <2>4, <2>5, SeqEqual, Zenon
<1>2. Tail(<<a, b>>) = <<b>>
  OBVIOUS
<1>. QED  BY <1>1, <1>2

LEMMA Lengths ==
  ASSUME NEW a, NEW b, NEW c
  PROVE  <<a>> # <<>> /\ <<a, b>> # <<>> /\ <<a>> # <<b, c>>
<1>1. Len(<<a>>) = 1 /\ Len(<<a, b>>) = 2 /\ Len(<<b, c>>) = 2 /\ Len(<<>>) = 0
  OBVIOUS
<1>. QED  BY <1>1

\* A read that takes all there is.
LEMMA WholeRead ==
  ASSUME Partial = FALSE, TypeOK, ~open => toServer = <<>>,
         \A i \in 1..Len(fromServer) : fromServer[i].fits = TRUE,
         NEW n \in ReadSizes
  PROVE  /\ n = Len(fromServer) /\ (n = 0 <=> fromServer = <<>>)
         /\ n = 0 => ~open /\ toServer = <<>>
         /\ SubSeq(fromServer, n + 1, Len(fromServer)) = <<>>
         /\ Parsed(n) = 1..n
         /\ Errors(n) = {} <=> NoError
         /\ LimitTold /\ ~limited => Untaken(n) = {}
<1>1. fromServer \in Seq(Messages) /\ Len(fromServer) \in Nat
  BY DEF TypeOK
<1>2. n = Len(fromServer) /\ (n = 0 <=> fromServer = <<>>) /\ (n = 0 => ~open)
  BY <1>1 DEF ReadSizes
<1>3. SubSeq(fromServer, n + 1, Len(fromServer)) = <<>>
  BY <1>1, <1>2, SubSeqFacts
<1>4. Parsed(n) = 1..n
  BY <1>2 DEF Parsed
<1>5. Errors(n) = {} <=> NoError
  BY <1>2, <1>4 DEF Errors, NoError
<1>6. LimitTold /\ ~limited => Untaken(n) = {}
  BY <1>2, <1>4 DEF Untaken, LimitTold
<1>. QED  BY <1>2, <1>3, <1>4, <1>5, <1>6

\* A command is sent, lost on a closed connection, or the send throws.
LEMMA SendStep ==
  ASSUME AzureCase, TypeOK, AzureInv, NEW step, NEW command, Send(step, command),
         \/ UNCHANGED publishedOn
         \/ step = "SendPublish" /\ publishedOn' = streamID,
         \/ step = "SendC0C1" /\ command = "C0C1"
         \/ step = "SendC2" /\ command = "C2"
         \/ step = "SendConnect" /\ command = "connect"
         \/ step = "SendRelease" /\ command = "releaseStream"
         \/ step = "SendFCPublish" /\ command = "FCPublish"
         \/ step = "SendCreate" /\ command = "createStream"
         \/ step = "SendPublish" /\ command = "publish"
         \/ step = "SendSetDataFrame" /\ command = "setDataFrame"
         \/ step = "SendSetChunkSize" /\ command = "setChunkSize"
  PROVE  AzureInv'
<1>1. /\ phase = "handshaking" /\ Chain[at] = step /\ Unread /\ RefusalsUnread /\ Unhandled
      /\ UNCHANGED <<attempt, streamID, fromServer, open, assigned, refused, limited>>
      /\ LimitTold'
  BY DEF Send, AtStep, AzureInv, server, LimitTold
<1>2. CASE Fail /\ ~open /\ UNCHANGED toServer
  <2>1. UNCHANGED at /\ phase' = "failed" /\ ~open'
    BY <1>1, <1>2 DEF Fail
  <2>2. Unhandled'
    BY <1>1, <1>2, <2>1 DEF Unhandled
  <2>. QED  BY <1>1, <1>2, <2>1, <2>2 DEF AzureInv, HealthySucceeds, StreamKnown
<1>3. CASE Advance /\ toServer' \in {toServer, Append(toServer, command)}
  <2>1. at' = at + 1 /\ phase' = "handshaking"
    BY <1>1, <1>3 DEF Advance
  <2>2. ~open => toServer = <<>> /\ toServer' = toServer
    BY <1>1 DEF Send, Unhandled
  <2>3. Chain[at'] # step
    BY <1>1, <2>1, AzureSteps
  <2>4. Unhandled'
    <3>1. \/ toServer' = <<>>
          \/ toServer = <<>> /\ toServer' = <<command>>
          \/ step = "SendConnect" /\ toServer' = <<"C2", "connect">>
          \/ step = "SendCreate" /\ toServer' = <<"FCPublish", "createStream">>
          \/ step = "SendSetChunkSize" /\ toServer' = <<"setDataFrame", "setChunkSize">>
      <4>1. toServer' = <<>> \/ toServer' = Append(toServer, command)
        BY <1>3, <2>2 DEF Send
      <4>2. CASE toServer = <<>>
        BY <4>1, <4>2, OneCommand
      <4>3. CASE toServer # <<>>
        <5>1. \/ step = "SendConnect" /\ command = "connect" /\ toServer = <<"C2">>
              \/ step = "SendCreate" /\ command = "createStream" /\ toServer = <<"FCPublish">>
              \/ step = "SendSetChunkSize" /\ command = "setChunkSize" /\ toServer = <<"setDataFrame">>
          BY <1>1, <4>3, Zenon DEF Unhandled
        <5>. QED  BY <4>1, <5>1, TwoCommands
      <4>. QED  BY <4>2, <4>3
    <3>2. UNCHANGED open
      BY <1>1
    <3>. QED  BY <1>1, <2>1, <2>2, <3>1, <3>2, AzureSteps DEF Unhandled
  <2>5. Unread'
    <3>1. fromServer' = fromServer /\ assigned' = assigned /\ refused' = refused /\ attempt' = attempt
      BY <1>1
    <3>2. CASE fromServer = <<>>
      <4>1. Len(fromServer) = 0
        BY <3>2
      <4>2. step = "SendC0C1" => refused = {}
        BY <1>1, <4>1 DEF RefusalsUnread, NoError, StreamKnown
      <4>3. step # "SendC2"
        BY <1>1, <4>1 DEF Unread
      <4>. QED  BY <1>1, <2>1, <3>1, <3>2, <4>1, <4>2, <4>3, AzureSteps DEF Unread
    <3>3. CASE fromServer # <<>>
      <4>1. \/ step = "SendC2"
            \/ step = "SendCreate" /\ toServer = <<>>
        BY <1>1, <3>3 DEF Unread
      <4>2. CASE step = "SendC2"
        BY <1>1, <2>1, <3>1, <4>2, AzureSteps DEF Unread
      <4>3. CASE step = "SendCreate" /\ toServer = <<>>
        <5>1. toServer' \in {<<>>, <<command>>}
          BY <1>3, <4>3, OneCommand
        <5>2. toServer' # <<"FCPublish", "createStream">>
          BY <5>1, Lengths
        <5>3. Chain[at'] = "ReceiveFCPublish"
          BY <1>1, <2>1, <4>3, AzureSteps
        <5>. QED  BY <5>2, <5>3 DEF Unread
      <4>. QED  BY <4>1, <4>2, <4>3
    <3>. QED  BY <3>2, <3>3
  <2>6. RefusalsUnread'
    BY <1>1, <2>1, AzureSteps DEF RefusalsUnread, NoError, StreamKnown
  <2>7. /\ Chain[at'] \in StreamKnown => streamID' = assigned' /\ refused' \subseteq {"publish"}
        /\ publishedOn' # -1 => Chain[at'] \in StreamKnown /\ publishedOn' = streamID'
    BY <1>1, <2>1, AzureSteps DEF AzureInv, StreamKnown
  <2>. QED  BY <1>1, <2>1, <2>4, <2>5, <2>6, <2>7 DEF AzureInv, HealthySucceeds
<1>. QED  BY <1>2, <1>3 DEF Send

\* A read takes all there is, and whether it holds an _error is whether that does.
LEMMA ReadAll ==
  ASSUME AzureCase, TypeOK, AzureInv, NEW n \in ReadSizes
  PROVE  /\ n = Len(fromServer) /\ (n = 0 <=> fromServer = <<>>)
         /\ n = 0 => ~open /\ toServer = <<>>
         /\ SubSeq(fromServer, n + 1, Len(fromServer)) = <<>>
         /\ Parsed(n) = 1..n
         /\ Errors(n) = {} <=> NoError
         /\ ~limited => Untaken(n) = {}
  BY WholeRead DEF AzureCase, AzureInv, Unhandled

\* An exception in a receive function is no surprise if something was refused, the
\* connection is closed, or a Hard limit was set on it.
LEMMA FailStep ==
  ASSUME AzureCase, TypeOK, AzureInv, phase = "handshaking", phase' = "failed",
         UNCHANGED <<at, toServer, open, assigned, refused, limited, publishedOn>>,
         UNCHANGED streamID \/ Chain[at] = "ReceiveCreate",
         \A i \in 1..Len(fromServer') : fromServer'[i].fits = TRUE, LimitTold',
         open => refused # {} \/ limited
  PROVE  AzureInv'
<1>1. Unhandled'
  BY DEF AzureInv, Unhandled
<1>2. /\ Chain[at'] \in StreamKnown => streamID' = assigned' /\ refused' \subseteq {"publish"}
      /\ publishedOn' # -1 => Chain[at'] \in StreamKnown /\ publishedOn' = streamID'
  BY DEF AzureInv, StreamKnown
<1>. QED  BY <1>1, <1>2 DEF AzureInv, HealthySucceeds

\* A receive function that is content has read everything, and nothing was refused, or
\* it was the one for publish.
LEMMA PassStep ==
  ASSUME AzureCase, TypeOK, AzureInv, phase = "handshaking",
         Chain[at] \in Receives \ {"ReceiveS0S1"},
         at' = at + 1, phase' = phase, fromServer' = <<>>,
         UNCHANGED <<attempt, publishedOn, toServer, server>>,
         fromServer # <<>> \/ toServer = <<>>,
         Chain[at] = "ReceiveCreate" \/ UNCHANGED streamID,
         Chain[at] = "ReceiveCreate" => streamID' = assigned,
         Chain[at] # "ReceivePublish" => refused = {}
  PROVE  AzureInv'
<1>1. /\ UNCHANGED <<attempt, publishedOn, toServer, open, assigned, refused, limited>>
      /\ Unhandled /\ Unread
  BY DEF AzureInv, server
<1>2. Len(fromServer') = 0
  OBVIOUS
<1>3. Unhandled'
  <2>1. Chain[at] \in {"ReceiveConnect", "ReceiveRelease", "ReceiveCreate", "ReceivePublish"} =>
          toServer' = <<>>
    BY <1>1 DEF Unread
  <2>2. Chain[at] = "ReceiveFCPublish" => toServer' \in {<<>>, <<"createStream">>}
    BY <1>1 DEF Unhandled, Unread
  <2>3. Chain[at] = "ReceiveS2" => toServer' \in {<<>>, <<"C2">>}
    BY <1>1 DEF Unhandled
  <2>4. ~open' => toServer' = <<>>
    BY <1>1 DEF Unhandled
  <2>. QED  BY <2>1, <2>2, <2>3, <2>4, AzureSteps DEF Unhandled, Receives
<1>4. Unread' /\ RefusalsUnread'
  BY <1>1, <1>2, AzureSteps DEF Unread, RefusalsUnread, NoError, StreamKnown, Receives
<1>5. /\ Chain[at'] \in StreamKnown => streamID' = assigned' /\ refused' \subseteq {"publish"}
      /\ publishedOn' # -1 => Chain[at'] \in StreamKnown /\ publishedOn' = streamID'
  BY <1>1, AzureSteps DEF AzureInv, StreamKnown, Receives
<1>6. LimitTold'
  BY <1>2 DEF LimitTold
<1>. QED  BY <1>1, <1>2, <1>3, <1>4, <1>5, <1>6 DEF AzureInv, HealthySucceeds

\* The receive functions that read all there is and leave the stream id alone.
LEMMA ReadStep ==
  ASSUME AzureCase, TypeOK, AzureInv, NEW step \in Receives \ {"ReceiveS0S1", "ReceiveCreate"},
         NEW n \in ReadSizes, NEW ok \in BOOLEAN, Receive(step, n, ok), UNCHANGED streamID,
         ~ok => refused # {} \/ limited \/ ~open,
         ok /\ step # "ReceivePublish" => refused = {}
  PROVE  AzureInv'
<1>1. /\ phase = "handshaking" /\ Chain[at] = step /\ fromServer' = <<>>
      /\ UNCHANGED <<attempt, publishedOn, toServer, server>>
      /\ fromServer # <<>> \/ toServer = <<>>
  BY ReadAll DEF Receive, AtStep
<1>2. CASE ok
  BY <1>1, <1>2, PassStep DEF Receive, Advance
<1>3. CASE ~ok
  <2>1. (\A i \in 1..Len(fromServer') : fromServer'[i].fits = TRUE) /\ LimitTold'
    BY <1>1 DEF LimitTold
  <2>. QED  BY <1>1, <1>3, <2>1, FailStep DEF Receive, Fail, server
<1>. QED  BY <1>2, <1>3

\* What was refused is among the replies, unless S0 or S2 tells of it.
LEMMA ErrorsTell ==
  ASSUME AzureCase, TypeOK, AzureInv, NEW n \in ReadSizes, phase = "handshaking",
         Chain[at] \in {"ReceiveConnect", "ReceiveRelease", "ReceiveFCPublish", "ReceiveCreate"}
  PROVE  Errors(n) = {} <=> refused = {}
  BY ReadAll DEF AzureInv, RefusalsUnread, StreamKnown

LEMMA ReceiveS0S1Step == AzureCase /\ TypeOK /\ AzureInv /\ ReceiveS0S1 => AzureInv'
<1>. SUFFICES ASSUME AzureCase, TypeOK, AzureInv, ReceiveS0S1 PROVE AzureInv'
  OBVIOUS
<1>1. UNCHANGED streamID
  BY DEF ReceiveS0S1
<1>2. CASE fromServer = <<>>
  <2>1. ~open /\ Receive("ReceiveS0S1", 0, FALSE)
    BY <1>2 DEF ReceiveS0S1
  <2>2. fromServer' = <<>>
    BY <1>2, <2>1, SubSeqFacts DEF Receive, TypeOK
  <2>3. (\A i \in 1..Len(fromServer') : fromServer'[i].fits = TRUE) /\ LimitTold'
    BY <2>2 DEF LimitTold
  <2>. QED  BY <1>1, <2>1, <2>3, FailStep DEF Receive, Fail, AtStep, server
<1>3. CASE fromServer # <<>>
  <2>1. Receive("ReceiveS0S1", 1, Head(fromServer).name = "S0S1")
    BY <1>3 DEF ReceiveS0S1
  <2>2. /\ phase = "handshaking" /\ Chain[at] = "ReceiveS0S1" /\ Unread
        /\ UNCHANGED <<attempt, publishedOn, toServer, open, assigned, refused, limited>>
    BY <2>1 DEF Receive, AtStep, AzureInv, server
  <2>3. /\ Len(fromServer) = 3 /\ toServer = <<>> /\ Head(fromServer) = fromServer[1]
        /\ refused = {} <=> /\ fromServer[1].name = "S0S1"
                            /\ fromServer[2].name = "S2" /\ fromServer[3].name = "S2"
    BY <1>3, <2>2 DEF Unread
  <2>4. /\ Len(fromServer') = 2 /\ fromServer'[1] = fromServer[2] /\ fromServer'[2] = fromServer[3]
    BY <2>1, <2>3, SubSeqFacts DEF Receive, TypeOK
  <2>5. (\A i \in 1..Len(fromServer') : fromServer'[i].fits = TRUE) /\ LimitTold'
    BY <2>2, <2>3, <2>4 DEF AzureInv, LimitTold
  <2>6. CASE Head(fromServer).name = "S0S1"
    <3>1. at' = at + 1 /\ phase' = phase /\ Chain[at'] = "SendC2"
      BY <2>1, <2>2, <2>6, AzureSteps DEF Receive, Advance
    <3>2. refused = {} => NoError'
      BY <2>3, <2>4 DEF NoError
    <3>3. Unhandled' /\ Unread' /\ RefusalsUnread'
      BY <2>2, <2>3, <2>4, <2>6, <3>1, <3>2 DEF Unhandled, Unread, RefusalsUnread, StreamKnown
    <3>. QED  BY <1>1, <2>2, <2>5, <3>1, <3>3 DEF AzureInv, HealthySucceeds, StreamKnown
  <2>7. CASE Head(fromServer).name # "S0S1"
    BY <1>1, <2>1, <2>2, <2>3, <2>5, <2>7, FailStep DEF Receive, Fail
  <2>. QED  BY <2>6, <2>7
<1>. QED  BY <1>2, <1>3

LEMMA ReceiveCreateStep == AzureCase /\ TypeOK /\ AzureInv /\ ReceiveCreateStreamResponse => AzureInv'
<1>. SUFFICES ASSUME AzureCase, TypeOK, AzureInv, ReceiveCreateStreamResponse PROVE AzureInv'
  OBVIOUS
<1>. DEFINE results(n) == {i \in Parsed(n) : fromServer[i].name = "_result"}
            throws(n) == Errors(n) \union {i \in results(n) : fromServer[i].id = 0}
            taken(n) == {i \in results(n) : Untaken(n) = {} /\ \A j \in throws(n) : i < j}
            good(n) == n > 0 /\ throws(n) = {} /\ Untaken(n) = {}
<1>1. PICK n \in ReadSizes :
        /\ Receive("ReceiveCreate", n, good(n))
        /\ \/ taken(n) = {} /\ UNCHANGED streamID
           \/ \E last \in taken(n) : streamID' = fromServer[last].id
  BY Zenon DEF ReceiveCreateStreamResponse
<1>2. /\ phase = "handshaking" /\ Chain[at] = "ReceiveCreate" /\ fromServer' = <<>> /\ Unread
      /\ UNCHANGED <<attempt, publishedOn, toServer, server>>
      /\ n = Len(fromServer) /\ Parsed(n) = 1..n
      /\ fromServer # <<>> \/ toServer = <<>>
      /\ n = 0 => ~open
      /\ ~limited => Untaken(n) = {}
  BY <1>1, ReadAll DEF Receive, AtStep, AzureInv
<1>3. /\ attempt # 0
      /\ \A i \in 1..n : \/ fromServer[i].name = "_error"
                         \/ /\ fromServer[i].name = "_result"
                            /\ fromServer[i].id = attempt /\ assigned = attempt
  BY <1>2 DEF Unread, TypeOK
<1>4. throws(n) = Errors(n)
  BY <1>2, <1>3 DEF Errors
<1>5. Errors(n) = {} <=> refused = {}
  BY <1>1, <1>2, ErrorsTell
<1>6. CASE good(n)
  <2>1. 1 \in 1..n /\ \A i \in 1..n : fromServer[i].name # "_error"
    BY <1>2, <1>4, <1>6 DEF Errors
  <2>2. taken(n) = 1..n
    BY <1>2, <1>3, <1>6, <2>1
  <2>3. streamID' = assigned
    BY <1>1, <1>3, <2>1, <2>2
  <2>4. at' = at + 1 /\ phase' = phase
    BY <1>1, <1>6 DEF Receive, Advance
  <2>. QED  BY <1>2, <1>4, <1>5, <1>6, <2>3, <2>4, PassStep DEF Receives
<1>7. CASE ~good(n)
  <2>1. phase' = "failed" /\ UNCHANGED at
    BY <1>1, <1>7 DEF Receive, Fail
  <2>2. open => refused # {} \/ limited
    BY <1>2, <1>4, <1>5, <1>7 DEF TypeOK
  <2>3. (\A i \in 1..Len(fromServer') : fromServer'[i].fits = TRUE) /\ LimitTold'
    BY <1>2 DEF LimitTold
  <2>. QED  BY <1>2, <2>1, <2>2, <2>3, FailStep DEF server
<1>. QED  BY <1>6, <1>7

LEMMA MessengerStep == AzureCase /\ TypeOK /\ AzureInv /\ Messenger => AzureInv'
<1>. SUFFICES ASSUME AzureCase, TypeOK, AzureInv, Messenger PROVE AzureInv'
  OBVIOUS
<1>1. CASE \/ SendC0C1 \/ SendC2 \/ SendConnect \/ SendReleaseStream \/ SendFCPublish
           \/ SendCreateStream \/ SendPublishStream \/ SendSetDataFrame \/ SendSetChunkSize
  BY <1>1, SendStep DEF SendC0C1, SendC2, SendConnect, SendReleaseStream, SendFCPublish,
     SendCreateStream, SendPublishStream, SendSetDataFrame, SendSetChunkSize
<1>2. CASE ReceiveS0S1
  BY <1>2, ReceiveS0S1Step
<1>3. CASE ReceiveS2
  <2>. DEFINE good(n) == n >= 2 /\ \A i \in 1..n : fromServer[i].name = "S2"
  <2>1. PICK n \in ReadSizes : Receive("ReceiveS2", n, good(n)) /\ UNCHANGED streamID
    BY <1>3, Zenon DEF ReceiveS2
  <2>2. phase = "handshaking" /\ Chain[at] = "ReceiveS2" /\ Unread
    BY <2>1 DEF Receive, AtStep, AzureInv
  <2>3. n = 2 /\ (refused = {} <=> fromServer[1].name = "S2" /\ fromServer[2].name = "S2")
    BY <2>1, <2>2, ReadAll DEF Unread
  <2>4. good(n) <=> refused = {}
    BY <2>3
  <2>5. good(n) \in BOOLEAN /\ "ReceiveS2" \in Receives \ {"ReceiveS0S1", "ReceiveCreate"}
    BY DEF Receives
  <2>. HIDE DEF good
  <2>. QED  BY <2>1, <2>4, <2>5, ReadStep
<1>4. CASE \/ ReceiveConnectResponse \/ ReceiveReleaseStreamResponse
           \/ ReceiveFCPublishResponse \/ ReceivePublishStreamResponse
  <2>1. PICK step \in {"ReceiveConnect", "ReceiveRelease", "ReceiveFCPublish", "ReceivePublish"},
             n \in ReadSizes, ok \in BOOLEAN :
          /\ Receive(step, n, ok) /\ UNCHANGED streamID
          /\ ok => Errors(n) = {}
          /\ ~ok => Errors(n) # {} \/ Untaken(n) # {} \/ ~(n > 0)
    BY <1>4 DEF ReceiveConnectResponse, ReceiveReleaseStreamResponse, ReceiveFCPublishResponse,
       ReceivePublishStreamResponse, Fine
  <2>2. phase = "handshaking" /\ Chain[at] = step
    BY <2>1 DEF Receive, AtStep
  <2>3. step # "ReceivePublish" => (Errors(n) = {} <=> refused = {})
    BY <2>1, <2>2, ErrorsTell
  <2>4. (Errors(n) # {} => refused # {}) /\ (Untaken(n) # {} => limited)
    BY <2>1, <2>2, ReadAll DEF AzureInv, RefusalsUnread
  <2>5. ~(n > 0) => ~open
    BY <2>1, ReadAll DEF TypeOK
  <2>6. step \in Receives \ {"ReceiveS0S1", "ReceiveCreate"}
    BY <2>1 DEF Receives
  <2>. QED  BY <2>1, <2>3, <2>4, <2>5, <2>6, ReadStep
<1>5. CASE ReceiveCreateStreamResponse
  BY <1>5, ReceiveCreateStep
<1>6. CASE ReceiveThrows
  <2>1. (\A i \in 1..Len(fromServer') : fromServer'[i].fits = TRUE) /\ LimitTold'
    BY <1>6 DEF ReceiveThrows, server, wire, AzureInv, LimitTold
  <2>. QED  BY <1>6, <2>1, FailStep DEF ReceiveThrows, Fail, server, wire
<1>7. CASE HandshakeCompletes
  BY <1>7 DEF HandshakeCompletes, AtStep, server, wire, AzureInv, Unhandled, LimitTold,
     HealthySucceeds
<1>. QED  BY <1>1, <1>2, <1>3, <1>4, <1>5, <1>6, <1>7 DEF Messenger
----------------------------------------------------------------------------
(* The server's side.                                                           *)

\* Which commands the server may handle at which step of the chain.
LEMMA Answered ==
  ASSUME AzureCase, TypeOK, AzureInv, NEW command, Handles(command)
  PROVE  \/ command = "C0C1" /\ Chain[at] = "ReceiveS0S1" /\ toServer' = <<>>
         \/ command = "C2" /\ Chain[at] \in {"ReceiveS2", "SendConnect"} /\ toServer' = <<>>
         \/ command = "C2" /\ Chain[at] = "ReceiveConnect" /\ toServer' = <<"connect">>
         \/ command = "connect" /\ Chain[at] = "ReceiveConnect" /\ toServer' = <<>>
         \/ command = "releaseStream" /\ Chain[at] = "ReceiveRelease" /\ toServer' = <<>>
         \/ command = "FCPublish" /\ Chain[at] = "SendCreate" /\ toServer' = <<>>
         \/ /\ command = "FCPublish" /\ Chain[at] = "ReceiveFCPublish"
            /\ toServer' = <<"createStream">>
         \/ /\ command = "createStream" /\ Chain[at] \in {"ReceiveFCPublish", "ReceiveCreate"}
            /\ toServer' = <<>>
         \/ command = "publish" /\ Chain[at] = "ReceivePublish" /\ toServer' = <<>>
         \/ command = "setDataFrame" /\ Chain[at] = "SendSetChunkSize" /\ toServer' = <<>>
         \/ command = "setDataFrame" /\ Chain[at] = "Run" /\ toServer' = <<"setChunkSize">>
         \/ command = "setChunkSize" /\ Chain[at] = "Run" /\ toServer' = <<>>
<1>1. toServer # <<>> /\ command = Head(toServer) /\ toServer' = Tail(toServer) /\ Unhandled
  BY DEF Handles, AzureInv
<1>2. Chain[at] \in {"SendC0C1", "ReceiveS0S1", "SendC2", "ReceiveS2", "SendConnect",
                     "ReceiveConnect", "SendRelease", "ReceiveRelease", "SendFCPublish", "SendCreate",
                     "ReceiveFCPublish", "ReceiveCreate", "SendPublish", "ReceivePublish",
                     "SendSetDataFrame", "SendSetChunkSize", "Run"}
  <2>1. at \in 1..17 /\ Chain = AzureChain
    BY DEF AzureCase, TypeOK, Chain, AzureChain
  <2>. QED  BY <2>1 DEF AzureChain
<1>3. \/ toServer = <<"C0C1">> /\ Chain[at] = "ReceiveS0S1"
      \/ toServer = <<"C2">> /\ Chain[at] \in {"ReceiveS2", "SendConnect"}
      \/ toServer = <<"C2", "connect">> /\ Chain[at] = "ReceiveConnect"
      \/ toServer = <<"connect">> /\ Chain[at] = "ReceiveConnect"
      \/ toServer = <<"releaseStream">> /\ Chain[at] = "ReceiveRelease"
      \/ toServer = <<"FCPublish">> /\ Chain[at] = "SendCreate"
      \/ toServer = <<"FCPublish", "createStream">> /\ Chain[at] = "ReceiveFCPublish"
      \/ toServer = <<"createStream">> /\ Chain[at] \in {"ReceiveFCPublish", "ReceiveCreate"}
      \/ toServer = <<"publish">> /\ Chain[at] = "ReceivePublish"
      \/ toServer = <<"setDataFrame">> /\ Chain[at] = "SendSetChunkSize"
      \/ toServer = <<"setDataFrame", "setChunkSize">> /\ Chain[at] = "Run"
      \/ toServer = <<"setChunkSize">> /\ Chain[at] = "Run"
  BY <1>1, <1>2 DEF Unhandled
<1>4. ASSUME NEW a, toServer = <<a>> PROVE command = a /\ toServer' = <<>>
  BY <1>1, <1>4, OneCommand
<1>5. ASSUME NEW a, NEW b, toServer = <<a, b>> PROVE command = a /\ toServer' = <<b>>
  BY <1>1, <1>5, TwoCommands
<1>. QED  BY <1>3, <1>4, <1>5

\* The server handles a command. What the client may not have read stays as Unread has it.
LEMMA AnswerStep ==
  ASSUME AzureCase, TypeOK, AzureInv, NEW command \in Commands, Handles(command),
         NEW replies \in Seq(Messages), fromServer' = fromServer \o replies,
         Grants(command, replies) \/ Refuses(command, replies)
  PROVE  AzureInv'
<1>1. /\ UNCHANGED <<at, phase, attempt, streamID, publishedOn>> /\ open /\ open'
      /\ Unhandled /\ fromServer \in Seq(Messages) /\ toServer # <<>>
  BY DEF Handles, AzureInv, client, TypeOK
<1>2. Arrive(replies) /\ Answers(command, replies) /\ (limited => limited') /\ LimitTold'
  BY AnswerFacts DEF AzureCase, AzureInv
<1>5. \A i \in 1..Len(fromServer') : fromServer'[i].fits = TRUE
  BY <1>2 DEF AzureInv, Arrive
<1>6. Unhandled'
  BY <1>1, Answered DEF Unhandled
<1>7. Chain[at'] \in StreamKnown => streamID' = assigned' /\ refused' \subseteq {"publish"}
  <2>1. /\ command # "createStream" => assigned' = assigned
        /\ \/ refused' = refused
           \/ command \in Refusable /\ refused' = refused \union {command}
    BY Zenon DEF Grants, Refuses
  <2>2. Chain[at] \in StreamKnown => command \in {"publish", "setDataFrame", "setChunkSize"}
    BY Answered DEF StreamKnown
  <2>. QED  BY <1>1, <2>1, <2>2 DEF AzureInv, StreamKnown, Refusable
<1>8. publishedOn' # -1 => Chain[at'] \in StreamKnown /\ publishedOn' = streamID'
  BY <1>1 DEF AzureInv
<1>9. HealthySucceeds'
  <2>1. refused' = {} => refused = {}
    BY DEF Grants, Refuses
  <2>. QED  BY <1>1, <1>2, <2>1 DEF AzureInv, HealthySucceeds
<1>10. ASSUME phase = "handshaking" PROVE Unread' /\ RefusalsUnread'
  <2>1. Unread /\ RefusalsUnread
    BY <1>10 DEF AzureInv
  <2>2. CASE command = "C0C1"
    <3>1. Chain[at] = "ReceiveS0S1" /\ toServer' = <<>> /\ fromServer = <<>> /\ refused = {}
      BY <1>1, <2>1, <2>2, Answered DEF Unread
    <3>2. /\ Len(fromServer') = 3 /\ NoError'
          /\ refused' = {} <=> /\ fromServer'[1].name = "S0S1"
                              /\ fromServer'[2].name = "S2" /\ fromServer'[3].name = "S2"
      BY <1>2, <2>2, <3>1, HandshakeAnswered
    <3>. QED  BY <1>1, <3>1, <3>2 DEF Unread, RefusalsUnread, StreamKnown
  <2>3. CASE command \in {"C2", "setDataFrame", "setChunkSize"}
    <3>1. replies = <<>> /\ UNCHANGED <<refused, assigned>>
      BY <1>2, <2>3 DEF Refusable, Answers
    <3>2. fromServer' = fromServer
      BY <1>1, <3>1
    <3>. QED  BY <1>1, <2>1, <2>3, <3>1, <3>2, Answered
              DEF Unread, RefusalsUnread, NoError, StreamKnown
  <2>4. CASE command \notin {"C0C1", "C2", "setDataFrame", "setChunkSize"}
    <3>1. NoError' <=> NoError /\ \A i \in 1..Len(replies) : replies[i].name # "_error"
      BY <1>2 DEF Arrive
    <3>2. RefusalsUnread'
      <4>1. CASE UNCHANGED refused
        BY <1>1, <1>2, <2>1, <2>4, <3>1, <4>1 DEF RefusalsUnread, Refusable, Answers
      <4>2. CASE refused' = refused \union {command} /\ refused' # refused
        <5>1. command \notin {"publish"} => ~NoError'
          BY <1>2, <2>4, <3>1, <4>2 DEF Answers
        <5>2. command = "publish" => Chain[at'] \in StreamKnown
          BY <1>1, Answered DEF StreamKnown
        <5>. QED  BY <4>2, <5>1, <5>2 DEF RefusalsUnread
      <4>. QED  BY <1>2, <4>1, <4>2 DEF Answers
    <3>3. Unread'
      <4>1. CASE command # "createStream"
        <5>1. <<"createStream">> # <<"FCPublish", "createStream">>
          BY Lengths
        <5>. QED  BY <1>1, <2>4, <4>1, <5>1, Answered DEF Unread
      <4>2. CASE command = "createStream" /\ Chain[at] = "ReceiveFCPublish"
        <5>1. <<>> # <<"FCPublish", "createStream">>
          BY Lengths
        <5>. QED  BY <1>1, <4>2, <5>1, Answered DEF Unread
      <4>3. CASE command = "createStream" /\ Chain[at] = "ReceiveCreate"
        <5>1. toServer' = <<>> /\ fromServer = <<>>
          BY <1>1, <2>1, <4>3, Answered DEF Unread
        <5>2. Len(fromServer) = 0
          BY <5>1
        <5>3. \A i \in 1..Len(fromServer') : \E j \in 1..Len(replies) : fromServer'[i] = replies[j]
          BY <1>2, <5>2 DEF Arrive
        <5>4. Len(replies) = 1
          BY <1>2, <4>3 DEF Answers, Refusable
        <5>5. \/ replies[1].name = "_error"
              \/ replies[1].name = "_result" /\ replies[1].id = attempt /\ assigned' = attempt
          BY <1>2, <4>3 DEF Answers, Refusable
        <5>. QED  BY <1>1, <4>3, <5>1, <5>3, <5>4, <5>5 DEF Unread
      <4>. QED  BY <4>1, <4>2, <4>3, Answered
    <3>. QED  BY <3>2, <3>3
  <2>. QED  BY <2>2, <2>3, <2>4
<1>. QED  BY <1>1, <1>2, <1>5, <1>6, <1>7, <1>8, <1>9, <1>10 DEF AzureInv

LEMMA GrantStep ==
  ASSUME TypeOK, Grant
  PROVE  \E command \in Commands, replies \in Seq(Messages) :
           Handles(command) /\ fromServer' = fromServer \o replies /\ Grants(command, replies)
<1>1. PICK command \in Commands, hard \in {FALSE, HardLimits} :
        /\ Handles(command) /\ fromServer' = fromServer \o Granted(command, hard)
        /\ limited' = (limited \/ hard)
        /\ assigned' = IF command = "createStream" THEN attempt ELSE assigned
        /\ UNCHANGED refused
  BY Zenon DEF Grant
<1>2. hard \in BOOLEAN
  BY ServerAssumption
<1>3. Granted(command, hard) \in Seq(Messages)
  BY <1>2, RepliesType
<1>4. Grants(command, Granted(command, hard))
  BY <1>1, <1>2, Zenon DEF Grants
<1>. QED  BY <1>1, <1>3, <1>4

LEMMA RefuseStep ==
  ASSUME TypeOK, Refuse
  PROVE  \E command \in Commands, replies \in Seq(Messages) :
           Handles(command) /\ fromServer' = fromServer \o replies /\ Refuses(command, replies)
<1>1. MayRefuse \subseteq Refusable /\ Refusable \subseteq Commands
  BY ServerAssumption DEF Refusable
<1>2. PICK command \in MayRefuse :
        /\ Handles(command) /\ refused' = refused \union {command}
        /\ UNCHANGED <<assigned, limited>>
        /\ \E replies \in Refusals(command) : fromServer' = fromServer \o replies
  BY DEF Refuse
<1>3. PICK replies \in Refusals(command) : fromServer' = fromServer \o replies
  BY <1>2
<1>4. command \in Commands /\ command \in Refusable /\ replies \in Seq(Messages)
  BY <1>1, <1>3, RepliesType
<1>. QED  BY <1>2, <1>3, <1>4 DEF Refuses

LEMMA ServerStep ==
  AzureCase /\ TypeOK /\ AzureInv /\ (Grant \/ Refuse \/ CloseConnection) => AzureInv'
<1>. SUFFICES ASSUME AzureCase, TypeOK, AzureInv, Grant \/ Refuse \/ CloseConnection
              PROVE  AzureInv'
  OBVIOUS
<1>1. CASE Grant
  BY <1>1, GrantStep, AnswerStep
<1>2. CASE Refuse
  BY <1>2, RefuseStep, AnswerStep
<1>3. CASE CloseConnection
  <2>1. /\ ~open' /\ toServer' = <<>>
        /\ UNCHANGED <<at, phase, attempt, streamID, publishedOn, fromServer, assigned, refused,
                       limited>>
    BY <1>3 DEF CloseConnection, client
  <2>2. <<>> # <<"FCPublish", "createStream">>
    BY Lengths
  <2>3. Unhandled'
    BY <2>1 DEF Unhandled
  <2>4. phase = "handshaking" => Unread' /\ RefusalsUnread'
    BY <2>1, <2>2 DEF AzureInv, Unread, RefusalsUnread, NoError
  <2>. QED  BY <2>1, <2>3, <2>4 DEF AzureInv, LimitTold, HealthySucceeds
<1>. QED  BY <1>1, <1>2, <1>3

LEMMA AzureStep == AzureCase /\ TypeOK /\ AzureInv /\ [Next]_vars => AzureInv'
<1>. SUFFICES ASSUME AzureCase, TypeOK, AzureInv, [Next]_vars PROVE AzureInv'
  OBVIOUS
<1>1. CASE UNCHANGED vars
  BY <1>1 DEF vars, client, server, wire, AzureInv, Unhandled, Unread, RefusalsUnread, NoError,
     LimitTold, HealthySucceeds
<1>2. CASE ConnectAsync
  <2>1. /\ Chain[at'] = "SendC0C1" /\ toServer' = <<>> /\ fromServer' = <<>> /\ refused' = {}
        /\ phase' = "handshaking" /\ publishedOn' = -1
    BY <1>2, ChainFacts DEF ConnectAsync
  <2>2. Len(fromServer') = 0
    BY <2>1
  <2>. QED  BY <2>1, <2>2 DEF AzureInv, Unhandled, Unread, RefusalsUnread, NoError, StreamKnown,
               LimitTold, HealthySucceeds
<1>. QED  BY <1>1, <1>2, MessengerStep, ServerStep DEF Next

LEMMA AzureInit == Init => AzureInv
<1>. SUFFICES ASSUME Init PROVE AzureInv
  OBVIOUS
<1>1. Chain[at] = "SendC0C1" /\ Len(fromServer) = 0
  BY ChainFacts DEF Init
<1>. QED  BY <1>1 DEF Init, AzureInv, Unhandled, Unread, RefusalsUnread, NoError, StreamKnown,
             LimitTold, HealthySucceeds

\* The inductive invariant of the Azure chain.
THEOREM AzureInvariance == ASSUME AzureCase PROVE Spec => []IInv
<1>1. AzureCase /\ TypeOK /\ AzureInv /\ [Next]_vars => AzureInv'
  BY AzureStep
<1>2. AzureCase
  OBVIOUS
<1>. QED  BY <1>1, <1>2, AzureInit, TypeCorrect, PTL DEF Spec, IInv

\* On the Azure chain, if every read returns all that was sent so far: publish names the
\* stream that the server gave out on this very connection, however many attempts came
\* before it and whatever the server answered to them.
THEOREM PublishNamesItsStream == ASSUME AzureCase PROVE Spec => []StreamIdAssigned
<1>1. IInv => StreamIdAssigned
  BY DEF IInv, AzureInv, StreamIdAssigned
<1>. QED  BY <1>1, AzureInvariance, PTL

\* On the Azure chain, with such reads and refusals of one chunk: whatever the server
\* refused before publish, the handshake does not reach RTMP_RUNNING. Of publish it says
\* nothing: an onStatus is not looked into.
THEOREM RefusalNoticed == ASSUME AzureCase PROVE Spec => []RefusalFails
<1>1. IInv => RefusalFails
  BY DEF IInv, AzureInv, RefusalFails, StreamKnown
<1>. QED  BY <1>1, AzureInvariance, PTL

\* On the Azure chain, with such reads: no receive function throws on an open connection
\* to a server that granted everything and set no Hard limit of the bandwidth, so that no
\* order of replies and reads makes GetCaptureSinkAsync fail by itself.
THEOREM FailsForAReason == ASSUME AzureCase PROVE Spec => []HealthySucceeds
<1>1. IInv => HealthySucceeds
  BY DEF IInv, AzureInv
<1>. QED  BY <1>1, AzureInvariance, PTL
----------------------------------------------------------------------------
(* The Wowza chain.                                                             *)

LEMMA WowzaSteps ==
  ASSUME WowzaCase, TypeOK
  PROVE  /\ Chain[at] = "SendC0C1" => Chain[at + 1] = "ReceiveS0S1"
         /\ Chain[at] = "ReceiveS0S1" => Chain[at + 1] = "SendC2"
         /\ Chain[at] = "SendC2" => Chain[at + 1] = "ReceiveS2"
         /\ Chain[at] = "ReceiveS2" => Chain[at + 1] = "SendConnect"
         /\ Chain[at] = "SendConnect" => Chain[at + 1] = "ReceiveConnect"
         /\ Chain[at] = "ReceiveConnect" => Chain[at + 1] = "SendRelease"
         /\ Chain[at] = "SendRelease" => Chain[at + 1] = "SendFCPublish"
         /\ Chain[at] = "SendFCPublish" => Chain[at + 1] = "ReceiveFCPublish"
         /\ Chain[at] = "ReceiveFCPublish" => Chain[at + 1] = "SendCreate"
         /\ Chain[at] = "SendCreate" => Chain[at + 1] = "ReceiveCreate"
         /\ Chain[at] = "ReceiveCreate" => Chain[at + 1] = "SendPublish"
         /\ Chain[at] = "SendPublish" => Chain[at + 1] = "ReceivePublish"
         /\ Chain[at] = "ReceivePublish" => Chain[at + 1] = "SendSetDataFrame"
         /\ Chain[at] = "SendSetDataFrame" => Chain[at + 1] = "SendSetChunkSize"
         /\ Chain[at] = "SendSetChunkSize" => Chain[at + 1] = "Run"
         /\ Chain[at] \in {"SendC0C1", "ReceiveS0S1", "SendC2", "ReceiveS2", "SendConnect",
                           "ReceiveConnect", "SendRelease", "SendFCPublish", "ReceiveFCPublish",
                           "SendCreate", "ReceiveCreate", "SendPublish", "ReceivePublish",
                           "SendSetDataFrame", "SendSetChunkSize", "Run"}
<1>1. at \in 1..16 /\ Chain = WowzaChain
  BY DEF WowzaCase, TypeOK, Chain, WowzaChain
<1>. QED  BY <1>1 DEF WowzaChain

\* Up to three commands may be under way.
LEMMA ThreeCommands ==
  ASSUME NEW a, NEW b, NEW c
  PROVE  Append(<<a, b>>, c) = <<a, b, c>> /\ Tail(<<a, b, c>>) = <<b, c>>
<1>1. Append(<<a, b>>, c) = <<a, b, c>>
  <2>1. <<a, b>> \in Seq({a, b, c}) /\ <<a, b, c>> \in Seq({a, b, c}) /\ c \in {a, b, c}
    OBVIOUS
  <2>2. /\ Append(<<a, b>>, c) \in Seq({a, b, c}) /\ Len(Append(<<a, b>>, c)) = 3
        /\ Append(<<a, b>>, c)[1] = a /\ Append(<<a, b>>, c)[2] = b
        /\ Append(<<a, b>>, c)[3] = c
    BY <2>1, AppendProperties
  <2>3. Len(<<a, b, c>>) = 3 /\ <<a, b, c>>[1] = a /\ <<a, b, c>>[2] = b /\ <<a, b, c>>[3] = c
    OBVIOUS
  <2>4. \A i \in 1..Len(Append(<<a, b>>, c)) : Append(<<a, b>>, c)[i] = <<a, b, c>>[i]
    BY <2>2, <2>3
  <2>5. Len(Append(<<a, b>>, c)) = Len(<<a, b, c>>)
    BY <2>2, <2>3
  <2>. QED  BY <2>1, <2>2, <2>4, <2>5, SeqEqual, Zenon
<1>2. Tail(<<a, b, c>>) = <<b, c>>
  OBVIOUS
<1>. QED  BY <1>1, <1>2

\* Of two commands under way none is answered.
LEMMA UnderWay ==
  ASSUME NEW a, NEW b
  PROVE  Len(<<>>) < 2 /\ Len(<<a>>) < 2 /\ ~(Len(<<a, b>>) < 2) /\ <<a>> # <<>> /\ <<a, b>> # <<>>
<1>1. Len(<<a>>) = 1 /\ Len(<<a, b>>) = 2 /\ Len(<<>>) = 0
  OBVIOUS
<1>. QED  BY <1>1

LEMMA WowzaSend ==
  ASSUME WowzaCase, TypeOK, WowzaInv, NEW step, NEW command, Send(step, command),
         \/ step = "SendC0C1" /\ command = "C0C1"
         \/ step = "SendC2" /\ command = "C2"
         \/ step = "SendConnect" /\ command = "connect"
         \/ step = "SendRelease" /\ command = "releaseStream"
         \/ step = "SendFCPublish" /\ command = "FCPublish"
         \/ step = "SendCreate" /\ command = "createStream"
         \/ step = "SendPublish" /\ command = "publish"
         \/ step = "SendSetDataFrame" /\ command = "setDataFrame"
         \/ step = "SendSetChunkSize" /\ command = "setChunkSize"
  PROVE  WowzaInv'
<1>1. /\ phase = "handshaking" /\ Chain[at] = step
      /\ WowzaUnread /\ WowzaRefusalsUnread /\ WowzaUnhandled
      /\ UNCHANGED <<fromServer, open, refused, limited>>
      /\ LimitTold'
  BY DEF Send, AtStep, WowzaInv, server, LimitTold
<1>2. CASE Fail /\ ~open /\ UNCHANGED toServer
  <2>1. UNCHANGED at /\ phase' = "failed" /\ ~open'
    BY <1>1, <1>2 DEF Fail
  <2>2. WowzaUnhandled'
    BY <1>1, <1>2, <2>1 DEF WowzaUnhandled
  <2>. QED  BY <1>1, <1>2, <2>1, <2>2 DEF WowzaInv, HealthySucceeds
<1>3. CASE Advance /\ toServer' \in {toServer, Append(toServer, command)}
  <2>1. at' = at + 1 /\ phase' = "handshaking"
    BY <1>1, <1>3 DEF Advance
  <2>2. ~open => toServer = <<>> /\ toServer' = toServer
    BY <1>1 DEF Send, WowzaUnhandled
  <2>3. WowzaUnhandled'
    <3>1. \/ toServer' = <<>>
          \/ toServer = <<>> /\ toServer' = <<command>>
          \/ step = "SendConnect" /\ toServer' = <<"C2", "connect">>
          \/ step = "SendFCPublish" /\ toServer' = <<"releaseStream", "FCPublish">>
          \/ step = "SendCreate" /\ toServer' = <<"FCPublish", "createStream">>
          \/ step = "SendPublish" /\ toServer' = <<"createStream", "publish">>
          \/ step = "SendSetDataFrame" /\ toServer' = <<"publish", "setDataFrame">>
          \/ step = "SendSetChunkSize" /\ toServer' = <<"setDataFrame", "setChunkSize">>
          \/ step = "SendSetChunkSize" /\ toServer' = <<"publish", "setDataFrame", "setChunkSize">>
      <4>1. toServer' = <<>> \/ toServer' = Append(toServer, command)
        BY <1>3, <2>2 DEF Send
      <4>2. CASE toServer = <<>>
        BY <4>1, <4>2, OneCommand
      <4>3. CASE toServer # <<>>
        <5>1. \/ step = "SendConnect" /\ command = "connect" /\ toServer = <<"C2">>
              \/ step = "SendFCPublish" /\ command = "FCPublish" /\ toServer = <<"releaseStream">>
              \/ step = "SendCreate" /\ command = "createStream" /\ toServer = <<"FCPublish">>
              \/ step = "SendPublish" /\ command = "publish" /\ toServer = <<"createStream">>
              \/ step = "SendSetDataFrame" /\ command = "setDataFrame" /\ toServer = <<"publish">>
              \/ /\ step = "SendSetChunkSize" /\ command = "setChunkSize"
                 /\ toServer \in {<<"setDataFrame">>, <<"publish", "setDataFrame">>}
          BY <1>1, <4>3, Zenon DEF WowzaUnhandled
        <5>2. ASSUME NEW a, toServer = <<a>> PROVE toServer' \in {<<>>, <<a, command>>}
          BY <4>1, <5>2, TwoCommands
        <5>3. ASSUME NEW a, NEW b, toServer = <<a, b>> PROVE toServer' \in {<<>>, <<a, b, command>>}
          BY <4>1, <5>3, ThreeCommands
        <5>. QED  BY <5>1, <5>2, <5>3
      <4>. QED  BY <4>2, <4>3
    <3>2. UNCHANGED open
      BY <1>1
    <3>. QED  BY <1>1, <2>1, <2>2, <3>1, <3>2, WowzaSteps DEF WowzaUnhandled
  <2>4. WowzaUnread'
    <3>1. CASE fromServer = <<>>
      <4>1. Len(fromServer) = 0
        BY <3>1
      <4>2. step # "SendC2"
        BY <1>1, <4>1 DEF WowzaUnread
      <4>3. step = "SendC0C1" => refused = {}
        BY <1>1 DEF WowzaUnread
      <4>. QED  BY <1>1, <2>1, <3>1, <4>1, <4>2, <4>3, WowzaSteps DEF WowzaUnread
    <3>2. CASE fromServer # <<>>
      <4>1. CASE step = "SendC2"
        BY <1>1, <2>1, <4>1, WowzaSteps DEF WowzaUnread
      <4>2. CASE step \in {"SendFCPublish", "SendCreate", "SendPublish"}
        <5>1. toServer = <<>>
          BY <1>1, <3>2, <4>2 DEF WowzaUnread
        <5>2. toServer' \in {<<>>, <<command>>}
          BY <1>3, <5>1, OneCommand
        <5>3. Len(toServer') < 2
          BY <5>2, UnderWay
        <5>4. step = "SendCreate" =>
                \A i \in 1..Len(fromServer) :
                  fromServer[i].name = "_result" => fromServer[i].id # 0
          BY <1>1 DEF WowzaUnread
        <5>5. Chain[at'] \in {"ReceiveFCPublish", "ReceiveCreate", "ReceivePublish"}
              /\ (Chain[at'] = "ReceiveCreate" => step = "SendCreate")
          BY <1>1, <2>1, <4>2, WowzaSteps
        <5>6. fromServer' = fromServer
          BY <1>1
        <5>. QED  BY <5>3, <5>4, <5>5, <5>6 DEF WowzaUnread
      <4>3. CASE step \in {"SendSetDataFrame", "SendSetChunkSize"}
        BY <1>1, <2>1, <4>3, WowzaSteps DEF WowzaUnread
      <4>. QED  BY <1>1, <3>2, <4>1, <4>2, <4>3 DEF WowzaUnread
    <3>. QED  BY <3>1, <3>2
  <2>5. WowzaRefusalsUnread'
    BY <1>1, <2>1, WowzaSteps DEF WowzaRefusalsUnread, NoError, Published
  <2>6. Chain[at'] \in Published => refused' \subseteq {"publish"}
    BY <1>1, <2>1, WowzaSteps DEF WowzaInv, Published
  <2>. QED  BY <1>1, <2>1, <2>3, <2>4, <2>5, <2>6 DEF WowzaInv, HealthySucceeds
<1>. QED  BY <1>2, <1>3 DEF Send

LEMMA WowzaReadAll ==
  ASSUME WowzaCase, TypeOK, WowzaInv, NEW n \in ReadSizes
  PROVE  /\ n = Len(fromServer) /\ (n = 0 <=> fromServer = <<>>)
         /\ n = 0 => ~open /\ toServer = <<>>
         /\ SubSeq(fromServer, n + 1, Len(fromServer)) = <<>>
         /\ Parsed(n) = 1..n
         /\ Errors(n) = {} <=> NoError
         /\ ~limited => Untaken(n) = {}
  BY WholeRead DEF WowzaCase, WowzaInv, WowzaUnhandled

LEMMA WowzaFailStep ==
  ASSUME WowzaInv, phase' = "failed", UNCHANGED <<at, toServer, open, refused, limited>>,
         \A i \in 1..Len(fromServer') : fromServer'[i].fits = TRUE, LimitTold',
         open => refused # {} \/ limited
  PROVE  WowzaInv'
<1>1. WowzaUnhandled'
  BY DEF WowzaInv, WowzaUnhandled
<1>. QED  BY <1>1 DEF WowzaInv, HealthySucceeds

\* A receive function that is content has read a reply to the older command at least.
LEMMA WowzaPass ==
  ASSUME WowzaCase, TypeOK, WowzaInv, phase = "handshaking",
         Chain[at] \in Receives \ {"ReceiveS0S1"},
         at' = at + 1, phase' = phase, fromServer' = <<>>, UNCHANGED <<toServer, open, refused, limited>>,
         fromServer # <<>> \/ toServer = <<>>, refused \subseteq {"publish"}
  PROVE  WowzaInv'
<1>1. WowzaUnhandled /\ WowzaUnread
  BY DEF WowzaInv
<1>2. Len(fromServer') = 0
  OBVIOUS
<1>3. WowzaUnhandled'
  <2>1. Chain[at] = "ReceiveConnect" => toServer' = <<>>
    BY <1>1 DEF WowzaUnread
  <2>2. Chain[at] = "ReceiveS2" => toServer' \in {<<>>, <<"C2">>}
    BY <1>1 DEF WowzaUnhandled
  <2>3. /\ Chain[at] = "ReceiveFCPublish" => toServer' \in {<<>>, <<"FCPublish">>}
        /\ Chain[at] = "ReceiveCreate" => toServer' \in {<<>>, <<"createStream">>}
        /\ Chain[at] = "ReceivePublish" => toServer' \in {<<>>, <<"publish">>}
    <3>1. Chain[at] \in {"ReceiveFCPublish", "ReceiveCreate", "ReceivePublish"} =>
            toServer = <<>> \/ Len(toServer) < 2
      BY <1>1 DEF WowzaUnread
    <3>. QED  BY <1>1, <3>1, UnderWay DEF WowzaUnhandled
  <2>4. ~open' => toServer' = <<>>
    BY <1>1 DEF WowzaUnhandled
  <2>. QED  BY <2>1, <2>2, <2>3, <2>4, WowzaSteps DEF WowzaUnhandled, Receives
<1>4. WowzaUnread' /\ WowzaRefusalsUnread'
  BY <1>1, <1>2, WowzaSteps DEF WowzaUnread, WowzaRefusalsUnread, NoError, Receives
<1>5. LimitTold'
  BY <1>2 DEF LimitTold
<1>. QED  BY <1>2, <1>3, <1>4, <1>5 DEF WowzaInv, HealthySucceeds

LEMMA WowzaRead ==
  ASSUME WowzaCase, TypeOK, WowzaInv, NEW step \in Receives \ {"ReceiveS0S1"},
         NEW n \in ReadSizes, NEW ok \in BOOLEAN, Receive(step, n, ok),
         ~ok => refused # {} \/ limited \/ ~open,
         ok => refused \subseteq {"publish"}
  PROVE  WowzaInv'
<1>1. /\ phase = "handshaking" /\ Chain[at] = step /\ fromServer' = <<>>
      /\ UNCHANGED <<toServer, open, refused, limited>>
      /\ fromServer # <<>> \/ toServer = <<>>
  BY WowzaReadAll DEF Receive, AtStep, server
<1>2. CASE ok
  BY <1>1, <1>2, WowzaPass DEF Receive, Advance
<1>3. CASE ~ok
  <2>1. (\A i \in 1..Len(fromServer') : fromServer'[i].fits = TRUE) /\ LimitTold'
    BY <1>1 DEF LimitTold
  <2>. QED  BY <1>1, <1>3, <2>1, WowzaFailStep DEF Receive, Fail
<1>. QED  BY <1>2, <1>3

LEMMA WowzaReceiveS0S1 == WowzaCase /\ TypeOK /\ WowzaInv /\ ReceiveS0S1 => WowzaInv'
<1>. SUFFICES ASSUME WowzaCase, TypeOK, WowzaInv, ReceiveS0S1 PROVE WowzaInv'
  OBVIOUS
<1>1. CASE fromServer = <<>>
  <2>1. ~open /\ Receive("ReceiveS0S1", 0, FALSE)
    BY <1>1 DEF ReceiveS0S1
  <2>2. fromServer' = <<>>
    BY <1>1, <2>1, SubSeqFacts DEF Receive, TypeOK
  <2>3. (\A i \in 1..Len(fromServer') : fromServer'[i].fits = TRUE) /\ LimitTold'
    BY <2>2 DEF LimitTold
  <2>. QED  BY <2>1, <2>3, WowzaFailStep DEF Receive, Fail, server
<1>2. CASE fromServer # <<>>
  <2>1. Receive("ReceiveS0S1", 1, Head(fromServer).name = "S0S1")
    BY <1>2 DEF ReceiveS0S1
  <2>2. /\ phase = "handshaking" /\ Chain[at] = "ReceiveS0S1" /\ WowzaUnread
        /\ UNCHANGED <<toServer, open, refused, limited>>
    BY <2>1 DEF Receive, AtStep, WowzaInv, server
  <2>3. /\ Len(fromServer) = 3 /\ toServer = <<>> /\ Head(fromServer) = fromServer[1]
        /\ refused = {} <=> /\ fromServer[1].name = "S0S1"
                            /\ fromServer[2].name = "S2" /\ fromServer[3].name = "S2"
    BY <1>2, <2>2 DEF WowzaUnread
  <2>4. /\ Len(fromServer') = 2 /\ fromServer'[1] = fromServer[2] /\ fromServer'[2] = fromServer[3]
    BY <2>1, <2>3, SubSeqFacts DEF Receive, TypeOK
  <2>5. (\A i \in 1..Len(fromServer') : fromServer'[i].fits = TRUE) /\ LimitTold'
    BY <2>2, <2>3, <2>4 DEF WowzaInv, LimitTold
  <2>6. CASE Head(fromServer).name = "S0S1"
    <3>1. at' = at + 1 /\ phase' = phase /\ Chain[at'] = "SendC2"
      BY <2>1, <2>2, <2>6, WowzaSteps DEF Receive, Advance
    <3>2. refused = {} => NoError'
      BY <2>3, <2>4 DEF NoError
    <3>3. WowzaUnhandled' /\ WowzaUnread' /\ WowzaRefusalsUnread'
      BY <2>2, <2>3, <2>4, <2>6, <3>1, <3>2
         DEF WowzaUnhandled, WowzaUnread, WowzaRefusalsUnread
    <3>. QED  BY <2>2, <2>5, <3>1, <3>3 DEF WowzaInv, HealthySucceeds, Published
  <2>7. CASE Head(fromServer).name # "S0S1"
    BY <2>1, <2>2, <2>3, <2>5, <2>7, WowzaFailStep DEF Receive, Fail
  <2>. QED  BY <2>6, <2>7
<1>. QED  BY <1>1, <1>2

LEMMA WowzaMessenger == WowzaCase /\ TypeOK /\ WowzaInv /\ Messenger => WowzaInv'
<1>. SUFFICES ASSUME WowzaCase, TypeOK, WowzaInv, Messenger PROVE WowzaInv'
  OBVIOUS
<1>1. CASE \/ SendC0C1 \/ SendC2 \/ SendConnect \/ SendReleaseStream \/ SendFCPublish
           \/ SendCreateStream \/ SendPublishStream \/ SendSetDataFrame \/ SendSetChunkSize
  BY <1>1, WowzaSend DEF SendC0C1, SendC2, SendConnect, SendReleaseStream, SendFCPublish,
     SendCreateStream, SendPublishStream, SendSetDataFrame, SendSetChunkSize
<1>2. CASE ReceiveS0S1
  BY <1>2, WowzaReceiveS0S1
<1>3. CASE ReceiveS2
  <2>. DEFINE good(n) == n >= 2 /\ \A i \in 1..n : fromServer[i].name = "S2"
  <2>1. PICK n \in ReadSizes : Receive("ReceiveS2", n, good(n))
    BY <1>3, Zenon DEF ReceiveS2
  <2>2. phase = "handshaking" /\ Chain[at] = "ReceiveS2" /\ WowzaUnread
    BY <2>1 DEF Receive, AtStep, WowzaInv
  <2>3. n = 2 /\ (refused = {} <=> fromServer[1].name = "S2" /\ fromServer[2].name = "S2")
    BY <2>1, <2>2, WowzaReadAll DEF WowzaUnread
  <2>4. good(n) <=> refused = {}
    BY <2>3
  <2>5. good(n) \in BOOLEAN /\ "ReceiveS2" \in Receives \ {"ReceiveS0S1"}
    BY DEF Receives
  <2>. HIDE DEF good
  <2>. QED  BY <2>1, <2>4, <2>5, WowzaRead
<1>4. CASE \/ ReceiveConnectResponse \/ ReceiveReleaseStreamResponse \/ ReceiveFCPublishResponse
           \/ ReceiveCreateStreamResponse \/ ReceivePublishStreamResponse
  <2>1. PICK step \in {"ReceiveConnect", "ReceiveRelease", "ReceiveFCPublish", "ReceiveCreate",
                       "ReceivePublish"}, n \in ReadSizes, ok \in BOOLEAN :
          /\ Receive(step, n, ok)
          /\ ok => Errors(n) = {}
          /\ ~ok => \/ Errors(n) # {} \/ Untaken(n) # {} \/ ~(n > 0)
                    \/ /\ step = "ReceiveCreate"
                       /\ \E i \in Parsed(n) : fromServer[i].name = "_result" /\ fromServer[i].id = 0
    <3>1. CASE ReceiveCreateStreamResponse
      <4>. DEFINE results(n) == {i \in Parsed(n) : fromServer[i].name = "_result"}
                  throws(n) == Errors(n) \union {i \in results(n) : fromServer[i].id = 0}
      <4>1. PICK n \in ReadSizes :
              Receive("ReceiveCreate", n, n > 0 /\ throws(n) = {} /\ Untaken(n) = {})
        BY <3>1, Zenon DEF ReceiveCreateStreamResponse
      <4>2. throws(n) = {} => Errors(n) = {}
        OBVIOUS
      <4>3. throws(n) # {} =>
              \/ Errors(n) # {}
              \/ \E i \in Parsed(n) : fromServer[i].name = "_result" /\ fromServer[i].id = 0
        OBVIOUS
      <4>4. (n > 0 /\ throws(n) = {} /\ Untaken(n) = {}) \in BOOLEAN
        OBVIOUS
      <4>. HIDE DEF throws
      <4>. QED  BY <4>1, <4>2, <4>3, <4>4
    <3>2. CASE \/ ReceiveConnectResponse \/ ReceiveReleaseStreamResponse
               \/ ReceiveFCPublishResponse \/ ReceivePublishStreamResponse
      BY <3>2 DEF ReceiveConnectResponse, ReceiveReleaseStreamResponse, ReceiveFCPublishResponse,
         ReceivePublishStreamResponse, Fine
    <3>. QED  BY <1>4, <3>1, <3>2
  <2>2. phase = "handshaking" /\ Chain[at] = step /\ WowzaUnread /\ WowzaRefusalsUnread
    BY <2>1 DEF Receive, AtStep, WowzaInv
  <2>3. ok => refused \subseteq {"publish"}
    BY <2>1, <2>2, WowzaReadAll DEF WowzaRefusalsUnread, Published
  <2>4. (Errors(n) # {} => refused # {}) /\ (Untaken(n) # {} => limited)
    BY <2>1, <2>2, WowzaReadAll DEF WowzaRefusalsUnread
  <2>5. ~(n > 0) => ~open
    BY <2>1, WowzaReadAll DEF TypeOK
  <2>6. step = "ReceiveCreate" =>
          ~ \E i \in Parsed(n) : fromServer[i].name = "_result" /\ fromServer[i].id = 0
    BY <2>1, <2>2, WowzaReadAll DEF WowzaUnread
  <2>7. step \in Receives \ {"ReceiveS0S1"}
    BY <2>1 DEF Receives
  <2>. QED  BY <2>1, <2>3, <2>4, <2>5, <2>6, <2>7, WowzaRead
<1>5. CASE ReceiveThrows
  <2>1. (\A i \in 1..Len(fromServer') : fromServer'[i].fits = TRUE) /\ LimitTold'
    BY <1>5 DEF ReceiveThrows, server, wire, WowzaInv, LimitTold
  <2>. QED  BY <1>5, <2>1, WowzaFailStep DEF ReceiveThrows, Fail, server, wire
<1>6. CASE HandshakeCompletes
  BY <1>6 DEF HandshakeCompletes, AtStep, server, wire, WowzaInv, WowzaUnhandled, LimitTold,
     HealthySucceeds
<1>. QED  BY <1>1, <1>2, <1>3, <1>4, <1>5, <1>6 DEF Messenger

\* Which commands the server may handle at which step of the chain.
LEMMA WowzaAnswered ==
  ASSUME WowzaCase, TypeOK, WowzaInv, NEW command, Handles(command)
  PROVE  \/ command = "C0C1" /\ Chain[at] = "ReceiveS0S1" /\ toServer' = <<>>
         \/ command = "C2" /\ Chain[at] \in {"ReceiveS2", "SendConnect"} /\ toServer' = <<>>
         \/ command = "C2" /\ Chain[at] = "ReceiveConnect" /\ toServer' = <<"connect">>
         \/ command = "connect" /\ Chain[at] = "ReceiveConnect" /\ toServer' = <<>>
         \/ command = "releaseStream" /\ Chain[at] = "SendFCPublish" /\ toServer' = <<>>
         \/ /\ command = "releaseStream" /\ Chain[at] = "ReceiveFCPublish"
            /\ toServer' = <<"FCPublish">>
         \/ /\ command = "FCPublish" /\ Chain[at] \in {"ReceiveFCPublish", "SendCreate"}
            /\ toServer' = <<>>
         \/ /\ command = "FCPublish" /\ Chain[at] = "ReceiveCreate"
            /\ toServer' = <<"createStream">>
         \/ /\ command = "createStream" /\ Chain[at] \in {"ReceiveCreate", "SendPublish"}
            /\ toServer' = <<>>
         \/ /\ command = "createStream" /\ Chain[at] = "ReceivePublish"
            /\ toServer' = <<"publish">>
         \/ /\ command = "publish" /\ Chain[at] \in {"ReceivePublish", "SendSetDataFrame"}
            /\ toServer' = <<>>
         \/ /\ command = "publish" /\ Chain[at] = "SendSetChunkSize"
            /\ toServer' = <<"setDataFrame">>
         \/ /\ command = "publish" /\ Chain[at] = "Run"
            /\ toServer' = <<"setDataFrame", "setChunkSize">>
         \/ command = "setDataFrame" /\ Chain[at] = "SendSetChunkSize" /\ toServer' = <<>>
         \/ command = "setDataFrame" /\ Chain[at] = "Run" /\ toServer' = <<"setChunkSize">>
         \/ command = "setChunkSize" /\ Chain[at] = "Run" /\ toServer' = <<>>
<1>1. /\ toServer # <<>> /\ command = Head(toServer) /\ toServer' = Tail(toServer)
      /\ WowzaUnhandled
  BY DEF Handles, WowzaInv
<1>2. \/ toServer = <<"C0C1">> /\ Chain[at] = "ReceiveS0S1"
      \/ toServer = <<"C2">> /\ Chain[at] \in {"ReceiveS2", "SendConnect"}
      \/ toServer = <<"C2", "connect">> /\ Chain[at] = "ReceiveConnect"
      \/ toServer = <<"connect">> /\ Chain[at] = "ReceiveConnect"
      \/ toServer = <<"releaseStream">> /\ Chain[at] = "SendFCPublish"
      \/ toServer = <<"releaseStream", "FCPublish">> /\ Chain[at] = "ReceiveFCPublish"
      \/ toServer = <<"FCPublish">> /\ Chain[at] \in {"ReceiveFCPublish", "SendCreate"}
      \/ toServer = <<"FCPublish", "createStream">> /\ Chain[at] = "ReceiveCreate"
      \/ toServer = <<"createStream">> /\ Chain[at] \in {"ReceiveCreate", "SendPublish"}
      \/ toServer = <<"createStream", "publish">> /\ Chain[at] = "ReceivePublish"
      \/ toServer = <<"publish">> /\ Chain[at] \in {"ReceivePublish", "SendSetDataFrame"}
      \/ toServer = <<"publish", "setDataFrame">> /\ Chain[at] = "SendSetChunkSize"
      \/ toServer = <<"publish", "setDataFrame", "setChunkSize">> /\ Chain[at] = "Run"
      \/ toServer = <<"setDataFrame">> /\ Chain[at] = "SendSetChunkSize"
      \/ toServer = <<"setDataFrame", "setChunkSize">> /\ Chain[at] = "Run"
      \/ toServer = <<"setChunkSize">> /\ Chain[at] = "Run"
  BY <1>1, WowzaSteps, Zenon DEF WowzaUnhandled
<1>3. ASSUME NEW a, toServer = <<a>> PROVE command = a /\ toServer' = <<>>
  BY <1>1, <1>3, OneCommand
<1>4. ASSUME NEW a, NEW b, toServer = <<a, b>> PROVE command = a /\ toServer' = <<b>>
  BY <1>1, <1>4, TwoCommands
<1>5. ASSUME NEW a, NEW b, NEW c, toServer = <<a, b, c>>
      PROVE  command = a /\ toServer' = <<b, c>>
  BY <1>1, <1>5, ThreeCommands
<1>. QED  BY <1>2, <1>3, <1>4, <1>5

LEMMA WowzaAnswer ==
  ASSUME WowzaCase, TypeOK, WowzaInv, NEW command \in Commands, Handles(command),
         NEW replies \in Seq(Messages), fromServer' = fromServer \o replies,
         Grants(command, replies) \/ Refuses(command, replies)
  PROVE  WowzaInv'
<1>1. /\ UNCHANGED <<at, phase>> /\ open /\ open' /\ toServer # <<>> /\ WowzaUnhandled
  BY DEF Handles, client, WowzaInv
<1>2. /\ Arrive(replies) /\ Answers(command, replies) /\ (limited => limited') /\ LimitTold'
      /\ command \notin {"connect", "releaseStream"} =>
           \A i \in 1..Len(replies) : replies[i].name = "_result" => replies[i].id # 0
  BY AnswerFacts DEF WowzaCase, WowzaInv
<1>3. \/ refused' = refused
      \/ command \in Refusable /\ refused' = refused \union {command}
  BY DEF Grants, Refuses
<1>4. \A i \in 1..Len(fromServer') : fromServer'[i].fits = TRUE
  BY <1>2 DEF WowzaInv, Arrive
<1>5. WowzaUnhandled'
  BY <1>1, WowzaAnswered DEF WowzaUnhandled
<1>6. Chain[at'] \in Published => refused' \subseteq {"publish"}
  BY <1>1, <1>3, WowzaAnswered DEF WowzaInv, Published, Refusable
<1>7. HealthySucceeds'
  BY <1>1, <1>2, <1>3 DEF WowzaInv, HealthySucceeds
<1>8. ASSUME phase = "handshaking" PROVE WowzaUnread' /\ WowzaRefusalsUnread'
  <2>1. WowzaUnread /\ WowzaRefusalsUnread
    BY <1>8 DEF WowzaInv
  <2>2. CASE command = "C0C1"
    <3>1. Chain[at] = "ReceiveS0S1" /\ toServer' = <<>> /\ fromServer = <<>> /\ refused = {}
      BY <1>1, <2>1, <2>2, WowzaAnswered DEF WowzaUnread
    <3>2. /\ Len(fromServer') = 3 /\ NoError'
          /\ refused' = {} <=> /\ fromServer'[1].name = "S0S1"
                              /\ fromServer'[2].name = "S2" /\ fromServer'[3].name = "S2"
      BY <1>2, <2>2, <3>1, HandshakeAnswered
    <3>. QED  BY <1>1, <3>1, <3>2 DEF WowzaUnread, WowzaRefusalsUnread
  <2>3. CASE command \in {"C2", "setDataFrame", "setChunkSize"}
    <3>1. replies = <<>> /\ UNCHANGED refused
      BY <1>2, <2>3 DEF Answers, Refusable
    <3>2. fromServer' = fromServer
      BY <3>1 DEF TypeOK
    <3>. QED  BY <1>1, <2>1, <2>3, <3>1, <3>2, WowzaAnswered
              DEF WowzaUnread, WowzaRefusalsUnread, NoError
  <2>4. CASE command \notin {"C0C1", "C2", "setDataFrame", "setChunkSize"}
    <3>1. NoError' <=> NoError /\ \A i \in 1..Len(replies) : replies[i].name # "_error"
      BY <1>2 DEF Arrive
    <3>2. \/ refused' = refused /\ \A i \in 1..Len(replies) : replies[i].name # "_error"
          \/ /\ refused' = refused \union {command}
             /\ command # "publish" => \E i \in 1..Len(replies) : replies[i].name = "_error"
      BY <1>2, <2>4 DEF Answers
    <3>3. refused' = {} => NoError'
      BY <2>1, <3>1, <3>2 DEF WowzaRefusalsUnread
    <3>4. NoError' /\ refused \subseteq {"publish"} => refused' \subseteq {"publish"}
      <4>1. CASE refused' = refused
        BY <4>1
      <4>2. CASE command # "publish" /\ \E i \in 1..Len(replies) : replies[i].name = "_error"
        BY <3>1, <4>2
      <4>3. CASE command = "publish" /\ refused' = refused \union {command}
        BY <4>3
      <4>. QED  BY <3>2, <4>1, <4>2, <4>3
    <3>5. WowzaRefusalsUnread'
      BY <1>1, <2>1, <3>1, <3>3, <3>4 DEF WowzaRefusalsUnread
    <3>6. Chain[at] \in {"SendCreate", "ReceiveCreate"} =>
            \A i \in 1..Len(fromServer') : fromServer'[i].name = "_result" => fromServer'[i].id # 0
      <4>1. Chain[at] \in {"SendCreate", "ReceiveCreate"} =>
              command \notin {"connect", "releaseStream"}
        BY WowzaAnswered
      <4>. QED  BY <1>2, <2>1, <4>1 DEF Arrive, WowzaUnread
    <3>7. Len(toServer') < 2 \/ Chain[at] = "Run"
      BY WowzaAnswered, UnderWay
    <3>8. Chain[at] \in {"ReceiveConnect", "SendFCPublish", "SendCreate", "SendPublish"} =>
            toServer' = <<>>
      BY <2>4, WowzaAnswered
    <3>9. Chain[at] \notin {"SendC0C1", "ReceiveS0S1", "SendC2", "ReceiveS2", "SendConnect",
                           "SendRelease"}
      BY <2>4, WowzaAnswered
    <3>10. WowzaUnread'
      BY <1>1, <3>6, <3>7, <3>8, <3>9 DEF WowzaUnread
    <3>. QED  BY <3>5, <3>10
  <2>. QED  BY <2>2, <2>3, <2>4
<1>. QED  BY <1>1, <1>2, <1>4, <1>5, <1>6, <1>7, <1>8 DEF WowzaInv

LEMMA WowzaServer ==
  WowzaCase /\ TypeOK /\ WowzaInv /\ (Grant \/ Refuse \/ CloseConnection) => WowzaInv'
<1>. SUFFICES ASSUME WowzaCase, TypeOK, WowzaInv, Grant \/ Refuse \/ CloseConnection
              PROVE  WowzaInv'
  OBVIOUS
<1>1. CASE Grant
  BY <1>1, GrantStep, WowzaAnswer
<1>2. CASE Refuse
  BY <1>2, RefuseStep, WowzaAnswer
<1>3. CASE CloseConnection
  <2>1. ~open' /\ toServer' = <<>> /\ UNCHANGED <<at, phase, fromServer, refused, limited>>
    BY <1>3 DEF CloseConnection, client
  <2>2. WowzaUnhandled'
    BY <2>1 DEF WowzaUnhandled
  <2>3. phase = "handshaking" => WowzaUnread' /\ WowzaRefusalsUnread'
    BY <2>1, UnderWay DEF WowzaInv, WowzaUnread, WowzaRefusalsUnread, NoError
  <2>. QED  BY <2>1, <2>2, <2>3 DEF WowzaInv, LimitTold, HealthySucceeds
<1>. QED  BY <1>1, <1>2, <1>3

LEMMA WowzaStep == WowzaCase /\ TypeOK /\ WowzaInv /\ [Next]_vars => WowzaInv'
<1>. SUFFICES ASSUME WowzaCase, TypeOK, WowzaInv, [Next]_vars PROVE WowzaInv'
  OBVIOUS
<1>1. CASE UNCHANGED vars
  BY <1>1 DEF vars, client, server, wire, WowzaInv, WowzaUnhandled, WowzaUnread,
     WowzaRefusalsUnread, NoError, LimitTold, HealthySucceeds
<1>2. CASE ConnectAsync
  <2>1. /\ Chain[at'] = "SendC0C1" /\ toServer' = <<>> /\ fromServer' = <<>> /\ refused' = {}
        /\ phase' = "handshaking"
    BY <1>2, ChainFacts DEF ConnectAsync
  <2>2. Len(fromServer') = 0
    BY <2>1
  <2>. QED  BY <2>1, <2>2 DEF WowzaInv, WowzaUnhandled, WowzaUnread, WowzaRefusalsUnread, NoError,
               LimitTold, HealthySucceeds
<1>. QED  BY <1>1, <1>2, WowzaMessenger, WowzaServer DEF Next

LEMMA WowzaInit == Init => WowzaInv
<1>. SUFFICES ASSUME Init PROVE WowzaInv
  OBVIOUS
<1>1. Chain[at] = "SendC0C1" /\ Len(fromServer) = 0
  BY ChainFacts DEF Init
<1>. QED  BY <1>1 DEF Init, WowzaInv, WowzaUnhandled, WowzaUnread, WowzaRefusalsUnread, NoError,
             LimitTold, HealthySucceeds

\* The inductive invariant of the Wowza chain: it is never more than one reply behind.
THEOREM WowzaInvariance == ASSUME WowzaCase PROVE Spec => [](TypeOK /\ WowzaInv)
<1>1. WowzaCase /\ TypeOK /\ WowzaInv /\ [Next]_vars => WowzaInv'
  BY WowzaStep
<1>2. WowzaCase
  OBVIOUS
<1>. QED  BY <1>1, <1>2, WowzaInit, TypeCorrect, PTL DEF Spec

\* With reads that return all that was sent so far and refusals of one chunk: though it
\* does not wait for the reply to releaseStream, and may read every reply after it one
\* function late, none of the receive functions up to that of publish can leave a refusal
\* of an earlier command unread. Of publish it says nothing.
THEOREM WowzaRefusalNoticed == ASSUME WowzaCase PROVE Spec => []RefusalFails
<1>1. WowzaInv => RefusalFails
  BY DEF WowzaInv, RefusalFails, Published
<1>. QED  BY <1>1, WowzaInvariance, PTL

\* With such reads: no reply that comes one function late makes the handshake fail. The
\* reader of createStream finds no reply to releaseStream, whose last entity is no number;
\* a refusal, a closed connection and a Hard limit of the bandwidth are the only reasons.
THEOREM WowzaFailsForAReason == ASSUME WowzaCase PROVE Spec => []HealthySucceeds
<1>1. WowzaInv => HealthySucceeds
  BY DEF WowzaInv
<1>. QED  BY <1>1, WowzaInvariance, PTL
=============================================================================
