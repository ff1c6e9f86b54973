----------------------------- MODULE RTMPChunking -----------------------------
(***************************************************************************)
(* ChunkMessage and ChunkProcessor: messages cut in chunks, and chunks put  *)
(* together in messages. A bitstream is a sequence of cells as in           *)
(* RTMPMessageFormats, a cell for each field of a header and for each cell   *)
(* of a payload; chunk sizes count the payload's cells.                     *)
(***************************************************************************)
EXTENDS RTMPMessageFormats

ExtendedStamp == 16777215

HeaderFields == {"basic", "csid", "timestamp", "length", "typeid", "streamid", "extended"}

Least(a, b) == IF a < b THEN a ELSE b
----------------------------------------------------------------------------
(* Writing.                                                                     *)

\* The largest id that the two bytes behind a basic header hold.
LastID == 256 * 256 + 63

\* One, two or three bytes; ids above the last are never reached.
\* Mutant: the boundary of the first form off by one.
BasicHeader_offByOne(fmt, csid) ==
  IF csid <= 64 THEN <<<<"basic", 64 * fmt + csid>>>>
  ELSE IF csid <= 319 THEN <<<<"basic", 64 * fmt>>, <<"csid", csid - 64>>>>
  ELSE <<<<"basic", 64 * fmt + 1>>, <<"csid", (csid - 64) % 256>>, <<"csid", (csid - 64) \div 256>>>>

BasicHeader(fmt, csid) ==
  IF csid <= 63 THEN <<<<"basic", 64 * fmt + csid>>>>
  ELSE IF csid <= 319 THEN <<<<"basic", 64 * fmt>>, <<"csid", csid - 64>>>>
  ELSE <<<<"basic", 64 * fmt + 1>>, <<"csid", (csid - 64) % 256>>, <<"csid", (csid - 64) \div 256>>>>

\* The extended time stamp follows every header of a message that needs it, those
\* of Type 3 as well.
\* Mutant: Type 3 without it.
MessageHeader_plainType3(fmt, msg) ==
  IF fmt = 3 THEN <<>>
  ELSE <<<<"timestamp", Least(msg.ts, ExtendedStamp)>>, <<"length", Len(msg.payload)>>,
         <<"typeid", msg.type>>>>
    \o (IF fmt = 0 THEN <<<<"streamid", msg.stream>>>> ELSE <<>>)
    \o (IF msg.ts > ExtendedStamp THEN <<<<"extended", msg.ts>>>> ELSE <<>>)

MessageHeader(fmt, msg) ==
  (IF fmt = 3 THEN <<>>
   ELSE <<<<"timestamp", Least(msg.ts, ExtendedStamp)>>, <<"length", Len(msg.payload)>>,
          <<"typeid", msg.type>>>>)
    \o (IF fmt = 0 THEN <<<<"streamid", msg.stream>>>> ELSE <<>>)
    \o (IF msg.ts > ExtendedStamp THEN <<<<"extended", msg.ts>>>> ELSE <<>>)

ToBitstream(fmt, csid, msg, data) == BasicHeader(fmt, csid) \o MessageHeader(fmt, msg) \o data

\* firstFmt is Type 0, or Type 1 for a message whose time stamp is a delta, which
\* the library has code for and never sends. A message with no payload is nothing.
ToChunkedBitstream(firstFmt, csid, chunkSize, msg) ==
  LET length    == Len(msg.payload)
      numchunks == (length + chunkSize - 1) \div chunkSize
      data(i)   == SubSeq(msg.payload, (i - 1) * chunkSize + 1, Least(i * chunkSize, length))
  IN FlattenSeq([i \in 1..numchunks |->
                   ToBitstream(IF i = 1 THEN firstFmt ELSE 3, csid, msg, data(i))])
----------------------------------------------------------------------------
(* Reading.                                                                     *)

Format(data) == data[1][2] \div 64
BasicSize(data) == CASE data[1][2] % 64 = 0 -> 2 [] data[1][2] % 64 = 1 -> 3 [] OTHER -> 1
ChunkStreamID(data) ==
  CASE data[1][2] % 64 = 0 -> data[2][2] + 64
    [] data[1][2] % 64 = 1 -> data[3][2] * 256 + data[2][2] + 64
    [] OTHER               -> data[1][2] % 64

\* The fields of a message header, by the type of the chunk.
Fields(fmt) ==
  IF fmt = 0 THEN <<"timestamp", "length", "typeid", "streamid">>
  ELSE IF fmt = 1 THEN <<"timestamp", "length", "typeid">>
  ELSE IF fmt = 2 THEN <<"timestamp">> ELSE <<>>

\* Whether a whole header is at the head of data. Where it is not, the code makes a
\* header of the bytes that are there, or reads past them.
HeaderReads(data) ==
  /\ IsField(data, 1, "basic")
  /\ \A i \in 2..BasicSize(data) : IsField(data, i, "csid")
  /\ \A i \in DOMAIN Fields(Format(data)) :
       IsField(data, BasicSize(data) + i, Fields(Format(data))[i])

\* ChunkMessage::TryParse: the chunk at the head of data, with the payload it may
\* have; an extended time stamp is not looked for. What it does not find in the
\* header is zero.
ParseChunk(data, chunkSize) ==
  LET fields == BasicSize(data) + Len(Fields(Format(data)))
      field(name) == IF \E i \in DOMAIN Fields(Format(data)) : Fields(Format(data))[i] = name
                     THEN data[BasicSize(data) + CHOOSE i \in DOMAIN Fields(Format(data)) :
                                                    Fields(Format(data))[i] = name][2]
                     ELSE 0
  IN [fmt |-> Format(data), csid |-> ChunkStreamID(data), header |-> fields,
      length |-> field("length"), type |-> field("typeid"),
      payload |-> SubSeq(data, fields + 1, Least(fields + chunkSize, Len(data)))]

\* resize: cut, or filled up with zeros.
TrimPayload(payload, length) ==
  [i \in 1..length |-> IF i <= Len(payload) THEN payload[i] ELSE <<"byte", 0>>]

\* The messages whose constructors throw. Of a Set Peer Bandwidth the payload here is
\* its limit type; of the three in RTMP the code takes two.
\* Mutant: only limit types that are no limit types refused.
Hard == 0
Soft == 1
Dynamic == 2
LargestChunkSize == 2147483647
ConstructorThrows_onlyUnknown(type, value) ==
  \/ type = PROTOSETPEERBANDWIDTH /\ value \notin {Hard, Soft, Dynamic}
  \/ type = PROTOSETCHUNKSIZE /\ value > LargestChunkSize

ConstructorThrows(type, value) ==
  \/ type = PROTOSETPEERBANDWIDTH /\ value \notin {Soft, Dynamic}
  \/ type = PROTOSETCHUNKSIZE /\ value > LargestChunkSize

\* What is done with a complete message: the body of ChunkProcessor::TryParse after
\* its check of the length. A command whose first entity is no string is dropped.
\* `garbled' stands for an exception too: nothing of the read is returned.
GiveOut(st, chunk) ==
  IF ConstructorThrows(chunk.type, chunk.payload[1][2]) THEN [st EXCEPT !.garbled = TRUE]
  ELSE
  CASE chunk.type = COMMANDAMF0 ->
         LET parsed == TryParse(chunk.payload)
         IN IF parsed.garbled THEN [st EXCEPT !.garbled = TRUE]
            ELSE IF parsed.retval # <<>> /\ parsed.retval[1][1] = "String"
            THEN [st EXCEPT !.retval = Append(@, [type |-> COMMANDAMF0, body |-> parsed.retval])]
            ELSE st
    [] chunk.type = PROTOSETCHUNKSIZE ->
         [st EXCEPT !.chunkSize = chunk.payload[1][2],
                    !.retval = Append(@, [type |-> PROTOSETCHUNKSIZE, body |-> chunk.payload[1][2]])]
    [] chunk.type \in {PROTOABORT, PROTOACKNOWLEDGEMENT, USERCONTROL, PROTOACKWINDOWSIZE, PROTOSETPEERBANDWIDTH} ->
         [st EXCEPT !.retval = Append(@, [type |-> chunk.type, body |-> chunk.payload[1][2]])]
    [] OTHER -> st

\* One turn of ChunkProcessor::TryParse. A chunk of Type 3 is appended to the last
\* message of its chunk stream, and the check of the length is made of the chunk:
\* a message of two chunks is never given out.
\* Mutant: a chunk of Type 3 taken for a message.
DechunkType3_any(st, chunk) == [st EXCEPT !.rest = After(@, chunk.header + Len(chunk.payload))]

DechunkType3(st, chunk) ==
  LET starts == {i \in DOMAIN st.started : st.started[i].csid = chunk.csid}
      start  == CHOOSE i \in starts : \A j \in starts : j <= i
      data   == TrimPayload(chunk.payload,
                            Least(st.chunkSize, st.started[start].length - Len(st.started[start].payload)))
  IN IF starts = {} THEN [st EXCEPT !.stopped = TRUE]
     ELSE [st EXCEPT !.started[start].payload = @ \o data,
                     !.rest = After(@, chunk.header + Len(data))]

DechunkStart(st, chunk) ==
  LET trimmed == [chunk EXCEPT !.payload = TrimPayload(@, Least(st.chunkSize, chunk.length))]
      pushed  == [st EXCEPT !.started = Append(@, trimmed),
                            !.rest = After(@, chunk.header + Len(trimmed.payload))]
  IN IF Len(trimmed.payload) = chunk.length THEN GiveOut(pushed, trimmed) ELSE pushed

DechunkStep(st) ==
  IF ~HeaderReads(st.rest) THEN [st EXCEPT !.garbled = TRUE]
  ELSE LET chunk == ParseChunk(st.rest, st.chunkSize)
       IN IF chunk.fmt = 3 THEN DechunkType3(st, chunk) ELSE DechunkStart(st, chunk)

DechunkTurn(st) == IF st.rest = <<>> \/ st.stopped \/ st.garbled THEN st ELSE DechunkStep(st)

\* ChunkProcessor::TryParse of one read, a loop that uses up a cell in each turn; the
\* size it ends with is forgotten unless the caller looks for it in the messages.
ChunkProcessorTryParse(data, curChunkSize) ==
  LET after[turns \in 0..Len(data)] ==
        IF turns = 0
        THEN [rest |-> data, started |-> <<>>, retval |-> <<>>, chunkSize |-> curChunkSize,
              stopped |-> FALSE, garbled |-> FALSE]
        ELSE DechunkTurn(after[turns - 1])
  IN after[Len(data)]
=============================================================================
