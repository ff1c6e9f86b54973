-------------------------- MODULE RTMPMessageFormats --------------------------
(***************************************************************************)
(* The messages of RTMPMessageFormats.h and their AMF0 encoding. A payload  *)
(* is a sequence of cells, one for each field of the encoding, a cell being *)
(* a pair of what the field is and its value; a marker byte is a cell that  *)
(* bears the marker's name.                                                *)
(*                                                                         *)
(* An entity is a pair <<type, value>>; the value of an object is a         *)
(* sequence of <<name, entity>>. Strings are ASCII: EncodeString counts     *)
(* characters, which is the number of its bytes for them only.              *)
(***************************************************************************)
EXTENDS BitOp, Sequences, SequencesExt

\* RTMPMessageType.
PROTOSETCHUNKSIZE == 1
PROTOABORT == 2
PROTOACKNOWLEDGEMENT == 3
USERCONTROL == 4
PROTOACKWINDOWSIZE == 5
PROTOSETPEERBANDWIDTH == 6
AUDIO == 8
VIDEO == 9
DATAAMF0 == 18
COMMANDAMF0 == 20

\* An RTMPMessage; its time stamp is absolute in every call of the library.
RTMPMessage(timestamp, typeid, streamid, payload) ==
  [ts |-> timestamp, type |-> typeid, stream |-> streamid, payload |-> payload]

Marker(type) == <<type, 0>>
----------------------------------------------------------------------------
(* AMF0Entity: encoding.                                                        *)

EncodeName(str) ==
  IF str = "" THEN <<<<"strlen", 0>>>> ELSE <<<<"strlen", Len(str)>>, <<"chars", str>>>>

EncodeString(str) == <<Marker("String")>> \o EncodeName(str)
EncodeNumber(num) == <<Marker("Number"), <<"fprep", FromDoubleToFPRep(num)>>>>
EncodeBoolean(val) == <<Marker("Boolean"), <<"byte", IF val THEN 1 ELSE 0>>>>
EncodeNull == <<Marker("Null")>>

EncodeProperty(entity) ==
  CASE entity[1] = "String"  -> EncodeString(entity[2])
    [] entity[1] = "Number"  -> EncodeNumber(entity[2])
    [] entity[1] = "Boolean" -> EncodeBoolean(entity[2])
    [] entity[1] = "Null"    -> EncodeNull

\* The code calls itself for an object in an object, which no message has.
EncodeObject(propmap) ==
  <<Marker("Object")>>
    \o FlattenSeq([i \in DOMAIN propmap |->
                     EncodeName(propmap[i][1]) \o EncodeProperty(propmap[i][2])])
    \o EncodeName("") \o <<Marker("ObjectEnd")>>

EncodeEntity(entity) ==
  IF entity[1] = "Object" THEN EncodeObject(entity[2]) ELSE EncodeProperty(entity)

Encode(entities) == FlattenSeq([i \in DOMAIN entities |-> EncodeEntity(entities[i])])
----------------------------------------------------------------------------
(* AMF0Entity::TryParse: one turn of its loop for each entity or property, until  *)
(* the payload is used up. `garbled' stands for what it makes of bytes that are   *)
(* not what it takes them for.                                                   *)

Parsing(payload) ==
  [rest |-> payload, retval |-> <<>>, inObject |-> FALSE, curObject |-> <<>>,
   curPropKey |-> "", garbled |-> FALSE]

IsField(cells, n, name) == Len(cells) >= n /\ cells[n][1] = name
After(cells, n) == SubSeq(cells, n + 1, Len(cells))

\* A string at the head of cells: its length, and the characters if there are any.
StringCells(cells) ==
  IF ~IsField(cells, 1, "strlen") THEN 0
  ELSE IF cells[1][2] = 0 THEN 1
  ELSE IF IsField(cells, 2, "chars") /\ Len(cells[2][2]) = cells[1][2] THEN 2 ELSE 0
StringAt(cells) == IF StringCells(cells) = 2 THEN cells[2][2] ELSE ""

\* The object ends at its marker or at an empty name, which the marker follows.
ObjectEnds(p) ==
  [p EXCEPT !.inObject = FALSE,
            !.retval = Append(@, <<"Object", p.curObject>>),
            !.rest = After(@, IF IsField(@, 1, "ObjectEnd") THEN 1 ELSE 2)]

ReadKey(p) ==
  IF StringCells(p.rest) = 2
  THEN [p EXCEPT !.curPropKey = StringAt(p.rest), !.rest = After(@, 2)]
  ELSE [p EXCEPT !.garbled = TRUE]

\* A value of n cells after its marker: a property of the object or an entity.
\* Mutant: the name of the property kept.
Value_keyKept(p, n, entity) ==
  IF p.inObject
  THEN [p EXCEPT !.curObject = Append(@, <<p.curPropKey, entity>>), !.rest = After(@, 1 + n)]
  ELSE [p EXCEPT !.retval = Append(@, entity), !.rest = After(@, 1 + n)]

Value(p, n, entity) ==
  IF p.inObject
  THEN [p EXCEPT !.curObject = Append(@, <<p.curPropKey, entity>>), !.curPropKey = "",
                 !.rest = After(@, 1 + n)]
  ELSE [p EXCEPT !.retval = Append(@, entity), !.rest = After(@, 1 + n)]

\* A null in an object goes to the list of entities and leaves the name; an array
\* is skipped up to the first end marker; an object in an object loses the outer
\* one and keeps its property's name.
ReadValue(p) ==
  LET cells == p.rest
      type  == cells[1][1]
      garbled == [p EXCEPT !.garbled = TRUE]
  IN CASE type = "Boolean" /\ IsField(cells, 2, "byte")  -> Value(p, 1, <<type, cells[2][2] = 1>>)
       [] type = "Number" /\ IsField(cells, 2, "fprep")  ->
            Value(p, 1, <<type, FromFPRepToDouble(cells[2][2])>>)
       [] type = "String" /\ StringCells(After(cells, 1)) > 0 ->
            Value(p, StringCells(After(cells, 1)), <<type, StringAt(After(cells, 1))>>)
       [] type = "Null"   -> [p EXCEPT !.retval = Append(@, <<type, 0>>), !.rest = After(@, 1)]
       [] type = "EcmaArray" /\ (\E i \in DOMAIN cells : cells[i][1] = "ObjectEnd") ->
            [p EXCEPT !.curPropKey = IF p.inObject THEN "" ELSE @,
                      !.rest = After(@, CHOOSE i \in DOMAIN cells :
                                 /\ cells[i][1] = "ObjectEnd"
                                 /\ \A j \in 1..(i - 1) : cells[j][1] # "ObjectEnd")]
       [] type = "Object" -> [p EXCEPT !.inObject = TRUE, !.curObject = <<>>, !.rest = After(@, 1)]
       [] OTHER -> garbled

ParseStep(p) ==
  IF p.inObject /\ p.curPropKey = ""
  THEN IF p.rest[1] \in {<<"ObjectEnd", 0>>, <<"strlen", 0>>} THEN ObjectEnds(p)
       ELSE LET keyed == ReadKey(p)
            IN IF keyed.garbled \/ keyed.rest = <<>> THEN [keyed EXCEPT !.garbled = TRUE]
               ELSE ReadValue(keyed)
  ELSE ReadValue(p)

\* A turn uses up at least one cell, so the loop has ended after as many turns as the
\* payload has cells. An object that the payload does not end is not given out.
ParseTurn(p) == IF p.garbled \/ p.rest = <<>> THEN p ELSE ParseStep(p)
TryParse(payload) ==
  LET after[turns \in 0..Len(payload)] ==
        IF turns = 0 THEN Parsing(payload) ELSE ParseTurn(after[turns - 1])
  IN after[Len(payload)]
----------------------------------------------------------------------------
(* The messages the library sends. Lists of properties are those of the code with  *)
(* a short stand-in for each number of a profile.                                 *)

Str(s) == <<"String", s>>
Num(n) == <<"Number", Double(n)>>
Null == <<"Null", 0>>

AMF0Command(name, transactionID) == <<Str(name), Num(transactionID)>>

\* The codecs of the streams the profile has.
Command_Connect(transactionID, codecs) ==
  AMF0Command("connect", transactionID)
    \o <<<<"Object", <<<<"app", Str("live")>>, <<"tcUrl", Str("rtmp")>>>>
                       \o (IF "audioCodecs" \in codecs THEN <<<<"audioCodecs", Num(4)>>>> ELSE <<>>)
                       \o (IF "videoCodecs" \in codecs THEN <<<<"videoCodecs", Num(8)>>>> ELSE <<>>)>>>>
Command_CreateStream(transactionID) == AMF0Command("createStream", transactionID) \o <<Null>>
Command_ReleaseStream(transactionID, streamName) ==
  AMF0Command("releaseStream", transactionID) \o <<Null, Str(streamName)>>
Command_FCPublish(transactionID, streamName) ==
  AMF0Command("FCPublish", transactionID) \o <<Null, Str(streamName)>>
Command_PublishStream(transactionID, streamName) ==
  AMF0Command("publish", transactionID) \o <<Null, Str(streamName), Str("live")>>
Command_UnpublishStream(transactionID) ==
  AMF0Command("publish", transactionID) \o <<Null, <<"Boolean", FALSE>>>>
Command_CloseStream(transactionID) == AMF0Command("closeStream", transactionID) \o <<Null>>

\* Data, not a command: it has no transaction id. A constructor for each choice of
\* streams.
Command_SetDataFrame(frameRate, codecs) ==
  <<Str("@setDataFrame"), Str("onMetaData"),
    <<"Object",
      (IF "videoCodecs" \in codecs
       THEN <<<<"framerate", <<"Number", frameRate>>>>, <<"width", Num(16)>>, <<"height", Num(9)>>,
              <<"videocodecid", Str("avc1")>>, <<"videodatarate", Num(24)>>,
              <<"videokeyframe_frequency", Num(2)>>>>
       ELSE <<>>)
      \o (IF "audioCodecs" \in codecs
          THEN <<<<"audiocodecid", Str("mp4a")>>, <<"audiosamplerate", Num(11)>>,
                 <<"audiochannels", Num(2)>>, <<"audiodatarate", Num(7)>>>>
          ELSE <<>>)>>>>

ProtoSetChunkSizeMessage(chunkSize) ==
  RTMPMessage(0, PROTOSETCHUNKSIZE, 0, <<<<"chunksize", chunkSize>>>>)
=============================================================================
