-------------------------- MODULE RTMPChunking_proofs --------------------------
(***************************************************************************)
(* Proofs about the headers of RTMPChunking: what the library writes at the *)
(* head of a chunk, the parser of chunks reads back, for every chunk stream *)
(* id that a header can hold and every message; and about a whole message:  *)
(* the sequence of chunks that ToChunkedBitstream cuts it into, and what     *)
(* AMF0Entity::TryParse makes of the entities that were encoded, numbers     *)
(* through BitOp and back among them.                                        *)
(***************************************************************************)
EXTENDS RTMPChunking, SequenceTheorems, WellFoundedInduction, TLAPS

\* The cells of short sequences, and the two parts of a cell.
LEMMA OneCell == ASSUME NEW a PROVE Len(<<a>>) = 1 /\ <<a>>[1] = a
OBVIOUS

LEMMA TwoCells == ASSUME NEW a, NEW b PROVE Len(<<a, b>>) = 2 /\ <<a, b>>[1] = a /\ <<a, b>>[2] = b
OBVIOUS

LEMMA ThreeCells ==
  ASSUME NEW a, NEW b, NEW c
  PROVE  /\ Len(<<a, b, c>>) = 3
         /\ <<a, b, c>>[1] = a /\ <<a, b, c>>[2] = b /\ <<a, b, c>>[3] = c
OBVIOUS

\* The arithmetic of the fields of a basic header.
LEMMA DivMod64 ==
  ASSUME NEW fmt \in 0..3, NEW low \in 0..63
  PROVE  (64 * fmt + low) \div 64 = fmt /\ (64 * fmt + low) % 64 = low
OBVIOUS

LEMMA DivMod256 ==
  ASSUME NEW n \in Nat PROVE (n \div 256) * 256 + (n % 256) = n
OBVIOUS

LEMMA LongID ==
  ASSUME NEW csid \in Nat, csid >= 320
  PROVE  ((csid - 64) \div 256) * 256 + ((csid - 64) % 256) + 64 = csid
<1>1. csid - 64 \in Nat
  OBVIOUS
<1>2. ((csid - 64) \div 256) * 256 + ((csid - 64) % 256) = csid - 64
  BY <1>1, DivMod256
<1>. QED  BY <1>2

\* What the parser makes of the first cell of a header, and of the ones behind it.
LEMMA BasicRead ==
  ASSUME NEW fmt \in 0..3, NEW low \in 0..63, NEW data, data[1][2] = 64 * fmt + low
  PROVE  /\ Format(data) = fmt
         /\ low = 0 => BasicSize(data) = 2 /\ ChunkStreamID(data) = data[2][2] + 64
         /\ low = 1 => /\ BasicSize(data) = 3
                       /\ ChunkStreamID(data) = data[3][2] * 256 + data[2][2] + 64
         /\ low > 1 => BasicSize(data) = 1 /\ ChunkStreamID(data) = low
<1>2. data[1][2] \div 64 = fmt /\ data[1][2] % 64 = low
  BY DivMod64
<1>3. Format(data) = fmt
  BY <1>2 DEF Format
<1>4. ASSUME low = 0 PROVE BasicSize(data) = 2 /\ ChunkStreamID(data) = data[2][2] + 64
  BY <1>2, <1>4 DEF BasicSize, ChunkStreamID
<1>5. ASSUME low = 1
      PROVE  BasicSize(data) = 3 /\ ChunkStreamID(data) = data[3][2] * 256 + data[2][2] + 64
  BY <1>2, <1>5 DEF BasicSize, ChunkStreamID
<1>6. ASSUME low > 1 PROVE BasicSize(data) = 1 /\ ChunkStreamID(data) = low
  <2>1. ~(data[1][2] % 64 = 0) /\ ~(data[1][2] % 64 = 1)
    BY <1>2, <1>6
  <2>. QED  BY <1>2, <2>1 DEF BasicSize, ChunkStreamID
<1>. QED  BY <1>3, <1>4, <1>5, <1>6

\* The three forms of the basic header, each read back.
LEMMA ShortForm ==
  ASSUME NEW fmt \in 0..3, NEW csid \in Nat, csid >= 2, csid <= 63, NEW data,
         data[1][2] = 64 * fmt + csid
  PROVE  Format(data) = fmt /\ BasicSize(data) = 1 /\ ChunkStreamID(data) = csid
<1>1. csid \in 0..63 /\ csid > 1
  OBVIOUS
<1>. QED  BY <1>1, BasicRead

LEMMA MiddleForm ==
  ASSUME NEW fmt \in 0..3, NEW csid \in Nat, csid >= 2, csid \in 64..319, NEW data,
         data[1][2] = 64 * fmt, data[2][2] = csid - 64
  PROVE  Format(data) = fmt /\ BasicSize(data) = 2 /\ ChunkStreamID(data) = csid
<1>1. 64 * fmt = 64 * fmt + 0 /\ 0 \in 0..63
  OBVIOUS
<1>2. Format(data) = fmt /\ BasicSize(data) = 2 /\ ChunkStreamID(data) = data[2][2] + 64
  BY <1>1, BasicRead
<1>. QED  BY <1>2

LEMMA LongForm ==
  ASSUME NEW fmt \in 0..3, NEW csid \in Nat, csid >= 2, csid >= 320, NEW data,
         data[1][2] = 64 * fmt + 1, data[2][2] = (csid - 64) % 256,
         data[3][2] = (csid - 64) \div 256
  PROVE  Format(data) = fmt /\ BasicSize(data) = 3 /\ ChunkStreamID(data) = csid
<1>1. 1 \in 0..63 /\ csid \in Nat
  OBVIOUS
<1>2. /\ Format(data) = fmt /\ BasicSize(data) = 3
      /\ ChunkStreamID(data) = data[3][2] * 256 + data[2][2] + 64
  BY <1>1, BasicRead
<1>. QED  BY <1>1, <1>2, LongID

\* data begins with a basic header as ToBitstream writes it.
BeginsBasic(data, fmt, csid) ==
  \A i \in 1..Len(BasicHeader(fmt, csid)) : data[i] = BasicHeader(fmt, csid)[i]

\* The basic header is read back, whatever its form and whatever follows it.
THEOREM BasicReadBack ==
  ASSUME NEW fmt \in 0..3, NEW csid \in Nat, csid >= 2, NEW data,
         BeginsBasic(data, fmt, csid)
  PROVE  /\ Format(data) = fmt
         /\ BasicSize(data) = Len(BasicHeader(fmt, csid))
         /\ ChunkStreamID(data) = csid
         /\ BasicSize(data) \in 1..3
         /\ data[1][1] = "basic" /\ \A i \in 2..BasicSize(data) : data[i][1] = "csid"
<1>. DEFINE header == BasicHeader(fmt, csid)
<1>1. CASE csid <= 63
  <2>1. header = <<<<"basic", 64 * fmt + csid>>>>
    BY <1>1 DEF BasicHeader
  <2>2. Len(header) = 1 /\ header[1] = <<"basic", 64 * fmt + csid>>
    BY <2>1, OneCell
  <2>. HIDE DEF header
  <2>3. data[1] = header[1]
    BY <2>2 DEF header, BeginsBasic
  <2>4. data[1][1] = "basic" /\ data[1][2] = 64 * fmt + csid
    BY <2>2, <2>3
  <2>5. Format(data) = fmt /\ BasicSize(data) = 1 /\ ChunkStreamID(data) = csid
    BY <1>1, <2>4, ShortForm
  <2>. QED  BY <2>2, <2>4, <2>5 DEF header
<1>2. CASE csid \in 64..319
  <2>1. header = <<<<"basic", 64 * fmt>>, <<"csid", csid - 64>>>>
    BY <1>2 DEF BasicHeader
  <2>2. /\ Len(header) = 2 /\ header[1] = <<"basic", 64 * fmt>>
        /\ header[2] = <<"csid", csid - 64>>
    BY <2>1, TwoCells
  <2>. HIDE DEF header
  <2>3. data[1] = header[1] /\ data[2] = header[2]
    BY <2>2 DEF header, BeginsBasic
  <2>4. /\ data[1][1] = "basic" /\ data[1][2] = 64 * fmt
        /\ data[2][1] = "csid" /\ data[2][2] = csid - 64
    BY <2>2, <2>3
  <2>5. Format(data) = fmt /\ BasicSize(data) = 2 /\ ChunkStreamID(data) = csid
    BY <1>2, <2>4, MiddleForm
  <2>. QED  BY <2>2, <2>4, <2>5 DEF header
<1>3. CASE csid >= 320
  <2>1. header = <<<<"basic", 64 * fmt + 1>>, <<"csid", (csid - 64) % 256>>,
                   <<"csid", (csid - 64) \div 256>>>>
    BY <1>3 DEF BasicHeader
  <2>2. /\ Len(header) = 3 /\ header[1] = <<"basic", 64 * fmt + 1>>
        /\ header[2] = <<"csid", (csid - 64) % 256>>
        /\ header[3] = <<"csid", (csid - 64) \div 256>>
    BY <2>1, ThreeCells
  <2>. HIDE DEF header
  <2>3. data[1] = header[1] /\ data[2] = header[2] /\ data[3] = header[3]
    BY <2>2 DEF header, BeginsBasic
  <2>4. /\ data[1][1] = "basic" /\ data[1][2] = 64 * fmt + 1
        /\ data[2][1] = "csid" /\ data[2][2] = (csid - 64) % 256
        /\ data[3][1] = "csid" /\ data[3][2] = (csid - 64) \div 256
    BY <2>2, <2>3
  <2>5. Format(data) = fmt /\ BasicSize(data) = 3 /\ ChunkStreamID(data) = csid
    BY <1>3, <2>4, LongForm
  <2>. QED  BY <2>2, <2>4, <2>5 DEF header
<1>. QED  BY <1>1, <1>2, <1>3
----------------------------------------------------------------------------
(* Their bytes.                                                                 *)

LEMMA LastIsNat == LastID \in Nat
  BY DEF LastID

LEMMA ShortByte ==
  ASSUME NEW fmt \in 0..3, NEW low \in 0..63
  PROVE  64 * fmt + low \in 0..255
  OBVIOUS

LEMMA LongBytes ==
  ASSUME NEW csid \in Nat, csid >= 320, csid <= LastID
  PROVE  (csid - 64) % 256 \in 0..255 /\ (csid - 64) \div 256 \in 0..255
<1>1. csid - 64 \in Nat /\ csid - 64 <= 256 * 256 - 1
  BY DEF LastID
<1>2. (csid - 64) % 256 \in 0..255
  BY <1>1
<1>3. (csid - 64) \div 256 \in Nat /\ ((csid - 64) \div 256) * 256 <= csid - 64
  BY <1>1
<1>4. (csid - 64) \div 256 \in 0..255
  BY <1>1, <1>3
<1>. QED  BY <1>2, <1>4

\* Every cell of a basic header is a byte: no id that the library can come to is cut.
THEOREM BasicHeaderFits ==
  ASSUME NEW fmt \in 0..3, NEW csid \in 2..LastID
  PROVE  \A i \in DOMAIN BasicHeader(fmt, csid) : BasicHeader(fmt, csid)[i][2] \in 0..255
<1>. DEFINE header == BasicHeader(fmt, csid)
<1>0. csid \in Nat /\ csid >= 2 /\ csid <= LastID
  BY LastIsNat
<1>1. CASE csid <= 63
  <2>1. header = <<<<"basic", 64 * fmt + csid>>>>
    BY <1>1 DEF BasicHeader
  <2>2. csid \in 0..63
    BY <1>0, <1>1
  <2>3. 64 * fmt + csid \in 0..255
    BY <2>2, ShortByte
  <2>. QED  BY <2>1, <2>3
<1>2. CASE csid \in 64..319
  <2>1. header = <<<<"basic", 64 * fmt>>, <<"csid", csid - 64>>>>
    BY <1>2 DEF BasicHeader
  <2>2. 64 * fmt \in 0..255 /\ csid - 64 \in 0..255
    BY <1>2
  <2>. QED  BY <2>1, <2>2
<1>3. CASE csid >= 320
  <2>1. header = <<<<"basic", 64 * fmt + 1>>, <<"csid", (csid - 64) % 256>>,
                   <<"csid", (csid - 64) \div 256>>>>
    BY <1>0, <1>3 DEF BasicHeader
  <2>2. 64 * fmt + 1 \in 0..255
    OBVIOUS
  <2>3. (csid - 64) % 256 \in 0..255 /\ (csid - 64) \div 256 \in 0..255
    BY <1>0, <1>3, LongBytes
  <2>. QED  BY <2>1, <2>2, <2>3
<1>. QED  BY <1>0, <1>1, <1>2, <1>3
----------------------------------------------------------------------------
(* The message header.                                                          *)

\* Three sequences in a row, cell by cell.
LEMMA Joined ==
  ASSUME NEW S, NEW p \in Seq(S), NEW q \in Seq(S), NEW r \in Seq(S)
  PROVE  /\ Len(p \o q \o r) = Len(p) + Len(q) + Len(r)
         /\ \A i \in 1..Len(p) : (p \o q \o r)[i] = p[i]
         /\ \A i \in 1..Len(q) : (p \o q \o r)[Len(p) + i] = q[i]
         /\ \A i \in 1..Len(r) : (p \o q \o r)[Len(p) + Len(q) + i] = r[i]
<1>1. /\ p \o q \in Seq(S) /\ Len(p \o q) = Len(p) + Len(q)
      /\ \A i \in 1..Len(p) : (p \o q)[i] = p[i]
      /\ \A i \in 1..Len(q) : (p \o q)[Len(p) + i] = q[i]
  OBVIOUS
<1>2. /\ Len((p \o q) \o r) = Len(p \o q) + Len(r)
      /\ \A i \in 1..Len(p \o q) : ((p \o q) \o r)[i] = (p \o q)[i]
      /\ \A i \in 1..Len(r) : ((p \o q) \o r)[Len(p \o q) + i] = r[i]
  BY <1>1
<1>. QED  BY <1>1, <1>2

\* The fields of the types of chunk that are sent.
LEMMA FieldsFacts ==
  /\ Fields(0) = <<"timestamp", "length", "typeid", "streamid">>
  /\ Fields(1) = <<"timestamp", "length", "typeid">>
  /\ Fields(3) = <<>>
  /\ Len(Fields(0)) = 4 /\ Len(Fields(1)) = 3 /\ Len(Fields(3)) = 0
  BY DEF Fields

\* What a message header is made of, cell by cell.
LEMMA HeaderCells ==
  ASSUME NEW fmt \in {0, 1, 3}, NEW msg
  PROVE  LET mh == MessageHeader(fmt, msg)
             k  == Len(Fields(fmt))
         IN /\ fmt # 3 => /\ mh[1] = <<"timestamp", Least(msg.ts, ExtendedStamp)>>
                          /\ mh[2] = <<"length", Len(msg.payload)>>
                          /\ mh[3] = <<"typeid", msg.type>>
            /\ fmt = 0 => mh[4] = <<"streamid", msg.stream>>
            /\ msg.ts > ExtendedStamp => Len(mh) = k + 1 /\ mh[k + 1] = <<"extended", msg.ts>>
            /\ ~(msg.ts > ExtendedStamp) => Len(mh) = k
<1>. DEFINE a == <<"timestamp", Least(msg.ts, ExtendedStamp)>>
            b == <<"length", Len(msg.payload)>>
            c == <<"typeid", msg.type>>
            d == <<"streamid", msg.stream>>
            e == <<"extended", msg.ts>>
            p == IF fmt = 3 THEN <<>> ELSE <<a, b, c>>
            q == IF fmt = 0 THEN <<d>> ELSE <<>>
            r == IF msg.ts > ExtendedStamp THEN <<e>> ELSE <<>>
            S == {a, b, c, d, e}
            mh == MessageHeader(fmt, msg)
            k == Len(Fields(fmt))
<1>1. mh = p \o q \o r
  BY DEF MessageHeader
<1>. HIDE DEF a, b, c, d, e, mh
<1>2. p \in Seq(S) /\ q \in Seq(S) /\ r \in Seq(S)
  <2>1. p \in Seq(S)
    <3>1. <<>> \in Seq(S) /\ <<a, b, c>> \in Seq(S)
      OBVIOUS
    <3>. QED  BY <3>1
  <2>2. q \in Seq(S)
    <3>1. <<>> \in Seq(S) /\ <<d>> \in Seq(S)
      OBVIOUS
    <3>. QED  BY <3>1
  <2>3. r \in Seq(S)
    <3>1. <<>> \in Seq(S) /\ <<e>> \in Seq(S)
      OBVIOUS
    <3>. QED  BY <3>1
  <2>. QED  BY <2>1, <2>2, <2>3
<1>3. /\ fmt # 3 => Len(p) = 3 /\ p[1] = a /\ p[2] = b /\ p[3] = c
      /\ fmt = 3 => Len(p) = 0
      /\ fmt = 0 => Len(q) = 1 /\ q[1] = d
      /\ fmt # 0 => Len(q) = 0
  OBVIOUS
<1>4. /\ msg.ts > ExtendedStamp => Len(r) = 1 /\ r[1] = e
      /\ ~(msg.ts > ExtendedStamp) => Len(r) = 0
  OBVIOUS
<1>5. k = Len(p) + Len(q)
  <2>. HIDE DEF p, q, r, S
  <2>1. CASE fmt = 0
    <3>1. k = 4
      BY <2>1, FieldsFacts
    <3>2. Len(p) = 3 /\ Len(q) = 1
      BY <1>3, <2>1
    <3>. QED  BY <3>1, <3>2
  <2>2. CASE fmt = 1
    <3>1. k = 3
      BY <2>2, FieldsFacts
    <3>2. Len(p) = 3 /\ Len(q) = 0
      BY <1>3, <2>2
    <3>. QED  BY <3>1, <3>2
  <2>3. CASE fmt = 3
    <3>1. k = 0
      BY <2>3, FieldsFacts
    <3>2. Len(p) = 0 /\ Len(q) = 0
      BY <1>3, <2>3
    <3>. QED  BY <3>1, <3>2
  <2>. QED  BY <2>1, <2>2, <2>3
<1>. HIDE DEF p, q, r, S, k
<1>6. /\ Len(mh) = Len(p) + Len(q) + Len(r)
      /\ \A i \in 1..Len(p) : mh[i] = p[i]
      /\ \A i \in 1..Len(q) : mh[Len(p) + i] = q[i]
      /\ \A i \in 1..Len(r) : mh[Len(p) + Len(q) + i] = r[i]
  BY <1>1, <1>2, Joined
<1>7. fmt # 3 => mh[1] = a /\ mh[2] = b /\ mh[3] = c
  <2>. SUFFICES ASSUME fmt # 3 PROVE mh[1] = a /\ mh[2] = b /\ mh[3] = c
    OBVIOUS
  <2>1. Len(p) = 3 /\ p[1] = a /\ p[2] = b /\ p[3] = c
    BY <1>3
  <2>2. \A i \in 1..3 : mh[i] = p[i]
    BY <1>6, <2>1
  <2>3. 1 \in 1..3 /\ 2 \in 1..3 /\ 3 \in 1..3
    OBVIOUS
  <2>. QED  BY <2>1, <2>2, <2>3
<1>8. ASSUME fmt = 0 PROVE mh[4] = d
  <2>1. Len(p) = 3 /\ 1 \in 1..Len(q) /\ q[1] = d
    BY <1>3, <1>8
  <2>2. mh[Len(p) + 1] = q[1]
    BY <1>6, <2>1
  <2>. QED  BY <2>1, <2>2
<1>9. /\ msg.ts > ExtendedStamp => Len(mh) = k + 1 /\ mh[k + 1] = e
      /\ ~(msg.ts > ExtendedStamp) => Len(mh) = k
  <2>1. k \in Nat /\ Len(mh) = k + Len(r) /\ \A i \in 1..Len(r) : mh[k + i] = r[i]
    <3>1. Len(p) \in Nat /\ Len(q) \in Nat
      BY <1>3
    <3>. QED  BY <1>5, <1>6, <3>1
  <2>2. ASSUME msg.ts > ExtendedStamp PROVE Len(mh) = k + 1 /\ mh[k + 1] = e
    <3>1. Len(r) = 1 /\ r[1] = e
      BY <1>4, <2>2
    <3>2. 1 \in 1..Len(r)
      BY <3>1
    <3>. QED  BY <2>1, <3>1, <3>2
  <2>3. ASSUME ~(msg.ts > ExtendedStamp) PROVE Len(mh) = k
    <3>1. Len(r) = 0
      BY <1>4, <2>3
    <3>. QED  BY <2>1, <3>1
  <2>. QED  BY <2>2, <2>3
<1>. QED  BY <1>7, <1>8, <1>9 DEF a, b, c, d, e, mh, k

\* data begins with a header as ToBitstream writes it.
Begins(data, fmt, csid, msg) ==
  /\ Len(data) \in Nat
  /\ Len(data) >= Len(BasicHeader(fmt, csid)) + Len(MessageHeader(fmt, msg))
  /\ BeginsBasic(data, fmt, csid)
  /\ \A i \in 1..Len(MessageHeader(fmt, msg)) :
       data[Len(BasicHeader(fmt, csid)) + i] = MessageHeader(fmt, msg)[i]

\* What ToBitstream writes begins so, whatever comes behind it.
LEMMA BasicIsSeq ==
  ASSUME NEW Cell, NEW fmt \in 0..3, NEW csid \in Nat, csid >= 2,
         {"basic", "csid"} \X Nat \subseteq Cell
  PROVE  BasicHeader(fmt, csid) \in Seq(Cell)
<1>1. CASE csid <= 63
  <2>1. <<"basic", 64 * fmt + csid>> \in Cell
    OBVIOUS
  <2>. QED  BY <1>1, <2>1 DEF BasicHeader
<1>2. CASE csid \in 64..319
  <2>1. <<"basic", 64 * fmt>> \in Cell /\ <<"csid", csid - 64>> \in Cell
    BY <1>2
  <2>. QED  BY <1>2, <2>1 DEF BasicHeader
<1>3. CASE csid >= 320
  <2>1. (csid - 64) % 256 \in Nat /\ (csid - 64) \div 256 \in Nat
    BY <1>3
  <2>2. /\ <<"basic", 64 * fmt + 1>> \in Cell /\ <<"csid", (csid - 64) % 256>> \in Cell
        /\ <<"csid", (csid - 64) \div 256>> \in Cell
    BY <2>1
  <2>. QED  BY <1>3, <2>2 DEF BasicHeader
<1>. QED  BY <1>1, <1>2, <1>3

LEMMA MessageIsSeq ==
  ASSUME NEW Cell, NEW fmt \in {0, 1, 3}, NEW msg,
         <<"timestamp", Least(msg.ts, ExtendedStamp)>> \in Cell,
         <<"length", Len(msg.payload)>> \in Cell, <<"typeid", msg.type>> \in Cell,
         <<"streamid", msg.stream>> \in Cell, <<"extended", msg.ts>> \in Cell
  PROVE  MessageHeader(fmt, msg) \in Seq(Cell)
<1>. DEFINE p == IF fmt = 3 THEN <<>>
                 ELSE <<<<"timestamp", Least(msg.ts, ExtendedStamp)>>,
                        <<"length", Len(msg.payload)>>, <<"typeid", msg.type>>>>
            q == IF fmt = 0 THEN <<<<"streamid", msg.stream>>>> ELSE <<>>
            r == IF msg.ts > ExtendedStamp THEN <<<<"extended", msg.ts>>>> ELSE <<>>
<1>1. p \in Seq(Cell)
  OBVIOUS
<1>2. q \in Seq(Cell)
  OBVIOUS
<1>3. r \in Seq(Cell)
  OBVIOUS
<1>4. MessageHeader(fmt, msg) = p \o q \o r
  BY DEF MessageHeader
<1>. HIDE DEF p, q, r
<1>. QED  BY <1>1, <1>2, <1>3, <1>4

LEMMA WrittenBegins ==
  ASSUME NEW Cell, NEW fmt \in {0, 1, 3}, NEW csid \in Nat, csid >= 2, NEW msg,
         {"basic", "csid"} \X Nat \subseteq Cell,
         <<"timestamp", Least(msg.ts, ExtendedStamp)>> \in Cell,
         <<"length", Len(msg.payload)>> \in Cell, <<"typeid", msg.type>> \in Cell,
         <<"streamid", msg.stream>> \in Cell, <<"extended", msg.ts>> \in Cell,
         NEW body \in Seq(Cell), NEW rest \in Seq(Cell)
  PROVE  Begins(ToBitstream(fmt, csid, msg, body) \o rest, fmt, csid, msg)
<1>. DEFINE p == BasicHeader(fmt, csid)
            q == MessageHeader(fmt, msg)
            data == (p \o q \o body) \o rest
<1>. HIDE DEF p, q
<1>0. p \in Seq(Cell) /\ q \in Seq(Cell)
  <2>1. p \in Seq(Cell)
    <3>1. fmt \in 0..3
      OBVIOUS
    <3>. QED  BY <3>1, BasicIsSeq DEF p
  <2>2. q \in Seq(Cell)
    BY MessageIsSeq DEF q
  <2>. QED  BY <2>1, <2>2
<1>1. p \o q \o body \in Seq(Cell)
  BY <1>0
<1>2. /\ Len(p \o q \o body) = Len(p) + Len(q) + Len(body)
      /\ \A i \in 1..Len(p) : (p \o q \o body)[i] = p[i]
      /\ \A i \in 1..Len(q) : (p \o q \o body)[Len(p) + i] = q[i]
  BY <1>0, Joined
<1>3. /\ Len(data) = Len(p \o q \o body) + Len(rest)
      /\ \A i \in 1..Len(p \o q \o body) : data[i] = (p \o q \o body)[i]
  BY <1>1
<1>4. Len(p) \in Nat /\ Len(q) \in Nat /\ Len(body) \in Nat /\ Len(rest) \in Nat
  BY <1>0
<1>. HIDE DEF data
<1>5. Len(data) \in Nat /\ Len(data) >= Len(p) + Len(q)
  BY <1>2, <1>3, <1>4
<1>6. \A i \in 1..Len(p) : data[i] = p[i]
  <2>1. SUFFICES ASSUME NEW i \in 1..Len(p) PROVE data[i] = p[i]
    OBVIOUS
  <2>2. i \in 1..Len(p \o q \o body)
    BY <1>2, <1>4
  <2>. QED  BY <1>2, <1>3, <2>2
<1>7. \A i \in 1..Len(q) : data[Len(p) + i] = q[i]
  <2>1. SUFFICES ASSUME NEW i \in 1..Len(q) PROVE data[Len(p) + i] = q[i]
    OBVIOUS
  <2>2. Len(p) + i \in 1..Len(p \o q \o body)
    BY <1>2, <1>4
  <2>. QED  BY <1>2, <1>3, <2>2
<1>. QED  BY <1>5, <1>6, <1>7 DEF Begins, BeginsBasic, ToBitstream, data, p, q

\* The cells of the header at the head of data.
LEMMA HeaderAt ==
  ASSUME NEW fmt \in {0, 1, 3}, NEW csid \in Nat, csid >= 2, NEW msg, NEW data,
         Begins(data, fmt, csid, msg)
  PROVE  /\ Format(data) = fmt /\ ChunkStreamID(data) = csid
         /\ BasicSize(data) = Len(BasicHeader(fmt, csid)) /\ BasicSize(data) \in 1..3
         /\ data[1][1] = "basic" /\ \A i \in 2..BasicSize(data) : data[i][1] = "csid"
         /\ Len(data) \in Nat
         /\ Len(data) >= BasicSize(data) + Len(MessageHeader(fmt, msg))
         /\ \A i \in 1..Len(MessageHeader(fmt, msg)) :
              data[BasicSize(data) + i] = MessageHeader(fmt, msg)[i]
<1>1. fmt \in 0..3
  OBVIOUS
<1>2. BeginsBasic(data, fmt, csid)
  BY DEF Begins
<1>3. /\ Format(data) = fmt /\ ChunkStreamID(data) = csid
      /\ BasicSize(data) = Len(BasicHeader(fmt, csid)) /\ BasicSize(data) \in 1..3
      /\ data[1][1] = "basic" /\ \A i \in 2..BasicSize(data) : data[i][1] = "csid"
  BY <1>1, <1>2, BasicReadBack
<1>4. /\ Len(data) \in Nat
      /\ Len(data) >= BasicSize(data) + Len(MessageHeader(fmt, msg))
      /\ \A i \in 1..Len(MessageHeader(fmt, msg)) :
           data[BasicSize(data) + i] = MessageHeader(fmt, msg)[i]
  BY <1>3 DEF Begins
<1>. QED  BY <1>3, <1>4

\* Whatever is read from a header of ToBitstream is what was written.
THEOREM HeaderReadBack ==
  ASSUME NEW fmt \in {0, 1, 3}, NEW csid \in Nat, csid >= 2, NEW msg, NEW data,
         Begins(data, fmt, csid, msg)
  PROVE  LET at == BasicSize(data) + Len(Fields(fmt))
         IN /\ Format(data) = fmt /\ ChunkStreamID(data) = csid /\ HeaderReads(data)
            /\ fmt # 3 => /\ data[BasicSize(data) + 1][2] = Least(msg.ts, ExtendedStamp)
                          /\ data[BasicSize(data) + 2][2] = Len(msg.payload)
                          /\ data[BasicSize(data) + 3][2] = msg.type
            /\ fmt = 0 => data[BasicSize(data) + 4][2] = msg.stream
            /\ msg.ts > ExtendedStamp =>
                 IsField(data, at + 1, "extended") /\ data[at + 1][2] = msg.ts
<1>0. /\ Format(data) = fmt /\ ChunkStreamID(data) = csid
      /\ BasicSize(data) = Len(BasicHeader(fmt, csid)) /\ BasicSize(data) \in 1..3
      /\ data[1][1] = "basic" /\ \A i \in 2..BasicSize(data) : data[i][1] = "csid"
      /\ Len(data) \in Nat
      /\ Len(data) >= BasicSize(data) + Len(MessageHeader(fmt, msg))
      /\ \A i \in 1..Len(MessageHeader(fmt, msg)) :
           data[BasicSize(data) + i] = MessageHeader(fmt, msg)[i]
  <2>1. PICK type : type = fmt
    OBVIOUS
  <2>. QED  BY HeaderAt
<1>. DEFINE mh == MessageHeader(fmt, msg)
            k == Len(Fields(fmt))
            b == BasicSize(data)
<1>1. /\ Format(data) = fmt /\ ChunkStreamID(data) = csid /\ b \in 1..3
      /\ data[1][1] = "basic" /\ \A i \in 2..b : data[i][1] = "csid"
      /\ Len(data) \in Nat /\ Len(data) >= b + Len(mh)
      /\ \A i \in 1..Len(mh) : data[b + i] = mh[i]
  BY <1>0
<1>2. /\ fmt # 3 => /\ mh[1] = <<"timestamp", Least(msg.ts, ExtendedStamp)>>
                    /\ mh[2] = <<"length", Len(msg.payload)>>
                    /\ mh[3] = <<"typeid", msg.type>>
      /\ fmt = 0 => mh[4] = <<"streamid", msg.stream>>
      /\ msg.ts > ExtendedStamp => Len(mh) = k + 1 /\ mh[k + 1] = <<"extended", msg.ts>>
      /\ ~(msg.ts > ExtendedStamp) => Len(mh) = k
  BY HeaderCells
<1>3. k \in {0, 3, 4} /\ (fmt # 3 => k >= 3) /\ (fmt = 0 => k = 4)
  <2>1. fmt = 0 => k = 4
    BY FieldsFacts
  <2>2. fmt = 1 => k = 3
    BY FieldsFacts
  <2>3. fmt = 3 => k = 0
    BY FieldsFacts
  <2>. HIDE DEF k
  <2>. QED  BY <2>1, <2>2, <2>3
<1>. HIDE DEF mh, k, b
<1>4. Len(mh) \in {k, k + 1} /\ Len(mh) \in Nat /\ Len(mh) >= k
  <2>1. k \in Nat
    BY <1>3
  <2>2. Len(mh) \in {k, k + 1}
    BY <1>2
  <2>. QED  BY <2>1, <2>2
<1>5. ASSUME fmt # 3
      PROVE  data[b + 1] = mh[1] /\ data[b + 2] = mh[2] /\ data[b + 3] = mh[3]
  <2>1. 1 \in 1..Len(mh) /\ 2 \in 1..Len(mh) /\ 3 \in 1..Len(mh)
    BY <1>3, <1>4, <1>5
  <2>. QED  BY <1>1, <2>1
<1>6. ASSUME fmt = 0 PROVE data[b + 4] = mh[4]
  <2>1. k = 4
    BY <1>3, <1>6
  <2>2. 4 \in 1..Len(mh)
    BY <1>4, <2>1
  <2>. QED  BY <1>1, <2>2
<1>7. ASSUME msg.ts > ExtendedStamp
      PROVE  data[b + k + 1] = <<"extended", msg.ts>> /\ Len(data) >= b + k + 1
  <2>1. k + 1 \in 1..Len(mh) /\ Len(mh) = k + 1 /\ mh[k + 1] = <<"extended", msg.ts>>
    BY <1>2, <1>3, <1>7
  <2>2. data[b + (k + 1)] = mh[k + 1] /\ b + (k + 1) = b + k + 1
    BY <1>1, <1>3, <2>1
  <2>. QED  BY <1>1, <1>3, <2>1, <2>2
<1>8. /\ fmt # 3 => /\ data[b + 1] = <<"timestamp", Least(msg.ts, ExtendedStamp)>>
                    /\ data[b + 2] = <<"length", Len(msg.payload)>>
                    /\ data[b + 3] = <<"typeid", msg.type>>
      /\ fmt = 0 => data[b + 4] = <<"streamid", msg.stream>>
  BY <1>2, <1>5, <1>6
<1>9. IsField(data, 1, "basic") /\ \A i \in 2..b : IsField(data, i, "csid")
  BY <1>1, <1>3, <1>4 DEF IsField
<1>10. \A i \in DOMAIN Fields(fmt) : IsField(data, b + i, Fields(fmt)[i])
  <2>1. CASE fmt = 0
    <3>1. DOMAIN Fields(fmt) = 1..4 /\ Len(data) >= b + 4
      <4>1. k = 4
        BY <1>3, <2>1
      <4>2. Len(mh) \in Nat /\ Len(mh) >= 4
        BY <1>4, <4>1
      <4>3. b \in 1..3 /\ Len(data) \in Nat /\ Len(data) >= b + Len(mh)
        BY <1>1
      <4>4. Len(data) >= b + 4
        BY <4>2, <4>3
      <4>5. DOMAIN Fields(fmt) = 1..4
        BY <2>1, FieldsFacts
      <4>. QED  BY <4>4, <4>5
    <3>2. /\ Fields(fmt)[1] = "timestamp" /\ Fields(fmt)[2] = "length"
          /\ Fields(fmt)[3] = "typeid" /\ Fields(fmt)[4] = "streamid"
      BY <2>1, FieldsFacts
    <3>3. /\ data[b + 1][1] = "timestamp" /\ data[b + 2][1] = "length"
          /\ data[b + 3][1] = "typeid" /\ data[b + 4][1] = "streamid"
      BY <1>8, <2>1
    <3>4. \A i \in 1..4 : i = 1 \/ i = 2 \/ i = 3 \/ i = 4
      OBVIOUS
    <3>5. \A i \in 1..4 : Len(data) >= b + i
      BY <1>1, <3>1
    <3>6. \A i \in 1..4 : data[b + i][1] = Fields(fmt)[i]
      BY <3>2, <3>3, <3>4
    <3>. QED  BY <3>1, <3>5, <3>6 DEF IsField
  <2>2. CASE fmt = 1
    <3>1. DOMAIN Fields(fmt) = 1..3 /\ Len(data) >= b + 3
      BY <1>1, <1>3, <1>4, <2>2, FieldsFacts
    <3>2. /\ Fields(fmt)[1] = "timestamp" /\ Fields(fmt)[2] = "length"
          /\ Fields(fmt)[3] = "typeid"
      BY <2>2, FieldsFacts
    <3>3. data[b + 1][1] = "timestamp" /\ data[b + 2][1] = "length" /\ data[b + 3][1] = "typeid"
      BY <1>8, <2>2
    <3>4. \A i \in 1..3 : i = 1 \/ i = 2 \/ i = 3
      OBVIOUS
    <3>5. \A i \in 1..3 : Len(data) >= b + i
      BY <1>1, <3>1
    <3>6. \A i \in 1..3 : data[b + i][1] = Fields(fmt)[i]
      BY <3>2, <3>3, <3>4
    <3>. QED  BY <3>1, <3>5, <3>6 DEF IsField
  <2>3. CASE fmt = 3
    <3>1. DOMAIN Fields(fmt) = {}
      BY <2>3, FieldsFacts
    <3>. QED  BY <3>1
  <2>. QED  BY <2>1, <2>2, <2>3
<1>11. HeaderReads(data)
  BY <1>1, <1>9, <1>10 DEF HeaderReads, b
<1>12. /\ fmt # 3 => /\ data[b + 1][2] = Least(msg.ts, ExtendedStamp)
                     /\ data[b + 2][2] = Len(msg.payload)
                     /\ data[b + 3][2] = msg.type
       /\ fmt = 0 => data[b + 4][2] = msg.stream
  BY <1>8
<1>13. msg.ts > ExtendedStamp =>
         IsField(data, b + k + 1, "extended") /\ data[b + k + 1][2] = msg.ts
  BY <1>7 DEF IsField
<1>. QED  BY <1>1, <1>11, <1>12, <1>13 DEF b, k

\* The code's parser finds the length and the type where a header of Type 0 or 1 has
\* them, and reads a header of Type 3 as a chunk that goes on.
LEMMA FieldIndex ==
  ASSUME NEW fmt \in {0, 1}
  PROVE  /\ DOMAIN Fields(fmt) \in {1..3, 1..4}
         /\ \A i \in DOMAIN Fields(fmt) : Fields(fmt)[i] = "length" <=> i = 2
         /\ \A i \in DOMAIN Fields(fmt) : Fields(fmt)[i] = "typeid" <=> i = 3
<1>1. CASE fmt = 0
  <2>1. /\ DOMAIN Fields(fmt) = 1..4
        /\ Fields(fmt)[1] = "timestamp" /\ Fields(fmt)[2] = "length"
        /\ Fields(fmt)[3] = "typeid" /\ Fields(fmt)[4] = "streamid"
    BY <1>1, FieldsFacts
  <2>2. \A i \in 1..4 : i = 1 \/ i = 2 \/ i = 3 \/ i = 4
    OBVIOUS
  <2>. QED  BY <2>1, <2>2
<1>2. CASE fmt = 1
  <2>1. /\ DOMAIN Fields(fmt) = 1..3
        /\ Fields(fmt)[1] = "timestamp" /\ Fields(fmt)[2] = "length" /\ Fields(fmt)[3] = "typeid"
    BY <1>2, FieldsFacts
  <2>2. \A i \in 1..3 : i = 1 \/ i = 2 \/ i = 3
    OBVIOUS
  <2>. QED  BY <2>1, <2>2
<1>. QED  BY <1>1, <1>2

LEMMA ParsedField ==
  ASSUME NEW fmt \in {0, 1}, NEW data, Format(data) = fmt, NEW size
  PROVE  /\ ParseChunk(data, size).length = data[BasicSize(data) + 2][2]
         /\ ParseChunk(data, size).type = data[BasicSize(data) + 3][2]
<1>. DEFINE D == DOMAIN Fields(Format(data))
<1>1. 2 \in D /\ 3 \in D
  <2>1. 2 \in 1..3 /\ 3 \in 1..3 /\ 2 \in 1..4 /\ 3 \in 1..4
    OBVIOUS
  <2>. QED  BY <2>1, FieldIndex
<1>2. /\ \E i \in D : Fields(Format(data))[i] = "length"
      /\ (CHOOSE i \in D : Fields(Format(data))[i] = "length") = 2
  BY <1>1, FieldIndex
<1>3. /\ \E i \in D : Fields(Format(data))[i] = "typeid"
      /\ (CHOOSE i \in D : Fields(Format(data))[i] = "typeid") = 3
  BY <1>1, FieldIndex
<1>4. ParseChunk(data, size).length = data[BasicSize(data) + 2][2]
  BY <1>2 DEF ParseChunk
<1>5. ParseChunk(data, size).type = data[BasicSize(data) + 3][2]
  BY <1>3 DEF ParseChunk
<1>. QED  BY <1>4, <1>5

\* ChunkMessage::TryParse reads back a chunk of ToBitstream, and its payload begins
\* where the header ends unless the time stamp is extended: then the extension is
\* taken for payload.
THEOREM ChunkReadBack ==
  ASSUME NEW fmt \in {0, 1, 3}, NEW csid \in Nat, csid >= 2, NEW msg, NEW data, NEW size,
         Begins(data, fmt, csid, msg)
  PROVE  LET chunk  == ParseChunk(data, size)
             header == Len(BasicHeader(fmt, csid)) + Len(MessageHeader(fmt, msg))
         IN /\ chunk.fmt = fmt /\ chunk.csid = csid
            /\ fmt # 3 => chunk.length = Len(msg.payload) /\ chunk.type = msg.type
            /\ ~(msg.ts > ExtendedStamp) => chunk.header = header
            /\ msg.ts > ExtendedStamp => /\ chunk.header = header - 1
                                         /\ data[chunk.header + 1] = <<"extended", msg.ts>>
            /\ chunk.payload = SubSeq(data, chunk.header + 1, Least(chunk.header + size, Len(data)))
<1>. DEFINE chunk == ParseChunk(data, size)
            mh == MessageHeader(fmt, msg)
            b == BasicSize(data)
            k == Len(Fields(fmt))
<1>1. /\ Format(data) = fmt /\ ChunkStreamID(data) = csid
      /\ b = Len(BasicHeader(fmt, csid)) /\ b \in 1..3
      /\ \A i \in 1..Len(mh) : data[b + i] = mh[i]
  BY HeaderAt
<1>2. chunk.fmt = fmt /\ chunk.csid = csid /\ chunk.header = b + k
  BY <1>1 DEF ParseChunk
<1>3. fmt # 3 => chunk.length = Len(msg.payload) /\ chunk.type = msg.type
  <2>1. SUFFICES ASSUME fmt # 3 PROVE chunk.length = Len(msg.payload) /\ chunk.type = msg.type
    OBVIOUS
  <2>2. data[b + 2][2] = Len(msg.payload) /\ data[b + 3][2] = msg.type
    BY <2>1, HeaderReadBack
  <2>3. chunk.length = data[b + 2][2] /\ chunk.type = data[b + 3][2]
    BY <1>1, <2>1, ParsedField
  <2>. QED  BY <2>2, <2>3
<1>4. /\ msg.ts > ExtendedStamp => Len(mh) = k + 1 /\ mh[k + 1] = <<"extended", msg.ts>>
      /\ ~(msg.ts > ExtendedStamp) => Len(mh) = k
  BY HeaderCells
<1>5. k \in Nat
  BY FieldsFacts
<1>6. chunk.payload = SubSeq(data, chunk.header + 1, Least(chunk.header + size, Len(data)))
  BY DEF ParseChunk
<1>. HIDE DEF chunk, mh, b, k
<1>7. ~(msg.ts > ExtendedStamp) => chunk.header = b + Len(mh)
  BY <1>2, <1>4
<1>8. ASSUME msg.ts > ExtendedStamp
      PROVE  chunk.header = b + Len(mh) - 1 /\ data[chunk.header + 1] = <<"extended", msg.ts>>
  <2>1. Len(mh) = k + 1 /\ k + 1 \in 1..Len(mh) /\ mh[k + 1] = <<"extended", msg.ts>>
    BY <1>4, <1>5, <1>8
  <2>2. data[b + (k + 1)] = <<"extended", msg.ts>>
    BY <1>1, <2>1
  <2>3. b \in Nat
    BY <1>1
  <2>4. b + (k + 1) = chunk.header + 1 /\ chunk.header = b + Len(mh) - 1
    BY <1>2, <1>5, <2>1, <2>3
  <2>. QED  BY <2>2, <2>4
<1>. QED  BY <1>1, <1>2, <1>3, <1>6, <1>7, <1>8 DEF chunk, mh, b, k
----------------------------------------------------------------------------
(* Sequences of any elements, and FlattenSeq.                                 *)

\* Induction over the numbers up to a bound, for a set and not for a predicate.
Below == {pair \in Nat \X Nat : pair[1] < pair[2]}
LEMMA SetInduction ==
  ASSUME NEW S, 0 \in S, \A n \in Nat : n \in S => n + 1 \in S
  PROVE  \A n \in Nat : n \in S
<1>. DEFINE T == Nat \ S
<1>1. IsWellFoundedOn(Below, Nat)
  BY NatLessThanWellFounded DEF OpToRel, Below
<1>2. SUFFICES ASSUME T # {} PROVE FALSE
  OBVIOUS
<1>3. PICK x \in T : \A y \in T : ~ (<<y, x>> \in Below)
  <2>1. T \subseteq Nat
    OBVIOUS
  <2>. HIDE DEF T
  <2>. QED BY <1>1, <1>2, <2>1, WFMin
<1>4. x # 0 /\ x - 1 \in Nat /\ x - 1 < x
  OBVIOUS
<1>5. x - 1 \in T
  BY <1>4
<1>6. <<x - 1, x>> \in Below
  BY <1>4 DEF Below
<1>. QED BY <1>3, <1>5, <1>6

----------------------------------------------------------------------------
\* Sequences, of whatever they are made.
IsSeq(s) == s \in Seq(Range(s))

LEMMA SeqIsSeq == ASSUME NEW S, NEW s \in Seq(S) PROVE IsSeq(s)
<1>1. Len(s) \in Nat /\ DOMAIN s = 1..Len(s) /\ s = [i \in 1..Len(s) |-> s[i]]
  OBVIOUS
<1>2. \A i \in 1..Len(s) : s[i] \in Range(s)
  BY <1>1 DEF Range
<1>3. s \in [1..Len(s) -> Range(s)]
  BY <1>1, <1>2
<1>. QED  BY <1>1, <1>3, SeqDef DEF IsSeq

LEMMA SeqLen ==
  ASSUME NEW s, IsSeq(s)
  PROVE  /\ Len(s) \in Nat /\ DOMAIN s = 1..Len(s)
         /\ \A i \in 1..Len(s) : s[i] \in Range(s)
         /\ s = <<>> <=> Len(s) = 0
BY EmptySeq, LenProperties DEF IsSeq

LEMMA SeqTyped ==
  ASSUME NEW s, IsSeq(s), NEW S, \A i \in 1..Len(s) : s[i] \in S
  PROVE  s \in Seq(S)
<1>1. Len(s) \in Nat /\ s = [i \in 1..Len(s) |-> s[i]] /\ s \in [1..Len(s) -> S]
  BY LenProperties DEF IsSeq
<1>. QED BY <1>1, SeqDef

LEMMA SeqMade ==
  ASSUME NEW n \in Nat, NEW s, DOMAIN s = 1..n, s = [i \in 1..n |-> s[i]]
  PROVE  IsSeq(s) /\ Len(s) = n
<1>1. s \in [1..n -> Range(s)]
  BY DEF Range
<1>. QED BY <1>1, SeqDef, LenProperties DEF IsSeq

LEMMA SeqSame ==
  ASSUME NEW s, NEW t, IsSeq(s), IsSeq(t), Len(s) = Len(t), \A i \in 1..Len(s) : s[i] = t[i]
  PROVE  s = t
<1>1. s \in Seq(Range(s) \union Range(t)) /\ t \in Seq(Range(s) \union Range(t))
  BY SeqMonotonic DEF IsSeq
<1>. QED BY <1>1, SeqEqual

LEMMA SeqConcat ==
  ASSUME NEW s, NEW t, IsSeq(s), IsSeq(t)
  PROVE  /\ IsSeq(s \o t) /\ Len(s \o t) = Len(s) + Len(t)
         /\ \A i \in 1..Len(s) : (s \o t)[i] = s[i]
         /\ \A i \in 1..Len(t) : (s \o t)[Len(s) + i] = t[i]
<1>1. s \in Seq(Range(s) \union Range(t)) /\ t \in Seq(Range(s) \union Range(t))
  BY SeqMonotonic DEF IsSeq
<1>. DEFINE S == Range(s) \union Range(t)
<1>. HIDE DEF S
<1>2. /\ s \o t \in Seq(S) /\ Len(s \o t) = Len(s) + Len(t) /\ Len(s) \in Nat /\ Len(t) \in Nat
      /\ \A i \in 1..Len(s) + Len(t) : (s \o t)[i] = IF i <= Len(s) THEN s[i] ELSE t[i - Len(s)]
  BY <1>1, ConcatProperties, LenProperties DEF S
<1>3. IsSeq(s \o t)
  BY <1>2, SeqIsSeq
<1>4. \A i \in 1..Len(s) : (s \o t)[i] = s[i]
  BY <1>2
<1>5. \A i \in 1..Len(t) : (s \o t)[Len(s) + i] = t[i]
  <2>1. \A i \in 1..Len(t) : Len(s) + i \in 1..Len(s) + Len(t) /\ ~(Len(s) + i <= Len(s))
                             /\ Len(s) + i - Len(s) = i
    BY <1>2
  <2>. QED  BY <1>2, <2>1
<1>. QED BY <1>2, <1>3, <1>4, <1>5

LEMMA SeqAssoc ==
  ASSUME NEW s, NEW t, NEW u, IsSeq(s), IsSeq(t), IsSeq(u)
  PROVE  (s \o t) \o u = s \o (t \o u)
<1>1. /\ s \in Seq(Range(s) \union Range(t) \union Range(u))
      /\ t \in Seq(Range(s) \union Range(t) \union Range(u))
      /\ u \in Seq(Range(s) \union Range(t) \union Range(u))
  BY SeqMonotonic DEF IsSeq
<1>. QED BY <1>1, ConcatAssociative

LEMMA SeqEmpty ==
  /\ IsSeq(<<>>) /\ Len(<<>>) = 0
  /\ \A s : IsSeq(s) => s \o <<>> = s /\ <<>> \o s = s
BY EmptySeq, ConcatEmptySeq, SeqIsSeq DEF IsSeq

LEMMA SeqTail ==
  ASSUME NEW s, IsSeq(s), s # <<>>
  PROVE  /\ IsSeq(Tail(s)) /\ Len(Tail(s)) = Len(s) - 1 /\ Head(s) = s[1]
         /\ \A i \in 1..(Len(s) - 1) : Tail(s)[i] = s[i + 1]
<1>1. s \in Seq(Range(s))
  BY DEF IsSeq
<1>2. /\ Tail(s) \in Seq(Range(s)) /\ Len(Tail(s)) = Len(s) - 1
      /\ \A i \in 1..Len(Tail(s)) : Tail(s)[i] = s[i + 1]
  BY <1>1, HeadTailProperties
<1>3. Head(s) = s[1]
  BY <1>1
<1>. QED  BY <1>2, <1>3, SeqIsSeq

LEMMA SeqAppend ==
  ASSUME NEW s, IsSeq(s), NEW x
  PROVE  /\ IsSeq(Append(s, x)) /\ Len(Append(s, x)) = Len(s) + 1
         /\ Append(s, x)[Len(s) + 1] = x
         /\ \A i \in 1..Len(s) : Append(s, x)[i] = s[i]
<1>1. s \in Seq(Range(s) \union {x})
  BY SeqMonotonic DEF IsSeq
<1>2. Append(s, x) \in Seq(Range(s) \union {x}) /\ Len(s) \in Nat
  BY <1>1
<1>3. IsSeq(Append(s, x))
  BY <1>2, SeqIsSeq
<1>4. Len(Append(s, x)) = Len(s) + 1 /\ Append(s, x)[Len(s) + 1] = x
  BY <1>1
<1>5. \A i \in 1..Len(s) : Append(s, x)[i] = s[i]
  BY <1>1
<1>. QED  BY <1>3, <1>4, <1>5

LEMMA SeqSub ==
  ASSUME NEW s, IsSeq(s), NEW m \in Nat \ {0}, NEW n \in 0..Len(s), m <= n + 1
  PROVE  /\ IsSeq(SubSeq(s, m, n)) /\ Len(SubSeq(s, m, n)) = n - m + 1
         /\ \A i \in 1..(n - m + 1) : SubSeq(s, m, n)[i] = s[m + i - 1]
<1>1. m \in Int /\ n \in Int /\ Len(s) \in Nat
  BY SeqLen
<1>2. \A i \in m..n : s[i] \in Range(s)
  BY <1>1, SeqLen
<1>3. /\ SubSeq(s, m, n) \in Seq(Range(s))
      /\ Len(SubSeq(s, m, n)) = IF m <= n THEN n - m + 1 ELSE 0
      /\ \A i \in 1..(n - m + 1) : SubSeq(s, m, n)[i] = s[m + i - 1]
  BY <1>1, <1>2, SubSeqProperties
<1>4. Len(SubSeq(s, m, n)) = n - m + 1
  BY <1>1, <1>3
<1>5. IsSeq(SubSeq(s, m, n))
  BY <1>3, SeqIsSeq
<1>. QED  BY <1>3, <1>4, <1>5
----------------------------------------------------------------------------
\* FlattenSeq: the function it is the last value of, and what follows from it.
Flattens(g, s, n) == g = [i \in 1..n |-> IF i = 1 THEN s[i] ELSE g[i - 1] \o s[i]]
AllSeqs(s) == IsSeq(s) /\ \A i \in 1..Len(s) : IsSeq(s[i])

LEMMA FlattensAt ==
  ASSUME NEW g, NEW s, NEW n \in Nat, Flattens(g, s, n)
  PROVE  \A i \in 1..n : g[i] = IF i = 1 THEN s[i] ELSE g[i - 1] \o s[i]
<1>. DEFINE G == [i \in 1..n |-> IF i = 1 THEN s[i] ELSE g[i - 1] \o s[i]]
<1>1. g = G
  BY DEF Flattens
<1>2. \A i \in 1..n : G[i] = IF i = 1 THEN s[i] ELSE g[i - 1] \o s[i]
  OBVIOUS
<1>. HIDE DEF G
<1>. QED  BY <1>1, <1>2

LEMMA FlattensExists ==
  ASSUME NEW s
  PROVE  \A n \in Nat : \E g : Flattens(g, s, n)
<1>. DEFINE S == {n \in Nat : \E g : Flattens(g, s, n)}
<1>1. 0 \in S
  <2>1. Flattens([i \in 1..0 |-> 0], s, 0)
    BY DEF Flattens
  <2>. QED  BY <2>1
<1>2. ASSUME NEW n \in Nat, n \in S PROVE n + 1 \in S
  <2>1. PICK g : Flattens(g, s, n)
    BY <1>2
  <2>. DEFINE h == [i \in 1..(n + 1) |-> IF i <= n THEN g[i] ELSE IF i = 1 THEN s[i] ELSE g[i - 1] \o s[i]]
  <2>2. \A i \in 1..n : g[i] = IF i = 1 THEN s[i] ELSE g[i - 1] \o s[i]
    BY <2>1, FlattensAt
  <2>3. \A i \in 1..n : h[i] = g[i]
    OBVIOUS
  <2>4. h[n + 1] = IF n + 1 = 1 THEN s[n + 1] ELSE g[n] \o s[n + 1]
    <3>1. n + 1 \in 1..(n + 1) /\ ~(n + 1 <= n) /\ (n + 1) - 1 = n
      OBVIOUS
    <3>. QED  BY <3>1
  <2>5. h = [i \in 1..(n + 1) |-> h[i]]
    OBVIOUS
  <2>. HIDE DEF h
  <2>6. \A i \in 1..(n + 1) : h[i] = IF i = 1 THEN s[i] ELSE h[i - 1] \o s[i]
    <3>. TAKE i \in 1..(n + 1)
    <3>1. CASE i \in 1..n
      <4>1. i = 1 \/ i - 1 \in 1..n
        BY <3>1
      <4>. QED  BY <2>2, <2>3, <3>1, <4>1
    <3>2. CASE i = n + 1
      <4>1. n + 1 = 1 \/ (n \in 1..n /\ n + 1 # 1)
        OBVIOUS
      <4>2. (n + 1) - 1 = n
        OBVIOUS
      <4>3. CASE n + 1 = 1
        BY <2>4, <3>2, <4>3
      <4>4. CASE n \in 1..n /\ n + 1 # 1
        BY <2>3, <2>4, <3>2, <4>2, <4>4
      <4>. QED  BY <4>1, <4>3, <4>4
    <3>. QED  BY <3>1, <3>2
  <2>7. Flattens(h, s, n + 1)
    <3>1. [i \in 1..(n + 1) |-> h[i]]
            = [i \in 1..(n + 1) |-> IF i = 1 THEN s[i] ELSE h[i - 1] \o s[i]]
      BY <2>6
    <3>. QED  BY <2>5, <3>1 DEF Flattens
  <2>. QED  BY <2>7
<1>. HIDE DEF S
<1>3. \A n \in Nat : n \in S
  BY <1>1, <1>2, SetInduction
<1>. QED  BY <1>3 DEF S

LEMMA FlattenIs ==
  ASSUME NEW s, Len(s) \in Nat \ {0}
  PROVE  \E g : Flattens(g, s, Len(s)) /\ FlattenSeq(s) = g[Len(s)]
<1>. DEFINE g == CHOOSE g : g = [i \in 1..Len(s) |-> IF i = 1 THEN s[i] ELSE g[i - 1] \o s[i]]
<1>1. FlattenSeq(s) = g[Len(s)]
  BY DEF FlattenSeq
<1>2. \E h : h = [i \in 1..Len(s) |-> IF i = 1 THEN s[i] ELSE h[i - 1] \o s[i]]
  BY FlattensExists DEF Flattens
<1>3. g = [i \in 1..Len(s) |-> IF i = 1 THEN s[i] ELSE g[i - 1] \o s[i]]
  BY <1>2
<1>. HIDE DEF g
<1>4. Flattens(g, s, Len(s))
  BY <1>3 DEF Flattens
<1>. QED  BY <1>1, <1>4

LEMMA FlattensSeq ==
  ASSUME NEW g, NEW s, AllSeqs(s), NEW n \in Nat, n <= Len(s), Flattens(g, s, n)
  PROVE  \A i \in 1..n : IsSeq(g[i])
<1>. DEFINE S == {i \in Nat : i \in 1..n => IsSeq(g[i])}
<1>0. Len(s) \in Nat /\ \A i \in 1..Len(s) : IsSeq(s[i])
  BY SeqLen DEF AllSeqs
<1>1. 0 \in S
  OBVIOUS
<1>2. ASSUME NEW i \in Nat, i \in S PROVE i + 1 \in S
  <2>1. SUFFICES ASSUME i + 1 \in 1..n PROVE IsSeq(g[i + 1])
    OBVIOUS
  <2>2. g[i + 1] = IF i + 1 = 1 THEN s[i + 1] ELSE g[(i + 1) - 1] \o s[i + 1]
    BY <2>1, FlattensAt
  <2>3. i + 1 \in 1..Len(s) /\ (i + 1) - 1 = i /\ (i + 1 # 1 => i \in 1..n)
    BY <1>0, <2>1
  <2>4. IsSeq(s[i + 1])
    BY <1>0, <2>3
  <2>5. CASE i + 1 = 1
    BY <2>2, <2>4, <2>5
  <2>6. CASE i + 1 # 1
    <3>1. IsSeq(g[i])
      BY <1>2, <2>3, <2>6
    <3>. QED  BY <2>2, <2>3, <2>4, <2>6, <3>1, SeqConcat
  <2>. QED  BY <2>5, <2>6
<1>. HIDE DEF S
<1>3. \A i \in Nat : i \in S
  BY <1>1, <1>2, SetInduction
<1>. QED  BY <1>3 DEF S

LEMMA FlattenEmpty == FlattenSeq(<<>>) = <<>>
  BY SeqEmpty DEF FlattenSeq

LEMMA FlattenIsSeq ==
  ASSUME NEW s, AllSeqs(s) PROVE IsSeq(FlattenSeq(s))
<1>0. IsSeq(s) /\ Len(s) \in Nat /\ (s = <<>> <=> Len(s) = 0)
  BY SeqLen DEF AllSeqs
<1>1. CASE Len(s) = 0
  BY <1>0, <1>1, FlattenEmpty, SeqEmpty
<1>2. CASE Len(s) # 0
  <2>1. PICK g : Flattens(g, s, Len(s)) /\ FlattenSeq(s) = g[Len(s)]
    BY <1>0, <1>2, FlattenIs
  <2>2. Len(s) \in 1..Len(s) /\ Len(s) <= Len(s)
    BY <1>0, <1>2
  <2>. QED  BY <1>0, <2>1, <2>2, FlattensSeq
<1>. QED  BY <1>1, <1>2

LEMMA FlattenOne == ASSUME NEW x PROVE FlattenSeq(<<x>>) = x
<1>1. Len(<<x>>) = 1 /\ <<x>>[1] = x
  OBVIOUS
<1>. DEFINE s == <<x>>
<1>2. \E g : Flattens(g, s, Len(s)) /\ FlattenSeq(s) = g[Len(s)]
  <2>1. Len(s) \in Nat \ {0}
    BY <1>1
  <2>. HIDE DEF s
  <2>. QED  BY <2>1, FlattenIs
<1>3. PICK g : Flattens(g, s, 1) /\ FlattenSeq(s) = g[1]
  BY <1>1, <1>2
<1>4. g[1] = s[1]
  <2>. HIDE DEF s
  <2>. QED  BY <1>3, FlattensAt
<1>. QED  BY <1>1, <1>3, <1>4

LEMMA FlattenAppend ==
  ASSUME NEW s, AllSeqs(s), NEW x, IsSeq(x)
  PROVE  /\ AllSeqs(Append(s, x)) /\ FlattenSeq(Append(s, x)) = FlattenSeq(s) \o x
<1>. DEFINE n == Len(s)
            t == Append(s, x)
<1>0. IsSeq(s) /\ n \in Nat /\ \A i \in 1..n : IsSeq(s[i])
  BY SeqLen DEF AllSeqs
<1>1. IsSeq(t) /\ Len(t) = n + 1 /\ t[n + 1] = x /\ \A i \in 1..n : t[i] = s[i]
  BY <1>0, SeqAppend
<1>. HIDE DEF n, t
<1>2. AllSeqs(t)
  <2>1. \A i \in 1..(n + 1) : i \in 1..n \/ i = n + 1
    BY <1>0
  <2>. QED  BY <1>0, <1>1, <2>1 DEF AllSeqs
<1>3. PICK g : Flattens(g, t, n + 1) /\ FlattenSeq(t) = g[n + 1]
  <2>1. Len(t) \in Nat \ {0}
    BY <1>0, <1>1
  <2>. QED  BY <1>1, <2>1, FlattenIs
<1>4. \A i \in 1..(n + 1) : g[i] = IF i = 1 THEN t[i] ELSE g[i - 1] \o t[i]
  <2>1. n + 1 \in Nat
    BY <1>0
  <2>. QED  BY <1>3, <2>1, FlattensAt
<1>5. CASE n = 0
  <2>1. g[1] = x
    BY <1>1, <1>4, <1>5
  <2>2. s = <<>>
    BY <1>0, <1>5, SeqLen DEF n
  <2>3. FlattenSeq(t) = x /\ <<>> \o x = x /\ FlattenSeq(s) = <<>>
    BY <1>3, <1>5, <2>1, <2>2, FlattenEmpty, SeqEmpty
  <2>. QED  BY <1>2, <2>3 DEF t
<1>6. CASE n # 0
  <2>1. PICK h : Flattens(h, s, n) /\ FlattenSeq(s) = h[n]
    BY <1>0, <1>6, FlattenIs DEF n
  <2>2. \A i \in 1..n : h[i] = IF i = 1 THEN s[i] ELSE h[i - 1] \o s[i]
    BY <1>0, <2>1, FlattensAt
  <2>. DEFINE S == {i \in Nat : i \in 1..n => g[i] = h[i]}
  <2>3. 0 \in S
    OBVIOUS
  <2>4. ASSUME NEW i \in Nat, i \in S PROVE i + 1 \in S
    <3>1. SUFFICES ASSUME i + 1 \in 1..n PROVE g[i + 1] = h[i + 1]
      OBVIOUS
    <3>2. i + 1 \in 1..(n + 1) /\ (i + 1) - 1 = i /\ (i + 1 # 1 => i \in 1..n)
      BY <1>0, <3>1
    <3>3. g[i + 1] = IF i + 1 = 1 THEN t[i + 1] ELSE g[i] \o t[i + 1]
      BY <1>4, <3>2
    <3>4. h[i + 1] = IF i + 1 = 1 THEN s[i + 1] ELSE h[i] \o s[i + 1]
      BY <2>2, <3>1, <3>2
    <3>5. t[i + 1] = s[i + 1] /\ (i + 1 # 1 => g[i] = h[i])
      BY <1>1, <2>4, <3>1, <3>2
    <3>. QED  BY <3>3, <3>4, <3>5
  <2>. HIDE DEF S
  <2>5. \A i \in Nat : i \in S
    BY <2>3, <2>4, SetInduction
  <2>6. g[n] = h[n]
    <3>1. n \in 1..n
      BY <1>0, <1>6
    <3>. QED  BY <1>0, <2>5, <3>1 DEF S
  <2>7. g[n + 1] = g[n] \o x
    <3>1. n + 1 \in 1..(n + 1) /\ n + 1 # 1 /\ (n + 1) - 1 = n
      BY <1>0, <1>6
    <3>. QED  BY <1>1, <1>4, <3>1
  <2>. QED  BY <1>2, <1>3, <2>1, <2>6, <2>7 DEF t
<1>. QED  BY <1>5, <1>6

LEMMA FlattenHead ==
  ASSUME NEW s, AllSeqs(s), s # <<>>
  PROVE  /\ AllSeqs(Tail(s)) /\ IsSeq(s[1]) /\ IsSeq(FlattenSeq(Tail(s)))
         /\ FlattenSeq(s) = s[1] \o FlattenSeq(Tail(s))
<1>. DEFINE n == Len(s)
            t == Tail(s)
<1>0. IsSeq(s) /\ n \in Nat /\ n # 0 /\ \A i \in 1..n : IsSeq(s[i])
  BY SeqLen DEF AllSeqs
<1>1. IsSeq(t) /\ Len(t) = n - 1 /\ \A i \in 1..(n - 1) : t[i] = s[i + 1]
  BY <1>0, SeqTail
<1>. HIDE DEF n, t
<1>2. AllSeqs(t)
  <2>1. \A i \in 1..(n - 1) : i + 1 \in 1..n
    BY <1>0
  <2>. QED  BY <1>0, <1>1, <2>1 DEF AllSeqs
<1>3. IsSeq(s[1]) /\ IsSeq(FlattenSeq(t))
  <2>1. 1 \in 1..n
    BY <1>0
  <2>. QED  BY <1>0, <1>2, <2>1, FlattenIsSeq
<1>4. PICK g : Flattens(g, s, n) /\ FlattenSeq(s) = g[n]
  BY <1>0, FlattenIs DEF n
<1>5. \A i \in 1..n : g[i] = IF i = 1 THEN s[i] ELSE g[i - 1] \o s[i]
  BY <1>0, <1>4, FlattensAt
<1>6. CASE n = 1
  <2>1. g[1] = s[1]
    BY <1>5, <1>6
  <2>2. t = <<>>
    BY <1>1, <1>6, SeqLen
  <2>. QED  BY <1>2, <1>3, <1>4, <1>6, <2>1, <2>2, FlattenEmpty, SeqEmpty DEF t
<1>7. CASE n # 1
  <2>0. n - 1 \in Nat \ {0}
    BY <1>0, <1>7
  <2>1. PICK h : Flattens(h, t, n - 1) /\ FlattenSeq(t) = h[n - 1]
    BY <1>1, <2>0, FlattenIs
  <2>2. \A i \in 1..(n - 1) : h[i] = IF i = 1 THEN t[i] ELSE h[i - 1] \o t[i]
    BY <2>0, <2>1, FlattensAt
  <2>3. \A i \in 1..(n - 1) : IsSeq(h[i])
    <3>1. n - 1 \in Nat /\ n - 1 <= Len(t)
      BY <1>1, <2>0
    <3>. QED  BY <1>2, <2>1, <3>1, FlattensSeq
  <2>. DEFINE S == {i \in Nat : i \in 1..(n - 1) => g[i + 1] = s[1] \o h[i]}
  <2>4. 0 \in S
    OBVIOUS
  <2>5. ASSUME NEW i \in Nat, i \in S PROVE i + 1 \in S
    <3>. DEFINE k == i + 1
    <3>0. k \in Nat
      OBVIOUS
    <3>1. SUFFICES ASSUME k \in 1..(n - 1) PROVE g[k + 1] = s[1] \o h[k]
      BY <3>0
    <3>2. /\ (i + 1) + 1 \in 1..n /\ ((i + 1) + 1) - 1 = i + 1 /\ (i + 1) + 1 # 1 /\ (i + 1) - 1 = i
          /\ i + 1 # 1 => i \in 1..(n - 1)
      BY <1>0, <3>1
    <3>3. g[(i + 1) + 1] = g[i + 1] \o s[(i + 1) + 1]
      BY <1>5, <3>2
    <3>4. h[i + 1] = IF i + 1 = 1 THEN t[i + 1] ELSE h[i] \o t[i + 1]
      BY <2>2, <3>1, <3>2
    <3>5. t[i + 1] = s[(i + 1) + 1] /\ IsSeq(t[i + 1])
      BY <1>1, <1>2, <3>1 DEF AllSeqs
    <3>6. CASE i + 1 = 1
      <4>1. g[i + 1] = s[1]
        <5>1. 1 \in 1..n
          BY <1>0
        <5>. QED  BY <1>5, <3>6, <5>1
      <4>. QED  BY <3>3, <3>4, <3>5, <3>6, <4>1
    <3>7. CASE i + 1 # 1
      <4>1. g[i + 1] = s[1] \o h[i] /\ IsSeq(h[i])
        BY <2>3, <2>5, <3>2, <3>7
      <4>2. (s[1] \o h[i]) \o t[i + 1] = s[1] \o (h[i] \o t[i + 1])
        <5>1. IsSeq(s[1]) /\ IsSeq(h[i]) /\ IsSeq(t[i + 1])
          BY <1>3, <3>5, <4>1
        <5>2. PICK a, b, c : a = s[1] /\ b = h[i] /\ c = t[i + 1]
          OBVIOUS
        <5>3. IsSeq(a) /\ IsSeq(b) /\ IsSeq(c)
          BY <5>1, <5>2
        <5>4. (a \o b) \o c = a \o (b \o c)
          BY <5>3, SeqAssoc
        <5>. QED  BY <5>2, <5>4
      <4>. QED  BY <3>3, <3>4, <3>5, <3>7, <4>1, <4>2
    <3>. QED  BY <3>6, <3>7
  <2>. HIDE DEF S
  <2>6. \A i \in Nat : i \in S
    BY <2>4, <2>5, SetInduction
  <2>7. g[n] = s[1] \o h[n - 1]
    <3>1. n - 1 \in 1..(n - 1) /\ (n - 1) + 1 = n
      BY <1>0, <2>0
    <3>. QED  BY <2>0, <2>6, <3>1 DEF S
  <2>. QED  BY <1>2, <1>3, <1>4, <2>1, <2>7 DEF t
<1>. QED  BY <1>6, <1>7
LEMMA FlattensTyped ==
  ASSUME NEW S, NEW g, NEW s, AllSeqs(s), \A i \in 1..Len(s) : s[i] \in Seq(S),
         NEW n \in Nat, n <= Len(s), Flattens(g, s, n)
  PROVE  \A i \in 1..n : g[i] \in Seq(S)
<1>. DEFINE T == {i \in Nat : i \in 1..n => g[i] \in Seq(S)}
<1>0. Len(s) \in Nat
  BY SeqLen DEF AllSeqs
<1>1. 0 \in T
  OBVIOUS
<1>2. ASSUME NEW i \in Nat, i \in T PROVE i + 1 \in T
  <2>1. SUFFICES ASSUME i + 1 \in 1..n PROVE g[i + 1] \in Seq(S)
    OBVIOUS
  <2>2. g[i + 1] = IF i + 1 = 1 THEN s[i + 1] ELSE g[(i + 1) - 1] \o s[i + 1]
    BY <2>1, FlattensAt
  <2>3. i + 1 \in 1..Len(s) /\ (i + 1) - 1 = i /\ (i + 1 # 1 => i \in 1..n)
    BY <1>0, <2>1
  <2>4. s[i + 1] \in Seq(S)
    BY <2>3
  <2>5. CASE i + 1 = 1
    BY <2>2, <2>4, <2>5
  <2>6. CASE i + 1 # 1
    <3>1. g[i] \in Seq(S)
      BY <1>2, <2>3, <2>6
    <3>2. PICK a, b : a = g[i] /\ b = s[i + 1]
      OBVIOUS
    <3>3. a \o b \in Seq(S)
      BY <2>4, <3>1, <3>2, ConcatProperties
    <3>. QED  BY <2>2, <2>3, <2>6, <3>2, <3>3
  <2>. QED  BY <2>5, <2>6
<1>. HIDE DEF T
<1>3. \A i \in Nat : i \in T
  BY <1>1, <1>2, SetInduction
<1>. QED  BY <1>3 DEF T

LEMMA FlattenTyped ==
  ASSUME NEW S, NEW s, AllSeqs(s), \A i \in 1..Len(s) : s[i] \in Seq(S)
  PROVE  FlattenSeq(s) \in Seq(S)
<1>0. IsSeq(s) /\ Len(s) \in Nat /\ (s = <<>> <=> Len(s) = 0)
  BY SeqLen DEF AllSeqs
<1>1. CASE Len(s) = 0
  BY <1>0, <1>1, FlattenEmpty, EmptySeq
<1>2. CASE Len(s) # 0
  <2>1. PICK g : Flattens(g, s, Len(s)) /\ FlattenSeq(s) = g[Len(s)]
    BY <1>0, <1>2, FlattenIs
  <2>2. Len(s) \in 1..Len(s) /\ Len(s) <= Len(s)
    BY <1>0, <1>2
  <2>3. \A i \in 1..Len(s) : g[i] \in Seq(S)
    BY <1>0, <2>1, <2>2, FlattensTyped
  <2>. QED  BY <2>1, <2>2, <2>3
<1>. QED  BY <1>1, <1>2

\* Where the parts of a flattened sequence lie.
Places(data, s, off) ==
  /\ Len(s) \in Nat /\ off[1] = 0 /\ Len(data) = off[Len(s) + 1]
  /\ \A i \in 1..Len(s) : /\ off[i] \in Nat /\ Len(s[i]) \in Nat /\ off[i + 1] = off[i] + Len(s[i])
                          /\ \A k \in 1..Len(s[i]) : data[off[i] + k] = s[i][k]

LEMMA FlattenPlaces ==
  ASSUME NEW s, AllSeqs(s), s # <<>>
  PROVE  \E off : Places(FlattenSeq(s), s, off)
<1>. DEFINE n == Len(s)
<1>1. n \in Nat \ {0} /\ \A i \in 1..n : IsSeq(s[i]) /\ Len(s[i]) \in Nat
  BY SeqLen DEF AllSeqs
<1>2. PICK g : Flattens(g, s, n) /\ FlattenSeq(s) = g[n]
  BY <1>1, FlattenIs
<1>3. \A i \in 1..n : g[i] = IF i = 1 THEN s[i] ELSE g[i - 1] \o s[i]
  BY <1>1, <1>2, FlattensAt
<1>4. \A i \in 1..n : IsSeq(g[i]) /\ Len(g[i]) \in Nat
  <2>1. \A i \in 1..n : IsSeq(g[i])
    BY <1>1, <1>2, FlattensSeq
  <2>. QED  BY <2>1, SeqLen
<1>. DEFINE off == [i \in 1..(n + 1) |-> IF i = 1 THEN 0 ELSE Len(g[i - 1])]
<1>. HIDE DEF n
<1>5. /\ off[1] = 0
      /\ \A i \in 1..n : off[i + 1] = Len(g[i]) /\ off[i] \in Nat
  <2>1. 1 \in 1..(n + 1)
    BY <1>1
  <2>2. \A i \in 1..n : i + 1 \in 1..(n + 1) /\ i + 1 # 1 /\ (i + 1) - 1 = i /\ i \in 1..(n + 1)
                        /\ (i # 1 => i - 1 \in 1..n)
    BY <1>1
  <2>. QED  BY <1>4, <2>1, <2>2
<1>. HIDE DEF off
<1>6. \A i \in 1..n : off[i + 1] = off[i] + Len(s[i])
  <2>. SUFFICES ASSUME NEW i \in 1..n PROVE off[i + 1] = off[i] + Len(s[i])
    OBVIOUS
  <2>1. CASE i = 1
    BY <1>1, <1>3, <1>5, <2>1
  <2>2. CASE i # 1
    <3>1. i - 1 \in 1..n /\ (i - 1) + 1 = i
      BY <1>1, <2>2
    <3>2. off[i] = Len(g[i - 1])
      BY <1>5, <3>1
    <3>3. PICK a, b : a = g[i - 1] /\ b = s[i]
      OBVIOUS
    <3>4. IsSeq(a) /\ IsSeq(b) /\ g[i] = a \o b
      BY <1>1, <1>3, <1>4, <2>2, <3>1, <3>3
    <3>5. Len(a \o b) = Len(a) + Len(b)
      BY <3>4, SeqConcat
    <3>. QED  BY <1>5, <3>2, <3>3, <3>4, <3>5
  <2>. QED  BY <2>1, <2>2
<1>. DEFINE Laid(j) == \A i \in 1..j : \A k \in 1..Len(s[i]) :
                         off[i] + k \in 1..Len(g[j]) /\ g[j][off[i] + k] = s[i][k]
            S == {j \in Nat : j \in 1..n => Laid(j)}
<1>7. 0 \in S
  OBVIOUS
<1>8. ASSUME NEW j \in Nat, j \in S PROVE j + 1 \in S
  <2>. SUFFICES ASSUME j + 1 \in 1..n PROVE Laid(j + 1)
    OBVIOUS
  <2>1. CASE j = 0
    <3>1. \A i \in 1..(j + 1) : i = 1
      BY <2>1
    <3>2. 1 \in 1..n /\ g[1] = s[1] /\ off[1] = 0 /\ Len(s[1]) \in Nat
      BY <1>1, <1>3, <1>5
    <3>. QED  BY <2>1, <3>1, <3>2
  <2>2. CASE j # 0
    <3>1. j \in 1..n /\ (j + 1) - 1 = j /\ j + 1 # 1
      BY <1>1, <2>2
    <3>2. Laid(j)
      BY <1>8, <3>1
    <3>3. PICK a, b, c : a = g[j] /\ b = s[j + 1] /\ c = g[j + 1]
      OBVIOUS
    <3>4. IsSeq(a) /\ IsSeq(b) /\ c = a \o b /\ Len(a) \in Nat /\ Len(b) \in Nat
      BY <1>1, <1>3, <1>4, <3>1, <3>3
    <3>5. /\ Len(c) = Len(a) + Len(b)
          /\ \A k \in 1..Len(a) : c[k] = a[k]
          /\ \A k \in 1..Len(b) : c[Len(a) + k] = b[k]
      BY <3>4, SeqConcat
    <3>6. off[j + 1] = Len(a)
      BY <1>5, <3>1, <3>3
    <3>7. ASSUME NEW i \in 1..j, NEW k \in 1..Len(s[i])
          PROVE  off[i] + k \in 1..Len(c) /\ c[off[i] + k] = s[i][k]
      <4>1. off[i] + k \in 1..Len(a) /\ a[off[i] + k] = s[i][k]
        BY <3>2, <3>3, <3>7
      <4>. QED  BY <3>4, <3>5, <4>1
    <3>8. ASSUME NEW k \in 1..Len(b)
          PROVE  off[j + 1] + k \in 1..Len(c) /\ c[off[j + 1] + k] = b[k]
      BY <3>4, <3>5, <3>6
    <3>9. \A i \in 1..(j + 1) : i \in 1..j \/ i = j + 1
      BY <3>1
    <3>. QED  BY <3>3, <3>7, <3>8, <3>9
  <2>. QED  BY <2>1, <2>2
<1>. HIDE DEF S
<1>9. \A j \in Nat : j \in S
  BY <1>7, <1>8, SetInduction
<1>10. Laid(n)
  <2>1. n \in 1..n /\ n \in Nat
    BY <1>1
  <2>. QED  BY <1>9, <2>1 DEF S
<1>11. Len(FlattenSeq(s)) = off[n + 1]
  <2>1. n \in 1..n
    BY <1>1
  <2>. QED  BY <1>2, <1>5, <2>1
<1>12. Places(FlattenSeq(s), s, off)
  BY <1>1, <1>2, <1>5, <1>6, <1>10, <1>11 DEF Places, n
<1>. QED  BY <1>12

\* Every cell lies in a part.
LEMMA PlacesCover ==
  ASSUME NEW data, NEW s, NEW off, Places(data, s, off), Len(s) # 0
  PROVE  \A p \in 1..Len(data) : \E i \in 1..Len(s) : \E k \in 1..Len(s[i]) : p = off[i] + k
<1>. DEFINE n == Len(s)
            Covered(j) == \A p \in 1..off[j + 1] : \E i \in 1..n : \E k \in 1..Len(s[i]) : p = off[i] + k
            S == {j \in Nat : j \in 1..n => Covered(j)}
<1>1. /\ n \in Nat \ {0} /\ off[1] = 0 /\ Len(data) = off[n + 1]
      /\ \A i \in 1..n : off[i] \in Nat /\ Len(s[i]) \in Nat /\ off[i + 1] = off[i] + Len(s[i])
  BY DEF Places
<1>. HIDE DEF n
<1>2. 0 \in S
  OBVIOUS
<1>3. ASSUME NEW j \in Nat, j \in S PROVE j + 1 \in S
  <2>. SUFFICES ASSUME j + 1 \in 1..n, NEW p \in 1..off[(j + 1) + 1]
                PROVE  \E i \in 1..n : \E k \in 1..Len(s[i]) : p = off[i] + k
    OBVIOUS
  <2>1. /\ off[(j + 1) + 1] = off[j + 1] + Len(s[j + 1]) /\ off[j + 1] \in Nat
        /\ Len(s[j + 1]) \in Nat
    BY <1>1
  <2>2. CASE p > off[j + 1]
    <3>1. p - off[j + 1] \in 1..Len(s[j + 1]) /\ p = off[j + 1] + (p - off[j + 1])
      BY <2>1, <2>2
    <3>. QED  BY <3>1
  <2>3. CASE ~(p > off[j + 1])
    <3>1. p \in 1..off[j + 1]
      BY <2>1, <2>3
    <3>2. j # 0
      <4>1. off[j + 1] # 0
        BY <3>1, <2>1
      <4>. QED  BY <1>1, <4>1
    <3>3. j \in 1..n
      BY <1>1, <3>2
    <3>. QED  BY <1>3, <3>1, <3>3
  <2>. QED  BY <2>2, <2>3
<1>. HIDE DEF S
<1>4. \A j \in Nat : j \in S
  BY <1>2, <1>3, SetInduction
<1>5. n \in 1..n /\ n \in Nat
  BY <1>1
<1>. QED  BY <1>1, <1>4, <1>5 DEF S, n
----------------------------------------------------------------------------
(* A message in chunks.                                                       *)

NumChunks(length, size) == (length + size - 1) \div size
ChunkData(msg, size, i) ==
  SubSeq(msg.payload, (i - 1) * size + 1, Least(i * size, Len(msg.payload)))
ChunkOf(id, size, msg, i) ==
  ToBitstream(IF i = 1 THEN 0 ELSE 3, id, msg, ChunkData(msg, size, i))
\* What is left of a message after j chunks.
Remaining(id, size, msg, j) ==
  FlattenSeq([i \in 1..(NumChunks(Len(msg.payload), size) - j) |-> ChunkOf(id, size, msg, j + i)])

LEMMA Times ==
  ASSUME NEW a \in Nat, NEW b \in Nat, NEW c \in Nat, a <= b
  PROVE  a * c \in Nat /\ b * c \in Nat /\ a * c <= b * c
OBVIOUS

LEMMA TimesNext ==
  ASSUME NEW a \in Nat, NEW c \in Nat
  PROVE  (a + 1) * c = a * c + c /\ a * c \in Nat
OBVIOUS

LEMMA DivFacts ==
  ASSUME NEW a \in Nat, NEW c \in Nat \ {0}
  PROVE  a \div c \in Nat /\ (a \div c) * c <= a /\ a < (a \div c) * c + c
OBVIOUS

LEMMA NumFacts ==
  ASSUME NEW length \in Nat, NEW size \in Nat \ {0}
  PROVE  /\ NumChunks(length, size) \in Nat
         /\ \A j \in Nat : j < NumChunks(length, size) <=> j * size < length
<1>. DEFINE n == NumChunks(length, size)
<1>1. n \in Nat /\ n * size <= length + size - 1 /\ length + size - 1 < n * size + size
  <2>1. length + size - 1 \in Nat
    OBVIOUS
  <2>. QED  BY <2>1, DivFacts DEF NumChunks
<1>. HIDE DEF n
<1>2. n * size \in Nat /\ n * size - size < length /\ length <= n * size
  BY <1>1
<1>3. ASSUME NEW j \in Nat, j < n PROVE j * size < length
  <2>1. j + 1 \in Nat /\ j + 1 <= n
    BY <1>1, <1>3
  <2>2. (j + 1) * size <= n * size
    BY <1>1, <2>1, Times
  <2>3. (j + 1) * size = j * size + size /\ j * size \in Nat
    BY TimesNext
  <2>. QED  BY <1>2, <2>2, <2>3
<1>4. ASSUME NEW j \in Nat, ~(j < n) PROVE ~(j * size < length)
  <2>1. n * size <= j * size /\ j * size \in Nat
    BY <1>1, <1>4, Times
  <2>. QED  BY <1>2, <2>1
<1>. QED  BY <1>1, <1>3, <1>4 DEF n

LEMMA BasicSeq ==
  ASSUME NEW fmt \in 0..3, NEW csid \in Nat, csid >= 2 PROVE IsSeq(BasicHeader(fmt, csid))
<1>1. BasicHeader(fmt, csid) \in Seq({"basic", "csid"} \X Nat)
  BY BasicIsSeq
<1>. QED  BY <1>1, SeqIsSeq

LEMMA MessageSeq ==
  ASSUME NEW fmt \in {0, 1, 3}, NEW msg PROVE IsSeq(MessageHeader(fmt, msg))
<1>. DEFINE C == {<<"timestamp", Least(msg.ts, ExtendedStamp)>>, <<"length", Len(msg.payload)>>,
                  <<"typeid", msg.type>>, <<"streamid", msg.stream>>, <<"extended", msg.ts>>}
<1>1. MessageHeader(fmt, msg) \in Seq(C)
  <2>1. /\ <<"timestamp", Least(msg.ts, ExtendedStamp)>> \in C
        /\ <<"length", Len(msg.payload)>> \in C /\ <<"typeid", msg.type>> \in C
        /\ <<"streamid", msg.stream>> \in C /\ <<"extended", msg.ts>> \in C
    OBVIOUS
  <2>. HIDE DEF C
  <2>. QED  BY <2>1, MessageIsSeq
<1>. QED  BY <1>1, SeqIsSeq

\* One sequence behind the other.
Joins(s, a, b) == s = a \o b

\* A chunk and what follows it: the header is at the head, the payload behind it.
HeadSize(fmt, id, msg) == Len(BasicHeader(fmt, id)) + Len(MessageHeader(fmt, msg))

LEMMA ChunkFollowed ==
  ASSUME NEW fmt \in {0, 1, 3}, NEW id \in Nat, id >= 2, NEW msg,
         NEW body, IsSeq(body), NEW rest, IsSeq(rest),
         NEW data, Joins(data, ToBitstream(fmt, id, msg, body), rest)
  PROVE  LET h == HeadSize(fmt, id, msg)
         IN /\ IsSeq(ToBitstream(fmt, id, msg, body)) /\ h \in Nat
            /\ IsSeq(data) /\ Len(data) = h + Len(body) + Len(rest)
            /\ Begins(data, fmt, id, msg)
            /\ \A i \in 1..Len(body) : data[h + i] = body[i]
            /\ \A i \in 1..Len(rest) : data[h + Len(body) + i] = rest[i]
<1>. DEFINE p == BasicHeader(fmt, id)
            q == MessageHeader(fmt, msg)
            chunk == ToBitstream(fmt, id, msg, body)
            h == HeadSize(fmt, id, msg)
<1>0. fmt \in 0..3
  OBVIOUS
<1>1. IsSeq(p) /\ IsSeq(q)
  BY <1>0, BasicSeq, MessageSeq
<1>. HIDE DEF p, q
<1>2. /\ IsSeq(p \o q) /\ Len(p \o q) = Len(p) + Len(q)
      /\ \A i \in 1..Len(p) : (p \o q)[i] = p[i]
      /\ \A i \in 1..Len(q) : (p \o q)[Len(p) + i] = q[i]
  BY <1>1, SeqConcat
<1>3. chunk = (p \o q) \o body /\ h = Len(p \o q)
  BY <1>2 DEF ToBitstream, HeadSize, p, q
<1>. HIDE DEF chunk, h
<1>4. /\ IsSeq(chunk) /\ Len(chunk) = h + Len(body)
      /\ \A i \in 1..h : chunk[i] = (p \o q)[i]
      /\ \A i \in 1..Len(body) : chunk[h + i] = body[i]
  <2>1. PICK pq : pq = p \o q
    OBVIOUS
  <2>2. IsSeq(pq)
    BY <1>2, <2>1
  <2>3. /\ IsSeq(pq \o body) /\ Len(pq \o body) = Len(pq) + Len(body)
        /\ \A i \in 1..Len(pq) : (pq \o body)[i] = pq[i]
        /\ \A i \in 1..Len(body) : (pq \o body)[Len(pq) + i] = body[i]
    BY <2>2, SeqConcat
  <2>. QED  BY <1>3, <2>1, <2>3
<1>5. /\ IsSeq(chunk \o rest) /\ Len(chunk \o rest) = Len(chunk) + Len(rest)
      /\ \A i \in 1..Len(chunk) : (chunk \o rest)[i] = chunk[i]
      /\ \A i \in 1..Len(rest) : (chunk \o rest)[Len(chunk) + i] = rest[i]
  <2>1. PICK c : c = chunk
    OBVIOUS
  <2>2. IsSeq(c) /\ IsSeq(rest)
    BY <1>4, <2>1
  <2>3. /\ IsSeq(c \o rest) /\ Len(c \o rest) = Len(c) + Len(rest)
        /\ \A i \in 1..Len(c) : (c \o rest)[i] = c[i]
        /\ \A i \in 1..Len(rest) : (c \o rest)[Len(c) + i] = rest[i]
    BY <2>2, SeqConcat
  <2>. QED  BY <2>1, <2>3
<1>6. /\ h \in Nat /\ Len(body) \in Nat /\ Len(p) \in Nat /\ Len(q) \in Nat /\ Len(rest) \in Nat
      /\ h = Len(p) + Len(q)
  BY <1>1, <1>2, <1>3, SeqLen
<1>7. \A i \in 1..Len(body) : (chunk \o rest)[h + i] = body[i]
  <2>1. \A i \in 1..Len(body) : h + i \in 1..Len(chunk)
    BY <1>4, <1>6
  <2>. QED  BY <1>4, <1>5, <2>1
<1>8. \A i \in 1..Len(rest) : (chunk \o rest)[h + Len(body) + i] = rest[i]
  BY <1>4, <1>5, <1>6
<1>9. \A i \in 1..Len(p) : (chunk \o rest)[i] = p[i]
  <2>1. \A i \in 1..Len(p) : i \in 1..h /\ i \in 1..Len(chunk)
    BY <1>4, <1>6
  <2>. QED  BY <1>2, <1>4, <1>5, <2>1
<1>10. \A i \in 1..Len(q) : (chunk \o rest)[Len(p) + i] = q[i]
  <2>1. \A i \in 1..Len(q) : Len(p) + i \in 1..h /\ Len(p) + i \in 1..Len(chunk)
    BY <1>4, <1>6
  <2>. QED  BY <1>2, <1>4, <1>5, <2>1
<1>11. Begins(chunk \o rest, fmt, id, msg)
  <2>1. Len(chunk \o rest) \in Nat /\ Len(chunk \o rest) >= Len(p) + Len(q)
    BY <1>4, <1>5, <1>6
  <2>. QED  BY <1>9, <1>10, <2>1 DEF Begins, BeginsBasic, p, q
<1>12. Len(chunk \o rest) = h + Len(body) + Len(rest)
  BY <1>4, <1>5, <1>6
<1>13. data = chunk \o rest
  BY DEF Joins, chunk
<1>14. /\ IsSeq(data) /\ Len(data) = h + Len(body) + Len(rest)
       /\ Begins(data, fmt, id, msg)
  BY <1>5, <1>11, <1>12, <1>13
<1>15. /\ \A i \in 1..Len(body) : data[h + i] = body[i]
       /\ \A i \in 1..Len(rest) : data[h + Len(body) + i] = rest[i]
  BY <1>7, <1>8, <1>13
<1>. QED  BY <1>4, <1>6, <1>14, <1>15 DEF chunk, h

\* The payload of chunk j + 1 of a message, and what there is of the message with it.
LEMMA DataFacts ==
  ASSUME NEW msg, IsSeq(msg.payload), NEW size \in Nat \ {0}, NEW j \in Nat,
         j * size < Len(msg.payload)
  PROVE  LET len  == Len(msg.payload)
             data == ChunkData(msg, size, j + 1)
             old  == SubSeq(msg.payload, 1, j * size)
         IN /\ IsSeq(data) /\ Len(data) = Least(size, len - j * size)
            /\ Len(data) \in Nat \ {0}
            /\ \A i \in 1..Len(data) : data[i] = msg.payload[j * size + i]
            /\ IsSeq(old) /\ Len(old) = j * size
            /\ old \o data = SubSeq(msg.payload, 1, Least((j + 1) * size, len))
            /\ Least((j + 1) * size, len) = j * size + Len(data)
<1>. DEFINE len == Len(msg.payload)
            o   == j * size
            e   == Least((j + 1) * size, len)
            data == ChunkData(msg, size, j + 1)
            old == SubSeq(msg.payload, 1, o)
<1>0. len \in Nat /\ o \in Nat /\ (j + 1) * size = o + size /\ o < len
  BY SeqLen, TimesNext
<1>1. data = SubSeq(msg.payload, o + 1, e)
  <2>1. (j + 1) - 1 = j
    OBVIOUS
  <2>. QED  BY <2>1 DEF ChunkData
<1>. HIDE DEF len, o, data, old
<1>2. e = Least(o + size, len) /\ e \in o + 1..len /\ e - o = Least(size, len - o)
  BY <1>0 DEF Least
<1>. HIDE DEF e
<1>3. /\ IsSeq(data) /\ Len(data) = e - (o + 1) + 1
      /\ \A i \in 1..(e - (o + 1) + 1) : data[i] = msg.payload[(o + 1) + i - 1]
  <2>1. o + 1 \in Nat \ {0} /\ e \in 0..len /\ o + 1 <= e + 1
    BY <1>0, <1>2
  <2>. QED  BY <1>1, <2>1, SeqSub DEF len
<1>4. Len(data) = e - o /\ Len(data) \in Nat \ {0}
  BY <1>0, <1>2, <1>3
<1>5. \A i \in 1..Len(data) : data[i] = msg.payload[o + i]
  <2>1. \A i \in 1..Len(data) : (o + 1) + i - 1 = o + i /\ i \in 1..(e - (o + 1) + 1)
    BY <1>0, <1>2, <1>4
  <2>. QED  BY <1>3, <2>1
<1>6. IsSeq(old) /\ Len(old) = o /\ \A i \in 1..o : old[i] = msg.payload[i]
  <2>1. 1 \in Nat \ {0} /\ o \in 0..len /\ 1 <= o + 1 /\ o - 1 + 1 = o
    BY <1>0
  <2>2. /\ IsSeq(old) /\ Len(old) = o - 1 + 1
        /\ \A i \in 1..(o - 1 + 1) : old[i] = msg.payload[1 + i - 1]
    BY <2>1, SeqSub DEF len, old
  <2>3. \A i \in 1..o : 1 + i - 1 = i
    BY <1>0
  <2>. QED  BY <2>1, <2>2, <2>3
<1>7. old \o data = SubSeq(msg.payload, 1, e)
  <2>. DEFINE new == SubSeq(msg.payload, 1, e)
  <2>1. IsSeq(new) /\ Len(new) = e /\ \A i \in 1..e : new[i] = msg.payload[i]
    <3>1. 1 \in Nat \ {0} /\ e \in 0..len /\ 1 <= e + 1 /\ e - 1 + 1 = e
      BY <1>0, <1>2
    <3>2. /\ IsSeq(new) /\ Len(new) = e - 1 + 1
          /\ \A i \in 1..(e - 1 + 1) : new[i] = msg.payload[1 + i - 1]
      BY <3>1, SeqSub DEF len
    <3>3. \A i \in 1..e : 1 + i - 1 = i
      BY <1>0, <1>2
    <3>. QED  BY <3>1, <3>2, <3>3
  <2>. HIDE DEF new
  <2>2. /\ IsSeq(old \o data) /\ Len(old \o data) = Len(old) + Len(data)
        /\ \A i \in 1..Len(old) : (old \o data)[i] = old[i]
        /\ \A i \in 1..Len(data) : (old \o data)[Len(old) + i] = data[i]
    <3>1. IsSeq(old) /\ IsSeq(data)
      BY <1>3, <1>6
    <3>. QED  BY <3>1, SeqConcat
  <2>3. Len(old \o data) = Len(new)
    BY <1>0, <1>2, <1>4, <1>6, <2>1, <2>2
  <2>4. ASSUME NEW i \in 1..e PROVE (old \o data)[i] = new[i]
    <3>1. CASE i \in 1..o
      BY <1>6, <2>1, <2>2, <3>1
    <3>2. CASE i \notin 1..o
      <4>1. i - o \in 1..Len(data) /\ o + (i - o) = i
        BY <1>0, <1>2, <1>4, <3>2
      <4>2. (old \o data)[o + (i - o)] = data[i - o]
        BY <1>6, <2>2, <4>1
      <4>3. data[i - o] = msg.payload[o + (i - o)]
        BY <1>5, <4>1
      <4>. QED  BY <2>1, <4>1, <4>2, <4>3
    <3>. QED  BY <3>1, <3>2
  <2>5. \A i \in 1..Len(old \o data) : (old \o data)[i] = new[i]
    BY <2>1, <2>3, <2>4
  <2>6. PICK a : a = old \o data
    OBVIOUS
  <2>7. IsSeq(a) /\ Len(a) = Len(new) /\ \A i \in 1..Len(a) : a[i] = new[i]
    BY <2>2, <2>3, <2>5, <2>6
  <2>8. a = new
    BY <2>1, <2>7, SeqSame
  <2>. QED  BY <2>6, <2>8 DEF new
<1>8. Len(data) = Least(size, len - o) /\ e = o + Len(data)
  BY <1>0, <1>2, <1>4
<1>. QED  BY <1>3, <1>4, <1>5, <1>6, <1>7, <1>8 DEF len, o, e, data, old

LEMMA ChunkIsSeq ==
  ASSUME NEW msg, IsSeq(msg.payload), NEW size \in Nat \ {0}, NEW i \in Nat \ {0},
         i <= NumChunks(Len(msg.payload), size), NEW id \in Nat, id >= 2
  PROVE  IsSeq(ChunkOf(id, size, msg, i))
<1>0. Len(msg.payload) \in Nat /\ NumChunks(Len(msg.payload), size) \in Nat
  BY SeqLen, NumFacts
<1>1. i - 1 \in Nat /\ (i - 1) + 1 = i /\ i - 1 < NumChunks(Len(msg.payload), size)
  BY <1>0
<1>2. (i - 1) * size < Len(msg.payload)
  BY <1>1, SeqLen, NumFacts
<1>3. IsSeq(ChunkData(msg, size, (i - 1) + 1))
  BY <1>1, <1>2, DataFacts
<1>. DEFINE fmt == IF i = 1 THEN 0 ELSE 3
<1>4. fmt \in {0, 1, 3}
  OBVIOUS
<1>5. ChunkOf(id, size, msg, i) = ToBitstream(fmt, id, msg, ChunkData(msg, size, i))
  BY DEF ChunkOf
<1>. HIDE DEF fmt
<1>6. PICK rest, data : rest = <<>> /\ Joins(data, ToBitstream(fmt, id, msg, ChunkData(msg, size, i)), rest)
  BY DEF Joins
<1>7. IsSeq(rest)
  BY <1>6, SeqEmpty
<1>. QED  BY <1>1, <1>3, <1>4, <1>5, <1>6, <1>7, ChunkFollowed

LEMMA RemainingFacts ==
  ASSUME NEW msg, IsSeq(msg.payload), NEW size \in Nat \ {0}, NEW id \in Nat, id >= 2,
         NEW j \in Nat, j <= NumChunks(Len(msg.payload), size)
  PROVE  /\ IsSeq(Remaining(id, size, msg, j))
         /\ j = NumChunks(Len(msg.payload), size) => Remaining(id, size, msg, j) = <<>>
         /\ j < NumChunks(Len(msg.payload), size) =>
              Joins(Remaining(id, size, msg, j), ChunkOf(id, size, msg, j + 1),
                    Remaining(id, size, msg, j + 1))
<1>. DEFINE n == NumChunks(Len(msg.payload), size)
            C(i) == ChunkOf(id, size, msg, i)
            strip(k) == [i \in 1..(n - k) |-> C(k + i)]
<1>0. n \in Nat
  BY SeqLen, NumFacts
<1>1. \A i \in Nat \ {0} : i <= n => IsSeq(C(i))
  BY ChunkIsSeq
<1>. HIDE DEF n, C
<1>2. ASSUME NEW k \in Nat, k <= n
      PROVE  AllSeqs(strip(k)) /\ Len(strip(k)) = n - k
  <2>1. n - k \in Nat /\ DOMAIN strip(k) = 1..(n - k) /\ strip(k) = [i \in 1..(n - k) |-> strip(k)[i]]
    BY <1>0, <1>2
  <2>2. \A i \in 1..(n - k) : strip(k)[i] = C(k + i) /\ k + i \in Nat \ {0} /\ k + i <= n
    BY <1>0, <1>2
  <2>. HIDE DEF strip
  <2>3. IsSeq(strip(k)) /\ Len(strip(k)) = n - k
    BY <2>1, SeqMade
  <2>. QED  BY <1>1, <2>2, <2>3 DEF AllSeqs
<1>3. \A k : Remaining(id, size, msg, k) = FlattenSeq(strip(k))
  BY DEF Remaining, n, C
<1>4. IsSeq(Remaining(id, size, msg, j))
  <2>1. AllSeqs(strip(j))
    BY <1>2 DEF n
  <2>. HIDE DEF strip
  <2>. QED  BY <1>3, <2>1, FlattenIsSeq
<1>5. ASSUME j = n PROVE Remaining(id, size, msg, j) = <<>>
  <2>0. j \in Nat /\ j <= n /\ n - j = 0
    BY <1>0, <1>5
  <2>1. AllSeqs(strip(j)) /\ Len(strip(j)) = 0
    BY <1>2, <2>0
  <2>. HIDE DEF strip
  <2>2. strip(j) = <<>>
    BY <2>1, SeqLen DEF AllSeqs
  <2>. QED  BY <1>3, <2>2, FlattenEmpty
<1>6. ASSUME j < n
      PROVE Remaining(id, size, msg, j) = C(j + 1) \o Remaining(id, size, msg, j + 1)
  <2>1. AllSeqs(strip(j)) /\ Len(strip(j)) = n - j /\ n - j # 0
    BY <1>0, <1>2, <1>6
  <2>2. AllSeqs(strip(j + 1)) /\ Len(strip(j + 1)) = n - (j + 1)
    <3>1. j + 1 \in Nat /\ j + 1 <= n
      BY <1>0, <1>6
    <3>. QED  BY <1>2, <3>1
  <2>3. strip(j)[1] = C(j + 1)
    <3>1. 1 \in 1..(n - j)
      BY <1>0, <1>6
    <3>. QED  BY <3>1
  <2>4. \A i \in 1..(n - (j + 1)) : strip(j)[i + 1] = strip(j + 1)[i]
    <3>. TAKE i \in 1..(n - (j + 1))
    <3>1. i + 1 \in 1..(n - j) /\ j + (i + 1) = (j + 1) + i
      BY <1>0
    <3>2. strip(j)[i + 1] = C(j + (i + 1)) /\ strip(j + 1)[i] = C((j + 1) + i)
      BY <3>1
    <3>. QED  BY <3>1, <3>2
  <2>5. PICK s, t : s = strip(j) /\ t = strip(j + 1)
    OBVIOUS
  <2>. HIDE DEF strip
  <2>6. AllSeqs(s) /\ AllSeqs(t) /\ IsSeq(s) /\ IsSeq(t) /\ Len(s) = n - j /\ s # <<>> /\ Len(t) = n - (j + 1)
    BY <2>1, <2>2, <2>5, SeqLen DEF AllSeqs
  <2>7. Tail(s) = t
    <3>1. /\ IsSeq(Tail(s)) /\ Len(Tail(s)) = Len(s) - 1
          /\ \A i \in 1..(Len(s) - 1) : Tail(s)[i] = s[i + 1]
      BY <2>6, SeqTail
    <3>2. Len(Tail(s)) = Len(t) /\ Len(s) - 1 = n - (j + 1)
      BY <1>0, <2>6, <3>1
    <3>3. \A i \in 1..(Len(s) - 1) : s[i + 1] = t[i]
      BY <2>4, <2>5, <3>2
    <3>4. \A i \in 1..Len(Tail(s)) : Tail(s)[i] = t[i]
      BY <3>1, <3>3
    <3>5. PICK u : u = Tail(s)
      OBVIOUS
    <3>6. IsSeq(u) /\ Len(u) = Len(t) /\ \A i \in 1..Len(u) : u[i] = t[i]
      BY <3>1, <3>2, <3>4, <3>5
    <3>. QED  BY <2>6, <3>5, <3>6, SeqSame
  <2>8. FlattenSeq(s) = s[1] \o FlattenSeq(Tail(s))
    BY <2>6, FlattenHead
  <2>. QED  BY <1>3, <2>3, <2>5, <2>7, <2>8
<1>. QED  BY <1>4, <1>5, <1>6 DEF n, C, Joins

LEMMA WholeMessage ==
  ASSUME NEW msg, IsSeq(msg.payload), NEW size \in Nat \ {0}, NEW id
  PROVE  ToChunkedBitstream(0, id, size, msg) = Remaining(id, size, msg, 0)
<1>. DEFINE n == NumChunks(Len(msg.payload), size)
<1>0. n \in Nat /\ n - 0 = n
  BY SeqLen, NumFacts
<1>1. ToChunkedBitstream(0, id, size, msg) = FlattenSeq([i \in 1..n |-> ChunkOf(id, size, msg, i)])
  BY DEF ToChunkedBitstream, ChunkOf, ChunkData, NumChunks
<1>. HIDE DEF n
<1>2. [i \in 1..n |-> ChunkOf(id, size, msg, i)] = [i \in 1..(n - 0) |-> ChunkOf(id, size, msg, 0 + i)]
  BY <1>0
<1>. QED  BY <1>1, <1>2 DEF Remaining, n
----------------------------------------------------------------------------
(* The conversion of a number and back.                                       *)

\* The powers of two in reach of the conversions.
Powers == MantissaBits + ExponentBits + FractionBits + 1

LEMMA Widths ==
  /\ MantissaBits \in Nat \ {0} /\ ExponentBits \in Nat \ {0} /\ FractionBits \in Nat \ {0}
  /\ FractionBits > MantissaBits /\ MantissaBits + 1 < Bias /\ Powers \in Nat
BY WidthAssumption DEF Powers

LEMMA PowerNext == ASSUME NEW n \in Nat, n < Powers PROVE 2^(n + 1) = 2 * 2^n
BY Widths, PowerAssumption DEF Powers

LEMMA PowerPositive == ASSUME NEW n \in Nat, n <= Powers PROVE 2^n \in Nat \ {0}
<1>. DEFINE S == {i \in Nat : i <= Powers => 2^i \in Nat \ {0}}
<1>1. 0 \in S
  <2>1. 2^0 = 1
    OBVIOUS
  <2>. QED  BY <2>1
<1>2. ASSUME NEW i \in Nat, i \in S PROVE i + 1 \in S
  <2>. SUFFICES ASSUME i + 1 <= Powers PROVE 2^(i + 1) \in Nat \ {0}
    OBVIOUS
  <2>1. i < Powers /\ i <= Powers
    BY Widths
  <2>2. 2^i \in Nat \ {0}
    BY <1>2, <2>1
  <2>3. 2^(i + 1) = 2 * 2^i
    BY <2>1, PowerNext
  <2>. QED  BY <2>2, <2>3
<1>. HIDE DEF S
<1>3. \A i \in Nat : i \in S
  BY <1>1, <1>2, SetInduction
<1>. QED  BY <1>3 DEF S

LEMMA PowerSum ==
  ASSUME NEW m \in Nat, NEW n \in Nat, m + n <= Powers PROVE 2^(m + n) = 2^m * 2^n
<1>. DEFINE S == {i \in Nat : m + i <= Powers => 2^(m + i) = 2^m * 2^i}
<1>1. 0 \in S
  <2>. SUFFICES ASSUME m + 0 <= Powers PROVE 2^(m + 0) = 2^m * 2^0
    OBVIOUS
  <2>1. 2^0 = 1 /\ m + 0 = m /\ m <= Powers
    OBVIOUS
  <2>2. PICK p : p = 2^m
    OBVIOUS
  <2>3. p \in Nat /\ p * 1 = p
    BY <2>1, <2>2, PowerPositive
  <2>. QED  BY <2>1, <2>2, <2>3
<1>2. ASSUME NEW i \in Nat, i \in S PROVE i + 1 \in S
  <2>. SUFFICES ASSUME m + (i + 1) <= Powers PROVE 2^(m + (i + 1)) = 2^m * 2^(i + 1)
    OBVIOUS
  <2>0. /\ m + i \in Nat /\ m + i < Powers /\ m + i <= Powers /\ i < Powers /\ i <= Powers /\ m <= Powers
        /\ m + (i + 1) = (m + i) + 1
    BY Widths
  <2>1. PICK p, q, r : p = 2^m /\ q = 2^i /\ r = 2^(m + i)
    OBVIOUS
  <2>2. p \in Nat /\ q \in Nat /\ r = p * q
    BY <1>2, <2>0, <2>1, PowerPositive
  <2>3. 2^((m + i) + 1) = 2 * r /\ 2^(i + 1) = 2 * q
    BY <2>0, <2>1, PowerNext
  <2>4. 2 * (p * q) = p * (2 * q)
    BY <2>2
  <2>. QED  BY <2>0, <2>1, <2>2, <2>3, <2>4
<1>. HIDE DEF S
<1>3. \A i \in Nat : i \in S
  BY <1>1, <1>2, SetInduction
<1>. QED  BY <1>3 DEF S

LEMMA PowerUp ==
  ASSUME NEW m \in Nat, NEW n \in Nat, m <= n, n <= Powers PROVE 2^m <= 2^n
<1>1. PICK k : k = n - m
  OBVIOUS
<1>2. k \in Nat /\ m + k = n /\ k <= Powers /\ m <= Powers
  BY <1>1, Widths
<1>3. PICK p, q : p = 2^m /\ q = 2^k
  OBVIOUS
<1>4. p \in Nat \ {0} /\ q \in Nat \ {0} /\ 2^n = p * q
  BY <1>2, <1>3, PowerPositive, PowerSum
<1>5. p <= p * q
  BY <1>4
<1>. QED  BY <1>3, <1>4, <1>5

\* The number of binary digits is there and there is one.
HasDigits(n, d) == 2^(d - 1) <= n /\ n < 2^d

LEMMA DigitsThere ==
  ASSUME NEW k \in Nat, k <= Powers, NEW n \in Nat \ {0}, n < 2^k
  PROVE  \E d \in 1..k : HasDigits(n, d)
<1>. DEFINE S == {i \in Nat : i <= k /\ n < 2^i => \E d \in 1..i : HasDigits(n, d)}
<1>1. 0 \in S
  <2>1. 2^0 = 1
    OBVIOUS
  <2>. QED  BY <2>1
<1>2. ASSUME NEW i \in Nat, i \in S PROVE i + 1 \in S
  <2>. SUFFICES ASSUME i + 1 <= k, n < 2^(i + 1) PROVE \E d \in 1..(i + 1) : HasDigits(n, d)
    OBVIOUS
  <2>1. i <= k /\ i <= Powers
    BY Widths
  <2>2. 2^i \in Nat
    BY <2>1, PowerPositive
  <2>3. CASE n < 2^i
    <3>1. PICK d \in 1..i : HasDigits(n, d)
      BY <1>2, <2>1, <2>3
    <3>. QED  BY <3>1
  <2>4. CASE ~(n < 2^i)
    <3>1. (i + 1) - 1 = i /\ i + 1 \in 1..(i + 1) /\ 2^i <= n
      BY <2>2, <2>4
    <3>. QED  BY <3>1 DEF HasDigits
  <2>. QED  BY <2>3, <2>4
<1>. HIDE DEF S
<1>3. \A i \in Nat : i \in S
  BY <1>1, <1>2, SetInduction
<1>. QED  BY <1>3 DEF S

LEMMA DigitsOnce ==
  ASSUME NEW k \in Nat, k <= Powers, NEW n \in Nat, NEW c \in 1..k, NEW d \in 1..k,
         HasDigits(n, c), HasDigits(n, d)
  PROVE  c = d
<1>1. ASSUME NEW x \in 1..k, NEW y \in 1..k, HasDigits(n, x), HasDigits(n, y), x < y PROVE FALSE
  <2>1. x \in Nat /\ y - 1 \in Nat /\ x <= y - 1 /\ y - 1 <= Powers /\ x <= Powers
    BY <1>1, Widths
  <2>2. PICK p, q : p = 2^x /\ q = 2^(y - 1)
    OBVIOUS
  <2>3. p \in Nat /\ q \in Nat /\ p <= q
    BY <2>1, <2>2, PowerPositive, PowerUp
  <2>. QED  BY <1>1, <2>2, <2>3 DEF HasDigits
<1>. QED  BY <1>1

LEMMA DigitsAre ==
  ASSUME NEW n \in Nat \ {0}, n < 2^(MantissaBits + 1)
  PROVE  Digits(n) \in 1..(MantissaBits + 1) /\ HasDigits(n, Digits(n))
<1>1. PICK k : k = MantissaBits + 1
  OBVIOUS
<1>2. k \in Nat /\ k <= Powers
  BY <1>1, Widths DEF Powers
<1>3. \E d \in 1..k : HasDigits(n, d)
  BY <1>1, <1>2, DigitsThere
<1>4. Digits(n) = CHOOSE d \in 1..k : HasDigits(n, d)
  BY <1>1 DEF Digits, HasDigits
<1>. QED  BY <1>1, <1>3, <1>4

LEMMA DigitsOf ==
  ASSUME NEW n \in Nat \ {0}, n < 2^(MantissaBits + 1), NEW d \in 1..(MantissaBits + 1), HasDigits(n, d)
  PROVE  Digits(n) = d
<1>1. PICK k : k = MantissaBits + 1
  OBVIOUS
<1>2. k \in Nat /\ k <= Powers
  BY <1>1, Widths DEF Powers
<1>. QED  BY <1>1, <1>2, DigitsAre, DigitsOnce

\* The whole part of a number.
Whole(a) == a \div 2^FractionBits

LEMMA NoSign == ASSUME NEW a \in Nat PROVE Absolute(a) = a /\ ~(a < 0)
BY DEF Absolute

LEMMA DivIs ==
  ASSUME NEW a \in Nat, NEW p \in Nat \ {0}
  PROVE  /\ a \div p \in Nat /\ a % p \in 0..(p - 1)
         /\ a = p * (a \div p) + (a % p)
OBVIOUS

LEMMA DivBounds ==
  ASSUME NEW a \in Nat, NEW p \in Nat \ {0}, NEW n \in Nat
  PROVE  /\ a < n * p => a \div p < n
         /\ n * p <= a => n <= a \div p
<1>1. PICK q, r : q = a \div p /\ r = a % p
  OBVIOUS
<1>2. q \in Nat /\ r \in 0..(p - 1) /\ a = p * q + r
  BY <1>1, DivIs
<1>3. ASSUME a < n * p, q >= n PROVE FALSE
  <2>1. p * q >= p * n
    BY <1>2, <1>3
  <2>. QED  BY <1>2, <1>3, <2>1
<1>4. ASSUME n * p <= a, q + 1 <= n PROVE FALSE
  <2>1. p * (q + 1) <= p * n
    BY <1>2, <1>4
  <2>2. p * (q + 1) = p * q + p
    BY <1>2
  <2>. QED  BY <1>2, <1>4, <2>1, <2>2
<1>. QED  BY <1>1, <1>2, <1>3, <1>4

\* The places of a number, the digits they leave it and their sum.
LEMMA PlacesAre ==
  ASSUME NEW a \in Nat, Whole(a) < 2^(MantissaBits + 1)
  PROVE  /\ Digits(Whole(a)) \in 0..(MantissaBits + 1) /\ FractionPlaces(a) \in 0..(MantissaBits + 1)
         /\ Whole(a) \in Nat /\ (Digits(Whole(a)) = 0 <=> Whole(a) = 0)
         /\ Digits(Whole(a)) + FractionPlaces(a) = MantissaBits + 1
         /\ FractionBits - FractionPlaces(a) \in Nat /\ FractionBits - FractionPlaces(a) <= Powers
         /\ LastPlace(a) \in Nat \ {0}
         /\ Significand(a) = a \div LastPlace(a)
<1>1. PICK u : u = 2^FractionBits
  OBVIOUS
<1>2. u \in Nat \ {0}
  BY <1>1, Widths, PowerPositive DEF Powers
<1>3. Whole(a) \in Nat
  BY <1>1, <1>2, DivIs DEF Whole
<1>4. Digits(Whole(a)) \in 0..(MantissaBits + 1) /\ (Digits(Whole(a)) = 0 <=> Whole(a) = 0)
  <2>1. CASE Whole(a) = 0
    <3>1. Digits(Whole(a)) = 0
      BY <2>1 DEF Digits
    <3>. QED  BY <2>1, <3>1, Widths
  <2>2. CASE Whole(a) # 0
    <3>1. Digits(Whole(a)) \in 1..(MantissaBits + 1)
      BY <1>3, <2>2, DigitsAre
    <3>. QED  BY <2>2, <3>1, Widths
  <2>. QED  BY <2>1, <2>2
<1>5. FractionPlaces(a) \in 0..(MantissaBits + 1) /\ Digits(Whole(a)) + FractionPlaces(a) = MantissaBits + 1
  BY <1>4, NoSign, Widths DEF FractionPlaces, Whole
<1>6. FractionBits - FractionPlaces(a) \in Nat /\ FractionBits - FractionPlaces(a) <= Powers
  BY <1>5, Widths DEF Powers
<1>7. LastPlace(a) \in Nat \ {0}
  BY <1>6, PowerPositive DEF LastPlace
<1>8. Significand(a) = a \div LastPlace(a)
  BY NoSign DEF Significand
<1>. QED  BY <1>3, <1>4, <1>5, <1>6, <1>7, <1>8

\* The significand fills the mantissa and the leading one, but for a number below one.
LEMMA SignificandIs ==
  ASSUME NEW a \in Nat \ {0}, Representable(a)
  PROVE  /\ Significand(a) \in Nat \ {0} /\ Significand(a) < 2^(MantissaBits + 1)
         /\ Whole(a) # 0 => 2^MantissaBits <= Significand(a)
         /\ a = LastPlace(a) * Significand(a) + (a % LastPlace(a))
<1>1. PICK w, d, k, u, f, s :
        /\ w = Whole(a) /\ d = Digits(Whole(a)) /\ k = FractionPlaces(a) /\ u = LastPlace(a)
        /\ f = 2^FractionBits /\ s = Significand(a)
  OBVIOUS
<1>2. /\ d \in 0..(MantissaBits + 1) /\ k \in 0..(MantissaBits + 1) /\ w \in Nat /\ (d = 0 <=> w = 0)
      /\ d + k = MantissaBits + 1 /\ FractionBits - k \in Nat /\ FractionBits - k <= Powers
      /\ u \in Nat \ {0} /\ s = a \div u /\ w < 2^(MantissaBits + 1)
  BY <1>1, PlacesAre, NoSign DEF Representable, Whole
<1>3. f \in Nat \ {0}
  BY <1>1, Widths, PowerPositive DEF Powers
<1>4. s \in Nat \ {0} /\ a = u * s + (a % u)
  BY <1>1, <1>2, DivIs DEF Representable
<1>5. PICK r : r = a % f
  OBVIOUS
<1>6. r \in 0..(f - 1) /\ a = f * w + r
  BY <1>1, <1>3, <1>5, DivIs DEF Whole
\* a is below 2^(d + FractionBits), which is 2^(MantissaBits + 1) times the last place.
<1>7. PICK p, g, t : p = 2^d /\ g = 2^(d + FractionBits) /\ t = 2^(MantissaBits + 1)
  OBVIOUS
<1>8. /\ p \in Nat \ {0} /\ t \in Nat \ {0} /\ g = p * f /\ g = t * u
  <2>1. /\ d \in Nat /\ d <= Powers /\ MantissaBits + 1 \in Nat /\ MantissaBits + 1 <= Powers
        /\ d + FractionBits <= Powers /\ FractionBits \in Nat
        /\ (MantissaBits + 1) + (FractionBits - k) = d + FractionBits
    BY <1>2, Widths DEF Powers
  <2>2. p \in Nat \ {0} /\ t \in Nat \ {0}
    BY <1>7, <2>1, PowerPositive
  <2>3. 2^(d + FractionBits) = 2^d * 2^FractionBits
    BY <2>1, PowerSum
  <2>4. PICK x, y : x = MantissaBits + 1 /\ y = FractionBits - k
    OBVIOUS
  <2>5. 2^(x + y) = 2^x * 2^y
    BY <1>2, <2>1, <2>4, PowerSum
  <2>6. u = 2^y
    BY <1>1, <2>4 DEF LastPlace
  <2>. QED  BY <1>1, <1>7, <2>1, <2>2, <2>3, <2>4, <2>5, <2>6
<1>9. w < p
  <2>1. CASE w = 0
    BY <1>2, <1>8, <2>1
  <2>2. CASE w # 0
    <3>1. HasDigits(w, d)
      BY <1>1, <1>2, <2>2, DigitsAre
    <3>. QED  BY <1>7, <3>1 DEF HasDigits
  <2>. QED  BY <2>1, <2>2
<1>10. a < t * u
  <2>1. f * (w + 1) <= f * p
    BY <1>2, <1>3, <1>8, <1>9
  <2>2. f * (w + 1) = f * w + f /\ f * p = p * f
    BY <1>2, <1>3, <1>8
  <2>. QED  BY <1>2, <1>3, <1>6, <1>8, <2>1, <2>2
<1>11. s < t
  BY <1>2, <1>8, <1>10, DivBounds
<1>12. ASSUME w # 0 PROVE 2^MantissaBits <= s
  <2>1. PICK h, q : h = 2^MantissaBits /\ q = 2^(d - 1)
    OBVIOUS
  <2>2. /\ d - 1 \in Nat /\ d - 1 <= Powers /\ (d - 1) + FractionBits <= Powers
        /\ MantissaBits \in Nat /\ MantissaBits <= Powers
        /\ MantissaBits + (FractionBits - k) = (d - 1) + FractionBits
    BY <1>2, <1>12, Widths DEF Powers
  <2>3. h \in Nat \ {0} /\ q \in Nat \ {0}
    BY <2>1, <2>2, PowerPositive
  <2>4. q <= w
    <3>1. HasDigits(w, d)
      BY <1>1, <1>2, <1>12, DigitsAre
    <3>. QED  BY <2>1, <3>1 DEF HasDigits
  <2>5. h * u = q * f
    <3>1. PICK x, y : x = d - 1 /\ y = FractionBits - k
      OBVIOUS
    <3>2. 2^(x + FractionBits) = 2^x * 2^FractionBits
      BY <2>2, <3>1, Widths, PowerSum
    <3>3. 2^(MantissaBits + y) = 2^MantissaBits * 2^y
      BY <1>2, <2>2, <3>1, PowerSum
    <3>4. u = 2^y
      BY <1>1, <3>1 DEF LastPlace
    <3>. QED  BY <1>1, <2>1, <2>2, <3>1, <3>2, <3>3, <3>4
  <2>6. f * q <= f * w
    BY <1>2, <1>3, <2>3, <2>4
  <2>7. h * u <= a
    BY <1>2, <1>3, <1>6, <2>3, <2>5, <2>6
  <2>8. h <= s
    BY <1>2, <2>3, <2>7, DivBounds
  <2>. QED  BY <2>1, <2>8
<1>. QED  BY <1>1, <1>4, <1>7, <1>11, <1>12

\* The fields of a representation, taken apart again.
LEMMA FieldsApart ==
  ASSUME NEW h \in Nat \ {0}, NEW x \in Nat, NEW m \in 0..(h - 1), NEW t \in Nat \ {0}, x < t
  PROVE  /\ m + x * h < t * h /\ (m + x * h) % (t * h) = m + x * h
         /\ (m + x * h) \div h = x /\ (m + x * h) % h = m
<1>1. PICK b, c : b = m + x * h /\ c = t * h
  OBVIOUS
<1>2. (x + 1) * h <= t * h
  OBVIOUS
<1>3. (x + 1) * h = x * h + h
  OBVIOUS
<1>4. b \in Nat /\ c \in Nat \ {0} /\ b < c
  BY <1>1, <1>2, <1>3
<1>5. b % c = b
  BY <1>4
<1>6. (m + x * h) \div h = x /\ (m + x * h) % h = m
  OBVIOUS
<1>. QED  BY <1>1, <1>4, <1>5, <1>6

\* A number comes back without what is behind the last place of its representation.
THEOREM NumberComesBack ==
  ASSUME NEW a \in Nat, Representable(a)
  PROVE  FromFPRepToDouble(FromDoubleToFPRep(a)) = a - (IF a = 0 THEN 0 ELSE a % LastPlace(a))
<1>1. CASE a = 0
  <2>1. FromDoubleToFPRep(a) = 0
    BY <1>1 DEF FromDoubleToFPRep
  <2>2. FromFPRepToDouble(FromDoubleToFPRep(a)) = 0
    BY <2>1 DEF FromFPRepToDouble
  <2>. QED  BY <1>1, <2>2
<1>2. CASE a # 0
  <2>1. PICK w, d, u, s, e, z :
          /\ w = Whole(a) /\ d = Digits(Whole(a)) /\ u = LastPlace(a) /\ s = Significand(a)
          /\ e = Digits(Significand(a)) /\ z = MantissaBits + 1 - Digits(Significand(a))
    OBVIOUS
  <2>2. PICK h, p : h = 2^MantissaBits /\ p = 2^z
    OBVIOUS
  <2>3. /\ a \in Nat \ {0} /\ d \in 0..(MantissaBits + 1) /\ (d = 0 <=> w = 0)
        /\ FractionPlaces(a) = MantissaBits + 1 - d /\ u \in Nat \ {0} /\ w \in Nat
    BY <1>2, <2>1, PlacesAre, NoSign, Widths DEF Representable, FractionPlaces, Whole
  <2>4. /\ s \in Nat \ {0} /\ s < 2^(MantissaBits + 1) /\ (w # 0 => h <= s)
        /\ a = u * s + (a % u)
    BY <1>2, <2>1, <2>2, <2>3, SignificandIs
  <2>5. e \in 1..(MantissaBits + 1) /\ HasDigits(s, e) /\ z = MantissaBits + 1 - e
    BY <2>1, <2>4, DigitsAre
  <2>6. z \in 0..MantissaBits
    BY <2>5, Widths
  <2>7. h \in Nat \ {0} /\ p \in Nat \ {0} /\ 2^(MantissaBits + 1) = 2 * h
    <3>1. MantissaBits \in Nat /\ MantissaBits < Powers /\ MantissaBits <= Powers /\ z \in Nat /\ z <= Powers
      BY <2>6, Widths DEF Powers
    <3>. QED  BY <2>2, <3>1, PowerPositive, PowerNext
  <2>8. w # 0 => z = 0 /\ p = 1
    <3>. SUFFICES ASSUME w # 0 PROVE z = 0 /\ p = 1
      OBVIOUS
    <3>1. PICK c : c = MantissaBits + 1
      OBVIOUS
    <3>2. c \in 1..(MantissaBits + 1) /\ c - 1 = MantissaBits
      BY <3>1, Widths
    <3>3. HasDigits(s, c)
      BY <2>2, <2>4, <3>1, <3>2 DEF HasDigits
    <3>4. e = c
      BY <2>1, <2>4, <3>2, <3>3, DigitsOf
    <3>5. z = 0
      BY <2>5, <3>1, <3>4, Widths
    <3>6. 2^0 = 1
      OBVIOUS
    <3>. QED  BY <2>2, <3>5, <3>6
  \* With the zeros behind it, it has its leading one in the place ahead of the mantissa.
  <2>9. h <= s * p /\ s * p < 2 * h
    <3>1. PICK x, y : x = 2^(e - 1) /\ y = 2^e
      OBVIOUS
    <3>2. /\ e - 1 \in Nat /\ e \in Nat /\ z \in Nat /\ e <= Powers /\ e - 1 <= Powers
          /\ (e - 1) + z = MantissaBits /\ e + z = MantissaBits + 1 /\ e + z <= Powers /\ (e - 1) + z <= Powers
      BY <2>5, <2>6, Widths DEF Powers
    <3>3. x \in Nat \ {0} /\ y \in Nat \ {0} /\ x <= s /\ s < y
      BY <2>5, <3>1, <3>2, PowerPositive DEF HasDigits
    <3>4. x * p = h /\ y * p = 2 * h
      <4>1. PICK i : i = e - 1
        OBVIOUS
      <4>2. 2^(i + z) = 2^i * 2^z /\ 2^(e + z) = 2^e * 2^z
        BY <3>2, <4>1, PowerSum
      <4>. QED  BY <2>2, <2>7, <3>1, <3>2, <4>1, <4>2
    <3>5. x * p <= s * p /\ (s + 1) * p <= y * p
      BY <2>4, <2>7, <3>3
    <3>6. (s + 1) * p = s * p + p
      BY <2>4, <2>7
    <3>7. s * p \in Nat /\ x * p \in Nat /\ y * p \in Nat
      BY <2>4, <2>7, <3>3
    <3>. QED  BY <2>7, <3>4, <3>5, <3>6, <3>7
  <2>10. PICK m : m = s * p - h
    OBVIOUS
  <2>11. m \in 0..(h - 1) /\ h + m = s * p
    <3>1. s * p \in Nat
      BY <2>4, <2>7
    <3>. QED  BY <2>7, <2>9, <2>10, <3>1
  <2>12. PICK x, t : x = (IF d > 0 THEN Bias + d - 1 ELSE Bias - (z + 1)) /\ t = 2^ExponentBits
    OBVIOUS
  <2>13. x \in Nat \ {0} /\ t \in Nat \ {0} /\ x < t /\ Bias \in Nat
    <3>1. PICK g : g = 2^(ExponentBits - 1)
      OBVIOUS
    <3>2. /\ ExponentBits - 1 \in Nat /\ ExponentBits - 1 < Powers /\ ExponentBits - 1 <= Powers
          /\ (ExponentBits - 1) + 1 = ExponentBits
      BY Widths DEF Powers
    <3>3. g \in Nat \ {0} /\ t = 2 * g
      <4>1. PICK i : i = ExponentBits - 1
        OBVIOUS
      <4>2. i \in Nat /\ i < Powers /\ i <= Powers /\ i + 1 = ExponentBits
        BY <3>2, <4>1
      <4>3. 2^(i + 1) = 2 * 2^i /\ 2^i \in Nat \ {0}
        BY <4>2, PowerNext, PowerPositive
      <4>. QED  BY <2>12, <3>1, <4>1, <4>2, <4>3
    <3>4. Bias = g - 1
      BY <3>1 DEF Bias
    <3>. QED  BY <2>3, <2>6, <2>12, <3>3, <3>4, Widths
  <2>14. PICK b : b = m + x * h
    OBVIOUS
  <2>15. SignBit = t * h
    <3>1. 2^(ExponentBits + MantissaBits) = 2^ExponentBits * 2^MantissaBits
      BY Widths, PowerSum DEF Powers
    <3>. QED  BY <2>2, <2>12, <3>1 DEF SignBit
  <2>16. FromDoubleToFPRep(a) = b
    <3>1. FromDoubleToFPRep(a) = (s * p - h) + x * h + 0
      BY <1>2, <2>1, <2>2, <2>12, NoSign DEF FromDoubleToFPRep, Whole
    <3>2. m \in Int /\ x * h \in Int
      BY <2>7, <2>11, <2>13
    <3>. QED  BY <2>10, <2>14, <3>1, <3>2
  <2>17. b < t * h /\ b % (t * h) = b /\ b \div h = x /\ b % h = m
    <3>1. h \in Nat \ {0} /\ x \in Nat /\ m \in 0..(h - 1) /\ t \in Nat \ {0} /\ x < t
      BY <2>7, <2>11, <2>13
    <3>2. /\ m + x * h < t * h /\ (m + x * h) % (t * h) = m + x * h
          /\ (m + x * h) \div h = x /\ (m + x * h) % h = m
      BY <3>1, FieldsApart, Zenon
    <3>. QED  BY <2>14, <3>2, Zenon
  <2>18. b # 0 /\ b \in Nat /\ ~(b >= SignBit)
    <3>1. x * h \in Nat \ {0}
      BY <2>7, <2>13
    <3>2. t * h \in Nat
      BY <2>7, <2>13
    <3>. QED  BY <2>11, <2>14, <2>15, <2>17, <3>1, <3>2
  <2>19. PICK i, v : i = FractionBits + (x - Bias) /\ v = 2^i
    OBVIOUS
  <2>20. FromFPRepToDouble(b) = ((h + m) * v) \div h
    BY <2>2, <2>15, <2>17, <2>18, <2>19 DEF FromFPRepToDouble
  \* What is there once more is as many times the last place.
  <2>21. p * v = h * u
    <3>1. PICK y, k : y = FractionBits - FractionPlaces(a) /\ k = z + i
      OBVIOUS
    <3>2. /\ y \in Nat /\ z \in Nat /\ i \in Nat /\ z + i <= Powers /\ MantissaBits + y = z + i
      <4>1. CASE d > 0
        <5>1. z = 0 /\ i = FractionBits + (d - 1)
          BY <2>3, <2>8, <2>12, <2>13, <2>19, <4>1, Widths
        <5>. QED  BY <2>3, <3>1, <4>1, <5>1, Widths DEF Powers
      <4>2. CASE d = 0
        <5>1. i = FractionBits - (z + 1)
          BY <2>6, <2>12, <2>13, <2>19, <4>2, Widths
        <5>. QED  BY <2>3, <2>6, <3>1, <4>2, <5>1, Widths DEF Powers
      <4>. QED  BY <2>3, <4>1, <4>2
    <3>3. 2^(z + i) = 2^z * 2^i /\ 2^(MantissaBits + y) = 2^MantissaBits * 2^y
      BY <3>2, Widths, PowerSum
    <3>4. u = 2^y
      BY <2>1, <3>1 DEF LastPlace
    <3>. QED  BY <2>2, <2>19, <3>2, <3>3, <3>4
  <2>22. v \in Nat
    <3>1. i \in Nat /\ i <= Powers
      <4>1. CASE d > 0
        <5>1. i = FractionBits + (d - 1)
          BY <2>3, <2>12, <2>13, <2>19, <4>1, Widths
        <5>. QED  BY <2>3, <4>1, <5>1, Widths DEF Powers
      <4>2. CASE d = 0
        <5>1. i = FractionBits - (z + 1)
          BY <2>6, <2>12, <2>13, <2>19, <4>2, Widths
        <5>. QED  BY <2>6, <5>1, Widths DEF Powers
      <4>. QED  BY <2>3, <4>1, <4>2
    <3>. QED  BY <2>19, <3>1, PowerPositive
  <2>23. (h + m) * v = (s * u) * h
    <3>1. (s * p) * v = s * (p * v)
      BY <2>4, <2>7, <2>22
    <3>2. s * (h * u) = (s * u) * h
      BY <2>3, <2>4, <2>7
    <3>. QED  BY <2>11, <2>21, <3>1, <3>2
  <2>24. ((s * u) * h) \div h = s * u
    <3>1. PICK q : q = s * u
      OBVIOUS
    <3>2. q \in Nat
      BY <2>3, <2>4, <3>1
    <3>3. (q * h) \div h = q
      BY <2>7, <3>2
    <3>. QED  BY <3>1, <3>3
  <2>25. s * u = a - (a % u)
    <3>1. a % u \in Nat
      BY <2>3, DivIs
    <3>2. u * s = s * u /\ s * u \in Nat
      BY <2>3, <2>4
    <3>. QED  BY <2>3, <2>4, <3>1, <3>2
  <2>. QED  BY <1>2, <2>1, <2>16, <2>20, <2>23, <2>24, <2>25
<1>. QED  BY <1>1, <1>2

\* Nothing is behind the last place of a whole number.
LEMMA WholeNumberComesBack ==
  ASSUME NEW n \in Nat, n < 2^(MantissaBits + 1)
  PROVE  FromFPRepToDouble(FromDoubleToFPRep(Double(n))) = Double(n)
<1>1. PICK a, f : a = Double(n) /\ f = 2^FractionBits
  OBVIOUS
<1>2. f \in Nat \ {0} /\ a = n * f
  BY <1>1, Widths, PowerPositive DEF Powers, Double
<1>3. a \in Nat /\ Whole(a) = n /\ (a = 0 <=> n = 0)
  BY <1>1, <1>2 DEF Whole
<1>4. PICK k, u, p : k = FractionPlaces(a) /\ u = LastPlace(a) /\ p = 2^k
  OBVIOUS
<1>5. /\ k \in 0..(MantissaBits + 1) /\ u \in Nat \ {0} /\ FractionBits - k \in Nat
      /\ Significand(a) = a \div u
  BY <1>3, <1>4, PlacesAre
<1>6. p \in Nat \ {0} /\ f = p * u
  <2>1. PICK y : y = FractionBits - k
    OBVIOUS
  <2>2. k \in Nat /\ y \in Nat /\ k + y = FractionBits /\ k <= Powers /\ k + y <= Powers
    BY <1>5, <2>1, Widths DEF Powers
  <2>3. 2^(k + y) = 2^k * 2^y /\ 2^k \in Nat \ {0}
    BY <2>2, PowerSum, PowerPositive
  <2>. QED  BY <1>1, <1>4, <2>1, <2>2, <2>3 DEF LastPlace
<1>7. PICK q : q = n * p
  OBVIOUS
<1>8. q \in Nat /\ a = q * u /\ (q = 0 <=> n = 0)
  BY <1>2, <1>5, <1>6, <1>7
<1>9. a \div u = q /\ a % u = 0
  BY <1>5, <1>8
<1>10. Representable(a)
  BY <1>1, <1>3, <1>5, <1>8, <1>9, NoSign DEF Representable, Whole
<1>11. FromFPRepToDouble(FromDoubleToFPRep(a)) = a
  BY <1>3, <1>4, <1>9, <1>10, NumberComesBack
<1>. QED  BY <1>1, <1>11

\* A number below one loses less than the last place that a mantissa can have.
LEMMA SmallNumberComesBack ==
  ASSUME NEW a \in Nat, Representable(a), a < Double(1)
  PROVE  a - FromFPRepToDouble(FromDoubleToFPRep(a)) \in 0..(2^(FractionBits - MantissaBits - 1) - 1)
<1>1. PICK f, u, b : /\ f = 2^FractionBits /\ u = 2^(FractionBits - MantissaBits - 1)
                     /\ b = FromFPRepToDouble(FromDoubleToFPRep(a))
  OBVIOUS
<1>2. f \in Nat \ {0} /\ a < f
  BY <1>1, Widths, PowerPositive DEF Powers, Double
<1>3. Whole(a) = 0
  BY <1>1, <1>2 DEF Whole
<1>4. FractionPlaces(a) = MantissaBits + 1 /\ LastPlace(a) \in Nat \ {0}
  <2>1. Digits(Whole(a)) = 0
    BY <1>3 DEF Digits
  <2>2. Whole(a) < 2^(MantissaBits + 1)
    BY NoSign DEF Representable, Whole
  <2>. QED  BY <2>1, <2>2, PlacesAre, Widths
<1>5. LastPlace(a) = u
  <2>1. FractionBits - (MantissaBits + 1) = FractionBits - MantissaBits - 1
    BY Widths
  <2>. QED  BY <1>1, <1>4, <2>1 DEF LastPlace
<1>6. b = a - (IF a = 0 THEN 0 ELSE a % u)
  BY <1>1, <1>5, NumberComesBack
<1>7. a % u \in 0..(u - 1) /\ u \in Nat \ {0}
  BY <1>4, <1>5, DivIs
<1>. QED  BY <1>1, <1>6, <1>7
----------------------------------------------------------------------------
(* AMF0: the parser reads back what is encoded.                               *)

\* Entities as the messages have them: strings whose characters the encoding counts,
\* no null and no object in an object.
Counted(str) == str = "" \/ Len(str) # 0
IsPlain(entity) ==
  \/ \E str : Counted(str) /\ entity = <<"String", str>>
  \/ \E num : entity = <<"Number", num>>
  \/ \E val \in BOOLEAN : entity = <<"Boolean", val>>
IsProperty(prop) == \E name, entity : name # "" /\ Counted(name) /\ IsPlain(entity) /\ prop = <<name, entity>>
AreProperties(props) == IsSeq(props) /\ \A i \in 1..Len(props) : IsProperty(props[i])
IsEntity(entity) ==
  IsPlain(entity) \/ entity = Null \/ \E props : AreProperties(props) /\ entity = <<"Object", props>>
AreEntities(entities) == IsSeq(entities) /\ \A i \in 1..Len(entities) : IsEntity(entities[i])

\* What the parser makes of them: numbers go through the conversion and back.
DecodedPlain(entity) ==
  IF entity[1] = "Number" THEN <<"Number", FromFPRepToDouble(FromDoubleToFPRep(entity[2]))>> ELSE entity
DecodedProperty(prop) == <<prop[1], DecodedPlain(prop[2])>>
DecodedProps(props) == [i \in 1..Len(props) |-> DecodedProperty(props[i])]
DecodedEntity(entity) ==
  IF entity[1] = "Object" THEN <<"Object", DecodedProps(entity[2])>> ELSE DecodedPlain(entity)
Decoded(entities) == [i \in 1..Len(entities) |-> DecodedEntity(entities[i])]

LEMMA SeqOne == ASSUME NEW a PROVE IsSeq(<<a>>) /\ Len(<<a>>) = 1 /\ <<a>>[1] = a
<1>1. <<a>> \in Seq({a})
  OBVIOUS
<1>. QED  BY <1>1, SeqIsSeq

LEMMA SeqTwo == ASSUME NEW a, NEW b PROVE IsSeq(<<a, b>>) /\ Len(<<a, b>>) = 2 /\ <<a, b>>[1] = a /\ <<a, b>>[2] = b
<1>1. <<a, b>> \in Seq({a, b})
  OBVIOUS
<1>. QED  BY <1>1, SeqIsSeq

\* What is behind the first of two sequences.
LEMMA AfterFirst ==
  ASSUME NEW s, NEW t, IsSeq(s), IsSeq(t)
  PROVE  After(s \o t, Len(s)) = t
<1>. DEFINE u == s \o t
<1>1. /\ IsSeq(u) /\ Len(u) = Len(s) + Len(t)
      /\ \A i \in 1..Len(t) : u[Len(s) + i] = t[i]
  BY SeqConcat
<1>2. Len(s) \in Nat /\ Len(t) \in Nat
  BY SeqLen
<1>. HIDE DEF u
<1>3. PICK m, n : m = Len(s) + 1 /\ n = Len(u)
  OBVIOUS
<1>4. m \in Nat \ {0} /\ n \in 0..Len(u) /\ m <= n + 1 /\ n - m + 1 = Len(t)
  BY <1>1, <1>2, <1>3
<1>5. /\ IsSeq(SubSeq(u, m, n)) /\ Len(SubSeq(u, m, n)) = n - m + 1
      /\ \A i \in 1..(n - m + 1) : SubSeq(u, m, n)[i] = u[m + i - 1]
  BY <1>1, <1>4, SeqSub
<1>6. \A i \in 1..Len(t) : m + i - 1 = Len(s) + i
  BY <1>2, <1>3
<1>7. \A i \in 1..Len(t) : SubSeq(u, m, n)[i] = t[i]
  BY <1>1, <1>4, <1>5, <1>6
<1>8. SubSeq(u, m, n) = t
  BY <1>4, <1>5, <1>7, SeqSame
<1>9. After(u, Len(s)) = SubSeq(u, m, n)
  BY <1>3 DEF After
<1>. QED  BY <1>8, <1>9 DEF u

\* A cell and what follows it.
LEMMA FirstCell ==
  ASSUME NEW a, NEW t, IsSeq(t)
  PROVE  /\ IsSeq(<<a>> \o t) /\ Len(<<a>> \o t) = Len(t) + 1 /\ (<<a>> \o t)[1] = a
         /\ <<a>> \o t # <<>> /\ After(<<a>> \o t, 1) = t
         /\ \A i \in 1..Len(t) : (<<a>> \o t)[i + 1] = t[i]
<1>. DEFINE s == <<a>>
<1>1. IsSeq(s) /\ Len(s) = 1 /\ s[1] = a
  BY SeqOne
<1>. HIDE DEF s
<1>0. IsSeq(s) /\ IsSeq(t)
  BY <1>1
<1>2. /\ IsSeq(s \o t) /\ Len(s \o t) = Len(s) + Len(t)
      /\ \A i \in 1..Len(s) : (s \o t)[i] = s[i]
      /\ \A i \in 1..Len(t) : (s \o t)[Len(s) + i] = t[i]
  BY <1>0, SeqConcat
<1>3. After(s \o t, Len(s)) = t
  BY <1>1, AfterFirst
<1>4. Len(t) \in Nat /\ (s \o t = <<>> <=> Len(s \o t) = 0)
  BY <1>2, SeqLen
<1>5. /\ IsSeq(s \o t) /\ Len(s \o t) = Len(t) + 1 /\ (s \o t)[1] = a
      /\ s \o t # <<>> /\ After(s \o t, 1) = t
      /\ \A i \in 1..Len(t) : (s \o t)[i + 1] = t[i]
  BY <1>1, <1>2, <1>3, <1>4
<1>. QED  BY <1>5 DEF s

\* A name and what follows it.
LEMMA NameRead ==
  ASSUME NEW str, Counted(str), NEW t, IsSeq(t)
  PROVE  LET name  == EncodeName(str)
             cells == name \o t
         IN /\ IsSeq(name) /\ Len(name) = IF str = "" THEN 1 ELSE 2
            /\ StringCells(cells) = Len(name) /\ StringAt(cells) = str
            /\ IsSeq(cells) /\ Len(cells) = Len(name) + Len(t)
            /\ cells[1] = IF str = "" THEN <<"strlen", 0>> ELSE <<"strlen", Len(str)>>
            /\ After(cells, Len(name)) = t
<1>. DEFINE name  == EncodeName(str)
            cells == name \o t
<1>1. CASE str = ""
  <2>1. name = <<<<"strlen", 0>>>>
    BY <1>1 DEF EncodeName
  <2>2. IsSeq(name) /\ Len(name) = 1 /\ name[1] = <<"strlen", 0>>
    BY <2>1, SeqOne
  <2>. HIDE DEF name
  <2>3. IsSeq(cells) /\ Len(cells) = Len(name) + Len(t) /\ cells[1] = name[1]
    BY <2>2, SeqConcat
  <2>4. After(cells, Len(name)) = t /\ Len(t) \in Nat
    BY <2>2, AfterFirst, SeqLen
  <2>. HIDE DEF cells
  <2>5. cells[1][1] = "strlen" /\ cells[1][2] = 0 /\ Len(cells) >= 1
    BY <2>2, <2>3, <2>4
  <2>6. StringCells(cells) = 1
    BY <2>5 DEF StringCells, IsField
  <2>7. StringAt(cells) = ""
    BY <2>6 DEF StringAt
  <2>. QED  BY <1>1, <2>2, <2>3, <2>4, <2>6, <2>7 DEF name, cells
<1>2. CASE str # ""
  <2>0. Len(str) # 0
    BY <1>2 DEF Counted
  <2>1. name = <<<<"strlen", Len(str)>>, <<"chars", str>>>>
    BY <1>2 DEF EncodeName
  <2>2. IsSeq(name) /\ Len(name) = 2 /\ name[1] = <<"strlen", Len(str)>> /\ name[2] = <<"chars", str>>
    BY <2>1, SeqTwo
  <2>. HIDE DEF name
  <2>3. IsSeq(cells) /\ Len(cells) = Len(name) + Len(t) /\ cells[1] = name[1] /\ cells[2] = name[2]
    <3>1. \A i \in 1..Len(name) : (name \o t)[i] = name[i]
      BY <2>2, SeqConcat
    <3>2. 1 \in 1..Len(name) /\ 2 \in 1..Len(name)
      BY <2>2
    <3>3. IsSeq(cells) /\ Len(cells) = Len(name) + Len(t)
      BY <2>2, SeqConcat
    <3>. QED  BY <3>1, <3>2, <3>3
  <2>4. After(cells, Len(name)) = t /\ Len(t) \in Nat
    BY <2>2, AfterFirst, SeqLen
  <2>. HIDE DEF cells
  <2>5. /\ cells[1][1] = "strlen" /\ cells[1][2] = Len(str) /\ Len(cells) >= 1
        /\ cells[2][1] = "chars" /\ cells[2][2] = str /\ Len(cells) >= 2
    BY <2>2, <2>3, <2>4
  <2>6. StringCells(cells) = 2
    BY <2>0, <2>5 DEF StringCells, IsField
  <2>7. StringAt(cells) = str
    BY <2>5, <2>6 DEF StringAt
  <2>. QED  BY <1>2, <2>2, <2>3, <2>4, <2>6, <2>7 DEF name, cells
<1>. QED  BY <1>1, <1>2

\* A plain entity, or null, ahead of the rest: what ReadValue makes of it.
LEMMA PlainRead ==
  ASSUME NEW entity, IsPlain(entity), NEW t, IsSeq(t), NEW p, p.rest = EncodeProperty(entity) \o t
  PROVE  /\ IsSeq(EncodeProperty(entity)) /\ Len(EncodeProperty(entity)) >= 1
         /\ After(p.rest, Len(EncodeProperty(entity))) = t
         /\ ReadValue(p) = Value(p, Len(EncodeProperty(entity)) - 1, DecodedPlain(entity))
         /\ p.rest[1][1] = entity[1] /\ p.rest[1][2] = 0
<1>. DEFINE code  == EncodeProperty(entity)
            cells == p.rest
<1>1. ASSUME NEW str, Counted(str), entity = <<"String", str>>
      PROVE  /\ IsSeq(code) /\ Len(code) >= 1 /\ After(cells, Len(code)) = t
             /\ ReadValue(p) = Value(p, Len(code) - 1, DecodedPlain(entity))
             /\ cells[1][1] = entity[1] /\ cells[1][2] = 0
  <2>. DEFINE name == EncodeName(str)
              m    == Marker("String")
  <2>1. code = <<m>> \o name
    BY <1>1 DEF EncodeProperty, EncodeString
  <2>2. /\ IsSeq(name) /\ Len(name) \in {1, 2}
        /\ StringCells(name \o t) = Len(name) /\ StringAt(name \o t) = str /\ IsSeq(name \o t)
    BY <1>1, NameRead
  <2>. HIDE DEF name
  <2>3. IsSeq(<<m>>) /\ Len(<<m>>) = 1
    BY SeqOne
  <2>4. IsSeq(code) /\ Len(code) = 1 + Len(name)
    BY <2>1, <2>2, <2>3, SeqConcat
  <2>5. cells = <<m>> \o (name \o t)
    <3>1. (<<m>> \o name) \o t = <<m>> \o (name \o t)
      <4>1. PICK s : s = <<m>>
        OBVIOUS
      <4>2. IsSeq(s)
        BY <2>3, <4>1
      <4>3. (s \o name) \o t = s \o (name \o t)
        <5>1. IsSeq(name)
          BY <2>2
        <5>2. IsSeq(t)
          BY <1>1
        <5>. QED  BY <4>2, <5>1, <5>2, SeqAssoc
      <4>. QED  BY <4>1, <4>3
    <3>. QED  BY <2>1, <3>1
  <2>6. After(cells, Len(code)) = t
    BY <2>4, AfterFirst
  <2>7. cells[1] = m /\ After(cells, 1) = name \o t
    <3>1. PICK u : u = name \o t
      OBVIOUS
    <3>2. IsSeq(u) /\ cells = <<m>> \o u
      BY <2>2, <2>5, <3>1
    <3>3. cells[1] = m /\ After(cells, 1) = u
      BY <3>2, FirstCell
    <3>. QED  BY <3>1, <3>3
  <2>8. cells[1][1] = "String" /\ cells[1][2] = 0
    BY <2>7 DEF Marker
  <2>. HIDE DEF code, cells
  <2>9. StringCells(After(cells, 1)) = Len(name) /\ StringAt(After(cells, 1)) = str
    BY <2>2, <2>7
  <2>10. ReadValue(p) = Value(p, StringCells(After(cells, 1)), <<"String", StringAt(After(cells, 1))>>)
    <3>1. StringCells(After(cells, 1)) > 0
      BY <2>2, <2>9
    <3>. QED  BY <2>8, <3>1 DEF ReadValue, cells
  <2>11. DecodedPlain(entity) = entity
    BY <1>1 DEF DecodedPlain
  <2>12. Len(code) - 1 = Len(name)
    BY <2>2, <2>4
  <2>. QED  BY <1>1, <2>2, <2>4, <2>6, <2>8, <2>9, <2>10, <2>11, <2>12
<1>2. ASSUME NEW m, NEW c, code = <<m, c>>
      PROVE  /\ IsSeq(code) /\ Len(code) = 2 /\ After(cells, Len(code)) = t
             /\ cells[1] = m /\ cells[2] = c /\ Len(cells) >= 2
  <2>1. IsSeq(code) /\ Len(code) = 2 /\ code[1] = m /\ code[2] = c
    BY <1>2, SeqTwo
  <2>. HIDE DEF code
  <2>2. PICK u : u = code \o t
    OBVIOUS
  <2>3. /\ Len(u) = Len(code) + Len(t) /\ u[1] = m /\ u[2] = c
        /\ After(u, Len(code)) = t
    <3>1. Len(code \o t) = Len(code) + Len(t) /\ \A i \in 1..Len(code) : (code \o t)[i] = code[i]
      BY <2>1, SeqConcat
    <3>2. 1 \in 1..Len(code) /\ 2 \in 1..Len(code)
      BY <2>1
    <3>3. After(code \o t, Len(code)) = t
      BY <2>1, AfterFirst
    <3>. QED  BY <2>1, <2>2, <3>1, <3>2, <3>3
  <2>4. Len(t) \in Nat
    BY SeqLen
  <2>5. cells = u
    BY <2>2 DEF code
  <2>. QED  BY <2>1, <2>3, <2>4, <2>5
<1>3. ASSUME NEW num, entity = <<"Number", num>>
      PROVE  /\ IsSeq(code) /\ Len(code) >= 1 /\ After(cells, Len(code)) = t
             /\ ReadValue(p) = Value(p, Len(code) - 1, DecodedPlain(entity))
             /\ cells[1][1] = entity[1] /\ cells[1][2] = 0
  <2>1. code = <<Marker("Number"), <<"fprep", FromDoubleToFPRep(num)>>>>
    BY <1>3 DEF EncodeProperty, EncodeNumber
  <2>2. /\ IsSeq(code) /\ Len(code) = 2 /\ After(cells, Len(code)) = t /\ Len(cells) >= 2
        /\ cells[1] = Marker("Number") /\ cells[2] = <<"fprep", FromDoubleToFPRep(num)>>
    BY <1>2, <2>1
  <2>3. DecodedPlain(entity) = <<"Number", FromFPRepToDouble(FromDoubleToFPRep(num))>>
    BY <1>3 DEF DecodedPlain
  <2>. HIDE DEF code
  <2>4. /\ cells[1][1] = "Number" /\ cells[1][2] = 0
        /\ cells[2][1] = "fprep" /\ cells[2][2] = FromDoubleToFPRep(num)
    BY <2>2 DEF Marker
  <2>5. ReadValue(p) = Value(p, 1, <<"Number", FromFPRepToDouble(cells[2][2])>>)
    BY <2>2, <2>4 DEF ReadValue, IsField
  <2>6. Len(code) - 1 = 1 /\ Len(code) >= 1 /\ entity[1] = "Number"
    BY <1>3, <2>2
  <2>7. ReadValue(p) = Value(p, Len(code) - 1, DecodedPlain(entity))
    BY <2>3, <2>4, <2>5, <2>6
  <2>. QED  BY <2>2, <2>4, <2>6, <2>7
<1>4. ASSUME NEW val \in BOOLEAN, entity = <<"Boolean", val>>
      PROVE  /\ IsSeq(code) /\ Len(code) >= 1 /\ After(cells, Len(code)) = t
             /\ ReadValue(p) = Value(p, Len(code) - 1, DecodedPlain(entity))
             /\ cells[1][1] = entity[1] /\ cells[1][2] = 0
  <2>1. code = <<Marker("Boolean"), <<"byte", IF val THEN 1 ELSE 0>>>>
    BY <1>4 DEF EncodeProperty, EncodeBoolean
  <2>2. /\ IsSeq(code) /\ Len(code) = 2 /\ After(cells, Len(code)) = t /\ Len(cells) >= 2
        /\ cells[1] = Marker("Boolean") /\ cells[2] = <<"byte", IF val THEN 1 ELSE 0>>
    BY <1>2, <2>1
  <2>3. DecodedPlain(entity) = entity
    BY <1>4 DEF DecodedPlain
  <2>. HIDE DEF code
  <2>4. /\ cells[1][1] = "Boolean" /\ cells[1][2] = 0
        /\ cells[2][1] = "byte" /\ cells[2][2] = IF val THEN 1 ELSE 0
    BY <2>2 DEF Marker
  <2>5. ReadValue(p) = Value(p, 1, <<"Boolean", cells[2][2] = 1>>)
    BY <2>2, <2>4 DEF ReadValue, IsField
  <2>6. (cells[2][2] = 1) = val
    BY <2>4
  <2>7. Len(code) - 1 = 1 /\ Len(code) >= 1 /\ entity[1] = "Boolean"
    BY <1>4, <2>2
  <2>8. ReadValue(p) = Value(p, Len(code) - 1, DecodedPlain(entity))
    BY <1>4, <2>3, <2>5, <2>6, <2>7
  <2>. QED  BY <2>2, <2>4, <2>7, <2>8
<1>. QED  BY <1>1, <1>3, <1>4 DEF IsPlain

\* States of the parser that has gone astray nowhere: with r to read, having given out
\* v, outside an object; and in one, whose properties so far are c, after the name k.
ParserFields == {"rest", "retval", "inObject", "curObject", "curPropKey", "garbled"}
IsParser(p) == DOMAIN p = ParserFields /\ p = [f \in ParserFields |-> p[f]]
Outside(p, r, v) ==
  /\ IsParser(p) /\ p.rest = r /\ p.retval = v /\ p.inObject = FALSE
  /\ p.curPropKey = "" /\ p.garbled = FALSE
Keyed(p, r, v, c, k) ==
  /\ IsParser(p) /\ p.rest = r /\ p.retval = v /\ p.inObject = TRUE
  /\ p.curObject = c /\ p.curPropKey = k /\ p.garbled = FALSE
Inside(p, r, v, c) ==
  /\ IsParser(p) /\ p.rest = r /\ p.retval = v /\ p.inObject = TRUE
  /\ p.curObject = c /\ p.curPropKey = "" /\ p.garbled = FALSE

\* A turn of the parser at a plain entity outside an object.
LEMMA PlainTurn ==
  ASSUME NEW entity, IsPlain(entity), NEW t, IsSeq(t), NEW v,
         NEW p, Outside(p, EncodeProperty(entity) \o t, v)
  PROVE  /\ Outside(ParseTurn(p), t, Append(v, DecodedPlain(entity)))
         /\ IsSeq(EncodeProperty(entity)) /\ Len(EncodeProperty(entity)) >= 1
<1>. DEFINE r == EncodeProperty(entity) \o t
            n == Len(EncodeProperty(entity))
            d == DecodedPlain(entity)
<1>1. p.rest = r /\ p.garbled = FALSE /\ p.inObject = FALSE
  BY DEF Outside
<1>2. /\ IsSeq(EncodeProperty(entity)) /\ n >= 1 /\ After(p.rest, n) = t
      /\ ReadValue(p) = Value(p, n - 1, d)
  BY <1>1, PlainRead
<1>3. r # <<>>
  <2>1. IsSeq(r) /\ Len(r) = n + Len(t) /\ Len(t) \in Nat /\ n \in Nat
    BY <1>2, SeqConcat, SeqLen
  <2>. HIDE DEF r, n
  <2>2. Len(r) # 0
    BY <1>2, <2>1
  <2>. QED  BY <2>1, <2>2, SeqLen
<1>4. 1 + (n - 1) = n
  BY <1>2, SeqLen
<1>5. Outside(p, r, v)
  OBVIOUS
<1>. HIDE DEF n, d, r
<1>6. ParseTurn(p) = [p EXCEPT !.retval = Append(@, d), !.rest = After(@, n)]
  <2>1. ParseTurn(p) = ReadValue(p)
    BY <1>1, <1>3 DEF ParseTurn, ParseStep
  <2>2. Value(p, n - 1, d) = [p EXCEPT !.retval = Append(@, d), !.rest = After(@, 1 + (n - 1))]
    BY <1>1 DEF Value
  <2>. QED  BY <1>2, <1>4, <2>1, <2>2
<1>7. After(r, n) = t
  BY <1>1, <1>2
<1>8. Outside([p EXCEPT !.retval = Append(@, d), !.rest = After(@, n)], t, Append(v, d))
  BY <1>5, <1>7 DEF Outside, IsParser, ParserFields
<1>. QED  BY <1>2, <1>6, <1>8 DEF d, n

\* At a null, and at the marker of an object.
LEMMA NullTurn ==
  ASSUME NEW t, IsSeq(t), NEW v, NEW p, Outside(p, EncodeNull \o t, v)
  PROVE  Outside(ParseTurn(p), t, Append(v, Null))
<1>. DEFINE r == <<Marker("Null")>> \o t
<1>1. r[1] = Marker("Null") /\ r # <<>> /\ After(r, 1) = t
  BY FirstCell
<1>2. r[1][1] = "Null"
  BY <1>1 DEF Marker
<1>3. Outside(p, r, v)
  BY DEF EncodeNull
<1>. HIDE DEF r
<1>4. p.rest = r /\ p.garbled = FALSE /\ p.inObject = FALSE
  BY <1>3 DEF Outside
<1>5. ReadValue(p) = [p EXCEPT !.retval = Append(@, <<"Null", 0>>), !.rest = After(@, 1)]
  BY <1>2, <1>4 DEF ReadValue
<1>6. ParseTurn(p) = ReadValue(p)
  BY <1>1, <1>4 DEF ParseTurn, ParseStep
<1>7. Outside([p EXCEPT !.retval = Append(@, <<"Null", 0>>), !.rest = After(@, 1)], t, Append(v, <<"Null", 0>>))
  BY <1>1, <1>3 DEF Outside, IsParser, ParserFields
<1>. QED  BY <1>5, <1>6, <1>7 DEF Null

LEMMA ObjectTurn ==
  ASSUME NEW t, IsSeq(t), NEW v, NEW p, Outside(p, <<Marker("Object")>> \o t, v)
  PROVE  Inside(ParseTurn(p), t, v, <<>>)
<1>. DEFINE r == <<Marker("Object")>> \o t
<1>1. r[1] = Marker("Object") /\ r # <<>> /\ After(r, 1) = t
  BY FirstCell
<1>2. r[1][1] = "Object"
  BY <1>1 DEF Marker
<1>3. Outside(p, r, v)
  OBVIOUS
<1>. HIDE DEF r
<1>4. p.rest = r /\ p.garbled = FALSE /\ p.inObject = FALSE
  BY <1>3 DEF Outside
<1>5. ReadValue(p) = [p EXCEPT !.inObject = TRUE, !.curObject = <<>>, !.rest = After(@, 1)]
  BY <1>2, <1>4 DEF ReadValue
<1>6. ParseTurn(p) = ReadValue(p)
  BY <1>1, <1>4 DEF ParseTurn, ParseStep
<1>7. Inside([p EXCEPT !.inObject = TRUE, !.curObject = <<>>, !.rest = After(@, 1)], t, v, <<>>)
  BY <1>1, <1>3 DEF Outside, Inside, Keyed, IsParser, ParserFields
<1>. QED  BY <1>5, <1>6, <1>7

\* At a property of an object, and at the object's end.
EncodedProperty(prop) == EncodeName(prop[1]) \o EncodeProperty(prop[2])
ObjectEnd == EncodeName("") \o <<Marker("ObjectEnd")>>

LEMMA PropertyCells ==
  ASSUME NEW prop, IsProperty(prop)
  PROVE  /\ IsSeq(EncodedProperty(prop)) /\ Len(EncodedProperty(prop)) >= 1
         /\ IsSeq(EncodeName(prop[1])) /\ IsSeq(EncodeProperty(prop[2]))
<1>1. PICK name, entity : name # "" /\ Counted(name) /\ IsPlain(entity) /\ prop = <<name, entity>>
  BY DEF IsProperty
<1>2. prop[1] = name /\ prop[2] = entity
  BY <1>1
<1>. DEFINE value == EncodeProperty(entity)
            key   == EncodeName(name)
<1>3. IsSeq(value) /\ Len(value) >= 1 /\ Len(value) \in Nat
  <2>1. PICK p : p = [rest |-> value \o <<>>]
    OBVIOUS
  <2>2. p.rest = value \o <<>>
    BY <2>1
  <2>3. IsSeq(value) /\ Len(value) >= 1
    BY <1>1, <2>2, SeqEmpty, PlainRead
  <2>. QED  BY <2>3, SeqLen
<1>4. IsSeq(key) /\ Len(key) = 2
  BY <1>1, SeqEmpty, NameRead
<1>. HIDE DEF key, value
<1>5. IsSeq(key \o value) /\ Len(key \o value) = Len(key) + Len(value)
  BY <1>3, <1>4, SeqConcat
<1>6. EncodedProperty(prop) = key \o value
  BY <1>2 DEF EncodedProperty, key, value
<1>7. Len(key \o value) >= 1
  BY <1>3, <1>4, <1>5
<1>. QED  BY <1>2, <1>3, <1>4, <1>5, <1>6, <1>7 DEF key, value

LEMMA PropertyTurn ==
  ASSUME NEW prop, IsProperty(prop), NEW t, IsSeq(t), NEW v, NEW c,
         NEW p, Inside(p, EncodedProperty(prop) \o t, v, c)
  PROVE  Inside(ParseTurn(p), t, v, Append(c, DecodedProperty(prop)))
<1>1. PICK name, entity : name # "" /\ Counted(name) /\ IsPlain(entity) /\ prop = <<name, entity>>
  BY DEF IsProperty
<1>2. prop[1] = name /\ prop[2] = entity
  BY <1>1
<1>. DEFINE value == EncodeProperty(entity)
            key   == EncodeName(name)
            n     == Len(value)
            d     == DecodedPlain(entity)
<1>3. IsSeq(value) /\ IsSeq(key)
  BY <1>2, PropertyCells
<1>4. PICK u : u = value \o t
  OBVIOUS
<1>5. IsSeq(u)
  BY <1>3, <1>4, SeqConcat
<1>6. PICK r : r = key \o u
  OBVIOUS
<1>7. /\ Len(key) = 2 /\ StringCells(r) = 2 /\ StringAt(r) = name
      /\ IsSeq(r) /\ Len(r) = 2 + Len(u)
      /\ r[1] = <<"strlen", Len(name)>> /\ After(r, 2) = u
  <2>1. /\ Len(key) = 2 /\ StringCells(key \o u) = Len(key) /\ StringAt(key \o u) = name
        /\ IsSeq(key \o u) /\ Len(key \o u) = Len(key) + Len(u)
        /\ (key \o u)[1] = <<"strlen", Len(name)>> /\ After(key \o u, Len(key)) = u
    BY <1>1, <1>5, NameRead
  <2>. QED  BY <1>6, <2>1
<1>8. EncodedProperty(prop) \o t = r
  <2>1. EncodedProperty(prop) = key \o value
    BY <1>2 DEF EncodedProperty
  <2>. HIDE DEF key, value
  <2>2. PICK a, b : a = key /\ b = value
    OBVIOUS
  <2>3. IsSeq(a) /\ IsSeq(b)
    BY <1>3, <2>2
  <2>4. (a \o b) \o t = a \o (b \o t)
    BY <2>3, SeqAssoc
  <2>. QED  BY <1>4, <1>6, <2>1, <2>2, <2>4
<1>9. Inside(p, r, v, c)
  BY <1>8
<1>10. PICK q : q = [p EXCEPT !.curPropKey = name, !.rest = u]
  OBVIOUS
<1>11. Keyed(q, u, v, c, name)
  BY <1>9, <1>10 DEF Inside, Keyed, IsParser, ParserFields
<1>12. q.rest = EncodeProperty(entity) \o t
  BY <1>4, <1>11 DEF Inside, Keyed
<1>13. n >= 1 /\ n \in Nat
  <2>1. Len(EncodeProperty(entity)) >= 1
    BY <1>1, <1>12, PlainRead
  <2>. QED  BY <1>3, <2>1, SeqLen
<1>23. After(u, n) = t /\ ReadValue(q) = Value(q, n - 1, d)
  <2>1. /\ After(q.rest, Len(EncodeProperty(entity))) = t
        /\ ReadValue(q) = Value(q, Len(EncodeProperty(entity)) - 1, DecodedPlain(entity))
    BY <1>1, <1>12, PlainRead
  <2>. QED  BY <1>4, <1>12, <2>1
<1>14. u # <<>>
  <2>1. Len(u) = n + Len(t) /\ Len(t) \in Nat
    BY <1>3, <1>4, SeqConcat, SeqLen
  <2>. HIDE DEF n
  <2>2. Len(u) # 0
    BY <1>13, <2>1
  <2>. QED  BY <1>5, <2>2, SeqLen
<1>. HIDE DEF key, value, n, d
<1>15. p.rest = r /\ p.garbled = FALSE /\ p.inObject = TRUE /\ p.curPropKey = ""
  BY <1>9 DEF Inside, Keyed
<1>16. ReadKey(p) = q
  BY <1>7, <1>10, <1>15 DEF ReadKey
<1>17. r # <<>> /\ r[1] \notin {<<"ObjectEnd", 0>>, <<"strlen", 0>>}
  <2>1. Len(u) \in Nat
    BY <1>5, SeqLen
  <2>0. Len(r) = 2 + Len(u) /\ IsSeq(r) /\ r[1] = <<"strlen", Len(name)>>
    BY <1>7
  <2>2. Len(r) # 0
    BY <2>0, <2>1
  <2>3. Len(name) # 0
    BY <1>1 DEF Counted
  <2>4. r # <<>>
    BY <2>0, <2>2, SeqLen
  <2>5. r[1][1] = "strlen" /\ r[1][2] # 0
    BY <2>0, <2>3
  <2>. QED  BY <2>4, <2>5
<1>18. ParseTurn(p) = Value(q, n - 1, d)
  <2>1. ParseTurn(p) = ParseStep(p)
    BY <1>15, <1>17 DEF ParseTurn
  <2>2. q.rest # <<>> /\ q.garbled = FALSE
    BY <1>11, <1>14 DEF Inside, Keyed
  <2>. QED  BY <1>15, <1>16, <1>17, <1>23, <2>1, <2>2 DEF ParseStep
<1>19. Value(q, n - 1, d) = [q EXCEPT !.curObject = Append(@, <<name, d>>), !.curPropKey = "",
                                      !.rest = After(@, n)]
  <2>1. 1 + (n - 1) = n
    BY <1>13
  <2>2. q.inObject = TRUE /\ q.curPropKey = name
    BY <1>11 DEF Inside, Keyed
  <2>. QED  BY <2>1, <2>2 DEF Value
<1>20. PICK e : e = <<name, d>>
  OBVIOUS
<1>21. DecodedProperty(prop) = e
  BY <1>2, <1>20 DEF DecodedProperty, d
<1>22. Inside([q EXCEPT !.curObject = Append(@, e), !.curPropKey = "", !.rest = After(@, n)],
              t, v, Append(c, e))
  BY <1>11, <1>23 DEF Inside, Keyed, IsParser, ParserFields
<1>. QED  BY <1>18, <1>19, <1>20, <1>21, <1>22

LEMMA EndCells == IsSeq(ObjectEnd) /\ Len(ObjectEnd) = 2 /\ ObjectEnd[1] = <<"strlen", 0>>
<1>1. PICK u : u = <<Marker("ObjectEnd")>>
  OBVIOUS
<1>2. PICK str : str = ""
  OBVIOUS
<1>3. Counted(str) /\ IsSeq(u) /\ Len(u) = 1
  BY <1>1, <1>2, SeqOne DEF Counted
<1>4. PICK e : e = EncodeName(str)
  OBVIOUS
<1>5. /\ IsSeq(e) /\ Len(e) = 1 /\ IsSeq(e \o u) /\ Len(e \o u) = Len(e) + Len(u)
      /\ (e \o u)[1] = <<"strlen", 0>>
  BY <1>2, <1>3, <1>4, NameRead
<1>6. ObjectEnd = e \o u
  BY <1>1, <1>2, <1>4 DEF ObjectEnd
<1>7. Len(e) + Len(u) = 2
  BY <1>3, <1>5
<1>. QED  BY <1>5, <1>6, <1>7

LEMMA EndTurn ==
  ASSUME NEW t, IsSeq(t), NEW v, NEW c, NEW p, Inside(p, ObjectEnd \o t, v, c)
  PROVE  Outside(ParseTurn(p), t, Append(v, <<"Object", c>>))
<1>1. PICK e, r : e = ObjectEnd /\ r = e \o t
  OBVIOUS
<1>2. IsSeq(e) /\ Len(e) = 2 /\ e[1] = <<"strlen", 0>>
  BY <1>1, EndCells
<1>3. After(r, 2) = t /\ r[1] = <<"strlen", 0>> /\ r # <<>>
  <2>1. IsSeq(e \o t) /\ Len(e \o t) = Len(e) + Len(t) /\ \A i \in 1..Len(e) : (e \o t)[i] = e[i]
    BY <1>2, SeqConcat
  <2>2. After(e \o t, Len(e)) = t
    BY <1>2, AfterFirst
  <2>3. Len(t) \in Nat
    BY SeqLen
  <2>4. 1 \in 1..Len(e) /\ Len(r) # 0 /\ IsSeq(r)
    <3>1. Len(r) = 2 + Len(t) /\ IsSeq(r)
      BY <1>1, <1>2, <2>1
    <3>2. 1 \in 1..Len(e)
      BY <1>2
    <3>. QED  BY <2>3, <3>1, <3>2
  <2>5. r # <<>>
    BY <2>4, SeqLen
  <2>. QED  BY <1>1, <1>2, <2>1, <2>2, <2>4, <2>5
<1>4. Inside(p, r, v, c)
  BY <1>1
<1>5. p.rest = r /\ p.garbled = FALSE /\ p.inObject = TRUE /\ p.curPropKey = ""
  BY <1>4 DEF Inside, Keyed
<1>6. ObjectEnds(p) = [p EXCEPT !.inObject = FALSE, !.retval = Append(@, <<"Object", p.curObject>>),
                                !.rest = After(@, 2)]
  <2>1. ~IsField(p.rest, 1, "ObjectEnd")
    <3>1. r[1][1] = "strlen"
      BY <1>3
    <3>2. p.rest[1][1] # "ObjectEnd"
      BY <1>5, <3>1
    <3>. QED  BY <3>2 DEF IsField
  <2>. QED  BY <2>1 DEF ObjectEnds
<1>7. ParseTurn(p) = ObjectEnds(p)
  <2>1. r[1] \in {<<"ObjectEnd", 0>>, <<"strlen", 0>>}
    BY <1>3
  <2>. QED  BY <1>3, <1>5, <2>1 DEF ParseTurn, ParseStep
<1>8. Outside([p EXCEPT !.inObject = FALSE, !.retval = Append(@, <<"Object", p.curObject>>),
                        !.rest = After(@, 2)], t, Append(v, <<"Object", c>>))
  BY <1>3, <1>4 DEF Outside, Inside, Keyed, IsParser, ParserFields
<1>. QED  BY <1>6, <1>7, <1>8

\* The cells of the properties of an object, and of an object with what follows it.
PropCells(props) == FlattenSeq([i \in DOMAIN props |-> EncodeName(props[i][1]) \o EncodeProperty(props[i][2])])
ObjectOf(props) == <<"Object", props>>

\* A concatenation made at each place of a sequence, and its first part.
LEMMA PropCellsAre ==
  ASSUME NEW props, AreProperties(props)
  PROVE  /\ IsSeq(PropCells(props)) /\ Len(props) \in Nat
         /\ props = <<>> => PropCells(props) = <<>>
         /\ props # <<>> => /\ IsProperty(props[1]) /\ AreProperties(Tail(props))
                            /\ IsSeq(PropCells(Tail(props)))
                            /\ PropCells(props) = EncodedProperty(props[1]) \o PropCells(Tail(props))
<1>. DEFINE C(ps) == [i \in DOMAIN ps |-> EncodeName(ps[i][1]) \o EncodeProperty(ps[i][2])]
<1>1. ASSUME NEW ps, AreProperties(ps)
      PROVE  /\ AllSeqs(C(ps)) /\ Len(C(ps)) = Len(ps) /\ Len(ps) \in Nat /\ IsSeq(ps)
             /\ \A i \in 1..Len(ps) : C(ps)[i] = EncodedProperty(ps[i])
  <2>. DEFINE s == C(ps)
  <2>1. IsSeq(ps) /\ \A i \in 1..Len(ps) : IsProperty(ps[i])
    BY <1>1 DEF AreProperties
  <2>2. DOMAIN ps = 1..Len(ps) /\ Len(ps) \in Nat
    BY <2>1, SeqLen
  <2>3. DOMAIN s = 1..Len(ps) /\ \A i \in 1..Len(ps) : s[i] = EncodedProperty(ps[i])
    BY <2>2 DEF EncodedProperty
  <2>4. s = [i \in 1..Len(ps) |-> s[i]]
    BY <2>2
  <2>. HIDE DEF s
  <2>5. IsSeq(s) /\ Len(s) = Len(ps)
    BY <2>2, <2>3, <2>4, SeqMade
  <2>6. ASSUME NEW i \in 1..Len(ps) PROVE IsSeq(s[i])
    <3>1. IsProperty(ps[i]) /\ s[i] = EncodedProperty(ps[i])
      BY <2>1, <2>3
    <3>2. PICK a : a = ps[i]
      OBVIOUS
    <3>3. IsSeq(EncodedProperty(a))
      BY <3>1, <3>2, PropertyCells
    <3>. QED  BY <3>1, <3>2, <3>3
  <2>7. AllSeqs(s)
    BY <2>5, <2>6 DEF AllSeqs
  <2>. QED  BY <2>1, <2>2, <2>3, <2>5, <2>7 DEF s
<1>2. \A ps : PropCells(ps) = FlattenSeq(C(ps))
  BY DEF PropCells
<1>. HIDE DEF C
<1>3. IsSeq(PropCells(props)) /\ Len(props) \in Nat
  BY <1>1, <1>2, FlattenIsSeq
<1>4. ASSUME props = <<>> PROVE PropCells(props) = <<>>
  <2>1. Len(C(props)) = 0 /\ IsSeq(C(props))
    BY <1>1, <1>4, SeqEmpty DEF AllSeqs
  <2>2. C(props) = <<>>
    BY <2>1, SeqLen
  <2>. QED  BY <1>2, <2>2, FlattenEmpty
<1>5. ASSUME props # <<>>
      PROVE  /\ IsProperty(props[1]) /\ AreProperties(Tail(props)) /\ IsSeq(PropCells(Tail(props)))
             /\ PropCells(props) = EncodedProperty(props[1]) \o PropCells(Tail(props))
  <2>1. /\ AllSeqs(C(props)) /\ Len(C(props)) = Len(props) /\ IsSeq(props) /\ Len(props) \in Nat
        /\ \A i \in 1..Len(props) : C(props)[i] = EncodedProperty(props[i])
    BY <1>1
  <2>2. Len(props) # 0
    BY <1>5, <2>1, SeqLen
  <2>3. 1 \in 1..Len(props)
    BY <2>1, <2>2
  <2>4. IsProperty(props[1]) /\ C(props)[1] = EncodedProperty(props[1])
    BY <2>1, <2>3 DEF AreProperties
  <2>5. PICK t : t = Tail(props)
    OBVIOUS
  <2>6. IsSeq(t) /\ Len(t) = Len(props) - 1 /\ \A i \in 1..(Len(props) - 1) : t[i] = props[i + 1]
    BY <1>5, <2>1, <2>5, SeqTail
  <2>7. AreProperties(t)
    <3>1. \A i \in 1..Len(t) : i + 1 \in 1..Len(props)
      BY <2>1, <2>6
    <3>. QED  BY <2>6, <3>1 DEF AreProperties
  <2>8. PICK s : s = C(props)
    OBVIOUS
  <2>9. AllSeqs(s) /\ IsSeq(s) /\ s # <<>> /\ Len(s) = Len(props)
    <3>1. AllSeqs(s) /\ IsSeq(s) /\ Len(s) = Len(props)
      BY <2>1, <2>8 DEF AllSeqs
    <3>. QED  BY <2>2, <3>1, SeqLen
  <2>10. FlattenSeq(s) = s[1] \o FlattenSeq(Tail(s))
    BY <2>9, FlattenHead
  <2>11. Tail(s) = C(t)
    <3>1. /\ IsSeq(Tail(s)) /\ Len(Tail(s)) = Len(props) - 1
          /\ \A i \in 1..(Len(props) - 1) : Tail(s)[i] = s[i + 1]
      BY <2>9, SeqTail
    <3>2. /\ IsSeq(C(t)) /\ Len(C(t)) = Len(t)
          /\ \A i \in 1..Len(t) : C(t)[i] = EncodedProperty(t[i])
      BY <1>1, <2>7 DEF AllSeqs
    <3>3. ASSUME NEW i \in 1..(Len(props) - 1) PROVE Tail(s)[i] = C(t)[i]
      <4>1. i + 1 \in 1..Len(props) /\ i \in 1..Len(t)
        BY <2>1, <2>6
      <4>2. PICK j : j = i + 1
        OBVIOUS
      <4>3. Tail(s)[i] = s[j] /\ t[i] = props[j] /\ j \in 1..Len(props)
        BY <2>6, <3>1, <4>1, <4>2
      <4>4. s[j] = EncodedProperty(props[j])
        BY <2>1, <2>8, <4>3
      <4>. QED  BY <3>2, <4>1, <4>3, <4>4
    <3>4. PICK a, b : a = Tail(s) /\ b = C(t)
      OBVIOUS
    <3>5. a = b
      BY <2>6, <3>1, <3>2, <3>3, <3>4, SeqSame
    <3>. QED  BY <3>4, <3>5
  <2>12. IsSeq(PropCells(t))
    BY <1>1, <1>2, <2>7, FlattenIsSeq
  <2>. QED  BY <1>2, <2>4, <2>5, <2>7, <2>8, <2>10, <2>11, <2>12
<1>. QED  BY <1>3, <1>4, <1>5

\* The three kinds of entity, and their cells.
LEMMA PlainEntity ==
  ASSUME NEW entity, IsPlain(entity)
  PROVE  /\ EncodeEntity(entity) = EncodeProperty(entity) /\ DecodedEntity(entity) = DecodedPlain(entity)
         /\ IsSeq(EncodeEntity(entity)) /\ Len(EncodeEntity(entity)) >= 1
<1>1. entity[1] # "Object"
  BY DEF IsPlain
<1>2. EncodeEntity(entity) = EncodeProperty(entity) /\ DecodedEntity(entity) = DecodedPlain(entity)
  BY <1>1 DEF EncodeEntity, DecodedEntity
<1>3. PICK t : t = <<>>
  OBVIOUS
<1>4. PICK p : p = [rest |-> EncodeProperty(entity) \o t]
  OBVIOUS
<1>5. p.rest = EncodeProperty(entity) \o t /\ IsSeq(t)
  BY <1>3, <1>4, SeqEmpty
<1>6. IsSeq(EncodeProperty(entity)) /\ Len(EncodeProperty(entity)) >= 1
  BY <1>5, PlainRead
<1>. QED  BY <1>2, <1>6

LEMMA NullEntity ==
  /\ EncodeEntity(Null) = EncodeNull /\ DecodedEntity(Null) = Null
  /\ IsSeq(EncodeNull) /\ Len(EncodeNull) = 1
<1>1. Null[1] = "Null"
  BY DEF Null
<1>2. Null[1] # "Object" /\ Null[1] # "String" /\ Null[1] # "Number" /\ Null[1] # "Boolean"
  BY <1>1
<1>3. EncodeEntity(Null) = EncodeNull
  BY <1>1, <1>2 DEF EncodeEntity, EncodeProperty
<1>4. DecodedEntity(Null) = Null
  BY <1>2 DEF DecodedEntity, DecodedPlain
<1>5. IsSeq(EncodeNull) /\ Len(EncodeNull) = 1
  <2>1. PICK m : m = Marker("Null")
    OBVIOUS
  <2>2. IsSeq(<<m>>) /\ Len(<<m>>) = 1
    BY SeqOne
  <2>. QED  BY <2>1, <2>2 DEF EncodeNull
<1>. QED  BY <1>3, <1>4, <1>5

LEMMA ObjectEntity ==
  ASSUME NEW props, AreProperties(props)
  PROVE  /\ EncodeEntity(ObjectOf(props)) = <<Marker("Object")>> \o (PropCells(props) \o ObjectEnd)
         /\ DecodedEntity(ObjectOf(props)) = ObjectOf(DecodedProps(props))
         /\ IsSeq(PropCells(props) \o ObjectEnd)
         /\ IsSeq(EncodeEntity(ObjectOf(props))) /\ Len(EncodeEntity(ObjectOf(props))) >= 1
<1>1. ObjectOf(props)[1] = "Object" /\ ObjectOf(props)[2] = props
  BY DEF ObjectOf
<1>2. EncodeEntity(ObjectOf(props)) = EncodeObject(props)
      /\ DecodedEntity(ObjectOf(props)) = <<"Object", DecodedProps(props)>>
  BY <1>1 DEF EncodeEntity, DecodedEntity
<1>3. PICK m, a, b, c : m = <<Marker("Object")>> /\ a = PropCells(props) /\ b = EncodeName("")
                        /\ c = <<Marker("ObjectEnd")>>
  OBVIOUS
<1>4. IsSeq(m) /\ Len(m) = 1
  BY <1>3, SeqOne
<1>5. IsSeq(a)
  BY <1>3, PropCellsAre
<1>6. IsSeq(b) /\ IsSeq(c)
  <2>1. PICK str : str = ""
    OBVIOUS
  <2>2. Counted(str) /\ IsSeq(c)
    BY <1>3, <2>1, SeqOne DEF Counted
  <2>3. IsSeq(EncodeName(str))
    BY <2>2, NameRead
  <2>. QED  BY <1>3, <2>1, <2>2, <2>3
<1>7. EncodeObject(props) = ((m \o a) \o b) \o c
  BY <1>3 DEF EncodeObject, PropCells
<1>8. IsSeq(m \o a) /\ IsSeq(b \o c) /\ IsSeq(a \o (b \o c))
      /\ IsSeq(m \o (a \o (b \o c))) /\ Len(m \o (a \o (b \o c))) = Len(m) + Len(a \o (b \o c))
  BY <1>4, <1>5, <1>6, SeqConcat
<1>9. ((m \o a) \o b) \o c = m \o (a \o (b \o c))
  <2>1. PICK x, y : x = m \o a /\ y = b \o c
    OBVIOUS
  <2>2. IsSeq(x) /\ IsSeq(y)
    BY <1>8, <2>1
  <2>3. (x \o b) \o c = x \o (b \o c)
    BY <1>6, <2>2, SeqAssoc
  <2>4. (m \o a) \o y = m \o (a \o y)
    BY <1>4, <1>5, <2>2, SeqAssoc
  <2>. QED  BY <2>1, <2>3, <2>4
<1>10. b \o c = ObjectEnd
  BY <1>3 DEF ObjectEnd
<1>11. EncodeEntity(ObjectOf(props)) = m \o (a \o ObjectEnd)
  BY <1>2, <1>7, <1>9, <1>10
<1>12. Len(EncodeEntity(ObjectOf(props))) >= 1 /\ IsSeq(EncodeEntity(ObjectOf(props))) /\ IsSeq(a \o ObjectEnd)
  <2>1. PICK u : u = a \o (b \o c)
    OBVIOUS
  <2>2. Len(u) \in Nat
    BY <1>8, <2>1, SeqLen
  <2>3. Len(m \o u) >= 1
    BY <1>4, <1>8, <2>1, <2>2
  <2>. QED  BY <1>8, <1>10, <1>11, <2>1, <2>3
<1>13. DecodedEntity(ObjectOf(props)) = ObjectOf(DecodedProps(props))
  BY <1>2 DEF ObjectOf
<1>. QED  BY <1>3, <1>11, <1>12, <1>13

LEMMA EntityCells ==
  ASSUME NEW entity, IsEntity(entity)
  PROVE  IsSeq(EncodeEntity(entity)) /\ Len(EncodeEntity(entity)) >= 1
<1>1. CASE IsPlain(entity)
  BY <1>1, PlainEntity
<1>2. CASE entity = Null
  BY <1>2, NullEntity
<1>3. ASSUME NEW props, AreProperties(props), entity = <<"Object", props>>
      PROVE  IsSeq(EncodeEntity(entity)) /\ Len(EncodeEntity(entity)) >= 1
  <2>1. entity = ObjectOf(props)
    BY <1>3 DEF ObjectOf
  <2>. QED  BY <1>3, <2>1, ObjectEntity
<1>. QED  BY <1>1, <1>2, <1>3 DEF IsEntity

LEMMA EncodeIs ==
  ASSUME NEW entities, AreEntities(entities)
  PROVE  /\ IsSeq(Encode(entities)) /\ IsSeq(entities) /\ Len(entities) \in Nat
         /\ entities = <<>> => Encode(entities) = <<>>
         /\ entities # <<>> => /\ IsEntity(entities[1]) /\ AreEntities(Tail(entities))
                               /\ IsSeq(Encode(Tail(entities)))
                               /\ Encode(entities) = EncodeEntity(entities[1]) \o Encode(Tail(entities))
<1>. DEFINE C(es) == [i \in DOMAIN es |-> EncodeEntity(es[i])]
<1>1. ASSUME NEW es, AreEntities(es)
      PROVE  /\ AllSeqs(C(es)) /\ Len(C(es)) = Len(es) /\ Len(es) \in Nat /\ IsSeq(es)
             /\ \A i \in 1..Len(es) : C(es)[i] = EncodeEntity(es[i])
  <2>. DEFINE s == C(es)
  <2>1. IsSeq(es) /\ \A i \in 1..Len(es) : IsEntity(es[i])
    BY <1>1 DEF AreEntities
  <2>2. DOMAIN es = 1..Len(es) /\ Len(es) \in Nat
    BY <2>1, SeqLen
  <2>3. DOMAIN s = 1..Len(es) /\ \A i \in 1..Len(es) : s[i] = EncodeEntity(es[i])
    BY <2>2
  <2>4. s = [i \in 1..Len(es) |-> s[i]]
    BY <2>2
  <2>. HIDE DEF s
  <2>5. IsSeq(s) /\ Len(s) = Len(es)
    BY <2>2, <2>3, <2>4, SeqMade
  <2>6. ASSUME NEW i \in 1..Len(es) PROVE IsSeq(s[i])
    <3>1. IsEntity(es[i]) /\ s[i] = EncodeEntity(es[i])
      BY <2>1, <2>3
    <3>2. PICK a : a = es[i]
      OBVIOUS
    <3>3. IsSeq(EncodeEntity(a))
      BY <3>1, <3>2, EntityCells
    <3>. QED  BY <3>1, <3>2, <3>3
  <2>7. AllSeqs(s)
    BY <2>5, <2>6 DEF AllSeqs
  <2>. QED  BY <2>1, <2>2, <2>3, <2>5, <2>7 DEF s
<1>2. \A es : Encode(es) = FlattenSeq(C(es))
  BY DEF Encode
<1>. HIDE DEF C
<1>3. IsSeq(Encode(entities)) /\ IsSeq(entities) /\ Len(entities) \in Nat
  BY <1>1, <1>2, FlattenIsSeq
<1>4. ASSUME entities = <<>> PROVE Encode(entities) = <<>>
  <2>1. Len(C(entities)) = 0 /\ IsSeq(C(entities))
    BY <1>1, <1>4, SeqEmpty DEF AllSeqs
  <2>2. C(entities) = <<>>
    BY <2>1, SeqLen
  <2>. QED  BY <1>2, <2>2, FlattenEmpty
<1>5. ASSUME entities # <<>>
      PROVE  /\ IsEntity(entities[1]) /\ AreEntities(Tail(entities)) /\ IsSeq(Encode(Tail(entities)))
             /\ Encode(entities) = EncodeEntity(entities[1]) \o Encode(Tail(entities))
  <2>1. /\ AllSeqs(C(entities)) /\ Len(C(entities)) = Len(entities) /\ IsSeq(entities) /\ Len(entities) \in Nat
        /\ \A i \in 1..Len(entities) : C(entities)[i] = EncodeEntity(entities[i])
    BY <1>1
  <2>2. Len(entities) # 0
    BY <1>5, <2>1, SeqLen
  <2>3. 1 \in 1..Len(entities)
    BY <2>1, <2>2
  <2>4. IsEntity(entities[1]) /\ C(entities)[1] = EncodeEntity(entities[1])
    BY <2>1, <2>3 DEF AreEntities
  <2>5. PICK t : t = Tail(entities)
    OBVIOUS
  <2>6. IsSeq(t) /\ Len(t) = Len(entities) - 1 /\ \A i \in 1..(Len(entities) - 1) : t[i] = entities[i + 1]
    BY <1>5, <2>1, <2>5, SeqTail
  <2>7. AreEntities(t)
    <3>1. \A i \in 1..Len(t) : i + 1 \in 1..Len(entities)
      BY <2>1, <2>6
    <3>. QED  BY <2>6, <3>1 DEF AreEntities
  <2>8. PICK s : s = C(entities)
    OBVIOUS
  <2>9. AllSeqs(s) /\ IsSeq(s) /\ s # <<>> /\ Len(s) = Len(entities)
    <3>1. AllSeqs(s) /\ IsSeq(s) /\ Len(s) = Len(entities)
      BY <2>1, <2>8 DEF AllSeqs
    <3>. QED  BY <2>2, <3>1, SeqLen
  <2>10. FlattenSeq(s) = s[1] \o FlattenSeq(Tail(s))
    BY <2>9, FlattenHead
  <2>11. Tail(s) = C(t)
    <3>1. /\ IsSeq(Tail(s)) /\ Len(Tail(s)) = Len(entities) - 1
          /\ \A i \in 1..(Len(entities) - 1) : Tail(s)[i] = s[i + 1]
      BY <2>9, SeqTail
    <3>2. /\ IsSeq(C(t)) /\ Len(C(t)) = Len(t)
          /\ \A i \in 1..Len(t) : C(t)[i] = EncodeEntity(t[i])
      BY <1>1, <2>7 DEF AllSeqs
    <3>3. ASSUME NEW i \in 1..(Len(entities) - 1) PROVE Tail(s)[i] = C(t)[i]
      <4>1. i + 1 \in 1..Len(entities) /\ i \in 1..Len(t)
        BY <2>1, <2>6
      <4>2. PICK j : j = i + 1
        OBVIOUS
      <4>3. Tail(s)[i] = s[j] /\ t[i] = entities[j] /\ j \in 1..Len(entities)
        BY <2>6, <3>1, <4>1, <4>2
      <4>4. s[j] = EncodeEntity(entities[j])
        BY <2>1, <2>8, <4>3
      <4>. QED  BY <3>2, <4>1, <4>3, <4>4
    <3>4. PICK a, b : a = Tail(s) /\ b = C(t)
      OBVIOUS
    <3>5. a = b
      BY <2>6, <3>1, <3>2, <3>3, <3>4, SeqSame
    <3>. QED  BY <3>4, <3>5
  <2>12. IsSeq(Encode(t))
    BY <1>1, <1>2, <2>7, FlattenIsSeq
  <2>. QED  BY <1>2, <2>4, <2>5, <2>7, <2>8, <2>10, <2>11, <2>12
<1>. QED  BY <1>3, <1>4, <1>5

\* What the parser makes of a sequence, from its front.
LEMMA DecodedIs ==
  ASSUME NEW s, IsSeq(s)
  PROVE  /\ IsSeq(Decoded(s)) /\ Len(Decoded(s)) = Len(s)
         /\ s # <<>> => IsSeq(Tail(s)) /\ Decoded(s) = <<DecodedEntity(s[1])>> \o Decoded(Tail(s))
<1>1. ASSUME NEW u, IsSeq(u)
      PROVE  /\ IsSeq(Decoded(u)) /\ Len(Decoded(u)) = Len(u) /\ Len(u) \in Nat
             /\ \A i \in 1..Len(u) : Decoded(u)[i] = DecodedEntity(u[i])
  <2>1. Len(u) \in Nat
    BY <1>1, SeqLen
  <2>. DEFINE d == Decoded(u)
  <2>2. DOMAIN d = 1..Len(u) /\ d = [i \in 1..Len(u) |-> d[i]] /\ \A i \in 1..Len(u) : d[i] = DecodedEntity(u[i])
    BY DEF Decoded
  <2>. HIDE DEF d
  <2>3. IsSeq(d) /\ Len(d) = Len(u)
    BY <2>1, <2>2, SeqMade
  <2>. QED  BY <2>1, <2>2, <2>3 DEF d
<1>2. ASSUME s # <<>> PROVE IsSeq(Tail(s)) /\ Decoded(s) = <<DecodedEntity(s[1])>> \o Decoded(Tail(s))
  <2>1. PICK t, a : t = Tail(s) /\ a = DecodedEntity(s[1])
    OBVIOUS
  <2>2. IsSeq(t) /\ Len(t) = Len(s) - 1 /\ \A i \in 1..(Len(s) - 1) : t[i] = s[i + 1]
    BY <1>2, <2>1, SeqTail
  <2>3. /\ IsSeq(Decoded(t)) /\ Len(Decoded(t)) = Len(t)
        /\ \A i \in 1..Len(t) : Decoded(t)[i] = DecodedEntity(t[i])
    BY <1>1, <2>2
  <2>4. /\ IsSeq(Decoded(s)) /\ Len(Decoded(s)) = Len(s) /\ Len(s) \in Nat
        /\ \A i \in 1..Len(s) : Decoded(s)[i] = DecodedEntity(s[i])
    BY <1>1
  <2>5. PICK d, e : d = Decoded(t) /\ e = Decoded(s)
    OBVIOUS
  <2>6. /\ IsSeq(<<a>> \o d) /\ Len(<<a>> \o d) = Len(d) + 1 /\ (<<a>> \o d)[1] = a
        /\ \A i \in 1..Len(d) : (<<a>> \o d)[i + 1] = d[i]
    BY <2>3, <2>5, FirstCell
  <2>7. PICK f : f = <<a>> \o d
    OBVIOUS
  <2>8. Len(s) # 0
    BY <1>2, SeqLen
  <2>9. Len(f) = Len(s) /\ Len(e) = Len(s)
    BY <2>2, <2>3, <2>4, <2>5, <2>6, <2>7
  <2>10. ASSUME NEW i \in 1..Len(s) PROVE f[i] = e[i]
    <3>1. CASE i = 1
      BY <2>1, <2>4, <2>5, <2>6, <2>7, <3>1
    <3>2. CASE i # 1
      <4>1. PICK j : j = i - 1
        OBVIOUS
      <4>2. j \in 1..(Len(s) - 1) /\ i = j + 1
        BY <2>4, <3>2, <4>1
      <4>3. f[i] = d[j] /\ d[j] = DecodedEntity(t[j])
        BY <2>2, <2>3, <2>5, <2>6, <2>7, <4>2
      <4>4. t[j] = s[i] /\ e[i] = DecodedEntity(s[i])
        BY <2>2, <2>4, <2>5, <4>2
      <4>. QED  BY <4>3, <4>4
    <3>. QED  BY <3>1, <3>2
  <2>11. f = e
    BY <2>4, <2>5, <2>6, <2>7, <2>9, <2>10, SeqSame
  <2>. QED  BY <2>1, <2>2, <2>5, <2>7, <2>11
<1>. QED  BY <1>1, <1>2

LEMMA DecodedPropsIs ==
  ASSUME NEW s, IsSeq(s)
  PROVE  /\ IsSeq(DecodedProps(s)) /\ Len(DecodedProps(s)) = Len(s)
         /\ s # <<>> => IsSeq(Tail(s)) /\ DecodedProps(s) = <<DecodedProperty(s[1])>> \o DecodedProps(Tail(s))
<1>1. ASSUME NEW u, IsSeq(u)
      PROVE  /\ IsSeq(DecodedProps(u)) /\ Len(DecodedProps(u)) = Len(u) /\ Len(u) \in Nat
             /\ \A i \in 1..Len(u) : DecodedProps(u)[i] = DecodedProperty(u[i])
  <2>1. Len(u) \in Nat
    BY <1>1, SeqLen
  <2>. DEFINE d == DecodedProps(u)
  <2>2. DOMAIN d = 1..Len(u) /\ d = [i \in 1..Len(u) |-> d[i]] /\ \A i \in 1..Len(u) : d[i] = DecodedProperty(u[i])
    BY DEF DecodedProps
  <2>. HIDE DEF d
  <2>3. IsSeq(d) /\ Len(d) = Len(u)
    BY <2>1, <2>2, SeqMade
  <2>. QED  BY <2>1, <2>2, <2>3 DEF d
<1>2. ASSUME s # <<>> PROVE IsSeq(Tail(s)) /\ DecodedProps(s) = <<DecodedProperty(s[1])>> \o DecodedProps(Tail(s))
  <2>1. PICK t, a : t = Tail(s) /\ a = DecodedProperty(s[1])
    OBVIOUS
  <2>2. IsSeq(t) /\ Len(t) = Len(s) - 1 /\ \A i \in 1..(Len(s) - 1) : t[i] = s[i + 1]
    BY <1>2, <2>1, SeqTail
  <2>3. /\ IsSeq(DecodedProps(t)) /\ Len(DecodedProps(t)) = Len(t)
        /\ \A i \in 1..Len(t) : DecodedProps(t)[i] = DecodedProperty(t[i])
    BY <1>1, <2>2
  <2>4. /\ IsSeq(DecodedProps(s)) /\ Len(DecodedProps(s)) = Len(s) /\ Len(s) \in Nat
        /\ \A i \in 1..Len(s) : DecodedProps(s)[i] = DecodedProperty(s[i])
    BY <1>1
  <2>5. PICK d, e : d = DecodedProps(t) /\ e = DecodedProps(s)
    OBVIOUS
  <2>6. /\ IsSeq(<<a>> \o d) /\ Len(<<a>> \o d) = Len(d) + 1 /\ (<<a>> \o d)[1] = a
        /\ \A i \in 1..Len(d) : (<<a>> \o d)[i + 1] = d[i]
    BY <2>3, <2>5, FirstCell
  <2>7. PICK f : f = <<a>> \o d
    OBVIOUS
  <2>8. Len(s) # 0
    BY <1>2, SeqLen
  <2>9. Len(f) = Len(s) /\ Len(e) = Len(s)
    BY <2>2, <2>3, <2>4, <2>5, <2>6, <2>7
  <2>10. ASSUME NEW i \in 1..Len(s) PROVE f[i] = e[i]
    <3>1. CASE i = 1
      BY <2>1, <2>4, <2>5, <2>6, <2>7, <3>1
    <3>2. CASE i # 1
      <4>1. PICK j : j = i - 1
        OBVIOUS
      <4>2. j \in 1..(Len(s) - 1) /\ i = j + 1
        BY <2>4, <3>2, <4>1
      <4>3. f[i] = d[j] /\ d[j] = DecodedProperty(t[j])
        BY <2>2, <2>3, <2>5, <2>6, <2>7, <4>2
      <4>4. t[j] = s[i] /\ e[i] = DecodedProperty(s[i])
        BY <2>2, <2>4, <2>5, <4>2
      <4>. QED  BY <4>3, <4>4
    <3>. QED  BY <3>1, <3>2
  <2>11. f = e
    BY <2>4, <2>5, <2>6, <2>7, <2>9, <2>10, SeqSame
  <2>. QED  BY <2>1, <2>2, <2>5, <2>7, <2>11
<1>. QED  BY <1>1, <1>2

\* Between two turns: what was given out and what is still to be read make up the
\* entities, outside an object and in one.
BetweenEntities(p, entities) ==
  \E v, todo : /\ IsSeq(v) /\ AreEntities(todo) /\ v \o Decoded(todo) = Decoded(entities)
               /\ Outside(p, Encode(todo), v)
BetweenProperties(p, entities) ==
  \E v, todo, c, props :
    /\ IsSeq(v) /\ AreEntities(todo) /\ IsSeq(c) /\ AreProperties(props)
    /\ Append(v, ObjectOf(c \o DecodedProps(props))) \o Decoded(todo) = Decoded(entities)
    /\ Inside(p, PropCells(props) \o (ObjectEnd \o Encode(todo)), v, c)
Underway(p, entities) == BetweenEntities(p, entities) \/ BetweenProperties(p, entities)
Shorter(p, q) == IsSeq(p.rest) /\ IsSeq(q.rest) /\ Len(p.rest) < Len(q.rest)

\* An element moved from one sequence to the other.
LEMMA ElementMoved ==
  ASSUME NEW v, IsSeq(v), NEW d, NEW t, IsSeq(t)
  PROVE  Append(v, d) \o t = v \o (<<d>> \o t) /\ IsSeq(Append(v, d))
<1>1. PICK e : e = <<d>>
  OBVIOUS
<1>2. IsSeq(e) /\ Len(e) = 1 /\ e[1] = d
  BY <1>1, SeqOne
<1>3. PICK a : a = Append(v, d)
  OBVIOUS
<1>4. PICK b : b = v \o e
  OBVIOUS
<1>5. IsSeq(a) /\ Len(a) = Len(v) + 1 /\ a[Len(v) + 1] = d /\ \A i \in 1..Len(v) : a[i] = v[i]
  BY <1>3, SeqAppend
<1>6. /\ IsSeq(b) /\ Len(b) = Len(v) + Len(e) /\ \A i \in 1..Len(v) : b[i] = v[i]
      /\ \A i \in 1..Len(e) : b[Len(v) + i] = e[i]
  <2>1. IsSeq(v) /\ IsSeq(e)
    BY <1>2
  <2>2. /\ IsSeq(v \o e) /\ Len(v \o e) = Len(v) + Len(e)
        /\ \A i \in 1..Len(v) : (v \o e)[i] = v[i]
        /\ \A i \in 1..Len(e) : (v \o e)[Len(v) + i] = e[i]
    BY <2>1, SeqConcat
  <2>. QED  BY <1>4, <2>2
<1>7. b[Len(v) + 1] = d
  <2>1. 1 \in 1..Len(e)
    BY <1>2
  <2>. QED  BY <1>2, <1>6, <2>1
<1>8. \A i \in 1..Len(a) : a[i] = b[i]
  <2>1. Len(v) \in Nat
    BY SeqLen
  <2>2. \A i \in 1..Len(a) : i \in 1..Len(v) \/ i = Len(v) + 1
    BY <1>5, <2>1
  <2>. QED  BY <1>5, <1>6, <1>7, <2>2
<1>9. a = b
  BY <1>2, <1>5, <1>6, <1>8, SeqSame
<1>10. (v \o e) \o t = v \o (e \o t)
  BY <1>2, SeqAssoc
<1>. QED  BY <1>1, <1>3, <1>4, <1>5, <1>9, <1>10

LEMMA ShorterRest ==
  ASSUME NEW a, IsSeq(a), Len(a) >= 1, NEW t, IsSeq(t), NEW p, NEW q, p.rest = t, q.rest = a \o t
  PROVE  Shorter(p, q)
<1>1. IsSeq(a \o t) /\ Len(a \o t) = Len(a) + Len(t)
  BY SeqConcat
<1>2. Len(a) \in Nat /\ Len(t) \in Nat
  BY SeqLen
<1>3. Len(t) < Len(a \o t)
  BY <1>1, <1>2
<1>. QED  BY <1>1, <1>3 DEF Shorter

\* A turn outside an object.
LEMMA TurnOutside ==
  ASSUME NEW entities, NEW p, BetweenEntities(p, entities), p.rest # <<>>
  PROVE  Underway(ParseTurn(p), entities) /\ Shorter(ParseTurn(p), p)
<1>1. PICK v, todo : /\ IsSeq(v) /\ AreEntities(todo) /\ v \o Decoded(todo) = Decoded(entities)
                     /\ Outside(p, Encode(todo), v)
  BY DEF BetweenEntities
<1>2. p.rest = Encode(todo)
  BY <1>1 DEF Outside
<1>3. todo # <<>>
  BY <1>1, <1>2, EncodeIs
<1>4. PICK e, t : e = todo[1] /\ t = Tail(todo)
  OBVIOUS
<1>5. /\ IsEntity(e) /\ AreEntities(t) /\ IsSeq(Encode(t)) /\ IsSeq(todo)
      /\ Encode(todo) = EncodeEntity(e) \o Encode(t)
  BY <1>1, <1>3, <1>4, EncodeIs
<1>6. PICK r : r = Encode(t)
  OBVIOUS
<1>7. Decoded(todo) = <<DecodedEntity(e)>> \o Decoded(t) /\ IsSeq(Decoded(t))
  <2>1. IsSeq(t) /\ Decoded(todo) = <<DecodedEntity(e)>> \o Decoded(t)
    BY <1>3, <1>4, <1>5, DecodedIs
  <2>. QED  BY <2>1, DecodedIs
<1>8. PICK d : d = DecodedEntity(e)
  OBVIOUS
<1>9. IsSeq(Append(v, d)) /\ Append(v, d) \o Decoded(t) = Decoded(entities)
  <2>1. PICK u : u = Decoded(t)
    OBVIOUS
  <2>2. IsSeq(u)
    BY <1>7, <2>1
  <2>3. Append(v, d) \o u = v \o (<<d>> \o u) /\ IsSeq(Append(v, d))
    BY <1>1, <2>2, ElementMoved
  <2>. QED  BY <1>1, <1>7, <1>8, <2>1, <2>3
<1>10. ASSUME Outside(ParseTurn(p), r, Append(v, d)) PROVE Underway(ParseTurn(p), entities)
  <2>1. BetweenEntities(ParseTurn(p), entities)
    BY <1>5, <1>6, <1>9, <1>10 DEF BetweenEntities
  <2>. QED  BY <2>1 DEF Underway
<1>11. PICK code : code = EncodeEntity(e)
  OBVIOUS
<1>12. /\ IsSeq(code) /\ Len(code) >= 1 /\ IsSeq(r) /\ p.rest = code \o r
       /\ Outside(p, code \o r, v)
  <2>1. IsSeq(code) /\ Len(code) >= 1
    BY <1>5, <1>11, EntityCells
  <2>2. Encode(todo) = code \o r
    BY <1>5, <1>6, <1>11
  <2>. QED  BY <1>1, <1>2, <1>5, <1>6, <2>1, <2>2
<1>13. ASSUME Outside(ParseTurn(p), r, Append(v, d)) PROVE Shorter(ParseTurn(p), p)
  <2>1. ParseTurn(p).rest = r
    BY <1>13 DEF Outside
  <2>2. PICK q : q = ParseTurn(p)
    OBVIOUS
  <2>3. Shorter(q, p)
    BY <1>12, <2>1, <2>2, ShorterRest
  <2>. QED  BY <2>2, <2>3
<1>14. CASE IsPlain(e)
  <2>1. code = EncodeProperty(e) /\ d = DecodedPlain(e)
    BY <1>8, <1>11, <1>14, PlainEntity
  <2>2. Outside(p, EncodeProperty(e) \o r, v)
    BY <1>12, <2>1
  <2>3. Outside(ParseTurn(p), r, Append(v, DecodedPlain(e)))
    BY <1>12, <1>14, <2>2, PlainTurn
  <2>. QED  BY <1>10, <1>13, <2>1, <2>3
<1>15. CASE e = Null
  <2>1. code = EncodeNull /\ d = Null
    BY <1>8, <1>11, <1>15, NullEntity
  <2>2. Outside(p, EncodeNull \o r, v)
    BY <1>12, <2>1
  <2>3. Outside(ParseTurn(p), r, Append(v, Null))
    BY <1>12, <2>2, NullTurn
  <2>. QED  BY <1>10, <1>13, <2>1, <2>3
<1>16. ASSUME NEW props, AreProperties(props), e = <<"Object", props>>
       PROVE  Underway(ParseTurn(p), entities) /\ Shorter(ParseTurn(p), p)
  <2>1. e = ObjectOf(props)
    BY <1>16 DEF ObjectOf
  <2>2. PICK m, f, o : m = Marker("Object") /\ f = PropCells(props) /\ o = ObjectEnd
    OBVIOUS
  <2>3. code = <<m>> \o (f \o o) /\ d = ObjectOf(DecodedProps(props)) /\ IsSeq(f \o o)
    BY <1>8, <1>11, <1>16, <2>1, <2>2, ObjectEntity
  <2>4. IsSeq(f) /\ IsSeq(o)
    BY <1>16, <2>2, PropCellsAre, EndCells
  <2>5. PICK rest : rest = f \o (o \o r)
    OBVIOUS
  <2>6. IsSeq(rest) /\ code \o r = <<m>> \o rest
    <3>1. PICK x, y : x = f \o o /\ y = <<m>>
      OBVIOUS
    <3>2. IsSeq(x) /\ IsSeq(y)
      BY <2>3, <3>1, SeqOne
    <3>6. IsSeq(y) /\ IsSeq(x) /\ IsSeq(r)
      BY <1>12, <3>2
    <3>3. (y \o x) \o r = y \o (x \o r)
      BY <3>6, SeqAssoc
    <3>4. (f \o o) \o r = f \o (o \o r)
      <4>1. IsSeq(f) /\ IsSeq(o) /\ IsSeq(r)
        BY <2>4, <3>6
      <4>. QED  BY <4>1, SeqAssoc
    <3>5. IsSeq(x \o r)
      BY <1>12, <3>2, SeqConcat
    <3>7. rest = x \o r
      BY <2>5, <3>1, <3>4
    <3>8. code \o r = (y \o x) \o r
      BY <2>3, <3>1
    <3>9. code \o r = y \o rest
      BY <3>3, <3>7, <3>8
    <3>. QED  BY <3>1, <3>5, <3>7, <3>9
  <2>7. Outside(p, <<Marker("Object")>> \o rest, v)
    BY <1>12, <2>2, <2>6
  <2>8. Inside(ParseTurn(p), rest, v, <<>>)
    BY <2>6, <2>7, ObjectTurn
  <2>9. <<>> \o DecodedProps(props) = DecodedProps(props) /\ IsSeq(<<>>)
    <3>1. IsSeq(DecodedProps(props))
      BY <1>16, DecodedPropsIs DEF AreProperties
    <3>. QED  BY <3>1, SeqEmpty
  <2>10. BetweenProperties(ParseTurn(p), entities)
    <3>1. PICK c : c = <<>>
      OBVIOUS
    <3>2. IsSeq(c) /\ Append(v, ObjectOf(c \o DecodedProps(props))) \o Decoded(t) = Decoded(entities)
      BY <1>9, <2>3, <2>9, <3>1
    <3>3. Inside(ParseTurn(p), PropCells(props) \o (ObjectEnd \o Encode(t)), v, c)
      BY <1>6, <2>2, <2>5, <2>8, <3>1
    <3>. QED  BY <1>1, <1>5, <1>16, <3>2, <3>3 DEF BetweenProperties
  <2>11. Shorter(ParseTurn(p), p)
    <3>1. PICK q, y : q = ParseTurn(p) /\ y = <<m>>
      OBVIOUS
    <3>2. q.rest = rest
      BY <2>8, <3>1 DEF Inside
    <3>3. IsSeq(y) /\ Len(y) >= 1
      BY <3>1, SeqOne
    <3>4. p.rest = y \o rest
      BY <1>12, <2>6, <3>1
    <3>5. Shorter(q, p)
      BY <2>6, <3>2, <3>3, <3>4, ShorterRest
    <3>. QED  BY <3>1, <3>5
  <2>. QED  BY <2>10, <2>11 DEF Underway
<1>. QED  BY <1>5, <1>14, <1>15, <1>16 DEF IsEntity

\* And in one.
LEMMA TurnInside ==
  ASSUME NEW entities, NEW p, BetweenProperties(p, entities)
  PROVE  Underway(ParseTurn(p), entities) /\ Shorter(ParseTurn(p), p)
<1>1. PICK v, todo, c, props :
        /\ IsSeq(v) /\ AreEntities(todo) /\ IsSeq(c) /\ AreProperties(props)
        /\ Append(v, ObjectOf(c \o DecodedProps(props))) \o Decoded(todo) = Decoded(entities)
        /\ Inside(p, PropCells(props) \o (ObjectEnd \o Encode(todo)), v, c)
  BY DEF BetweenProperties
<1>2. PICK r, o, q : r = Encode(todo) /\ o = ObjectEnd /\ q = ParseTurn(p)
  OBVIOUS
<1>3. IsSeq(r) /\ IsSeq(o) /\ Len(o) = 2 /\ IsSeq(o \o r)
  <2>1. IsSeq(r) /\ IsSeq(o) /\ Len(o) = 2
    BY <1>1, <1>2, EncodeIs, EndCells
  <2>. QED  BY <2>1, SeqConcat
<1>4. PICK rest : rest = o \o r
  OBVIOUS
<1>5. CASE props = <<>>
  <2>1. PropCells(props) \o rest = rest
    <3>1. PropCells(props) = <<>>
      BY <1>1, <1>5, PropCellsAre
    <3>. QED  BY <1>3, <1>4, <3>1, SeqEmpty
  <2>2. Inside(p, o \o r, v, c)
    BY <1>1, <1>2, <1>4, <2>1
  <2>3. Outside(q, r, Append(v, <<"Object", c>>))
    BY <1>1, <1>2, <1>3, <2>2, EndTurn
  <2>4. PICK w : w = Append(v, ObjectOf(c))
    OBVIOUS
  <2>5. Outside(q, r, w)
    BY <2>3, <2>4 DEF ObjectOf
  <2>6. c \o DecodedProps(props) = c
    <3>1. IsSeq(DecodedProps(props)) /\ Len(DecodedProps(props)) = Len(props) /\ IsSeq(props)
      BY <1>1, DecodedPropsIs DEF AreProperties
    <3>2. Len(props) = 0
      BY <1>5, SeqEmpty
    <3>3. DecodedProps(props) = <<>>
      BY <3>1, <3>2, SeqLen
    <3>. QED  BY <1>1, <3>3, SeqEmpty
  <2>7. IsSeq(w) /\ w \o Decoded(todo) = Decoded(entities)
    BY <1>1, <2>4, <2>6, SeqAppend
  <2>8. BetweenEntities(q, entities)
    BY <1>1, <1>2, <2>5, <2>7 DEF BetweenEntities
  <2>9. Shorter(q, p)
    <3>1. q.rest = r /\ p.rest = o \o r
      BY <2>2, <2>5 DEF Inside, Outside
    <3>2. Len(o) >= 1
      BY <1>3
    <3>. QED  BY <1>3, <3>1, <3>2, ShorterRest
  <2>. QED  BY <1>2, <2>8, <2>9 DEF Underway
<1>6. CASE props # <<>>
  <2>1. PICK prop, ps : prop = props[1] /\ ps = Tail(props)
    OBVIOUS
  <2>2. PICK x, y : x = EncodedProperty(prop) /\ y = PropCells(ps)
    OBVIOUS
  <2>3. IsProperty(prop) /\ AreProperties(ps) /\ IsSeq(y) /\ PropCells(props) = x \o y
    BY <1>1, <1>6, <2>1, <2>2, PropCellsAre
  <2>4. IsSeq(x) /\ Len(x) >= 1
    BY <2>2, <2>3, PropertyCells
  <2>5. PICK z : z = y \o rest
    OBVIOUS
  <2>6. IsSeq(z) /\ (x \o y) \o rest = x \o z
    <3>1. IsSeq(x) /\ IsSeq(y) /\ IsSeq(rest)
      BY <1>3, <1>4, <2>3, <2>4
    <3>2. (x \o y) \o rest = x \o (y \o rest)
      BY <3>1, SeqAssoc
    <3>3. IsSeq(y \o rest)
      BY <3>1, SeqConcat
    <3>. QED  BY <2>5, <3>2, <3>3
  <2>7. Inside(p, x \o z, v, c)
    BY <1>1, <1>2, <1>4, <2>3, <2>6
  <2>8. PICK d : d = DecodedProperty(prop)
    OBVIOUS
  <2>9. Inside(q, z, v, Append(c, d))
    <3>1. Inside(p, EncodedProperty(prop) \o z, v, c)
      BY <2>2, <2>7
    <3>2. Inside(ParseTurn(p), z, v, Append(c, DecodedProperty(prop)))
      BY <2>3, <2>6, <3>1, PropertyTurn
    <3>. QED  BY <1>2, <2>8, <3>2
  <2>10. IsSeq(Append(c, d)) /\ Append(c, d) \o DecodedProps(ps) = c \o DecodedProps(props)
    <3>1. PICK u : u = DecodedProps(ps)
      OBVIOUS
    <3>2. IsSeq(ps) /\ DecodedProps(props) = <<d>> \o u
      BY <1>1, <1>6, <2>1, <2>8, <3>1, DecodedPropsIs DEF AreProperties
    <3>3. IsSeq(u)
      BY <3>1, <3>2, DecodedPropsIs
    <3>4. Append(c, d) \o u = c \o (<<d>> \o u) /\ IsSeq(Append(c, d))
      BY <1>1, <3>3, ElementMoved
    <3>. QED  BY <3>1, <3>2, <3>4
  <2>11. PICK w : w = Append(c, d)
    OBVIOUS
  <2>12. /\ IsSeq(w) /\ Append(v, ObjectOf(w \o DecodedProps(ps))) \o Decoded(todo) = Decoded(entities)
         /\ Inside(q, PropCells(ps) \o (ObjectEnd \o Encode(todo)), v, w)
    BY <1>1, <1>2, <1>4, <2>2, <2>5, <2>9, <2>10, <2>11
  <2>13. BetweenProperties(q, entities)
    BY <1>1, <2>3, <2>12 DEF BetweenProperties
  <2>14. Shorter(q, p)
    <3>1. q.rest = z /\ p.rest = x \o z
      BY <2>7, <2>9 DEF Inside
    <3>. QED  BY <2>4, <2>6, <3>1, ShorterRest
  <2>. QED  BY <1>2, <2>13, <2>14 DEF Underway
<1>. QED  BY <1>5, <1>6

\* The states of the parser, turn by turn.
TurnsOf(f, payload, n) ==
  f = [turns \in 0..n |-> IF turns = 0 THEN Parsing(payload) ELSE ParseTurn(f[turns - 1])]

LEMMA TurnsAt ==
  ASSUME NEW f, NEW payload, NEW n, TurnsOf(f, payload, n)
  PROVE  \A i \in 0..n : f[i] = IF i = 0 THEN Parsing(payload) ELSE ParseTurn(f[i - 1])
<1>. DEFINE F == [i \in 0..n |-> IF i = 0 THEN Parsing(payload) ELSE ParseTurn(f[i - 1])]
<1>1. f = F
  BY DEF TurnsOf
<1>2. \A i \in 0..n : F[i] = IF i = 0 THEN Parsing(payload) ELSE ParseTurn(f[i - 1])
  OBVIOUS
<1>. HIDE DEF F
<1>. QED  BY <1>1, <1>2

LEMMA TurnsExist ==
  ASSUME NEW payload
  PROVE  \A n \in Nat : \E f : TurnsOf(f, payload, n)
<1>. DEFINE S == {n \in Nat : \E f : TurnsOf(f, payload, n)}
<1>1. 0 \in S
  <2>. DEFINE f == [i \in 0..0 |-> Parsing(payload)]
  <2>1. TurnsOf(f, payload, 0)
    BY DEF TurnsOf
  <2>. QED  BY <2>1
<1>2. ASSUME NEW n \in Nat, n \in S PROVE n + 1 \in S
  <2>1. PICK f : TurnsOf(f, payload, n)
    BY <1>2
  <2>2. PICK last : last = ParseTurn(f[n])
    OBVIOUS
  <2>. DEFINE h == [i \in 0..(n + 1) |-> IF i = n + 1 THEN last ELSE f[i]]
              H == [i \in 0..(n + 1) |-> IF i = 0 THEN Parsing(payload) ELSE ParseTurn(h[i - 1])]
  <2>3. h[n + 1] = last /\ \A i \in 0..n : h[i] = f[i]
    OBVIOUS
  <2>4. ASSUME NEW i \in 0..(n + 1) PROVE h[i] = H[i]
    <3>1. H[i] = IF i = 0 THEN Parsing(payload) ELSE ParseTurn(h[i - 1])
      OBVIOUS
    <3>2. CASE i = n + 1
      <4>1. i # 0 /\ i - 1 = n /\ n \in 0..n
        BY <3>2
      <4>. HIDE DEF h, H
      <4>2. h[i - 1] = f[n]
        BY <2>3, <4>1
      <4>. QED  BY <2>2, <2>3, <3>1, <3>2, <4>1, <4>2
    <3>3. CASE i # n + 1
      <4>1. i \in 0..n /\ (i # 0 => i - 1 \in 0..n)
        BY <3>3
      <4>2. f[i] = IF i = 0 THEN Parsing(payload) ELSE ParseTurn(f[i - 1])
        BY <2>1, <4>1, TurnsAt
      <4>. HIDE DEF h, H
      <4>. QED  BY <2>3, <3>1, <4>1, <4>2
    <3>. QED  BY <3>2, <3>3
  <2>5. h = H
    BY <2>4
  <2>6. TurnsOf(h, payload, n + 1)
    BY <2>5 DEF TurnsOf
  <2>. HIDE DEF h
  <2>. QED  BY <2>6
<1>. HIDE DEF S
<1>3. \A n \in Nat : n \in S
  BY <1>1, <1>2, SetInduction
<1>. QED  BY <1>3 DEF S

LEMMA TryParseIs ==
  ASSUME NEW payload, Len(payload) \in Nat
  PROVE  \E f : TurnsOf(f, payload, Len(payload)) /\ TryParse(payload) = f[Len(payload)]
<1>. DEFINE f == CHOOSE f : f = [turns \in 0..Len(payload) |->
                                   IF turns = 0 THEN Parsing(payload) ELSE ParseTurn(f[turns - 1])]
<1>1. TryParse(payload) = f[Len(payload)]
  BY DEF TryParse
<1>2. \E h : h = [turns \in 0..Len(payload) |->
                    IF turns = 0 THEN Parsing(payload) ELSE ParseTurn(h[turns - 1])]
  <2>1. PICK h : TurnsOf(h, payload, Len(payload))
    BY TurnsExist
  <2>2. h = [turns \in 0..Len(payload) |->
               IF turns = 0 THEN Parsing(payload) ELSE ParseTurn(h[turns - 1])]
    BY <2>1 DEF TurnsOf
  <2>. QED  BY <2>2
<1>3. f = [turns \in 0..Len(payload) |->
             IF turns = 0 THEN Parsing(payload) ELSE ParseTurn(f[turns - 1])]
  BY <1>2
<1>. HIDE DEF f
<1>4. TurnsOf(f, payload, Len(payload))
  BY <1>3 DEF TurnsOf
<1>. QED  BY <1>1, <1>4

LEMMA FirstParser ==
  ASSUME NEW entities, AreEntities(entities)
  PROVE  BetweenEntities(Parsing(Encode(entities)), entities)
<1>1. PICK r, v : r = Encode(entities) /\ v = <<>>
  OBVIOUS
<1>2. Outside(Parsing(r), r, v)
  BY <1>1 DEF Outside, IsParser, ParserFields, Parsing
<1>3. IsSeq(v) /\ v \o Decoded(entities) = Decoded(entities)
  <2>1. IsSeq(Decoded(entities))
    BY DecodedIs DEF AreEntities
  <2>. QED  BY <1>1, <2>1, SeqEmpty
<1>. QED  BY <1>1, <1>2, <1>3 DEF BetweenEntities

\* The parser's rest when it is between two turns, and that only what has given out
\* everything has nothing left to read.
LEMMA AtTheEnd ==
  ASSUME NEW entities, NEW p, Underway(p, entities)
  PROVE  IsSeq(p.rest) /\ p.garbled = FALSE /\ (p.rest = <<>> => p.retval = Decoded(entities))
<1>1. CASE BetweenEntities(p, entities)
  <2>1. PICK v, todo : /\ IsSeq(v) /\ AreEntities(todo) /\ v \o Decoded(todo) = Decoded(entities)
                       /\ Outside(p, Encode(todo), v)
    BY <1>1 DEF BetweenEntities
  <2>2. p.rest = Encode(todo) /\ p.retval = v /\ p.garbled = FALSE
    BY <2>1 DEF Outside
  <2>3. IsSeq(p.rest)
    BY <2>1, <2>2, EncodeIs
  <2>4. ASSUME p.rest = <<>> PROVE p.retval = Decoded(entities)
    <3>1. ASSUME todo # <<>> PROVE FALSE
      <4>1. PICK a, b : a = EncodeEntity(todo[1]) /\ b = Encode(Tail(todo))
        OBVIOUS
      <4>2. Encode(todo) = a \o b /\ IsSeq(b) /\ IsEntity(todo[1])
        BY <2>1, <3>1, <4>1, EncodeIs
      <4>3. PICK e : e = todo[1]
        OBVIOUS
      <4>4. IsSeq(a) /\ Len(a) >= 1
        BY <4>1, <4>2, <4>3, EntityCells
      <4>5. Len(a \o b) = Len(a) + Len(b) /\ Len(b) \in Nat /\ Len(a) \in Nat
        BY <4>2, <4>4, SeqConcat, SeqLen
      <4>6. Len(a \o b) = 0
        BY <2>2, <2>4, <4>2, SeqEmpty
      <4>. QED  BY <4>4, <4>5, <4>6
    <3>2. IsSeq(Decoded(todo)) /\ Len(Decoded(todo)) = Len(todo)
      BY <2>1, DecodedIs DEF AreEntities
    <3>3. Decoded(todo) = <<>>
      BY <3>1, <3>2, SeqEmpty, SeqLen
    <3>. QED  BY <2>1, <2>2, <3>3, SeqEmpty
  <2>. QED  BY <2>2, <2>3, <2>4
<1>2. CASE BetweenProperties(p, entities)
  <2>1. PICK v, todo, c, props :
        /\ AreEntities(todo) /\ AreProperties(props)
        /\ Inside(p, PropCells(props) \o (ObjectEnd \o Encode(todo)), v, c)
    BY <1>2 DEF BetweenProperties
  <2>2. PICK a, o, r : a = PropCells(props) /\ o = ObjectEnd /\ r = Encode(todo)
    OBVIOUS
  <2>3. p.rest = a \o (o \o r) /\ p.garbled = FALSE
    BY <2>1, <2>2 DEF Inside
  <2>4. IsSeq(a) /\ IsSeq(o) /\ Len(o) = 2 /\ IsSeq(r)
    BY <2>1, <2>2, PropCellsAre, EndCells, EncodeIs
  <2>5. PICK x : x = o \o r
    OBVIOUS
  <2>6. IsSeq(x) /\ Len(x) = Len(o) + Len(r)
    BY <2>4, <2>5, SeqConcat
  <2>7. IsSeq(a \o x) /\ Len(a \o x) = Len(a) + Len(x)
    BY <2>4, <2>6, SeqConcat
  <2>8. Len(a) \in Nat /\ Len(r) \in Nat
    BY <2>4, SeqLen
  <2>9. Len(a \o x) # 0
    BY <2>4, <2>6, <2>7, <2>8
  <2>10. a \o x # <<>>
    BY <2>9, SeqEmpty
  <2>. QED  BY <2>3, <2>5, <2>7, <2>10
<1>. QED  BY <1>1, <1>2 DEF Underway

\* What TryParse makes of encoded entities is the entities, each number as the
\* conversion gives it back.
THEOREM ParsesEncoded ==
  ASSUME NEW entities, AreEntities(entities)
  PROVE  /\ TryParse(Encode(entities)).garbled = FALSE
         /\ TryParse(Encode(entities)).retval = Decoded(entities)
<1>1. PICK payload : payload = Encode(entities)
  OBVIOUS
<1>2. IsSeq(payload) /\ Len(payload) \in Nat
  BY <1>1, EncodeIs, SeqLen
<1>3. PICK f : TurnsOf(f, payload, Len(payload)) /\ TryParse(payload) = f[Len(payload)]
  BY <1>2, TryParseIs
<1>4. \A i \in 0..Len(payload) : f[i] = IF i = 0 THEN Parsing(payload) ELSE ParseTurn(f[i - 1])
  BY <1>3, TurnsAt
<1>. DEFINE S == {i \in Nat : i <= Len(payload) =>
                    Underway(f[i], entities) /\ Len(f[i].rest) <= Len(payload) - i}
<1>5. 0 \in S
  <2>1. f[0] = Parsing(payload)
    BY <1>2, <1>4
  <2>2. Underway(f[0], entities)
    BY <1>1, <2>1, FirstParser DEF Underway
  <2>4. Parsing(payload).rest = payload
    BY DEF Parsing
  <2>3. f[0].rest = payload
    BY <2>1, <2>4
  <2>. QED  BY <1>2, <2>2, <2>3
<1>6. ASSUME NEW i \in Nat, i \in S PROVE i + 1 \in S
  <2>1. SUFFICES ASSUME i + 1 <= Len(payload)
                 PROVE  Underway(f[i + 1], entities) /\ Len(f[i + 1].rest) <= Len(payload) - (i + 1)
    OBVIOUS
  <2>2. PICK p, q : p = f[i] /\ q = f[i + 1]
    OBVIOUS
  <2>3. Underway(p, entities) /\ Len(p.rest) <= Len(payload) - i
    <3>1. i <= Len(payload)
      BY <1>2, <2>1
    <3>. QED  BY <1>6, <2>2, <3>1
  <2>. HIDE DEF S
  <2>4. q = ParseTurn(p)
    <3>1. i + 1 \in 0..Len(payload) /\ i + 1 # 0 /\ (i + 1) - 1 = i
      BY <1>2, <2>1
    <3>. QED  BY <1>4, <2>2, <3>1
  <2>5. CASE p.rest = <<>>
    <3>1. q = p
      BY <2>4, <2>5 DEF ParseTurn
    <3>2. Len(p.rest) = 0
      BY <2>5, SeqEmpty
    <3>3. 0 <= Len(payload) - (i + 1)
      BY <1>2, <2>1
    <3>. QED  BY <2>2, <2>3, <3>1, <3>2, <3>3
  <2>6. CASE p.rest # <<>>
    <3>1. Underway(ParseTurn(p), entities) /\ Shorter(ParseTurn(p), p)
      BY <2>3, <2>6, TurnOutside, TurnInside DEF Underway
    <3>2. Underway(q, entities) /\ Shorter(q, p)
      BY <2>4, <3>1
    <3>3. Len(q.rest) \in Nat /\ Len(p.rest) \in Nat /\ Len(q.rest) < Len(p.rest)
      BY <3>2, SeqLen DEF Shorter
    <3>4. Len(q.rest) <= Len(payload) - (i + 1)
      BY <1>2, <2>3, <3>3
    <3>. QED  BY <2>2, <3>2, <3>4
  <2>. QED  BY <2>5, <2>6
<1>. HIDE DEF S
<1>7. \A i \in Nat : i \in S
  BY <1>5, <1>6, SetInduction
<1>8. PICK p : p = f[Len(payload)]
  OBVIOUS
<1>9. Underway(p, entities) /\ Len(p.rest) <= 0
  <2>1. Len(payload) \in S
    BY <1>2, <1>7
  <2>2. Len(payload) - Len(payload) = 0 /\ Len(payload) <= Len(payload)
    BY <1>2
  <2>. QED  BY <1>8, <2>1, <2>2 DEF S
<1>10. IsSeq(p.rest) /\ p.garbled = FALSE /\ (p.rest = <<>> => p.retval = Decoded(entities))
  BY <1>9, AtTheEnd
<1>11. p.rest = <<>>
  <2>1. Len(p.rest) \in Nat
    BY <1>10, SeqLen
  <2>2. Len(p.rest) = 0
    BY <1>9, <2>1
  <2>. QED  BY <1>10, <2>2, SeqLen
<1>. QED  BY <1>1, <1>3, <1>8, <1>10, <1>11
=============================================================================
