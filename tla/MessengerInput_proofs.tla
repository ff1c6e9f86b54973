------------------------- MODULE MessengerInput_proofs -------------------------
(***************************************************************************)
(* Proofs about MessengerInput, for every size, stream id and chunk stream  *)
(* id and any number of messages and connections: what a read gives out is  *)
(* what was written, the chunk size is followed where the code looks for    *)
(* it, and the stream id is one that the server gave out, with whatever     *)
(* chunk size the bytes were read.                                          *)
(*                                                                         *)
(* The chunks on their way are described as pieces of messages (Cut). A     *)
(* reader with the right size goes from chunk to chunk with them (Ready),   *)
(* one with another size may lose its way (Loose) but gives out nothing     *)
(* that the server did not say: a command it takes a wrong payload for      *)
(* either reads as the whole one does or is found to be no command          *)
(* (CutParse).                                                             *)
(***************************************************************************)
EXTENDS MessengerInput, RTMPChunking_proofs

----------------------------------------------------------------------------
(* Replies: what they are encoded in, and what the parser makes of it.          *)

\* The cells that replies are encoded in: no field of a header is among them, and
\* neither is what the parser reads without a look at the next cell.
ReplyFields == {"String", "Number", "Null", "Object", "strlen", "chars", "fprep", "ObjectEnd"}
\* The one empty string among them is the empty name that ends an object.
Ended(cells) ==
  \A i \in 1..Len(cells) :
    cells[i] = <<"strlen", 0>> => i + 1 \in 1..Len(cells) /\ cells[i + 1][1] = "ObjectEnd"
Named(cells) ==
  IsSeq(cells) /\ (\A i \in 1..Len(cells) : cells[i][1] \in ReplyFields) /\ Ended(cells)

LEMMA NamedConcat == ASSUME NEW s, NEW t, Named(s), Named(t) PROVE Named(s \o t)
<1>1. /\ IsSeq(s \o t) /\ Len(s \o t) = Len(s) + Len(t)
      /\ \A i \in 1..Len(s) : (s \o t)[i] = s[i]
      /\ \A i \in 1..Len(t) : (s \o t)[Len(s) + i] = t[i]
  BY SeqConcat DEF Named
<1>2. Len(s) \in Nat /\ Len(t) \in Nat
  BY SeqLen DEF Named
<1>3. PICK u : u = s \o t
  OBVIOUS
<1>4. ASSUME NEW i \in 1..Len(u)
      PROVE  /\ u[i][1] \in ReplyFields
             /\ u[i] = <<"strlen", 0>> => i + 1 \in 1..Len(u) /\ u[i + 1][1] = "ObjectEnd"
  <2>1. CASE i \in 1..Len(s)
    <3>1. u[i] = s[i] /\ s[i][1] \in ReplyFields
      BY <1>1, <1>3, <2>1 DEF Named
    <3>2. ASSUME s[i] = <<"strlen", 0>> PROVE i + 1 \in 1..Len(u) /\ u[i + 1][1] = "ObjectEnd"
      <4>1. i + 1 \in 1..Len(s) /\ s[i + 1][1] = "ObjectEnd"
        BY <2>1, <3>2 DEF Named, Ended
      <4>2. u[i + 1] = s[i + 1]
        BY <1>1, <1>3, <4>1
      <4>. QED  BY <1>1, <1>2, <1>3, <4>1, <4>2
    <3>. QED  BY <3>1, <3>2
  <2>2. CASE i \notin 1..Len(s)
    <3>1. PICK k : k = i - Len(s)
      OBVIOUS
    <3>2. k \in 1..Len(t) /\ Len(s) + k = i /\ Len(s) + (k + 1) = i + 1
      BY <1>1, <1>2, <1>3, <2>2, <3>1
    <3>3. u[i] = t[k] /\ t[k][1] \in ReplyFields
      BY <1>1, <1>3, <3>2 DEF Named
    <3>4. ASSUME t[k] = <<"strlen", 0>> PROVE i + 1 \in 1..Len(u) /\ u[i + 1][1] = "ObjectEnd"
      <4>1. k + 1 \in 1..Len(t) /\ t[k + 1][1] = "ObjectEnd"
        BY <3>2, <3>4 DEF Named, Ended
      <4>2. u[i + 1] = t[k + 1]
        BY <1>1, <1>3, <3>2, <4>1
      <4>. QED  BY <1>1, <1>2, <1>3, <3>2, <4>1, <4>2
    <3>. QED  BY <3>3, <3>4
  <2>. QED  BY <2>1, <2>2
<1>. QED  BY <1>1, <1>3, <1>4 DEF Named, Ended

LEMMA NamedNone == Named(<<>>)
  BY SeqEmpty DEF Named, Ended

AllNamed(s) == IsSeq(s) /\ \A i \in 1..Len(s) : Named(s[i])

LEMMA NamedFlatten == ASSUME NEW s, AllNamed(s) PROVE Named(FlattenSeq(s))
<1>1. AllSeqs(s) /\ IsSeq(s) /\ Len(s) \in Nat /\ (s = <<>> <=> Len(s) = 0)
  BY SeqLen DEF AllNamed, AllSeqs, Named
<1>2. CASE Len(s) = 0
  BY <1>1, <1>2, FlattenEmpty, NamedNone
<1>3. CASE Len(s) # 0
  <2>1. PICK g : Flattens(g, s, Len(s)) /\ FlattenSeq(s) = g[Len(s)]
    BY <1>1, <1>3, FlattenIs
  <2>2. \A i \in 1..Len(s) : g[i] = IF i = 1 THEN s[i] ELSE g[i - 1] \o s[i]
    BY <1>1, <2>1, FlattensAt
  <2>. DEFINE S == {i \in Nat : i \in 1..Len(s) => Named(g[i])}
  <2>3. 0 \in S
    OBVIOUS
  <2>4. ASSUME NEW i \in Nat, i \in S PROVE i + 1 \in S
    <3>1. SUFFICES ASSUME i + 1 \in 1..Len(s) PROVE Named(g[i + 1])
      OBVIOUS
    <3>2. Named(s[i + 1])
      BY <3>1 DEF AllNamed
    <3>3. CASE i = 0
      BY <2>2, <3>1, <3>2, <3>3
    <3>4. CASE i # 0
      <4>1. i \in 1..Len(s) /\ i + 1 # 1 /\ (i + 1) - 1 = i
        BY <1>1, <3>1, <3>4
      <4>2. PICK a, b : a = g[i] /\ b = s[i + 1]
        OBVIOUS
      <4>3. Named(a) /\ Named(b)
        BY <2>4, <3>2, <4>1, <4>2
      <4>4. Named(a \o b)
        BY <4>3, NamedConcat
      <4>5. g[i + 1] = a \o b
        BY <2>2, <3>1, <4>1, <4>2
      <4>. QED  BY <4>4, <4>5
    <3>. QED  BY <3>3, <3>4
  <2>. HIDE DEF S
  <2>5. \A i \in Nat : i \in S
    BY <2>3, <2>4, SetInduction
  <2>6. Len(s) \in 1..Len(s)
    BY <1>1, <1>3
  <2>. QED  BY <1>1, <2>1, <2>5, <2>6 DEF S
<1>. QED  BY <1>2, <1>3

LEMMA NamedOne == ASSUME NEW c, c[1] \in ReplyFields, c[1] # "strlen" PROVE Named(<<c>>)
<1>1. PICK s : s = <<c>>
  OBVIOUS
<1>2. IsSeq(s) /\ Len(s) = 1 /\ s[1] = c
  BY <1>1, SeqOne
<1>. QED  BY <1>1, <1>2 DEF Named, Ended

LEMMA NamedTwo ==
  ASSUME NEW c, c[1] \in ReplyFields, NEW d, d[1] \in ReplyFields, d[1] # "strlen",
         c # <<"strlen", 0>> \/ d[1] = "ObjectEnd"
  PROVE  Named(<<c, d>>)
<1>1. PICK s : s = <<c, d>>
  OBVIOUS
<1>2. IsSeq(s) /\ Len(s) = 2 /\ s[1] = c /\ s[2] = d
  BY <1>1, SeqTwo
<1>3. \A i \in 1..2 : i = 1 \/ i = 2
  OBVIOUS
<1>4. Ended(s)
  <2>1. d # <<"strlen", 0>>
    OBVIOUS
  <2>2. 1 + 1 \in 1..2
    OBVIOUS
  <2>. QED  BY <1>2, <1>3, <2>1, <2>2 DEF Ended
<1>. QED  BY <1>1, <1>2, <1>3, <1>4 DEF Named

\* A string that is not empty, as far as the encoding looks at it.
IsWord(str) == str # "" /\ Len(str) # 0

LEMMA NameIsNamed == ASSUME NEW str, IsWord(str) PROVE Named(EncodeName(str)) /\ EncodeName(str) # <<>>
<1>1. PICK n : n = Len(str)
  OBVIOUS
<1>2. PICK c, d : c = <<"strlen", n>> /\ d = <<"chars", str>>
  OBVIOUS
<1>3. c[1] \in ReplyFields /\ d[1] \in ReplyFields /\ d[1] # "strlen" /\ c # <<"strlen", 0>>
  BY <1>1, <1>2 DEF ReplyFields, IsWord
<1>4. Named(<<c, d>>)
  BY <1>3, NamedTwo
<1>. QED  BY <1>1, <1>2, <1>4 DEF EncodeName, IsWord

\* The entities of the replies that are no objects.
Scalar(e) == e[1] \in {"Number", "Null"} \/ (e[1] = "String" /\ IsWord(e[2]))

LEMMA PropertyIsNamed ==
  ASSUME NEW entity, Scalar(entity)
  PROVE  Named(EncodeProperty(entity)) /\ EncodeProperty(entity) # <<>>
<1>1. PICK ms, mn, mu : ms = Marker("String") /\ mn = Marker("Number") /\ mu = Marker("Null")
  OBVIOUS
<1>2. /\ ms[1] \in ReplyFields /\ ms[1] # "strlen"
      /\ mn[1] \in ReplyFields /\ mn # <<"strlen", 0>>
      /\ mu[1] \in ReplyFields /\ mu[1] # "strlen"
  BY <1>1 DEF ReplyFields, Marker
<1>3. CASE entity[1] = "String"
  <2>1. PICK a, b : a = <<ms>> /\ b = EncodeName(entity[2])
    OBVIOUS
  <2>2. IsWord(entity[2])
    BY <1>3 DEF Scalar
  <2>3. Named(a) /\ Named(b) /\ Len(a) = 1
    BY <1>2, <2>1, <2>2, NameIsNamed, NamedOne
  <2>4. Named(a \o b)
    BY <2>3, NamedConcat
  <2>5. IsSeq(a) /\ IsSeq(b) /\ IsSeq(a \o b)
    BY <2>3, <2>4 DEF Named
  <2>6. Len(a \o b) = Len(a) + Len(b)
    BY <2>5, SeqConcat
  <2>9. Len(b) \in Nat
    BY <2>5, SeqLen
  <2>10. Len(a \o b) # 0
    BY <2>3, <2>6, <2>9
  <2>7. a \o b # <<>>
    BY <2>5, <2>10, SeqLen
  <2>8. EncodeProperty(entity) = a \o b
    BY <1>1, <1>3, <2>1 DEF EncodeProperty, EncodeString
  <2>. QED  BY <2>4, <2>7, <2>8
<1>4. CASE entity[1] = "Number"
  <2>1. PICK c, d : c = FromDoubleToFPRep(entity[2]) /\ d = <<"fprep", c>>
    OBVIOUS
  <2>2. d[1] \in ReplyFields /\ d[1] # "strlen"
    BY <2>1 DEF ReplyFields
  <2>3. Named(<<mn, d>>)
    BY <1>2, <2>2, NamedTwo
  <2>4. EncodeProperty(entity) = <<mn, d>>
    BY <1>1, <1>4, <2>1 DEF EncodeProperty, EncodeNumber
  <2>. QED  BY <2>3, <2>4
<1>5. CASE entity[1] = "Null"
  <2>1. Named(<<mu>>)
    BY <1>2, NamedOne
  <2>2. EncodeProperty(entity) = <<mu>>
    BY <1>1, <1>5 DEF EncodeProperty, EncodeNull
  <2>. QED  BY <2>1, <2>2
<1>. QED  BY <1>3, <1>4, <1>5 DEF Scalar

\* Properties of an object and entities of a message, as the replies have them.
Props(props) == \E S : props \in Seq(S) /\ \A p \in S : IsWord(p[1]) /\ Scalar(p[2])
Entity(e) == Scalar(e) \/ (e[1] = "Object" /\ Props(e[2]))
Entities(es) == \E S : es \in Seq(S) /\ \A e \in S : Entity(e)

LEMMA Pair == ASSUME NEW o, NEW e PROVE <<o>> \o <<e>> = <<o, e>>
<1>1. PICK s, t, u : s = <<o>> /\ t = <<e>> /\ u = <<o, e>>
  OBVIOUS
<1>2. /\ IsSeq(s) /\ Len(s) = 1 /\ s[1] = o /\ IsSeq(t) /\ Len(t) = 1 /\ t[1] = e
      /\ IsSeq(u) /\ Len(u) = 2 /\ u[1] = o /\ u[2] = e
  BY <1>1, SeqOne, SeqTwo
<1>3. PICK v : v = s \o t
  OBVIOUS
<1>4. IsSeq(v) /\ Len(v) = Len(s) + Len(t) /\ v[Len(s) + 1] = t[1] /\ v[1] = s[1]
  <2>1. 1 \in 1..Len(s) /\ 1 \in 1..Len(t)
    BY <1>2
  <2>3. IsSeq(s) /\ IsSeq(t)
    BY <1>2
  <2>2. /\ IsSeq(v) /\ Len(v) = Len(s) + Len(t)
        /\ \A i \in 1..Len(s) : v[i] = s[i]
        /\ \A i \in 1..Len(t) : v[Len(s) + i] = t[i]
    BY <1>3, <2>3, SeqConcat
  <2>. QED  BY <2>1, <2>2
<1>5. \A i \in 1..2 : i = 1 \/ i = 2
  OBVIOUS
<1>6. Len(v) = 2 /\ \A i \in 1..2 : v[i] = u[i]
  BY <1>2, <1>4, <1>5
<1>7. v = u
  BY <1>2, <1>4, <1>6, SeqSame
<1>. QED  BY <1>1, <1>3, <1>7

LEMMA ObjectIsNamed ==
  ASSUME NEW props, Props(props)
  PROVE  Named(EncodeObject(props)) /\ EncodeObject(props) # <<>>
<1>. DEFINE parts == [i \in DOMAIN props |-> EncodeName(props[i][1]) \o EncodeProperty(props[i][2])]
<1>1. PICK S : props \in Seq(S) /\ \A p \in S : IsWord(p[1]) /\ Scalar(p[2])
  BY DEF Props
<1>2. Len(props) \in Nat /\ DOMAIN props = 1..Len(props) /\ \A i \in 1..Len(props) : props[i] \in S
  BY <1>1, LenProperties, ElementOfSeq
<1>3. DOMAIN parts = 1..Len(props) /\ parts = [i \in 1..Len(props) |-> parts[i]]
  BY <1>2
<1>4. ASSUME NEW i \in 1..Len(props) PROVE Named(parts[i])
  <2>1. parts[i] = EncodeName(props[i][1]) \o EncodeProperty(props[i][2])
    BY <1>2
  <2>2. Named(EncodeName(props[i][1])) /\ Named(EncodeProperty(props[i][2]))
    BY <1>1, <1>2, NameIsNamed, PropertyIsNamed
  <2>3. PICK a, b : a = EncodeName(props[i][1]) /\ b = EncodeProperty(props[i][2])
    OBVIOUS
  <2>4. Named(a \o b)
    BY <2>2, <2>3, NamedConcat
  <2>. QED  BY <2>1, <2>3, <2>4
<1>. HIDE DEF parts
<1>5. IsSeq(parts) /\ Len(parts) = Len(props)
  BY <1>2, <1>3, SeqMade
<1>6. Named(FlattenSeq(parts))
  BY <1>4, <1>5, NamedFlatten DEF AllNamed
<1>7. PICK m, e, o : m = Marker("Object") /\ e = Marker("ObjectEnd") /\ o = <<"strlen", 0>>
  OBVIOUS
<1>8. /\ m[1] \in ReplyFields /\ m[1] # "strlen"
      /\ o[1] \in ReplyFields
      /\ e[1] \in ReplyFields /\ e[1] # "strlen" /\ e[1] = "ObjectEnd"
  BY <1>7 DEF ReplyFields, Marker
<1>9. PICK a, b, c, d : a = <<m>> /\ b = FlattenSeq(parts) /\ c = <<o>> /\ d = <<e>>
  OBVIOUS
<1>10. Named(a) /\ Named(b) /\ Named(<<o, e>>) /\ IsSeq(c) /\ IsSeq(d)
  BY <1>6, <1>8, <1>9, NamedOne, NamedTwo, SeqOne
<1>11. PICK ab : ab = a \o b
  OBVIOUS
<1>12. Named(ab) /\ IsSeq(ab)
  BY <1>10, <1>11, NamedConcat DEF Named
<1>13. PICK cd : cd = <<o, e>>
  OBVIOUS
<1>14. c \o d = cd
  BY <1>9, <1>13, Pair
<1>15. Named(ab \o cd) /\ IsSeq(ab \o cd) /\ IsSeq(cd) /\ Len(cd) = 2
  BY <1>10, <1>12, <1>13, NamedConcat, SeqTwo DEF Named
<1>16. ab \o cd # <<>>
  <2>1. Len(ab \o cd) = Len(ab) + Len(cd)
    BY <1>12, <1>15, SeqConcat
  <2>2. Len(ab) \in Nat
    BY <1>12, SeqLen
  <2>3. Len(ab \o cd) # 0
    BY <1>15, <2>1, <2>2
  <2>. QED  BY <1>15, <2>3, SeqLen
<1>17. EncodeObject(props) = (ab \o c) \o d
  BY <1>7, <1>9, <1>11 DEF EncodeObject, EncodeName, parts
<1>18. (ab \o c) \o d = ab \o (c \o d)
  BY <1>10, <1>12, SeqAssoc
<1>. QED  BY <1>14, <1>15, <1>16, <1>17, <1>18

LEMMA EntityIsNamed ==
  ASSUME NEW e, Entity(e) PROVE Named(EncodeEntity(e)) /\ EncodeEntity(e) # <<>>
<1>1. CASE e[1] = "Object"
  <2>1. Props(e[2])
    BY <1>1 DEF Entity, Scalar
  <2>. QED  BY <1>1, <2>1, ObjectIsNamed DEF EncodeEntity
<1>2. CASE e[1] # "Object"
  <2>1. Scalar(e)
    BY <1>2 DEF Entity
  <2>. QED  BY <1>2, <2>1, PropertyIsNamed DEF EncodeEntity
<1>. QED  BY <1>1, <1>2

\* What a server encodes.
LEMMA EncodedIsNamed ==
  ASSUME NEW entities, Entities(entities), entities # <<>>
  PROVE  Named(Encode(entities)) /\ Encode(entities) # <<>>
<1>. DEFINE parts == [i \in DOMAIN entities |-> EncodeEntity(entities[i])]
<1>1. PICK S : entities \in Seq(S) /\ \A e \in S : Entity(e)
  BY DEF Entities
<1>2. /\ Len(entities) \in Nat \ {0} /\ DOMAIN entities = 1..Len(entities)
      /\ \A i \in 1..Len(entities) : entities[i] \in S
  BY <1>1, LenProperties, ElementOfSeq, EmptySeq
<1>3. DOMAIN parts = 1..Len(entities) /\ parts = [i \in 1..Len(entities) |-> parts[i]]
  BY <1>2
<1>4. ASSUME NEW i \in 1..Len(entities) PROVE Named(parts[i]) /\ parts[i] # <<>>
  <2>1. parts[i] = EncodeEntity(entities[i])
    BY <1>2
  <2>. HIDE DEF parts
  <2>. QED  BY <1>1, <1>2, <2>1, EntityIsNamed
<1>. HIDE DEF parts
<1>5. IsSeq(parts) /\ Len(parts) = Len(entities)
  BY <1>2, <1>3, SeqMade
<1>6. AllNamed(parts) /\ AllSeqs(parts) /\ parts # <<>>
  BY <1>2, <1>4, <1>5, SeqLen DEF AllNamed, AllSeqs, Named
<1>7. Named(FlattenSeq(parts))
  BY <1>6, NamedFlatten
<1>8. FlattenSeq(parts) # <<>>
  <2>1. PICK a, b : a = parts[1] /\ b = FlattenSeq(Tail(parts))
    OBVIOUS
  <2>2. FlattenSeq(parts) = a \o b /\ IsSeq(b)
    BY <1>6, <2>1, FlattenHead
  <2>3. IsSeq(a) /\ a # <<>>
    <3>1. 1 \in 1..Len(entities)
      BY <1>2
    <3>. QED  BY <1>4, <2>1, <3>1 DEF Named
  <2>4. Len(a) \in Nat \ {0} /\ Len(b) \in Nat /\ Len(a \o b) = Len(a) + Len(b) /\ IsSeq(a \o b)
    BY <2>2, <2>3, SeqConcat, SeqLen
  <2>5. Len(a \o b) # 0
    BY <2>4
  <2>6. a \o b # <<>>
    BY <2>4, <2>5, SeqLen
  <2>. QED  BY <2>2, <2>6
<1>9. Encode(entities) = FlattenSeq(parts)
  BY DEF Encode, parts
<1>. QED  BY <1>7, <1>8, <1>9 DEF Named

\* Entities that the parser gives back as they were.
Exact(e) == IsEntity(e) /\ DecodedEntity(e) = e /\ Entity(e)
ExactProperty(prop) == IsProperty(prop) /\ DecodedProperty(prop) = prop /\ IsWord(prop[1]) /\ Scalar(prop[2])

LEMMA ExactAre ==
  ASSUME NEW S, \A e \in S : Exact(e), NEW entities \in Seq(S), entities # <<>>
  PROVE  /\ AreEntities(entities) /\ Decoded(entities) = entities
         /\ Named(Encode(entities)) /\ Encode(entities) # <<>>
<1>1. /\ IsSeq(entities) /\ Len(entities) \in Nat /\ DOMAIN entities = 1..Len(entities)
      /\ \A i \in 1..Len(entities) : Exact(entities[i])
  BY SeqIsSeq, LenProperties, ElementOfSeq
<1>2. AreEntities(entities)
  BY <1>1 DEF AreEntities, Exact
<1>3. Decoded(entities) = entities
  <2>1. PICK d : d = Decoded(entities)
    OBVIOUS
  <2>2. IsSeq(d) /\ Len(d) = Len(entities)
    BY <1>1, <2>1, DecodedIs
  <2>3. \A i \in 1..Len(entities) : d[i] = DecodedEntity(entities[i])
    BY <2>1 DEF Decoded
  <2>4. \A i \in 1..Len(entities) : d[i] = entities[i]
    BY <1>1, <2>3 DEF Exact
  <2>5. d = entities
    BY <1>1, <2>2, <2>4, SeqSame
  <2>. QED  BY <2>1, <2>5
<1>4. Entities(entities)
  BY DEF Entities, Exact
<1>. QED  BY <1>2, <1>3, <1>4, EncodedIsNamed

LEMMA WordIsExact ==
  ASSUME NEW word \in Words
  PROVE  /\ IsWord(word) /\ Counted(word)
         /\ IsPlain(Str(word)) /\ DecodedPlain(Str(word)) = Str(word) /\ Scalar(Str(word))
<1>1. IsWord(word)
  <2>1. Len(word) # 0
    BY WordAssumption
  <2>2. word # ""
    BY DEF Words
  <2>. QED  BY <2>1, <2>2 DEF IsWord
<1>2. Counted(word)
  BY <1>1 DEF Counted, IsWord
<1>3. Scalar(Str(word))
  BY <1>1 DEF Scalar, Str
<1>. QED  BY <1>1, <1>2, <1>3 DEF IsPlain, DecodedPlain, Str

\* A mantissa has the places of the numbers of the replies.
Fits(n) == n \in Nat /\ n < 2^(MantissaBits + 1)
LEMMA NumbersFit == (\A n \in 0..31 : Fits(n)) /\ (\A id \in StreamIDs : Fits(id))
<1>1. 2^5 = 32
  OBVIOUS
<1>2. PICK m, k : m = 5 /\ k = MantissaBits + 1
  OBVIOUS
<1>3. m \in Nat /\ k \in Nat /\ m <= k /\ k <= Powers
  BY <1>2, Widths, NumberAssumption DEF Powers
<1>4. 2^m <= 2^k /\ 2^k \in Nat
  BY <1>3, PowerUp, PowerPositive
<1>5. ASSUME NEW n \in 0..31 PROVE Fits(n)
  BY <1>1, <1>2, <1>4 DEF Fits
<1>6. ASSUME NEW id \in StreamIDs PROVE Fits(id)
  <2>1. id < 2^(MantissaBits + 1)
    BY NumberAssumption
  <2>2. id \in Nat
    BY InputAssumption
  <2>. QED  BY <2>1, <2>2 DEF Fits
<1>. QED  BY <1>5, <1>6

LEMMA NumberIsExact ==
  ASSUME NEW n, Fits(n) PROVE IsPlain(Num(n)) /\ DecodedPlain(Num(n)) = Num(n) /\ Scalar(Num(n))
<1>1. PICK x : x = Double(n)
  OBVIOUS
<1>2. FromFPRepToDouble(FromDoubleToFPRep(x)) = x
  BY <1>1, WholeNumberComesBack DEF Fits
<1>3. Num(n) = <<"Number", x>>
  BY <1>1 DEF Num
<1>4. Scalar(Num(n))
  BY <1>3 DEF Scalar
<1>. QED  BY <1>2, <1>3, <1>4 DEF IsPlain, DecodedPlain

LEMMA PlainIsExact ==
  ASSUME NEW e, IsPlain(e), DecodedPlain(e) = e, Scalar(e) PROVE Exact(e)
<1>1. e[1] # "Object"
  BY DEF IsPlain
<1>2. DecodedEntity(e) = e
  BY <1>1 DEF DecodedEntity
<1>. QED  BY <1>2 DEF Exact, IsEntity, Entity

LEMMA EntitiesExact ==
  /\ \A word \in Words : Exact(Str(word))
  /\ \A n : Fits(n) => Exact(Num(n))
  /\ Exact(Null)
<1>1. ASSUME NEW word \in Words PROVE Exact(Str(word))
  <2>1. PICK e : e = Str(word)
    OBVIOUS
  <2>2. IsPlain(e) /\ DecodedPlain(e) = e /\ Scalar(e)
    BY <2>1, WordIsExact
  <2>. QED  BY <2>1, <2>2, PlainIsExact
<1>2. ASSUME NEW n, Fits(n) PROVE Exact(Num(n))
  <2>1. PICK e : e = Num(n)
    OBVIOUS
  <2>2. IsPlain(e) /\ DecodedPlain(e) = e /\ Scalar(e)
    BY <1>2, <2>1, NumberIsExact
  <2>. QED  BY <2>1, <2>2, PlainIsExact
<1>3. Exact(Null)
  <2>1. PICK e : e = Null
    OBVIOUS
  <2>2. e[1] = "Null"
    BY <2>1 DEF Null
  <2>3. DecodedEntity(e) = e
    BY <2>2 DEF DecodedEntity, DecodedPlain
  <2>4. IsEntity(e)
    BY <2>1 DEF IsEntity
  <2>5. Exact(e)
    BY <2>2, <2>3, <2>4 DEF Exact, Entity, Scalar
  <2>. QED  BY <2>1, <2>5
<1>. QED  BY <1>1, <1>2, <1>3

LEMMA PropertyIsExact ==
  ASSUME NEW name \in Words, NEW e, IsPlain(e), DecodedPlain(e) = e, Scalar(e)
  PROVE  ExactProperty(<<name, e>>)
<1>1. Counted(name) /\ IsWord(name) /\ name # ""
  BY WordIsExact DEF IsWord
<1>2. PICK p : p = <<name, e>>
  OBVIOUS
<1>3. IsProperty(p) /\ DecodedProperty(p) = p /\ IsWord(p[1]) /\ Scalar(p[2])
  BY <1>1, <1>2 DEF IsProperty, DecodedProperty
<1>. QED  BY <1>2, <1>3 DEF ExactProperty

LEMMA ObjectIsExact ==
  ASSUME NEW S, \A p \in S : ExactProperty(p), NEW props \in Seq(S) PROVE Exact(<<"Object", props>>)
<1>1. /\ IsSeq(props) /\ Len(props) \in Nat /\ DOMAIN props = 1..Len(props)
      /\ \A i \in 1..Len(props) : ExactProperty(props[i])
  BY SeqIsSeq, LenProperties, ElementOfSeq
<1>2. AreProperties(props)
  BY <1>1 DEF AreProperties, ExactProperty
<1>3. PICK e, d : e = <<"Object", props>> /\ d = DecodedProps(props)
  OBVIOUS
<1>4. IsEntity(e)
  BY <1>2, <1>3 DEF IsEntity
<1>5. DecodedEntity(e) = <<"Object", d>>
  BY <1>3 DEF DecodedEntity
<1>6. DOMAIN d = 1..Len(props) /\ d = [i \in 1..Len(props) |-> d[i]] /\ \A i \in 1..Len(props) : d[i] = DecodedProperty(props[i])
  BY <1>3 DEF DecodedProps
<1>7. \A i \in 1..Len(props) : d[i] = props[i]
  BY <1>1, <1>6 DEF ExactProperty
<1>8. d = props
  BY <1>1, <1>6, <1>7, SeqMade, SeqSame
<1>9. Entity(e)
  BY <1>3 DEF Entity, Props, ExactProperty
<1>. QED  BY <1>3, <1>4, <1>5, <1>8, <1>9 DEF Exact

\* What a server may reply, the stream ids it has given out being among ids.
Commands == {"connect", "releaseStream", "FCPublish", "createStream", "publish"}
IsReply(body, ids) ==
  \/ body = Refusal
  \/ \E command \in Commands, id \in StreamIDs :
       body = Reply(command, id) /\ (command = "createStream" => id \in ids)

LEMMA InfoIsExact == ASSUME NEW code \in Words PROVE Exact(Info(code)) /\ Info(code)[1] = "Object"
<1>1. PICK s, t : s \in Words /\ t \in Words /\ s # "" /\ t # "" /\ s = "level" /\ t = "code"
  BY DEF Words
<1>2. PICK w : w \in Words /\ w = "status"
  BY DEF Words
<1>3. PICK p, q : p = <<s, Str(w)>> /\ q = <<t, Str(code)>>
  OBVIOUS
<1>4. ExactProperty(p) /\ ExactProperty(q)
  <2>1. PICK e, f : e = Str(w) /\ f = Str(code)
    OBVIOUS
  <2>2. /\ IsPlain(e) /\ DecodedPlain(e) = e /\ Scalar(e)
        /\ IsPlain(f) /\ DecodedPlain(f) = f /\ Scalar(f)
    BY <1>2, <2>1, WordIsExact
  <2>. QED  BY <1>1, <1>3, <2>1, <2>2, PropertyIsExact
<1>5. PICK props, S : props = <<p, q>> /\ S = {p, q}
  OBVIOUS
<1>6. props \in Seq(S) /\ \A x \in S : ExactProperty(x)
  BY <1>4, <1>5
<1>7. Exact(<<"Object", props>>)
  BY <1>6, ObjectIsExact
<1>8. Info(code) = <<"Object", props>>
  BY <1>1, <1>2, <1>3, <1>5 DEF Info
<1>. QED  BY <1>7, <1>8

LEMMA CapabilitiesAreExact == Exact(<<"Object", <<<<"capabilities", Num(31)>>>>>>)
<1>1. PICK s : s \in Words /\ s # "" /\ s = "capabilities"
  BY DEF Words
<1>2. PICK e : e = Num(31)
  OBVIOUS
<1>3. Fits(31)
  BY NumbersFit
<1>4. IsPlain(e) /\ DecodedPlain(e) = e /\ Scalar(e)
  BY <1>2, <1>3, NumberIsExact
<1>5. PICK p : p = <<s, e>>
  OBVIOUS
<1>6. ExactProperty(p)
  BY <1>1, <1>4, <1>5, PropertyIsExact
<1>7. PICK props, S : props = <<p>> /\ S = {p}
  OBVIOUS
<1>8. props \in Seq(S) /\ \A x \in S : ExactProperty(x)
  BY <1>6, <1>7
<1>9. Exact(<<"Object", props>>)
  BY <1>8, ObjectIsExact
<1>. QED  BY <1>1, <1>2, <1>5, <1>7, <1>9

\* What the messenger may count on of a reply.
Told(body) ==
  /\ AreEntities(body) /\ Decoded(body) = body /\ body # <<>> /\ body[1][1] = "String"
  /\ Named(Encode(body)) /\ Encode(body) # <<>>

LEMMA ThreeTold ==
  ASSUME NEW a, Exact(a), a[1] = "String", NEW b, Exact(b), NEW c, Exact(c)
  PROVE  Told(<<a, b, c>>) /\ Len(<<a, b, c>>) = 3 /\ <<a, b, c>>[3] = c /\ <<a, b, c>>[1] = a
<1>1. PICK s, S : s = <<a, b, c>> /\ S = {a, b, c}
  OBVIOUS
<1>2. s \in Seq(S) /\ s # <<>> /\ s[1] = a /\ \A e \in S : Exact(e)
  BY <1>1
<1>3. Told(s)
  BY <1>2, ExactAre DEF Told
<1>. QED  BY <1>1, <1>3

LEMMA FourTold ==
  ASSUME NEW a, Exact(a), a[1] = "String", NEW b, Exact(b), NEW c, Exact(c), NEW d, Exact(d)
  PROVE  Told(<<a, b, c, d>>) /\ Len(<<a, b, c, d>>) = 4 /\ <<a, b, c, d>>[4] = d /\ <<a, b, c, d>>[1] = a
<1>1. PICK s, S : s = <<a, b, c, d>> /\ S = {a, b, c, d}
  OBVIOUS
<1>2. s \in Seq(S) /\ s # <<>> /\ s[1] = a /\ \A e \in S : Exact(e)
  BY <1>1
<1>3. Told(s)
  BY <1>2, ExactAre DEF Told
<1>. QED  BY <1>1, <1>3

\* What it finds at the end of a reply.
EndsIn(body, ids) ==
  body[1] = Str("_result") /\ body[Len(body)][1] = "Number" =>
    \E id \in ids : body[Len(body)][2] \div Double(1) = id

LEMMA ReplyTold ==
  ASSUME NEW ids, NEW body, IsReply(body, ids) PROVE Told(body) /\ EndsIn(body, ids)
<1>1. /\ \A n \in 0..31 : Exact(Num(n))
      /\ \A id \in StreamIDs : Exact(Num(id))
      /\ Exact(Null)
  BY NumbersFit, EntitiesExact
<1>2. Null[1] = "Null" /\ Num(0)[1] = "Number"
  BY DEF Null, Num
<1>3. PICK result, error, published, status, success, start, rejected :
        /\ result = "_result" /\ error = "_error" /\ published = "onFCPublish" /\ status = "onStatus"
        /\ success = "Success" /\ start = "Start" /\ rejected = "Rejected"
  OBVIOUS
<1>4. {result, error, published, status, success, start, rejected} \subseteq Words
  BY <1>3 DEF Words
<1>5. PICK r, e, p, s : r = Str(result) /\ e = Str(error) /\ p = Str(published) /\ s = Str(status)
  OBVIOUS
<1>6. /\ Exact(r) /\ Exact(e) /\ Exact(p) /\ Exact(s)
      /\ r[1] = "String" /\ e[1] = "String" /\ p[1] = "String" /\ s[1] = "String"
  BY <1>4, <1>5, EntitiesExact DEF Str
<1>7. PICK su, st, re : su = Info(success) /\ st = Info(start) /\ re = Info(rejected)
  OBVIOUS
<1>8. /\ Exact(su) /\ Exact(st) /\ Exact(re)
      /\ su[1] = "Object" /\ st[1] = "Object" /\ re[1] = "Object"
  BY <1>4, <1>7, InfoIsExact
<1>9. PICK n0, n1, n2, n4, no : n0 = Num(0) /\ n1 = Num(1) /\ n2 = Num(2) /\ n4 = Num(4) /\ no = Null
  OBVIOUS
<1>10. Exact(n0) /\ Exact(n1) /\ Exact(n2) /\ Exact(n4) /\ Exact(no) /\ no[1] = "Null"
  <2>1. 0 \in 0..31 /\ 1 \in 0..31 /\ 2 \in 0..31 /\ 4 \in 0..31
    OBVIOUS
  <2>. QED  BY <1>1, <1>2, <1>9, <2>1
<1>11. CASE body = Refusal
  <2>1. body = <<e, n2, no, re>>
    BY <1>3, <1>5, <1>7, <1>9, <1>11 DEF Refusal
  <2>2. Told(body) /\ Len(body) = 4 /\ body[4] = re
    BY <1>6, <1>8, <1>10, <2>1, FourTold
  <2>. QED  BY <1>8, <2>2 DEF EndsIn
<1>12. CASE body # Refusal
  <2>1. PICK command \in Commands, id \in StreamIDs :
          body = Reply(command, id) /\ (command = "createStream" => id \in ids)
    BY <1>12 DEF IsReply
  <2>2. CASE command = "connect"
    <3>1. PICK o : o = <<"Object", <<<<"capabilities", Num(31)>>>>>>
      OBVIOUS
    <3>2. Exact(o)
      BY <3>1, CapabilitiesAreExact
    <3>3. body = <<r, n1, o, su>>
      BY <1>3, <1>5, <1>7, <1>9, <2>1, <2>2, <3>1 DEF Reply
    <3>4. Told(body) /\ Len(body) = 4 /\ body[4] = su
      BY <1>6, <1>8, <1>10, <3>2, <3>3, FourTold
    <3>. QED  BY <1>8, <3>4 DEF EndsIn
  <2>3. CASE command = "releaseStream"
    <3>1. body = <<r, n2, no>>
      BY <1>3, <1>5, <1>7, <1>9, <2>1, <2>3 DEF Reply
    <3>2. Told(body) /\ Len(body) = 3 /\ body[3] = no
      BY <1>6, <1>8, <1>10, <3>1, ThreeTold
    <3>. QED  BY <1>10, <3>2 DEF EndsIn
  <2>4. CASE command = "FCPublish"
    <3>1. body = <<p, n0, no, st>>
      BY <1>3, <1>5, <1>7, <1>9, <2>1, <2>4 DEF Reply
    <3>2. Told(body) /\ Len(body) = 4 /\ body[4] = st
      BY <1>6, <1>8, <1>10, <3>1, FourTold
    <3>. QED  BY <1>8, <3>2 DEF EndsIn
  <2>5. CASE command = "createStream"
    <3>1. PICK ni : ni = Num(id)
      OBVIOUS
    <3>2. Exact(ni)
      BY <1>1, <3>1
    <3>3. body = <<r, n4, no, ni>>
      BY <1>3, <1>5, <1>9, <2>1, <2>5, <3>1 DEF Reply
    <3>4. Told(body) /\ Len(body) = 4 /\ body[4] = ni
      BY <1>6, <1>10, <3>2, <3>3, FourTold
    <3>5. ni[2] \div Double(1) = id
      <4>1. PICK f : f = 2^FractionBits
        OBVIOUS
      <4>2. f \in Nat \ {0}
        BY <4>1, Widths, PowerPositive DEF Powers
      <4>3. id \in Nat
        BY InputAssumption
      <4>4. ni[2] = id * f /\ Double(1) = f
        BY <3>1, <4>1, <4>2 DEF Num, Double
      <4>5. (id * f) \div f = id
        BY <4>2, <4>3
      <4>. QED  BY <4>4, <4>5
    <3>. QED  BY <2>1, <2>5, <3>4, <3>5 DEF EndsIn
  <2>6. CASE command = "publish"
    <3>1. body = <<s, n0, no, st>>
      BY <1>3, <1>5, <1>7, <1>9, <2>1, <2>6 DEF Reply
    <3>2. Told(body) /\ Len(body) = 4 /\ body[4] = st
      BY <1>6, <1>8, <1>10, <3>1, FourTold
    <3>. QED  BY <1>8, <3>2 DEF EndsIn
  <2>. QED  BY <2>1, <2>2, <2>3, <2>4, <2>5, <2>6 DEF Commands
<1>. QED  BY <1>11, <1>12

----------------------------------------------------------------------------
(* Messages, and the chunks they are cut into.                                  *)

\* A message of the server, before it is cut: what its chunks are made of.
Sizes == ServerChunkSizes \union {DefaultChunkSize}
Controls == {PROTOSETCHUNKSIZE, PROTOACKWINDOWSIZE, PROTOSETPEERBANDWIDTH}
IsMsg(m, ids) ==
  /\ m.fmt \in {0, 1} /\ m.csid \in Nat /\ m.csid >= 2 /\ m.size \in Sizes
  /\ \/ m.type = COMMANDAMF0 /\ IsReply(m.body, ids) /\ m.payload = Encode(m.body)
     \/ /\ m.type \in Controls /\ m.payload = <<<<"value", m.body>>>>
        /\ m.type = PROTOSETCHUNKSIZE => m.body \in ServerChunkSizes
        /\ m.type = PROTOSETPEERBANDWIDTH => m.body \in LimitTypes

\* A message that the library does not take.
Untaken(m) == m.type = PROTOSETPEERBANDWIDTH /\ m.body = Hard

RawOf(m) == RTMPMessage(0, m.type, 0, m.payload)
Count(m) == NumChunks(Len(m.payload), m.size)
FmtOf(m, j) == IF j = 1 THEN m.fmt ELSE 3
PieceData(m, j) == ChunkData(RawOf(m), m.size, j)
PieceOf(m, j) == ToBitstream(FmtOf(m, j), m.csid, RawOf(m), PieceData(m, j))
SizeAfter(m) == IF m.type = PROTOSETCHUNKSIZE THEN m.body ELSE m.size
SaysOf(m) == [type |-> m.type, body |-> m.body]

LEMMA RawFacts == ASSUME NEW m
  PROVE /\ RawOf(m).payload = m.payload /\ RawOf(m).type = m.type
        /\ ~(RawOf(m).ts > ExtendedStamp)
BY DEF RawOf, RTMPMessage, ExtendedStamp

LEMMA SizesAre == ASSUME NEW size \in Sizes PROVE size \in Nat \ {0}
BY InputAssumption DEF Sizes

LEMMA MessageTypes == ASSUME NEW type \in Controls
  PROVE type # COMMANDAMF0
BY DEF Controls, COMMANDAMF0, PROTOSETCHUNKSIZE, PROTOACKWINDOWSIZE, PROTOSETPEERBANDWIDTH

LEMMA OneValue == ASSUME NEW v
  PROVE LET p == <<<<"value", v>>>> IN IsSeq(p) /\ Len(p) = 1 /\ p[1][2] = v /\ p[1][1] = "value"
<1>1. PICK c : c = <<"value", v>>
  OBVIOUS
<1>2. IsSeq(<<c>>) /\ Len(<<c>>) = 1 /\ <<c>>[1] = c
  BY SeqOne
<1>. QED  BY <1>1, <1>2

\* What a message says, the parser finds in it.
LEMMA MsgFacts ==
  ASSUME NEW ids, NEW m, IsMsg(m, ids)
  PROVE  /\ IsSeq(m.payload) /\ Len(m.payload) \in Nat \ {0}
         /\ m.fmt \in {0, 1} /\ m.csid \in Nat /\ m.csid >= 2
         /\ m.size \in Nat \ {0} /\ SizeAfter(m) \in Sizes
         /\ m.type \in Controls \union {COMMANDAMF0}
         /\ m.type \in Controls => Len(m.payload) = 1 /\ m.payload[1][2] = m.body
         /\ m.type = COMMANDAMF0 => /\ TryParse(m.payload).garbled = FALSE
                                    /\ TryParse(m.payload).retval = m.body
                                    /\ m.body # <<>> /\ m.body[1][1] = "String"
<1>1. CASE m.type = COMMANDAMF0
  <2>1. m.type \notin Controls
    BY <1>1, MessageTypes
  <2>2. IsReply(m.body, ids) /\ m.payload = Encode(m.body)
    BY <1>1, <2>1 DEF IsMsg
  <2>3. Told(m.body)
    BY <2>2, ReplyTold
  <2>4. IsSeq(m.payload) /\ m.payload # <<>>
    BY <2>2, <2>3 DEF Told, Named
  <2>5. Len(m.payload) \in Nat \ {0}
    BY <2>4, SeqLen
  <2>6. TryParse(m.payload).garbled = FALSE /\ TryParse(m.payload).retval = m.body
    BY <2>2, <2>3, ParsesEncoded DEF Told
  <2>7. m.body # <<>> /\ m.body[1][1] = "String"
    BY <2>3 DEF Told
  <2>8. SizeAfter(m) = m.size
    BY <1>1 DEF SizeAfter, COMMANDAMF0, PROTOSETCHUNKSIZE
  <2>. QED  BY <1>1, <2>1, <2>4, <2>5, <2>6, <2>7, <2>8, SizesAre DEF IsMsg
<1>2. CASE m.type # COMMANDAMF0
  <2>1. /\ m.type \in Controls /\ m.payload = <<<<"value", m.body>>>>
        /\ m.type = PROTOSETCHUNKSIZE => m.body \in ServerChunkSizes
    BY <1>2 DEF IsMsg
  <2>2. IsSeq(m.payload) /\ Len(m.payload) = 1 /\ m.payload[1][2] = m.body
    BY <2>1, OneValue
  <2>3. SizeAfter(m) \in Sizes
    BY <2>1 DEF SizeAfter, IsMsg, Sizes
  <2>. QED  BY <1>2, <2>1, <2>2, <2>3, SizesAre DEF IsMsg
<1>. QED  BY <1>1, <1>2

LEMMA CountFacts ==
  ASSUME NEW ids, NEW m, IsMsg(m, ids)
  PROVE  /\ Count(m) \in Nat \ {0}
         /\ \A j \in Nat : j < Count(m) <=> j * m.size < Len(m.payload)
         /\ m.type \in Controls => Count(m) = 1
<1>1. Len(m.payload) \in Nat \ {0} /\ m.size \in Nat \ {0}
  BY MsgFacts
<1>2. Count(m) \in Nat /\ \A j \in Nat : j < Count(m) <=> j * m.size < Len(m.payload)
  BY <1>1, NumFacts DEF Count
<1>3. Count(m) # 0
  <2>1. 0 * m.size = 0
    BY <1>1
  <2>. QED  BY <1>1, <1>2, <2>1
<1>4. ASSUME m.type \in Controls PROVE Count(m) = 1
  <2>1. Len(m.payload) = 1
    BY <1>4, MsgFacts
  <2>2. 1 * m.size = m.size
    BY <1>1
  <2>. QED  BY <1>1, <1>2, <1>3, <2>1, <2>2
<1>. QED  BY <1>2, <1>3, <1>4

\* The data of a piece.
LEMMA PieceDataFacts ==
  ASSUME NEW ids, NEW m, IsMsg(m, ids), NEW j \in 1..Count(m)
  PROVE  LET d == PieceData(m, j)
         IN /\ IsSeq(d) /\ Len(d) \in Nat \ {0}
            /\ (j - 1) * m.size \in Nat
            /\ Len(d) = Least(m.size, Len(m.payload) - (j - 1) * m.size)
            /\ Len(d) <= m.size
            /\ \A i \in 1..Len(d) : d[i] = m.payload[(j - 1) * m.size + i]
            /\ j < Count(m) => Len(d) = m.size /\ j * m.size = (j - 1) * m.size + m.size
            /\ j = Count(m) => (j - 1) * m.size + Len(d) = Len(m.payload)
            /\ Count(m) = 1 => d = m.payload
<1>1. IsSeq(m.payload) /\ Len(m.payload) \in Nat \ {0} /\ m.size \in Nat \ {0}
  BY MsgFacts
<1>2. Count(m) \in Nat \ {0} /\ \A i \in Nat : i < Count(m) <=> i * m.size < Len(m.payload)
  BY CountFacts
<1>3. PICK k \in Nat : k = j - 1
  BY <1>2
<1>4. k < Count(m) /\ j = k + 1 /\ k * m.size < Len(m.payload)
  BY <1>2, <1>3
<1>5. PICK r : r = RawOf(m)
  OBVIOUS
<1>6. r.payload = m.payload
  BY <1>5, RawFacts
<1>7. PICK d : d = ChunkData(r, m.size, k + 1)
  OBVIOUS
<1>8. /\ IsSeq(d) /\ Len(d) = Least(m.size, Len(m.payload) - k * m.size)
      /\ Len(d) \in Nat \ {0}
      /\ \A i \in 1..Len(d) : d[i] = m.payload[k * m.size + i]
  <2>1. PICK s : s = m.size
    OBVIOUS
  <2>2. s \in Nat \ {0} /\ IsSeq(r.payload) /\ k * s < Len(r.payload)
    BY <1>1, <1>4, <1>6, <2>1
  <2>3. /\ IsSeq(ChunkData(r, s, k + 1)) /\ Len(ChunkData(r, s, k + 1)) = Least(s, Len(r.payload) - k * s)
        /\ Len(ChunkData(r, s, k + 1)) \in Nat \ {0}
        /\ \A i \in 1..Len(ChunkData(r, s, k + 1)) : ChunkData(r, s, k + 1)[i] = r.payload[k * s + i]
    BY <2>2, DataFacts
  <2>. QED  BY <1>6, <1>7, <2>1, <2>3
<1>9. PieceData(m, j) = d
  BY <1>4, <1>5, <1>7 DEF PieceData
<1>10. PICK a : a = k * m.size
  OBVIOUS
<1>11. a \in Nat /\ (k + 1) * m.size = a + m.size
  BY <1>1, <1>10, TimesNext
<1>12. Len(d) <= m.size
  BY <1>1, <1>8, <1>10, <1>11 DEF Least
<1>13. j < Count(m) => Len(d) = m.size
  <2>1. HAVE j < Count(m)
  <2>2. a + m.size < Len(m.payload)
    BY <1>2, <1>4, <1>11, <2>1
  <2>. QED  BY <1>1, <1>8, <1>10, <1>11, <2>2 DEF Least
<1>14. j = Count(m) => a + Len(d) = Len(m.payload)
  <2>1. HAVE j = Count(m)
  <2>2. ~(a + m.size < Len(m.payload))
    BY <1>2, <1>4, <1>11, <2>1
  <2>3. Len(d) = Least(m.size, Len(m.payload) - a)
    BY <1>8, <1>10
  <2>4. PICK s, n : s = m.size /\ n = Len(m.payload)
    OBVIOUS
  <2>5. s \in Nat /\ n \in Nat /\ ~(a + s < n) /\ a \in Nat
    BY <1>1, <1>11, <2>2, <2>4
  <2>6. Least(s, n - a) = n - a
    BY <2>5 DEF Least
  <2>. QED  BY <2>3, <2>4, <2>5, <2>6
<1>15. Count(m) = 1 => d = m.payload
  <2>1. HAVE Count(m) = 1
  <2>2. k = 0 /\ a = 0
    BY <1>1, <1>4, <1>10, <2>1
  <2>3. Len(d) = Len(m.payload)
    BY <1>4, <1>8, <1>14, <2>1, <2>2
  <2>4. \A i \in 1..Len(d) : d[i] = m.payload[i]
    BY <1>8, <1>10, <2>2
  <2>. QED  BY <1>1, <1>8, <2>3, <2>4, SeqSame
<1>16. (j - 1) * m.size = a /\ j * m.size = (k + 1) * m.size
  BY <1>3, <1>4, <1>10
<1>. QED  BY <1>8, <1>9, <1>10, <1>11, <1>12, <1>13, <1>14, <1>15, <1>16

\* A payload cut to what is there of it.
LEMMA TrimmedIs ==
  ASSUME NEW data, IsSeq(data), NEW h \in Nat, NEW body, IsSeq(body), NEW size \in Nat,
         Len(body) <= size, h + Len(body) <= Len(data),
         \A i \in 1..Len(body) : data[h + i] = body[i]
  PROVE  TrimPayload(SubSeq(data, h + 1, Least(h + size, Len(data))), Len(body)) = body
<1>1. PICK n, d, e : n = Len(data) /\ d = Len(body) /\ e = Least(h + size, n)
  OBVIOUS
<1>2. n \in Nat /\ d \in Nat
  BY <1>1, SeqLen
<1>3. e \in Nat /\ e <= n /\ h + d <= e
  BY <1>1, <1>2 DEF Least
<1>5. PICK g : g = h + 1
  OBVIOUS
<1>4. PICK p : p = SubSeq(data, g, e)
  OBVIOUS
<1>6. g \in Nat \ {0} /\ e \in 0..Len(data) /\ g <= e + 1 /\ e - g + 1 = e - h
  BY <1>1, <1>2, <1>3, <1>5
<1>7. /\ IsSeq(p) /\ Len(p) = e - g + 1
      /\ \A i \in 1..(e - g + 1) : p[i] = data[g + i - 1]
  BY <1>4, <1>6, SeqSub
<1>8. \A i \in 1..d : i <= Len(p) /\ p[i] = body[i]
  <2>1. TAKE i \in 1..d
  <2>2. i \in 1..(e - g + 1) /\ g + i - 1 = h + i
    BY <1>2, <1>3, <1>5, <1>6
  <2>3. p[i] = data[h + i]
    BY <1>7, <2>2
  <2>. QED  BY <1>1, <1>7, <2>2, <2>3
<1>9. PICK t : t = TrimPayload(p, d)
  OBVIOUS
<1>10. t = [i \in 1..d |-> IF i <= Len(p) THEN p[i] ELSE <<"byte", 0>>]
  BY <1>9 DEF TrimPayload
<1>11. DOMAIN t = 1..d /\ t = [i \in 1..d |-> t[i]] /\ \A i \in 1..d : t[i] = p[i]
  <2>1. DOMAIN t = 1..d /\ t = [i \in 1..d |-> t[i]]
    BY <1>10
  <2>2. \A i \in 1..d : t[i] = IF i <= Len(p) THEN p[i] ELSE <<"byte", 0>>
    BY <1>10
  <2>. QED  BY <1>8, <2>1, <2>2
<1>12. IsSeq(t) /\ Len(t) = d
  BY <1>2, <1>11, SeqMade
<1>13. \A i \in 1..Len(t) : t[i] = body[i]
  BY <1>8, <1>11, <1>12
<1>14. t = body
  BY <1>1, <1>12, <1>13, SeqSame
<1>. QED  BY <1>1, <1>4, <1>5, <1>9, <1>14

\* What the library reads of a piece, whatever comes behind it.
HeadOf(m, j) == HeadSize(FmtOf(m, j), m.csid, RawOf(m))
IsPieceRead(m, j, rest, data, size, h, d, chunk) ==
  /\ h \in Nat \ {0} /\ IsSeq(PieceOf(m, j)) /\ IsSeq(data) /\ data # <<>>
  /\ Len(data) = h + Len(d) + Len(rest) /\ Len(PieceOf(m, j)) = h + Len(d)
  /\ \A i \in 1..Len(d) : data[h + i] = d[i]
  /\ HeaderReads(data)
  /\ chunk.fmt = FmtOf(m, j) /\ chunk.csid = m.csid /\ chunk.header = h
  /\ j = 1 => chunk.length = Len(m.payload) /\ chunk.type = m.type
  /\ chunk.payload = SubSeq(data, h + 1, Least(h + size, Len(data)))
  /\ After(data, h + Len(d)) = rest
LEMMA PieceRead ==
  ASSUME NEW ids, NEW m, IsMsg(m, ids), NEW j \in 1..Count(m), NEW rest, IsSeq(rest),
         NEW data, Joins(data, PieceOf(m, j), rest), NEW size
  PROVE  IsPieceRead(m, j, rest, data, size, HeadOf(m, j), PieceData(m, j), ParseChunk(data, size))
<1>1. PICK fmt, r, d, h, p : /\ fmt = FmtOf(m, j) /\ r = RawOf(m) /\ d = PieceData(m, j) /\ h = HeadOf(m, j)
                             /\ p = PieceOf(m, j)
  OBVIOUS
<1>2. m.fmt \in {0, 1} /\ m.csid \in Nat /\ m.csid >= 2
  BY MsgFacts
<1>3. fmt \in {0, 1, 3} /\ (fmt # 3 <=> j = 1)
  BY <1>1, <1>2 DEF FmtOf
<1>4. r.payload = m.payload /\ r.type = m.type /\ ~(r.ts > ExtendedStamp)
  BY <1>1, RawFacts
<1>5. IsSeq(d) /\ Len(d) \in Nat \ {0}
  BY <1>1, PieceDataFacts
<1>6. p = ToBitstream(fmt, m.csid, r, d) /\ h = HeadSize(fmt, m.csid, r)
  BY <1>1 DEF PieceOf, HeadOf
<1>7. Joins(data, ToBitstream(fmt, m.csid, r, d), rest)
  BY <1>1, <1>6
<1>8. /\ IsSeq(ToBitstream(fmt, m.csid, r, d)) /\ h \in Nat
      /\ IsSeq(data) /\ Len(data) = h + Len(d) + Len(rest)
      /\ Begins(data, fmt, m.csid, r)
      /\ \A i \in 1..Len(d) : data[h + i] = d[i]
  BY <1>2, <1>3, <1>5, <1>6, <1>7, ChunkFollowed
<1>9. Len(rest) \in Nat /\ data = p \o rest
  BY <1>1, SeqLen DEF Joins
<1>10. IsSeq(p) /\ Len(p) = h + Len(d)
  <2>1. IsSeq(p)
    BY <1>6, <1>8
  <2>2. Len(data) = Len(p) + Len(rest)
    BY <1>9, <2>1, SeqConcat
  <2>3. Len(p) \in Nat
    BY <2>1, SeqLen
  <2>. QED  BY <1>5, <1>8, <1>9, <2>1, <2>2, <2>3
<1>11. After(data, h + Len(d)) = rest
  <2>1. After(p \o rest, Len(p)) = rest
    BY <1>10, AfterFirst
  <2>. QED  BY <1>9, <1>10, <2>1
<1>12. HeaderReads(data)
  BY <1>2, <1>3, <1>8, HeaderReadBack
<1>13. PICK chunk : chunk = ParseChunk(data, size)
  OBVIOUS
<1>14. /\ chunk.fmt = fmt /\ chunk.csid = m.csid
       /\ fmt # 3 => chunk.length = Len(r.payload) /\ chunk.type = r.type
       /\ chunk.header = Len(BasicHeader(fmt, m.csid)) + Len(MessageHeader(fmt, r))
       /\ chunk.payload = SubSeq(data, chunk.header + 1, Least(chunk.header + size, Len(data)))
  <2>1. Begins(data, fmt, m.csid, r)
    BY <1>8
  <2>2. /\ ParseChunk(data, size).fmt = fmt /\ ParseChunk(data, size).csid = m.csid
        /\ fmt # 3 => ParseChunk(data, size).length = Len(r.payload) /\ ParseChunk(data, size).type = r.type
        /\ ~(r.ts > ExtendedStamp) =>
              ParseChunk(data, size).header = Len(BasicHeader(fmt, m.csid)) + Len(MessageHeader(fmt, r))
        /\ ParseChunk(data, size).payload =
              SubSeq(data, ParseChunk(data, size).header + 1,
                     Least(ParseChunk(data, size).header + size, Len(data)))
    BY <1>2, <1>3, <2>1, ChunkReadBack
  <2>. QED  BY <1>4, <1>13, <2>2
<1>15. chunk.header = h
  BY <1>6, <1>14 DEF HeadSize
<1>16. h # 0
  <2>1. Begins(data, fmt, m.csid, r) /\ BasicSize(data) = Len(BasicHeader(fmt, m.csid)) /\ BasicSize(data) \in 1..3
    BY <1>2, <1>3, <1>8, HeaderAt
  <2>2. IsSeq(MessageHeader(fmt, r))
    BY <1>3, MessageSeq
  <2>3. PICK a, b : a = Len(BasicHeader(fmt, m.csid)) /\ b = Len(MessageHeader(fmt, r))
    OBVIOUS
  <2>4. b \in Nat
    BY <2>2, <2>3, SeqLen
  <2>5. a \in 1..3
    BY <2>1, <2>3
  <2>6. h = a + b
    BY <1>6, <2>3 DEF HeadSize
  <2>. QED  BY <2>4, <2>5, <2>6
<1>17. data # <<>>
  BY <1>5, <1>8, <1>9, <1>16, SeqEmpty
<1>. QED  BY <1>1, <1>3, <1>4, <1>8, <1>10, <1>11, <1>12, <1>13, <1>14, <1>15, <1>16, <1>17 DEF IsPieceRead

----------------------------------------------------------------------------
(* The loops of the code, turn by turn.                                         *)

\* The first state of the parser of chunks.
Dechunking(data, size) ==
  [rest |-> data, started |-> <<>>, retval |-> <<>>, chunkSize |-> size,
   stopped |-> FALSE, garbled |-> FALSE]

\* Its states, turn by turn.
DechunkOf(f, data, size, n) ==
  f = [turns \in 0..n |-> IF turns = 0 THEN Dechunking(data, size) ELSE DechunkTurn(f[turns - 1])]

LEMMA DechunkAt ==
  ASSUME NEW f, NEW data, NEW size, NEW n, DechunkOf(f, data, size, n)
  PROVE  \A i \in 0..n : f[i] = IF i = 0 THEN Dechunking(data, size) ELSE DechunkTurn(f[i - 1])
<1>. DEFINE F == [i \in 0..n |-> IF i = 0 THEN Dechunking(data, size) ELSE DechunkTurn(f[i - 1])]
<1>1. f = F
  BY DEF DechunkOf
<1>2. \A i \in 0..n : F[i] = IF i = 0 THEN Dechunking(data, size) ELSE DechunkTurn(f[i - 1])
  OBVIOUS
<1>. HIDE DEF F
<1>. QED  BY <1>1, <1>2

LEMMA DechunkExist ==
  ASSUME NEW data, NEW size
  PROVE  \A n \in Nat : \E f : DechunkOf(f, data, size, n)
<1>. DEFINE S == {n \in Nat : \E f : DechunkOf(f, data, size, n)}
<1>1. 0 \in S
  <2>. DEFINE f == [i \in 0..0 |-> Dechunking(data, size)]
  <2>1. DechunkOf(f, data, size, 0)
    BY DEF DechunkOf
  <2>. QED  BY <2>1
<1>2. ASSUME NEW n \in Nat, n \in S PROVE n + 1 \in S
  <2>1. PICK f : DechunkOf(f, data, size, n)
    BY <1>2
  <2>2. PICK last : last = DechunkTurn(f[n])
    OBVIOUS
  <2>. DEFINE h == [i \in 0..(n + 1) |-> IF i = n + 1 THEN last ELSE f[i]]
              H == [i \in 0..(n + 1) |-> IF i = 0 THEN Dechunking(data, size) ELSE DechunkTurn(h[i - 1])]
  <2>3. h[n + 1] = last /\ \A i \in 0..n : h[i] = f[i]
    OBVIOUS
  <2>4. ASSUME NEW i \in 0..(n + 1) PROVE h[i] = H[i]
    <3>1. H[i] = IF i = 0 THEN Dechunking(data, size) ELSE DechunkTurn(h[i - 1])
      OBVIOUS
    <3>2. CASE i = n + 1
      <4>1. i # 0 /\ i - 1 = n /\ n \in 0..n
        BY <3>2
      <4>. HIDE DEF h, H
      <4>2. h[i - 1] = f[n]
        BY <2>3, <4>1
      <4>. QED  BY <2>2, <2>3, <3>1, <3>2, <4>1, <4>2
    <3>3. CASE i # n + 1
      <4>1. i \in 0..n /\ (i # 0 => i - 1 \in 0..n)
        BY <3>3
      <4>2. f[i] = IF i = 0 THEN Dechunking(data, size) ELSE DechunkTurn(f[i - 1])
        BY <2>1, <4>1, DechunkAt
      <4>. HIDE DEF h, H
      <4>. QED  BY <2>3, <3>1, <4>1, <4>2
    <3>. QED  BY <3>2, <3>3
  <2>5. h = H
    BY <2>4
  <2>6. DechunkOf(h, data, size, n + 1)
    BY <2>5 DEF DechunkOf
  <2>. HIDE DEF h
  <2>. QED  BY <2>6
<1>. HIDE DEF S
<1>3. \A n \in Nat : n \in S
  BY <1>1, <1>2, SetInduction
<1>. QED  BY <1>3 DEF S

LEMMA DechunkIs ==
  ASSUME NEW data, NEW size, Len(data) \in Nat
  PROVE  \E f : DechunkOf(f, data, size, Len(data)) /\ ChunkProcessorTryParse(data, size) = f[Len(data)]
<1>. DEFINE f == CHOOSE f : f = [turns \in 0..Len(data) |->
                                   IF turns = 0 THEN Dechunking(data, size) ELSE DechunkTurn(f[turns - 1])]
<1>1. ChunkProcessorTryParse(data, size) = f[Len(data)]
  BY DEF ChunkProcessorTryParse, Dechunking
<1>2. \E h : h = [turns \in 0..Len(data) |->
                    IF turns = 0 THEN Dechunking(data, size) ELSE DechunkTurn(h[turns - 1])]
  <2>1. PICK h : DechunkOf(h, data, size, Len(data))
    BY DechunkExist
  <2>2. h = [turns \in 0..Len(data) |->
               IF turns = 0 THEN Dechunking(data, size) ELSE DechunkTurn(h[turns - 1])]
    BY <2>1 DEF DechunkOf
  <2>. QED  BY <2>2
<1>3. f = [turns \in 0..Len(data) |->
             IF turns = 0 THEN Dechunking(data, size) ELSE DechunkTurn(f[turns - 1])]
  BY <1>2
<1>. HIDE DEF f
<1>4. DechunkOf(f, data, size, Len(data))
  BY <1>3 DEF DechunkOf
<1>. QED  BY <1>1, <1>4

\* What a function has made of the messages, one by one.
HandledOf(f, function, st, messages, n) ==
  f = [i \in 0..n |-> IF i = 0 THEN st ELSE Handle(function, f[i - 1], messages[i])]

LEMMA HandledAt ==
  ASSUME NEW f, NEW function, NEW st, NEW messages, NEW n, HandledOf(f, function, st, messages, n)
  PROVE  \A i \in 0..n : f[i] = IF i = 0 THEN st ELSE Handle(function, f[i - 1], messages[i])
<1>. DEFINE F == [i \in 0..n |-> IF i = 0 THEN st ELSE Handle(function, f[i - 1], messages[i])]
<1>1. f = F
  BY DEF HandledOf
<1>2. \A i \in 0..n : F[i] = IF i = 0 THEN st ELSE Handle(function, f[i - 1], messages[i])
  OBVIOUS
<1>. HIDE DEF F
<1>. QED  BY <1>1, <1>2

LEMMA HandledExist ==
  ASSUME NEW function, NEW st, NEW messages
  PROVE  \A n \in Nat : \E f : HandledOf(f, function, st, messages, n)
<1>. DEFINE S == {n \in Nat : \E f : HandledOf(f, function, st, messages, n)}
<1>1. 0 \in S
  <2>. DEFINE f == [i \in 0..0 |-> st]
  <2>1. HandledOf(f, function, st, messages, 0)
    BY DEF HandledOf
  <2>. QED  BY <2>1
<1>2. ASSUME NEW n \in Nat, n \in S PROVE n + 1 \in S
  <2>1. PICK f : HandledOf(f, function, st, messages, n)
    BY <1>2
  <2>2. PICK last : last = Handle(function, f[n], messages[n + 1])
    OBVIOUS
  <2>. DEFINE h == [i \in 0..(n + 1) |-> IF i = n + 1 THEN last ELSE f[i]]
              H == [i \in 0..(n + 1) |-> IF i = 0 THEN st ELSE Handle(function, h[i - 1], messages[i])]
  <2>3. h[n + 1] = last /\ \A i \in 0..n : h[i] = f[i]
    OBVIOUS
  <2>4. ASSUME NEW i \in 0..(n + 1) PROVE h[i] = H[i]
    <3>1. H[i] = IF i = 0 THEN st ELSE Handle(function, h[i - 1], messages[i])
      OBVIOUS
    <3>2. CASE i = n + 1
      <4>1. i # 0 /\ i - 1 = n /\ n \in 0..n
        BY <3>2
      <4>. HIDE DEF h, H
      <4>2. h[i - 1] = f[n]
        BY <2>3, <4>1
      <4>. QED  BY <2>2, <2>3, <3>1, <3>2, <4>1, <4>2
    <3>3. CASE i # n + 1
      <4>1. i \in 0..n /\ (i # 0 => i - 1 \in 0..n)
        BY <3>3
      <4>2. f[i] = IF i = 0 THEN st ELSE Handle(function, f[i - 1], messages[i])
        BY <2>1, <4>1, HandledAt
      <4>. HIDE DEF h, H
      <4>. QED  BY <2>3, <3>1, <4>1, <4>2
    <3>. QED  BY <3>2, <3>3
  <2>5. h = H
    BY <2>4
  <2>6. HandledOf(h, function, st, messages, n + 1)
    BY <2>5 DEF HandledOf
  <2>. HIDE DEF h
  <2>. QED  BY <2>6
<1>. HIDE DEF S
<1>3. \A n \in Nat : n \in S
  BY <1>1, <1>2, SetInduction
<1>. QED  BY <1>3 DEF S

LEMMA HandledIs ==
  ASSUME NEW function, NEW st, NEW messages, Len(messages) \in Nat
  PROVE  \E f : HandledOf(f, function, st, messages, Len(messages)) /\ HandleAll(function, st, messages) = f[Len(messages)]
<1>. DEFINE f == CHOOSE f : f = [i \in 0..Len(messages) |->
                                   IF i = 0 THEN st ELSE Handle(function, f[i - 1], messages[i])]
<1>1. HandleAll(function, st, messages) = f[Len(messages)]
  BY DEF HandleAll
<1>2. \E h : h = [i \in 0..Len(messages) |->
                    IF i = 0 THEN st ELSE Handle(function, h[i - 1], messages[i])]
  <2>1. PICK h : HandledOf(h, function, st, messages, Len(messages))
    BY HandledExist
  <2>2. h = [i \in 0..Len(messages) |->
               IF i = 0 THEN st ELSE Handle(function, h[i - 1], messages[i])]
    BY <2>1 DEF HandledOf
  <2>. QED  BY <2>2
<1>3. f = [i \in 0..Len(messages) |->
             IF i = 0 THEN st ELSE Handle(function, f[i - 1], messages[i])]
  BY <1>2
<1>. HIDE DEF f
<1>4. HandledOf(f, function, st, messages, Len(messages))
  BY <1>3 DEF HandledOf
<1>. QED  BY <1>1, <1>4

\* What chunks say, one by one.
SaidWith(chunk, said) == IF InOneChunk(chunk) THEN Append(said, chunk.says) ELSE said


SaidOf(f, chunks, n) ==
  f = [k \in 0..n |-> IF k = 0 THEN <<>> ELSE SaidWith(chunks[k], f[k - 1])]

LEMMA SaidAt ==
  ASSUME NEW f, NEW chunks, NEW n, SaidOf(f, chunks, n)
  PROVE  \A i \in 0..n : f[i] = IF i = 0 THEN <<>> ELSE SaidWith(chunks[i], f[i - 1])
<1>. DEFINE F == [i \in 0..n |-> IF i = 0 THEN <<>> ELSE SaidWith(chunks[i], f[i - 1])]
<1>1. f = F
  BY DEF SaidOf
<1>2. \A i \in 0..n : F[i] = IF i = 0 THEN <<>> ELSE SaidWith(chunks[i], f[i - 1])
  OBVIOUS
<1>. HIDE DEF F
<1>. QED  BY <1>1, <1>2

LEMMA SaidExist ==
  ASSUME NEW chunks
  PROVE  \A n \in Nat : \E f : SaidOf(f, chunks, n)
<1>. DEFINE S == {n \in Nat : \E f : SaidOf(f, chunks, n)}
<1>1. 0 \in S
  <2>. DEFINE f == [i \in 0..0 |-> <<>>]
  <2>1. SaidOf(f, chunks, 0)
    BY DEF SaidOf
  <2>. QED  BY <2>1
<1>2. ASSUME NEW n \in Nat, n \in S PROVE n + 1 \in S
  <2>1. PICK f : SaidOf(f, chunks, n)
    BY <1>2
  <2>2. PICK last : last = SaidWith(chunks[n + 1], f[n])
    OBVIOUS
  <2>. DEFINE h == [i \in 0..(n + 1) |-> IF i = n + 1 THEN last ELSE f[i]]
              H == [i \in 0..(n + 1) |-> IF i = 0 THEN <<>> ELSE SaidWith(chunks[i], h[i - 1])]
  <2>3. h[n + 1] = last /\ \A i \in 0..n : h[i] = f[i]
    OBVIOUS
  <2>4. ASSUME NEW i \in 0..(n + 1) PROVE h[i] = H[i]
    <3>1. H[i] = IF i = 0 THEN <<>> ELSE SaidWith(chunks[i], h[i - 1])
      OBVIOUS
    <3>2. CASE i = n + 1
      <4>1. i # 0 /\ i - 1 = n /\ n \in 0..n
        BY <3>2
      <4>. HIDE DEF h, H
      <4>2. h[i - 1] = f[n]
        BY <2>3, <4>1
      <4>. QED  BY <2>2, <2>3, <3>1, <3>2, <4>1, <4>2
    <3>3. CASE i # n + 1
      <4>1. i \in 0..n /\ (i # 0 => i - 1 \in 0..n)
        BY <3>3
      <4>2. f[i] = IF i = 0 THEN <<>> ELSE SaidWith(chunks[i], f[i - 1])
        BY <2>1, <4>1, SaidAt
      <4>. HIDE DEF h, H
      <4>. QED  BY <2>3, <3>1, <4>1, <4>2
    <3>. QED  BY <3>2, <3>3
  <2>5. h = H
    BY <2>4
  <2>6. SaidOf(h, chunks, n + 1)
    BY <2>5 DEF SaidOf
  <2>. HIDE DEF h
  <2>. QED  BY <2>6
<1>. HIDE DEF S
<1>3. \A n \in Nat : n \in S
  BY <1>1, <1>2, SetInduction
<1>. QED  BY <1>3 DEF S

LEMMA SaidIs ==
  ASSUME NEW chunks, Len(chunks) \in Nat
  PROVE  \E f : SaidOf(f, chunks, Len(chunks)) /\ SaidInOneChunk(chunks) = f[Len(chunks)]
<1>. DEFINE f == CHOOSE f : f = [k \in 0..Len(chunks) |->
                                   IF k = 0 THEN <<>> ELSE SaidWith(chunks[k], f[k - 1])]
<1>1. SaidInOneChunk(chunks) = f[Len(chunks)]
  BY DEF SaidInOneChunk, SaidWith
<1>2. \E h : h = [k \in 0..Len(chunks) |->
                    IF k = 0 THEN <<>> ELSE SaidWith(chunks[k], h[k - 1])]
  <2>1. PICK h : SaidOf(h, chunks, Len(chunks))
    BY SaidExist
  <2>2. h = [k \in 0..Len(chunks) |->
               IF k = 0 THEN <<>> ELSE SaidWith(chunks[k], h[k - 1])]
    BY <2>1 DEF SaidOf
  <2>. QED  BY <2>2
<1>3. f = [k \in 0..Len(chunks) |->
             IF k = 0 THEN <<>> ELSE SaidWith(chunks[k], f[k - 1])]
  BY <1>2
<1>. HIDE DEF f
<1>4. SaidOf(f, chunks, Len(chunks))
  BY <1>3 DEF SaidOf
<1>. QED  BY <1>1, <1>4

----------------------------------------------------------------------------
(* Bytes of the server: chunks in a row.                                        *)

\* The chunks from the one after the k-th on, in one run of bytes.
Rest(chs, k) == FlattenSeq([i \in 1..(Len(chs) - k) |-> chs[k + i].cells])
AllCells(chs) == IsSeq(chs) /\ \A i \in 1..Len(chs) : IsSeq(chs[i].cells)

LEMMA RestFacts ==
  ASSUME NEW chs, AllCells(chs), NEW j \in Nat, j <= Len(chs)
  PROVE  /\ IsSeq(Rest(chs, j))
         /\ j = Len(chs) => Rest(chs, j) = <<>>
         /\ j < Len(chs) => Joins(Rest(chs, j), chs[j + 1].cells, Rest(chs, j + 1))
<1>. DEFINE n == Len(chs)
            C(i) == chs[i].cells
            strip(k) == [i \in 1..(n - k) |-> C(k + i)]
<1>0. n \in Nat
  BY SeqLen DEF AllCells
<1>1. \A i \in Nat \ {0} : i <= n => IsSeq(C(i))
  BY <1>0 DEF AllCells
<1>3. \A k : Rest(chs, k) = FlattenSeq(strip(k))
  BY DEF Rest
<1>. HIDE DEF n, C
<1>2. ASSUME NEW k \in Nat, k <= n
      PROVE  AllSeqs(strip(k)) /\ Len(strip(k)) = n - k
  <2>1. n - k \in Nat /\ DOMAIN strip(k) = 1..(n - k) /\ strip(k) = [i \in 1..(n - k) |-> strip(k)[i]]
    BY <1>0, <1>2
  <2>2. \A i \in 1..(n - k) : strip(k)[i] = C(k + i) /\ k + i \in Nat \ {0} /\ k + i <= n
    BY <1>0, <1>2
  <2>. HIDE DEF strip
  <2>3. IsSeq(strip(k)) /\ Len(strip(k)) = n - k
    BY <2>1, SeqMade
  <2>. QED  BY <1>1, <2>2, <2>3 DEF AllSeqs
<1>4. IsSeq(Rest(chs, j))
  <2>1. AllSeqs(strip(j))
    BY <1>2 DEF n
  <2>. HIDE DEF strip
  <2>. QED  BY <1>3, <2>1, FlattenIsSeq
<1>5. ASSUME j = n PROVE Rest(chs, j) = <<>>
  <2>0. j \in Nat /\ j <= n /\ n - j = 0
    BY <1>0, <1>5
  <2>1. AllSeqs(strip(j)) /\ Len(strip(j)) = 0
    BY <1>2, <2>0
  <2>. HIDE DEF strip
  <2>2. strip(j) = <<>>
    BY <2>1, SeqLen DEF AllSeqs
  <2>. QED  BY <1>3, <2>2, FlattenEmpty
<1>6. ASSUME j < n
      PROVE Rest(chs, j) = C(j + 1) \o Rest(chs, j + 1)
  <2>1. AllSeqs(strip(j)) /\ Len(strip(j)) = n - j /\ n - j # 0
    BY <1>0, <1>2, <1>6
  <2>2. AllSeqs(strip(j + 1)) /\ Len(strip(j + 1)) = n - (j + 1)
    <3>1. j + 1 \in Nat /\ j + 1 <= n
      BY <1>0, <1>6
    <3>. QED  BY <1>2, <3>1
  <2>3. strip(j)[1] = C(j + 1)
    <3>1. 1 \in 1..(n - j)
      BY <1>0, <1>6
    <3>. QED  BY <3>1
  <2>4. \A i \in 1..(n - (j + 1)) : strip(j)[i + 1] = strip(j + 1)[i]
    <3>. TAKE i \in 1..(n - (j + 1))
    <3>1. i + 1 \in 1..(n - j) /\ j + (i + 1) = (j + 1) + i
      BY <1>0
    <3>2. strip(j)[i + 1] = C(j + (i + 1)) /\ strip(j + 1)[i] = C((j + 1) + i)
      BY <3>1
    <3>. QED  BY <3>1, <3>2
  <2>5. PICK s, t : s = strip(j) /\ t = strip(j + 1)
    OBVIOUS
  <2>. HIDE DEF strip
  <2>6. AllSeqs(s) /\ AllSeqs(t) /\ IsSeq(s) /\ IsSeq(t) /\ Len(s) = n - j /\ s # <<>> /\ Len(t) = n - (j + 1)
    BY <2>1, <2>2, <2>5, SeqLen DEF AllSeqs
  <2>7. Tail(s) = t
    <3>1. /\ IsSeq(Tail(s)) /\ Len(Tail(s)) = Len(s) - 1
          /\ \A i \in 1..(Len(s) - 1) : Tail(s)[i] = s[i + 1]
      BY <2>6, SeqTail
    <3>2. Len(Tail(s)) = Len(t) /\ Len(s) - 1 = n - (j + 1)
      BY <1>0, <2>6, <3>1
    <3>3. \A i \in 1..(Len(s) - 1) : s[i + 1] = t[i]
      BY <2>4, <2>5, <3>2
    <3>4. \A i \in 1..Len(Tail(s)) : Tail(s)[i] = t[i]
      BY <3>1, <3>3
    <3>5. PICK u : u = Tail(s)
      OBVIOUS
    <3>6. IsSeq(u) /\ Len(u) = Len(t) /\ \A i \in 1..Len(u) : u[i] = t[i]
      BY <3>1, <3>2, <3>4, <3>5
    <3>. QED  BY <2>6, <3>5, <3>6, SeqSame
  <2>8. FlattenSeq(s) = s[1] \o FlattenSeq(Tail(s))
    BY <2>6, FlattenHead
  <2>. QED  BY <1>3, <2>3, <2>5, <2>7, <2>8
<1>. QED  BY <1>4, <1>5, <1>6 DEF n, C, Joins

\* Chunks on their way: each is a piece of a message, and after a message comes one
\* that is cut with the size that it leaves.
PieceRec(m, j) ==
  [cells |-> PieceOf(m, j), size |-> m.size, first |-> j = 1, last |-> j = Count(m), says |-> SaysOf(m)]
Follows(m, j, n, k) ==
  \/ j < Count(m) /\ n = m /\ k = j + 1
  \/ j = Count(m) /\ k = 1 /\ n.size = SizeAfter(m)
Cut(chs, ms, is, ids) ==
  /\ IsSeq(chs)
  /\ \A i \in 1..Len(chs) : IsMsg(ms[i], ids) /\ is[i] \in 1..Count(ms[i]) /\ chs[i] = PieceRec(ms[i], is[i])
  /\ \A i \in 1..Len(chs) : i + 1 <= Len(chs) => Follows(ms[i], is[i], ms[i + 1], is[i + 1])

LEMMA RecFields == ASSUME NEW m, NEW j
  PROVE /\ PieceRec(m, j).cells = PieceOf(m, j) /\ PieceRec(m, j).size = m.size
        /\ PieceRec(m, j).first = (j = 1) /\ PieceRec(m, j).last = (j = Count(m))
        /\ PieceRec(m, j).says = SaysOf(m)
BY DEF PieceRec

LEMMA PieceIsSeq ==
  ASSUME NEW ids, NEW m, IsMsg(m, ids), NEW j \in 1..Count(m)
  PROVE  IsSeq(PieceOf(m, j)) /\ Len(PieceOf(m, j)) \in Nat \ {0}
<1>1. PICK e, d : e = <<>> /\ d = PieceOf(m, j) \o e
  OBVIOUS
<1>2. IsSeq(e) /\ Joins(d, PieceOf(m, j), e)
  BY <1>1, SeqEmpty DEF Joins
<1>3. /\ IsSeq(PieceOf(m, j)) /\ Len(PieceOf(m, j)) = HeadOf(m, j) + Len(PieceData(m, j))
      /\ HeadOf(m, j) \in Nat \ {0}
  <2>1. IsPieceRead(m, j, e, d, 1, HeadOf(m, j), PieceData(m, j), ParseChunk(d, 1))
    BY <1>2, PieceRead
  <2>. QED  BY <2>1 DEF IsPieceRead
<1>4. Len(PieceData(m, j)) \in Nat
  BY PieceDataFacts
<1>. QED  BY <1>3, <1>4

LEMMA CutCells ==
  ASSUME NEW chs, NEW ms, NEW is, NEW ids, Cut(chs, ms, is, ids)
  PROVE  AllCells(chs) /\ IsSeq(chs) /\ Len(chs) \in Nat
<1>1. ASSUME NEW i \in 1..Len(chs) PROVE IsSeq(chs[i].cells)
  <2>1. chs[i].cells = PieceOf(ms[i], is[i]) /\ IsMsg(ms[i], ids) /\ is[i] \in 1..Count(ms[i])
    BY RecFields DEF Cut
  <2>. QED  BY <2>1, PieceIsSeq
<1>. QED  BY <1>1, SeqLen DEF Cut, AllCells

\* What lies at the head of the bytes that are left.
LEMMA HeadPiece ==
  ASSUME NEW chs, NEW ms, NEW is, NEW ids, Cut(chs, ms, is, ids), NEW t \in Nat, t < Len(chs)
  PROVE  /\ t + 1 \in 1..Len(chs) /\ IsMsg(ms[t + 1], ids) /\ is[t + 1] \in 1..Count(ms[t + 1])
         /\ chs[t + 1] = PieceRec(ms[t + 1], is[t + 1])
         /\ IsSeq(Rest(chs, t + 1))
         /\ Joins(Rest(chs, t), PieceOf(ms[t + 1], is[t + 1]), Rest(chs, t + 1))
         /\ t + 1 < Len(chs) => Follows(ms[t + 1], is[t + 1], ms[t + 2], is[t + 2])
<1>1. AllCells(chs) /\ Len(chs) \in Nat
  BY CutCells
<1>2. t + 1 \in 1..Len(chs) /\ t + 1 \in Nat /\ t + 1 <= Len(chs) /\ (t + 1) + 1 = t + 2
  BY <1>1
<1>3. /\ IsMsg(ms[t + 1], ids) /\ is[t + 1] \in 1..Count(ms[t + 1])
      /\ chs[t + 1] = PieceRec(ms[t + 1], is[t + 1])
  BY <1>2 DEF Cut
<1>4. Joins(Rest(chs, t), chs[t + 1].cells, Rest(chs, t + 1))
  BY <1>1, RestFacts
<1>5. IsSeq(Rest(chs, t + 1))
  BY <1>1, <1>2, RestFacts
<1>6. chs[t + 1].cells = PieceOf(ms[t + 1], is[t + 1])
  BY <1>3, RecFields
<1>7. t + 1 < Len(chs) => Follows(ms[t + 1], is[t + 1], ms[t + 2], is[t + 2])
  BY <1>1, <1>2 DEF Cut
<1>. QED  BY <1>2, <1>3, <1>4, <1>5, <1>6, <1>7

----------------------------------------------------------------------------
(* A reader in step with the server.                                            *)

\* States of the parser of chunks, and the chunks it has parsed.
DechunkFields == {"rest", "started", "retval", "chunkSize", "stopped", "garbled"}
IsDechunk(st) == DOMAIN st = DechunkFields /\ st = [f \in DechunkFields |-> st[f]]
ChunkFields == {"fmt", "csid", "header", "length", "type", "payload"}
IsParsed(c) == DOMAIN c = ChunkFields /\ c = [f \in ChunkFields |-> c[f]]

LEMMA ParsedShape == ASSUME NEW data, NEW size PROVE IsParsed(ParseChunk(data, size))
BY DEF ParseChunk, IsParsed, ChunkFields

IsFirst(st, data, size) ==
  /\ IsDechunk(st) /\ st.rest = data /\ st.started = <<>> /\ st.retval = <<>>
  /\ st.chunkSize = size /\ st.stopped = FALSE /\ st.garbled = FALSE
LEMMA FirstDechunk == ASSUME NEW data, NEW size PROVE IsFirst(Dechunking(data, size), data, size)
BY DEF IsFirst, Dechunking, IsDechunk, DechunkFields

\* The one message of the server whose constructor throws.
LEMMA UntakenThrows ==
  ASSUME NEW ids, NEW m, IsMsg(m, ids), NEW value, m.type \in Controls => value = m.body
  PROVE  ConstructorThrows(m.type, value) <=> Untaken(m)
<1>1. CASE m.type = COMMANDAMF0
  <2>1. m.type # PROTOSETPEERBANDWIDTH /\ m.type # PROTOSETCHUNKSIZE
    BY <1>1 DEF COMMANDAMF0, PROTOSETPEERBANDWIDTH, PROTOSETCHUNKSIZE
  <2>. QED  BY <2>1 DEF ConstructorThrows, Untaken
<1>2. CASE m.type # COMMANDAMF0
  <2>1. /\ value = m.body
        /\ m.type = PROTOSETCHUNKSIZE => m.body \in ServerChunkSizes
        /\ m.type = PROTOSETPEERBANDWIDTH => m.body \in LimitTypes
    BY <1>2 DEF IsMsg
  <2>2. m.type = PROTOSETCHUNKSIZE => ~ConstructorThrows(m.type, value)
    BY <2>1, InputAssumption, Zenon
  <2>3. m.type = PROTOSETPEERBANDWIDTH => (value \notin {Soft, Dynamic} <=> value = Hard)
    <3>1. Hard # Soft /\ Hard # Dynamic
      BY DEF Hard, Soft, Dynamic
    <3>2. LimitTypes \subseteq {Hard, Soft, Dynamic}
      BY InputAssumption
    <3>. QED  BY <2>1, <3>1, <3>2
  <2>4. CASE m.type = PROTOSETCHUNKSIZE
    <3>1. m.type # PROTOSETPEERBANDWIDTH
      BY <2>4 DEF PROTOSETCHUNKSIZE, PROTOSETPEERBANDWIDTH
    <3>. QED  BY <2>2, <2>4, <3>1 DEF Untaken
  <2>5. CASE m.type # PROTOSETCHUNKSIZE
    BY <2>1, <2>3, <2>5 DEF ConstructorThrows, Untaken
  <2>. QED  BY <2>4, <2>5
<1>. QED  BY <1>1, <1>2

\* A message that is complete is given out, and a Set Chunk Size obeyed; or it is not
\* taken, and ends the read.
GivenOut(g, st, m) ==
  /\ IsDechunk(g) /\ g.rest = st.rest /\ g.started = st.started
  /\ g.stopped = st.stopped /\ g.garbled = st.garbled
  /\ g.retval = Append(st.retval, SaysOf(m))
  /\ g.chunkSize = IF m.type = PROTOSETCHUNKSIZE THEN m.body ELSE st.chunkSize
LEMMA GivesOut ==
  ASSUME NEW ids, NEW m, IsMsg(m, ids), NEW st, IsDechunk(st), NEW chunk,
         chunk.type = m.type, chunk.payload = m.payload
  PROVE  IF Untaken(m) THEN GiveOut(st, chunk) = [st EXCEPT !.garbled = TRUE]
         ELSE GivenOut(GiveOut(st, chunk), st, m)
<1>1. m.type \in Controls \union {COMMANDAMF0}
  BY MsgFacts
<1>2. PICK g : g = GiveOut(st, chunk)
  OBVIOUS
<1>6. ConstructorThrows(chunk.type, chunk.payload[1][2]) <=> Untaken(m)
  <2>1. PICK value : value = chunk.payload[1][2]
    OBVIOUS
  <2>2. m.type \in Controls => value = m.body
    BY <2>1, MsgFacts
  <2>3. ConstructorThrows(m.type, value) <=> Untaken(m)
    BY <2>2, UntakenThrows
  <2>. QED  BY <2>1, <2>3
<1>7. CASE Untaken(m)
  BY <1>6, <1>7 DEF GiveOut
<1>3. CASE m.type = COMMANDAMF0
  <2>1. /\ TryParse(m.payload).garbled = FALSE /\ TryParse(m.payload).retval = m.body
        /\ m.body # <<>> /\ m.body[1][1] = "String"
    BY <1>3, MsgFacts
  <2>5. ~Untaken(m)
    BY <1>3 DEF Untaken, COMMANDAMF0, PROTOSETPEERBANDWIDTH
  <2>3. g = [st EXCEPT !.retval = Append(@, [type |-> COMMANDAMF0, body |-> m.body])]
    <3>1. /\ chunk.type = COMMANDAMF0 /\ ~TryParse(chunk.payload).garbled
          /\ TryParse(chunk.payload).retval # <<>> /\ TryParse(chunk.payload).retval[1][1] = "String"
          /\ TryParse(chunk.payload).retval = m.body
      BY <1>3, <2>1
    <3>2. GiveOut(st, chunk) =
            [st EXCEPT !.retval = Append(@, [type |-> COMMANDAMF0, body |-> TryParse(chunk.payload).retval])]
      <4>1. /\ chunk.type # PROTOSETCHUNKSIZE
            /\ chunk.type \notin {PROTOABORT, PROTOACKNOWLEDGEMENT, USERCONTROL, PROTOACKWINDOWSIZE, PROTOSETPEERBANDWIDTH}
        BY <3>1 DEF COMMANDAMF0, PROTOSETCHUNKSIZE, PROTOABORT, PROTOACKNOWLEDGEMENT, USERCONTROL, PROTOACKWINDOWSIZE, PROTOSETPEERBANDWIDTH
      <4>. QED  BY <1>6, <2>5, <3>1, <4>1 DEF GiveOut
    <3>. QED  BY <1>2, <3>1, <3>2, Zenon
  <2>4. m.type # PROTOSETCHUNKSIZE
    BY <1>3 DEF COMMANDAMF0, PROTOSETCHUNKSIZE
  <2>. QED  BY <1>2, <1>3, <2>3, <2>4, <2>5 DEF GivenOut, IsDechunk, DechunkFields, SaysOf
<1>4. CASE m.type = PROTOSETCHUNKSIZE
  <2>1. m.payload[1][2] = m.body
    BY <1>4, MsgFacts DEF Controls
  <2>2. m.type # COMMANDAMF0
    BY <1>4 DEF COMMANDAMF0, PROTOSETCHUNKSIZE
  <2>5. ~Untaken(m)
    BY <1>4 DEF Untaken, PROTOSETCHUNKSIZE, PROTOSETPEERBANDWIDTH
  <2>3. g = [st EXCEPT !.chunkSize = m.body,
                       !.retval = Append(@, [type |-> PROTOSETCHUNKSIZE, body |-> m.body])]
    <3>1. chunk.type = PROTOSETCHUNKSIZE /\ chunk.type # COMMANDAMF0
      BY <1>4, <2>2
    <3>2. GiveOut(st, chunk) =
            [st EXCEPT !.chunkSize = chunk.payload[1][2],
                       !.retval = Append(@, [type |-> PROTOSETCHUNKSIZE, body |-> chunk.payload[1][2]])]
      <4>1. /\ chunk.type \notin {PROTOABORT, PROTOACKNOWLEDGEMENT, USERCONTROL, PROTOACKWINDOWSIZE, PROTOSETPEERBANDWIDTH}
        BY <3>1 DEF PROTOSETCHUNKSIZE, PROTOABORT, PROTOACKNOWLEDGEMENT, USERCONTROL, PROTOACKWINDOWSIZE, PROTOSETPEERBANDWIDTH
      <4>. QED  BY <1>6, <2>5, <3>1, <4>1 DEF GiveOut
    <3>3. chunk.payload[1][2] = m.body
      BY <2>1
    <3>. QED  BY <1>2, <3>2, <3>3, Zenon
  <2>. QED  BY <1>2, <1>4, <2>3, <2>5 DEF GivenOut, IsDechunk, DechunkFields, SaysOf
<1>5. CASE m.type \in {PROTOACKWINDOWSIZE, PROTOSETPEERBANDWIDTH} /\ ~Untaken(m)
  <2>1. m.payload[1][2] = m.body
    BY <1>5, MsgFacts DEF Controls
  <2>2. m.type # COMMANDAMF0 /\ m.type # PROTOSETCHUNKSIZE
    BY <1>5 DEF COMMANDAMF0, PROTOSETCHUNKSIZE, PROTOACKWINDOWSIZE, PROTOSETPEERBANDWIDTH
  <2>3. g = [st EXCEPT !.retval = Append(@, [type |-> m.type, body |-> m.body])]
    BY <1>2, <1>5, <1>6, <2>1, <2>2 DEF GiveOut
  <2>. QED  BY <1>2, <1>5, <2>2, <2>3 DEF GivenOut, IsDechunk, DechunkFields, SaysOf
<1>. QED  BY <1>1, <1>3, <1>4, <1>5, <1>7 DEF Controls

\* Reading of a chunk that starts a message, with any size: what is put in the list of
\* messages under way, what is left to read, and whether the message is complete.
Trimmed(st, chunk) == [chunk EXCEPT !.payload = TrimPayload(@, Least(st.chunkSize, chunk.length))]
Pushed(st, chunk) ==
  [st EXCEPT !.started = Append(@, Trimmed(st, chunk)),
             !.rest = After(@, chunk.header + Len(Trimmed(st, chunk).payload))]

IsStarted(st, chunk, c, p) ==
  /\ IsParsed(c) /\ c.payload = TrimPayload(chunk.payload, Least(st.chunkSize, chunk.length))
  /\ c.csid = chunk.csid /\ c.length = chunk.length /\ c.type = chunk.type
  /\ c.header = chunk.header
  /\ IsDechunk(p) /\ p.started = Append(st.started, c)
  /\ p.rest = After(st.rest, chunk.header + Len(c.payload))
  /\ p.retval = st.retval /\ p.chunkSize = st.chunkSize
  /\ p.stopped = st.stopped /\ p.garbled = st.garbled
  /\ DechunkStart(st, chunk) = IF Len(c.payload) = chunk.length THEN GiveOut(p, c) ELSE p
LEMMA StartIs ==
  ASSUME NEW st, IsDechunk(st), NEW chunk, IsParsed(chunk)
  PROVE  IsStarted(st, chunk, Trimmed(st, chunk), Pushed(st, chunk))
<1>1. PICK d : d = TrimPayload(chunk.payload, Least(st.chunkSize, chunk.length))
  OBVIOUS
<1>2. PICK c : c = Trimmed(st, chunk)
  OBVIOUS
<1>3. /\ IsParsed(c) /\ c.payload = d /\ c.csid = chunk.csid /\ c.length = chunk.length
      /\ c.type = chunk.type /\ c.header = chunk.header
  BY <1>1, <1>2 DEF Trimmed, IsParsed, ChunkFields
<1>4. PICK p : p = Pushed(st, chunk)
  OBVIOUS
<1>5. p = [st EXCEPT !.started = Append(@, c), !.rest = After(@, chunk.header + Len(c.payload))]
  BY <1>2, <1>4 DEF Pushed
<1>6. /\ IsDechunk(p) /\ p.started = Append(st.started, c)
      /\ p.rest = After(st.rest, chunk.header + Len(c.payload))
      /\ p.retval = st.retval /\ p.chunkSize = st.chunkSize
      /\ p.stopped = st.stopped /\ p.garbled = st.garbled
  BY <1>5 DEF IsDechunk, DechunkFields
<1>7. DechunkStart(st, chunk) = IF Len(c.payload) = chunk.length THEN GiveOut(p, c) ELSE p
  BY <1>2, <1>4 DEF DechunkStart, Trimmed, Pushed
<1>. QED  BY <1>1, <1>2, <1>3, <1>4, <1>6, <1>7 DEF IsStarted

\* The message at the end of the list is m, the first of its pieces before j being there.
UnderWay(started, m, j) ==
  LET last == started[Len(started)]
  IN /\ started # <<>> /\ IsParsed(last)
     /\ last.csid = m.csid /\ last.length = Len(m.payload)
     /\ IsSeq(last.payload) /\ Len(last.payload) = (j - 1) * m.size
Ready(st, chs, ms, is, t, said) ==
  /\ IsDechunk(st) /\ st.rest = Rest(chs, t) /\ IsSeq(st.started) /\ st.retval = said
  /\ st.stopped = FALSE /\ st.garbled = FALSE
  /\ t < Len(chs) => /\ st.chunkSize \in Nat \ {0}
                     /\ ms[t + 1].type # PROTOSETCHUNKSIZE => st.chunkSize = ms[t + 1].size
                     /\ is[t + 1] # 1 => UnderWay(st.started, ms[t + 1], is[t + 1])

\* A turn at a chunk.
LEMMA TurnIs ==
  ASSUME NEW st, IsDechunk(st), st.stopped = FALSE, st.garbled = FALSE, st.rest # <<>>,
         HeaderReads(st.rest), NEW chunk, chunk = ParseChunk(st.rest, st.chunkSize)
  PROVE  /\ chunk.fmt = 3 => DechunkTurn(st) = DechunkType3(st, chunk)
         /\ chunk.fmt # 3 => DechunkTurn(st) = DechunkStart(st, chunk)
BY DEF DechunkTurn, DechunkStep

LEMMA StartTurn ==
  ASSUME NEW chs, NEW ms, NEW is, NEW ids, Cut(chs, ms, is, ids), NEW t \in Nat, t < Len(chs),
         is[t + 1] = 1, NEW said, NEW st, Ready(st, chs, ms, is, t, said)
  PROVE  IF Throws(chs[t + 1]) THEN DechunkTurn(st).garbled = TRUE
         ELSE Ready(DechunkTurn(st), chs, ms, is, t + 1, SaidWith(chs[t + 1], said))
<1>1. PICK m, data, rest, size, n : /\ m = ms[t + 1] /\ data = Rest(chs, t) /\ rest = Rest(chs, t + 1)
                                    /\ size = st.chunkSize /\ n = Len(chs)
  OBVIOUS
<1>2. /\ t + 1 \in 1..n /\ IsMsg(m, ids) /\ 1 \in 1..Count(m) /\ chs[t + 1] = PieceRec(m, 1)
      /\ IsSeq(rest) /\ Joins(data, PieceOf(m, 1), rest)
      /\ t + 1 < n => Follows(m, 1, ms[t + 2], is[t + 2])
  BY <1>1, HeadPiece
<1>3. /\ IsDechunk(st) /\ st.rest = data /\ IsSeq(st.started) /\ st.retval = said
      /\ st.stopped = FALSE /\ st.garbled = FALSE
      /\ size \in Nat \ {0} /\ (m.type # PROTOSETCHUNKSIZE => size = m.size)
  BY <1>1 DEF Ready
<1>4. PICK h, d, chunk : h = HeadOf(m, 1) /\ d = PieceData(m, 1) /\ chunk = ParseChunk(data, size)
  OBVIOUS
<1>5. /\ h \in Nat \ {0} /\ IsSeq(data) /\ data # <<>>
      /\ Len(data) = h + Len(d) + Len(rest)
      /\ \A i \in 1..Len(d) : data[h + i] = d[i]
      /\ HeaderReads(data)
      /\ chunk.fmt = FmtOf(m, 1) /\ chunk.csid = m.csid /\ chunk.header = h
      /\ chunk.length = Len(m.payload) /\ chunk.type = m.type
      /\ chunk.payload = SubSeq(data, h + 1, Least(h + size, Len(data)))
      /\ After(data, h + Len(d)) = rest
  <2>1. IsPieceRead(m, 1, rest, data, size, h, d, chunk)
    BY <1>2, <1>4, PieceRead
  <2>. QED  BY <2>1 DEF IsPieceRead
<1>6. /\ IsSeq(m.payload) /\ Len(m.payload) \in Nat \ {0} /\ m.fmt \in {0, 1} /\ m.size \in Nat \ {0}
      /\ SizeAfter(m) \in Nat \ {0}
  BY <1>2, MsgFacts, SizesAre
<1>7. /\ Count(m) \in Nat \ {0} /\ (1 < Count(m) <=> 1 * m.size < Len(m.payload))
      /\ m.type \in Controls => Count(m) = 1
  BY <1>2, CountFacts
<1>8. /\ IsSeq(d) /\ Len(d) \in Nat \ {0} /\ Len(d) <= m.size
      /\ Len(d) = Least(m.size, Len(m.payload) - (1 - 1) * m.size)
      /\ 1 < Count(m) => Len(d) = m.size
      /\ 1 = Count(m) => (1 - 1) * m.size + Len(d) = Len(m.payload)
      /\ Count(m) = 1 => d = m.payload
  BY <1>2, <1>4, PieceDataFacts
<1>9. (1 - 1) * m.size = 0 /\ 1 * m.size = m.size
  BY <1>6
<1>10. Len(d) = Least(size, Len(m.payload)) /\ Len(d) <= size
  <2>1. CASE m.type = PROTOSETCHUNKSIZE
    <3>1. Len(m.payload) = 1 /\ Count(m) = 1
      BY <1>2, <1>7, <2>1, MsgFacts DEF Controls
    <3>2. Len(d) = 1
      BY <1>8, <1>9, <3>1
    <3>. QED  BY <1>3, <3>1, <3>2 DEF Least
  <2>2. CASE m.type # PROTOSETCHUNKSIZE
    BY <1>3, <1>6, <1>8, <1>9, <2>2
  <2>. QED  BY <2>1, <2>2
<1>11. Len(d) = Len(m.payload) <=> Count(m) = 1
  BY <1>6, <1>7, <1>8, <1>9
<1>12. TrimPayload(chunk.payload, Least(size, chunk.length)) = d
  <2>1. Len(rest) \in Nat
    BY <1>2, SeqLen
  <2>2. h + Len(d) <= Len(data)
    BY <1>5, <1>8, <2>1
  <2>3. TrimPayload(SubSeq(data, h + 1, Least(h + size, Len(data))), Len(d)) = d
    <3>1. IsSeq(data) /\ h \in Nat /\ IsSeq(d) /\ size \in Nat /\ Len(d) <= size
      BY <1>3, <1>5, <1>8, <1>10
    <3>2. \A i \in 1..Len(d) : data[h + i] = d[i]
      BY <1>5
    <3>. QED  BY <2>2, <3>1, <3>2, TrimmedIs
  <2>. QED  BY <1>5, <1>10, <2>3
<1>13. PICK c, p : c = Trimmed(st, chunk) /\ p = Pushed(st, chunk)
  OBVIOUS
<1>14. /\ IsParsed(c) /\ c.payload = d /\ c.csid = m.csid /\ c.length = Len(m.payload) /\ c.type = m.type
       /\ IsDechunk(p) /\ p.started = Append(st.started, c) /\ p.rest = rest
       /\ p.retval = said /\ p.chunkSize = size /\ p.stopped = FALSE /\ p.garbled = FALSE
       /\ DechunkStart(st, chunk) = IF Count(m) = 1 THEN GiveOut(p, c) ELSE p
  <2>1. IsParsed(chunk)
    BY <1>4, ParsedShape
  <2>2. /\ IsParsed(c) /\ c.payload = TrimPayload(chunk.payload, Least(size, chunk.length))
        /\ c.csid = chunk.csid /\ c.length = chunk.length /\ c.type = chunk.type
        /\ IsDechunk(p) /\ p.started = Append(st.started, c)
        /\ p.rest = After(data, chunk.header + Len(c.payload))
        /\ p.retval = said /\ p.chunkSize = size
        /\ p.stopped = st.stopped /\ p.garbled = st.garbled
        /\ DechunkStart(st, chunk) = IF Len(c.payload) = chunk.length THEN GiveOut(p, c) ELSE p
    <3>1. IsStarted(st, chunk, c, p)
      BY <1>3, <1>13, <2>1, StartIs
    <3>. QED  BY <1>1, <1>3, <3>1 DEF IsStarted
  <2>. QED  BY <1>3, <1>5, <1>11, <1>12, <2>2
<1>15. DechunkTurn(st) = IF Count(m) = 1 THEN GiveOut(p, c) ELSE p
  <2>1. chunk.fmt # 3
    BY <1>5, <1>6 DEF FmtOf
  <2>2. DechunkTurn(st) = DechunkStart(st, chunk)
    <3>1. HeaderReads(st.rest) /\ st.rest # <<>> /\ chunk = ParseChunk(st.rest, st.chunkSize)
      BY <1>1, <1>3, <1>4, <1>5
    <3>. QED  BY <1>3, <2>1, <3>1, TurnIs
  <2>. QED  BY <1>14, <2>2
<1>16. PICK new : new = DechunkTurn(st)
  OBVIOUS
<1>17. /\ IsSeq(p.started) /\ p.started # <<>> /\ p.started[Len(p.started)] = c
  <2>1. PICK s : s = Append(st.started, c)
    OBVIOUS
  <2>2. IsSeq(s) /\ Len(s) = Len(st.started) + 1 /\ s[Len(st.started) + 1] = c
    BY <1>3, <2>1, SeqAppend
  <2>3. Len(st.started) \in Nat
    BY <1>3, SeqLen
  <2>4. s # <<>>
    BY <2>2, <2>3, SeqEmpty
  <2>. QED  BY <1>14, <2>1, <2>2, <2>4
<1>18. /\ InOneChunk(chs[t + 1]) <=> Count(m) = 1
       /\ Throws(chs[t + 1]) <=> Untaken(m)
  <2>1. chs[t + 1].first = (1 = 1) /\ chs[t + 1].last = (1 = Count(m)) /\ chs[t + 1].says = SaysOf(m)
    BY <1>2, RecFields
  <2>2. Untaken(m) => Count(m) = 1
    BY <1>7 DEF Untaken, Controls
  <2>3. chs[t + 1].says.type = m.type /\ chs[t + 1].says.body = m.body
    BY <2>1 DEF SaysOf
  <2>4. InOneChunk(chs[t + 1]) <=> Count(m) = 1
    BY <2>1, Zenon DEF InOneChunk
  <2>5. Throws(chs[t + 1]) <=> InOneChunk(chs[t + 1]) /\ Untaken(m)
    BY <2>3, Zenon DEF Throws, Untaken
  <2>. QED  BY <2>2, <2>4, <2>5
<1>21. CASE Untaken(m)
  <2>1. new = GiveOut(p, c)
    BY <1>7, <1>15, <1>16, <1>21 DEF Untaken, Controls
  <2>2. c.payload = m.payload
    BY <1>7, <1>8, <1>14, <1>21 DEF Untaken, Controls
  <2>3. new = [p EXCEPT !.garbled = TRUE]
    BY <1>2, <1>14, <1>21, <2>1, <2>2, GivesOut
  <2>4. new.garbled = TRUE
    BY <1>14, <2>3 DEF IsDechunk, DechunkFields
  <2>. QED  BY <1>16, <1>18, <1>21, <2>4
<1>19. CASE Count(m) = 1 /\ ~Untaken(m)
  <2>1. new = GiveOut(p, c)
    BY <1>15, <1>16, <1>19
  <2>2. /\ IsDechunk(new) /\ new.rest = rest /\ new.started = p.started
        /\ new.stopped = FALSE /\ new.garbled = FALSE
        /\ new.retval = Append(said, SaysOf(m))
        /\ new.chunkSize = IF m.type = PROTOSETCHUNKSIZE THEN m.body ELSE size
    <3>1. c.payload = m.payload
      BY <1>8, <1>14, <1>19
    <3>3. IsMsg(m, ids) /\ IsDechunk(p) /\ c.type = m.type
      BY <1>2, <1>14
    <3>2. GivenOut(new, p, m)
      BY <1>19, <2>1, <3>1, <3>3, GivesOut
    <3>. QED  BY <1>14, <3>2 DEF GivenOut
  <2>3. SaidWith(chs[t + 1], said) = Append(said, SaysOf(m))
    <3>1. chs[t + 1].says = SaysOf(m)
      BY <1>2, RecFields
    <3>. QED  BY <1>18, <1>19, <3>1 DEF SaidWith
  <2>4. new.chunkSize = SizeAfter(m)
    BY <1>3, <2>2 DEF SizeAfter
  <2>5. t + 1 < n => is[t + 2] = 1 /\ ms[t + 2].size = SizeAfter(m)
    BY <1>2, <1>19 DEF Follows
  <2>6. (t + 1) + 1 = t + 2
    OBVIOUS
  <2>7. Ready(new, chs, ms, is, t + 1, SaidWith(chs[t + 1], said))
    BY <1>1, <1>6, <1>17, <2>2, <2>3, <2>4, <2>5, <2>6 DEF Ready
  <2>. QED  BY <1>16, <1>18, <1>19, <2>7
<1>20. CASE Count(m) # 1 /\ ~Untaken(m)
  <2>1. new = p
    BY <1>15, <1>16, <1>20
  <2>2. SaidWith(chs[t + 1], said) = said
    BY <1>18, <1>20 DEF SaidWith
  <2>3. 1 < Count(m) /\ Len(d) = m.size
    BY <1>7, <1>8, <1>20
  <2>4. t + 1 < n => is[t + 2] = 2 /\ ms[t + 2] = m
    BY <1>2, <1>20 DEF Follows
  <2>5. m.type # PROTOSETCHUNKSIZE
    BY <1>7, <1>20 DEF Controls
  <2>6. UnderWay(p.started, m, 2)
    <3>1. (2 - 1) * m.size = m.size
      BY <1>6
    <3>. QED  BY <1>8, <1>14, <1>17, <2>3, <3>1 DEF UnderWay
  <2>7. (t + 1) + 1 = t + 2
    OBVIOUS
  <2>8. Ready(new, chs, ms, is, t + 1, SaidWith(chs[t + 1], said))
    BY <1>1, <1>3, <1>6, <1>14, <1>17, <2>1, <2>2, <2>4, <2>5, <2>6, <2>7 DEF Ready
  <2>. QED  BY <1>16, <1>18, <1>20, <2>8
<1>. QED  BY <1>19, <1>20, <1>21

Changed(s, k, e) == [s EXCEPT ![k] = e]
LEMMA SeqChanged ==
  ASSUME NEW s, IsSeq(s), NEW k \in 1..Len(s), NEW e, NEW t, t = Changed(s, k, e)
  PROVE  IsSeq(t) /\ Len(t) = Len(s) /\ t[k] = e /\ \A i \in 1..Len(s) : i # k => t[i] = s[i]
<1>1. DOMAIN s = 1..Len(s) /\ Len(s) \in Nat
  BY SeqLen
<1>2. DOMAIN t = 1..Len(s) /\ t = [i \in 1..Len(s) |-> t[i]]
  BY <1>1 DEF Changed
<1>3. t[k] = e /\ \A i \in 1..Len(s) : i # k => t[i] = s[i]
  BY <1>1 DEF Changed
<1>4. IsSeq(t) /\ Len(t) = Len(s)
  BY <1>1, <1>2, SeqMade
<1>. QED  BY <1>3, <1>4

\* A chunk of Type 3 goes to the last message of its chunk stream.
IsContinued(new, st, chunk, k, d) ==
  LET old == st.started[k]
  IN /\ IsDechunk(new) /\ new.rest = After(st.rest, chunk.header + Len(d))
     /\ new.retval = st.retval /\ new.chunkSize = st.chunkSize
     /\ new.stopped = st.stopped /\ new.garbled = st.garbled
     /\ IsSeq(new.started) /\ Len(new.started) = Len(st.started)
     /\ \A i \in 1..Len(st.started) : i # k => new.started[i] = st.started[i]
     /\ IsParsed(old) => /\ IsParsed(new.started[k]) /\ new.started[k].csid = old.csid
                         /\ new.started[k].length = old.length
                         /\ new.started[k].payload = old.payload \o d
DataOf(st, chunk, k) ==
  TrimPayload(chunk.payload, Least(st.chunkSize, st.started[k].length - Len(st.started[k].payload)))

LEMMA ContinuedIs ==
  ASSUME NEW st, IsDechunk(st), IsSeq(st.started), NEW chunk,
         NEW k \in 1..Len(st.started), st.started[k].csid = chunk.csid,
         \A i \in 1..Len(st.started) : st.started[i].csid = chunk.csid => i <= k
  PROVE  IsContinued(DechunkType3(st, chunk), st, chunk, k, DataOf(st, chunk, k))
<1>. DEFINE starts == {i \in DOMAIN st.started : st.started[i].csid = chunk.csid}
<1>1. DOMAIN st.started = 1..Len(st.started) /\ Len(st.started) \in Nat
  BY SeqLen
<1>2. k \in starts /\ \A i \in starts : i \in Nat /\ i <= k
  BY <1>1
<1>3. (CHOOSE i \in starts : \A j \in starts : j <= i) = k
  <2>1. \E i \in starts : \A j \in starts : j <= i
    BY <1>2
  <2>2. PICK c : c = CHOOSE i \in starts : \A j \in starts : j <= i
    OBVIOUS
  <2>3. c \in starts /\ \A j \in starts : j <= c
    BY <2>1, <2>2
  <2>4. c \in Nat /\ c <= k /\ k <= c /\ k \in Nat
    BY <1>2, <2>3
  <2>. QED  BY <2>2, <2>4
<1>4. starts # {}
  BY <1>2
<1>5. PICK old, d, new : old = st.started[k] /\ d = DataOf(st, chunk, k) /\ new = DechunkType3(st, chunk)
  OBVIOUS
<1>6. new = [st EXCEPT !.started[k].payload = @ \o d, !.rest = After(@, chunk.header + Len(d))]
  <2>1. DechunkType3(st, chunk) =
          LET start == CHOOSE i \in starts : \A j \in starts : j <= i
          IN IF starts = {} THEN [st EXCEPT !.stopped = TRUE]
             ELSE [st EXCEPT !.started[start].payload = @ \o DataOf(st, chunk, start),
                             !.rest = After(@, chunk.header + Len(DataOf(st, chunk, start)))]
    BY DEF DechunkType3, DataOf
  <2>. HIDE DEF starts
  <2>. QED  BY <1>3, <1>4, <1>5, <2>1
<1>. HIDE DEF starts
<1>7. PICK e : e = [old EXCEPT !.payload = @ \o d]
  OBVIOUS
<1>8. PICK s : s = [st.started EXCEPT ![k] = e]
  OBVIOUS
<1>9. new = [st EXCEPT !.started = s, !.rest = After(@, chunk.header + Len(d))]
  BY <1>5, <1>6, <1>7, <1>8
<1>10. /\ IsDechunk(new) /\ new.rest = After(st.rest, chunk.header + Len(d))
       /\ new.retval = st.retval /\ new.chunkSize = st.chunkSize
       /\ new.stopped = st.stopped /\ new.garbled = st.garbled /\ new.started = s
  BY <1>9 DEF IsDechunk, DechunkFields
<1>11. IsSeq(s) /\ Len(s) = Len(st.started) /\ s[k] = e /\ \A i \in 1..Len(st.started) : i # k => s[i] = st.started[i]
  <2>1. PICK q : q = st.started
    OBVIOUS
  <2>2. IsSeq(q) /\ k \in 1..Len(q) /\ s = Changed(q, k, e)
    BY <1>8, <2>1 DEF Changed
  <2>3. IsSeq(s) /\ Len(s) = Len(q) /\ s[k] = e /\ \A i \in 1..Len(q) : i # k => s[i] = q[i]
    BY <2>2, SeqChanged
  <2>. QED  BY <2>1, <2>3
<1>12. IsParsed(old) => /\ IsParsed(e) /\ e.csid = old.csid /\ e.length = old.length
                        /\ e.payload = old.payload \o d
  BY <1>7 DEF IsParsed, ChunkFields
<1>. QED  BY <1>5, <1>10, <1>11, <1>12 DEF IsContinued

LEMMA ContinueTurn ==
  ASSUME NEW chs, NEW ms, NEW is, NEW ids, Cut(chs, ms, is, ids), NEW t \in Nat, t < Len(chs),
         is[t + 1] # 1, NEW said, NEW st, Ready(st, chs, ms, is, t, said)
  PROVE  Ready(DechunkTurn(st), chs, ms, is, t + 1, SaidWith(chs[t + 1], said))
<1>1. PICK m, j, data, rest, size, n : /\ m = ms[t + 1] /\ j = is[t + 1] /\ data = Rest(chs, t) /\ rest = Rest(chs, t + 1)
                                       /\ size = st.chunkSize /\ n = Len(chs)
  OBVIOUS
<1>2. /\ t + 1 \in 1..n /\ IsMsg(m, ids) /\ j \in 1..Count(m) /\ chs[t + 1] = PieceRec(m, j)
      /\ IsSeq(rest) /\ Joins(data, PieceOf(m, j), rest)
      /\ t + 1 < n => Follows(m, j, ms[t + 2], is[t + 2])
  BY <1>1, HeadPiece
<1>3. /\ IsSeq(m.payload) /\ Len(m.payload) \in Nat \ {0} /\ m.size \in Nat \ {0}
      /\ SizeAfter(m) \in Nat \ {0}
  BY <1>2, MsgFacts, SizesAre
<1>4. Count(m) \in Nat \ {0} /\ (m.type \in Controls => Count(m) = 1)
  BY <1>2, CountFacts
<1>5. j # 1 /\ j > 1 /\ Count(m) # 1 /\ m.type # PROTOSETCHUNKSIZE
  BY <1>1, <1>2, <1>4 DEF Controls
<1>6. /\ IsDechunk(st) /\ st.rest = data /\ IsSeq(st.started) /\ st.retval = said
      /\ st.stopped = FALSE /\ st.garbled = FALSE
      /\ size = m.size /\ UnderWay(st.started, m, j)
  BY <1>1, <1>5 DEF Ready
<1>7. PICK h, d, chunk : h = HeadOf(m, j) /\ d = PieceData(m, j) /\ chunk = ParseChunk(data, size)
  OBVIOUS
<1>8. /\ h \in Nat \ {0} /\ IsSeq(data) /\ data # <<>>
      /\ Len(data) = h + Len(d) + Len(rest)
      /\ \A i \in 1..Len(d) : data[h + i] = d[i]
      /\ HeaderReads(data)
      /\ chunk.fmt = FmtOf(m, j) /\ chunk.csid = m.csid /\ chunk.header = h
      /\ chunk.payload = SubSeq(data, h + 1, Least(h + size, Len(data)))
      /\ After(data, h + Len(d)) = rest
  <2>1. IsPieceRead(m, j, rest, data, size, h, d, chunk)
    BY <1>2, <1>7, PieceRead
  <2>. QED  BY <2>1 DEF IsPieceRead
<1>9. PICK a : a = (j - 1) * m.size
  OBVIOUS
<1>10. /\ IsSeq(d) /\ Len(d) \in Nat \ {0} /\ Len(d) <= m.size /\ a \in Nat
       /\ Len(d) = Least(m.size, Len(m.payload) - a)
       /\ j < Count(m) => Len(d) = m.size /\ j * m.size = a + m.size
  BY <1>2, <1>7, <1>9, PieceDataFacts
<1>11. PICK k, old : k = Len(st.started) /\ old = st.started[k]
  OBVIOUS
<1>12. /\ k \in 1..k /\ IsParsed(old) /\ old.csid = m.csid /\ old.length = Len(m.payload)
       /\ IsSeq(old.payload) /\ Len(old.payload) = a
  <2>1. k \in Nat /\ k # 0
    BY <1>6, <1>11, SeqLen DEF UnderWay
  <2>. QED  BY <1>6, <1>9, <1>11, <2>1 DEF UnderWay
<1>13. DataOf(st, chunk, k) = d
  <2>1. Len(rest) \in Nat
    BY <1>2, SeqLen
  <2>2. h + Len(d) <= Len(data)
    BY <1>8, <1>10, <2>1
  <2>3. IsSeq(data) /\ h \in Nat /\ IsSeq(d) /\ size \in Nat /\ Len(d) <= size
    BY <1>3, <1>6, <1>8, <1>10
  <2>4. \A i \in 1..Len(d) : data[h + i] = d[i]
    BY <1>8
  <2>5. TrimPayload(SubSeq(data, h + 1, Least(h + size, Len(data))), Len(d)) = d
    BY <2>2, <2>3, <2>4, TrimmedIs
  <2>6. Least(st.chunkSize, st.started[k].length - Len(st.started[k].payload)) = Len(d)
    BY <1>1, <1>6, <1>10, <1>11, <1>12
  <2>. QED  BY <1>8, <2>5, <2>6 DEF DataOf
<1>14. DechunkTurn(st) = DechunkType3(st, chunk)
  <2>1. HeaderReads(st.rest) /\ st.rest # <<>> /\ chunk = ParseChunk(st.rest, st.chunkSize)
    BY <1>1, <1>6, <1>7, <1>8
  <2>2. chunk.fmt = 3
    BY <1>5, <1>8 DEF FmtOf
  <2>. QED  BY <1>6, <2>1, <2>2, TurnIs
<1>15. PICK new : new = DechunkTurn(st)
  OBVIOUS
<1>16. IsContinued(new, st, chunk, k, d)
  <2>1. IsDechunk(st) /\ IsSeq(st.started) /\ k \in 1..Len(st.started) /\ st.started[k].csid = chunk.csid
    BY <1>6, <1>8, <1>11, <1>12
  <2>2. \A i \in 1..Len(st.started) : st.started[i].csid = chunk.csid => i <= k
    BY <1>11, <1>12
  <2>3. IsContinued(DechunkType3(st, chunk), st, chunk, k, DataOf(st, chunk, k))
    BY <2>1, <2>2, ContinuedIs
  <2>. QED  BY <1>13, <1>14, <1>15, <2>3
<1>17. /\ IsDechunk(new) /\ new.rest = rest /\ new.retval = said /\ new.chunkSize = size
       /\ new.stopped = FALSE /\ new.garbled = FALSE
       /\ IsSeq(new.started) /\ Len(new.started) = k
       /\ IsParsed(new.started[k]) /\ new.started[k].csid = m.csid
       /\ new.started[k].length = Len(m.payload) /\ new.started[k].payload = old.payload \o d
  BY <1>1, <1>6, <1>8, <1>11, <1>12, <1>16 DEF IsContinued
<1>18. SaidWith(chs[t + 1], said) = said
  <2>1. chs[t + 1].first = (j = 1)
    BY <1>2, RecFields
  <2>. QED  BY <1>5, <2>1 DEF SaidWith, InOneChunk
<1>19. (t + 1) + 1 = t + 2
  OBVIOUS
<1>20. CASE j < Count(m)
  <2>1. t + 1 < n => ms[t + 2] = m /\ is[t + 2] = j + 1
    BY <1>2, <1>20 DEF Follows
  <2>2. UnderWay(new.started, m, j + 1)
    <3>1. IsSeq(old.payload \o d) /\ Len(old.payload \o d) = Len(old.payload) + Len(d)
      BY <1>10, <1>12, SeqConcat
    <3>2. (j + 1) - 1 = j
      BY <1>2, <1>4
    <3>3. new.started # <<>>
      BY <1>12, <1>17, SeqEmpty
    <3>4. Len(new.started[k].payload) = j * m.size
      BY <1>10, <1>12, <1>17, <1>20, <3>1
    <3>. QED  BY <1>17, <3>1, <3>2, <3>3, <3>4 DEF UnderWay
  <2>. QED  BY <1>1, <1>3, <1>5, <1>6, <1>15, <1>17, <1>18, <1>19, <2>1, <2>2 DEF Ready
<1>21. CASE ~(j < Count(m))
  <2>1. j = Count(m)
    BY <1>2, <1>4, <1>21
  <2>2. t + 1 < n => is[t + 2] = 1 /\ ms[t + 2].size = SizeAfter(m)
    BY <1>2, <1>21, <2>1 DEF Follows
  <2>3. SizeAfter(m) = m.size
    BY <1>5 DEF SizeAfter
  <2>. QED  BY <1>1, <1>3, <1>6, <1>15, <1>17, <1>18, <1>19, <2>2, <2>3 DEF Ready
<1>. QED  BY <1>20, <1>21

\* Every chunk has a byte at least.
LEMMA RestLong ==
  ASSUME NEW chs, NEW ms, NEW is, NEW ids, Cut(chs, ms, is, ids)
  PROVE  IsSeq(Rest(chs, 0)) /\ Len(Rest(chs, 0)) \in Nat /\ Len(chs) <= Len(Rest(chs, 0))
<1>. DEFINE all == Len(Rest(chs, 0))
            S == {t \in Nat : t <= Len(chs) => Len(Rest(chs, t)) + t <= all}
<1>1. AllCells(chs) /\ Len(chs) \in Nat
  BY CutCells
<1>2. \A t \in Nat : t <= Len(chs) => IsSeq(Rest(chs, t)) /\ Len(Rest(chs, t)) \in Nat
  BY <1>1, RestFacts, SeqLen
<1>3. all \in Nat
  BY <1>1, <1>2
<1>4. 0 \in S
  BY <1>3
<1>5. ASSUME NEW t \in Nat, t \in S PROVE t + 1 \in S
  <2>1. SUFFICES ASSUME t + 1 <= Len(chs) PROVE Len(Rest(chs, t + 1)) + (t + 1) <= all
    OBVIOUS
  <2>2. t < Len(chs) /\ Len(Rest(chs, t)) + t <= all
    BY <1>1, <1>5, <2>1
  <2>. HIDE DEF all, S
  <2>3. PICK p, a, b : p = PieceOf(ms[t + 1], is[t + 1]) /\ a = Rest(chs, t) /\ b = Rest(chs, t + 1)
    OBVIOUS
  <2>4. IsSeq(p) /\ Len(p) \in Nat \ {0}
    <3>1. IsMsg(ms[t + 1], ids) /\ is[t + 1] \in 1..Count(ms[t + 1])
      BY <2>2, HeadPiece
    <3>. QED  BY <2>3, <3>1, PieceIsSeq
  <2>5. a = p \o b /\ IsSeq(b)
    BY <2>2, <2>3, HeadPiece DEF Joins
  <2>6. Len(p \o b) = Len(p) + Len(b)
    BY <2>4, <2>5, SeqConcat
  <2>7. Len(b) \in Nat
    BY <2>5, SeqLen
  <2>. QED  BY <1>3, <2>2, <2>3, <2>4, <2>5, <2>6, <2>7
<1>. HIDE DEF S
<1>6. \A t \in Nat : t \in S
  BY <1>4, <1>5, SetInduction
<1>7. Len(chs) \in S
  BY <1>1, <1>6
<1>8. Len(Rest(chs, Len(chs))) \in Nat
  BY <1>1, <1>2
<1>9. Len(Rest(chs, Len(chs))) + Len(chs) <= all
  BY <1>1, <1>7 DEF S
<1>10. IsSeq(Rest(chs, 0))
  BY <1>1, <1>2
<1>. QED  BY <1>1, <1>3, <1>8, <1>9, <1>10

\* The parser behind t chunks of a read: one of them was not taken, or it is ready for
\* the next.
Reading(st, chs, ms, is, t, said) ==
  IF \E i \in 1..t : Throws(chs[i]) THEN st.garbled = TRUE ELSE Ready(st, chs, ms, is, t, said)

LEMMA ReadTurn ==
  ASSUME NEW chs, NEW ms, NEW is, NEW ids, Cut(chs, ms, is, ids), NEW t \in Nat, t < Len(chs),
         NEW said, NEW st, Reading(st, chs, ms, is, t, said)
  PROVE  Reading(DechunkTurn(st), chs, ms, is, t + 1, SaidWith(chs[t + 1], said))
<1>1. (\E i \in 1..(t + 1) : Throws(chs[i])) <=> (\E i \in 1..t : Throws(chs[i])) \/ Throws(chs[t + 1])
  <2>1. 1..(t + 1) = 1..t \union {t + 1}
    OBVIOUS
  <2>. QED  BY <2>1
<1>2. CASE \E i \in 1..t : Throws(chs[i])
  <2>1. st.garbled = TRUE
    BY <1>2 DEF Reading
  <2>2. DechunkTurn(st) = st
    BY <2>1 DEF DechunkTurn
  <2>. QED  BY <1>1, <1>2, <2>1, <2>2 DEF Reading
<1>3. CASE ~(\E i \in 1..t : Throws(chs[i]))
  <2>1. Ready(st, chs, ms, is, t, said)
    BY <1>3 DEF Reading
  <2>2. CASE is[t + 1] = 1
    <3>1. IF Throws(chs[t + 1]) THEN DechunkTurn(st).garbled = TRUE
          ELSE Ready(DechunkTurn(st), chs, ms, is, t + 1, SaidWith(chs[t + 1], said))
      BY <2>1, <2>2, StartTurn
    <3>. QED  BY <1>1, <1>3, <3>1 DEF Reading
  <2>3. CASE is[t + 1] # 1
    <3>1. Ready(DechunkTurn(st), chs, ms, is, t + 1, SaidWith(chs[t + 1], said))
      BY <2>1, <2>3, ContinueTurn
    <3>2. ~Throws(chs[t + 1])
      <4>1. chs[t + 1] = PieceRec(ms[t + 1], is[t + 1])
        BY HeadPiece
      <4>2. chs[t + 1].first = (is[t + 1] = 1)
        BY <4>1, RecFields
      <4>. QED  BY <2>3, <4>2 DEF Throws, InOneChunk
    <3>. QED  BY <1>1, <1>3, <3>1, <3>2 DEF Reading
  <2>. QED  BY <2>2, <2>3
<1>. QED  BY <1>2, <1>3

\* Bytes that begin with a message, read with its size: each chunk is parsed for what
\* it is, up to one that is not taken.
LEMMA ReadAligned ==
  ASSUME NEW chs, NEW ms, NEW is, NEW ids, Cut(chs, ms, is, ids), Len(chs) # 0, is[1] = 1,
         NEW size \in Nat \ {0}, ms[1].type # PROTOSETCHUNKSIZE => size = ms[1].size
  PROVE  LET parsed == ChunkProcessorTryParse(Rest(chs, 0), size)
         IN IF \E i \in DOMAIN chs : Throws(chs[i]) THEN parsed.garbled = TRUE
            ELSE parsed.garbled = FALSE /\ parsed.retval = SaidInOneChunk(chs)
<1>1. PICK n, data, len : n = Len(chs) /\ data = Rest(chs, 0) /\ len = Len(data)
  OBVIOUS
<1>2. n \in Nat \ {0} /\ len \in Nat /\ n <= len /\ AllCells(chs)
  BY <1>1, CutCells, RestLong
<1>3. PICK f : DechunkOf(f, data, size, len) /\ ChunkProcessorTryParse(data, size) = f[len]
  BY <1>1, <1>2, DechunkIs
<1>4. PICK g : SaidOf(g, chs, n) /\ SaidInOneChunk(chs) = g[n]
  BY <1>1, <1>2, SaidIs
<1>5. \A t \in 0..len : f[t] = IF t = 0 THEN Dechunking(data, size) ELSE DechunkTurn(f[t - 1])
  BY <1>3, DechunkAt
<1>6. \A t \in 0..n : g[t] = IF t = 0 THEN <<>> ELSE SaidWith(chs[t], g[t - 1])
  BY <1>4, SaidAt
<1>. DEFINE S == {t \in Nat : t <= len => IF t <= n THEN Reading(f[t], chs, ms, is, t, g[t])
                                          ELSE Reading(f[t], chs, ms, is, n, g[n])}
<1>7. 0 \in S
  <2>1. f[0] = Dechunking(data, size) /\ g[0] = <<>>
    <3>1. 0 \in 0..len /\ 0 \in 0..n
      BY <1>2
    <3>. QED  BY <1>5, <1>6, <3>1
  <2>2. PICK st : st = Dechunking(data, size)
    OBVIOUS
  <2>3. /\ IsDechunk(st) /\ st.rest = data /\ st.started = <<>> /\ st.retval = <<>>
        /\ st.chunkSize = size /\ st.stopped = FALSE /\ st.garbled = FALSE
    <3>1. IsFirst(st, data, size)
      BY <2>2, FirstDechunk
    <3>. QED  BY <3>1 DEF IsFirst
  <2>4. 0 + 1 = 1
    OBVIOUS
  <2>5. Ready(st, chs, ms, is, 0, <<>>)
    BY <1>1, <2>3, <2>4, SeqEmpty DEF Ready
  <2>6. Reading(st, chs, ms, is, 0, <<>>)
    BY <2>5 DEF Reading
  <2>. QED  BY <1>2, <2>1, <2>2, <2>6
<1>8. ASSUME NEW t \in Nat, t \in S PROVE t + 1 \in S
  <2>1. SUFFICES ASSUME t + 1 <= len
                 PROVE IF t + 1 <= n THEN Reading(f[t + 1], chs, ms, is, t + 1, g[t + 1])
                       ELSE Reading(f[t + 1], chs, ms, is, n, g[n])
    OBVIOUS
  <2>2. IF t <= n THEN Reading(f[t], chs, ms, is, t, g[t]) ELSE Reading(f[t], chs, ms, is, n, g[n])
    BY <1>2, <1>8, <2>1
  <2>. HIDE DEF S
  <2>3. PICK u : u = t + 1
    OBVIOUS
  <2>4. u \in 0..len /\ u # 0 /\ u - 1 = t
    BY <1>2, <2>1, <2>3
  <2>5. f[u] = DechunkTurn(f[t])
    BY <1>5, <2>4
  <2>6. CASE u <= n
    <3>1. u \in 0..n /\ t < Len(chs) /\ t <= n
      BY <1>1, <1>2, <2>3, <2>6
    <3>2. Reading(f[t], chs, ms, is, t, g[t])
      BY <2>2, <3>1
    <3>3. g[u] = SaidWith(chs[t + 1], g[t])
      BY <1>6, <2>3, <2>4, <3>1
    <3>4. PICK st, said : st = f[t] /\ said = g[t]
      OBVIOUS
    <3>5. Reading(DechunkTurn(st), chs, ms, is, t + 1, SaidWith(chs[t + 1], said))
      BY <3>1, <3>2, <3>4, ReadTurn
    <3>. QED  BY <2>3, <2>5, <2>6, <3>3, <3>4, <3>5
  <2>7. CASE ~(u <= n)
    <3>1. t >= n
      BY <1>2, <2>3, <2>7
    <3>2. Reading(f[t], chs, ms, is, n, g[n])
      <4>1. CASE t <= n
        <5>1. t = n
          BY <1>2, <3>1, <4>1
        <5>. QED  BY <2>2, <4>1, <5>1
      <4>2. CASE ~(t <= n)
        BY <2>2, <4>2
      <4>. QED  BY <4>1, <4>2
    <3>3. f[t].rest = <<>> \/ f[t].garbled = TRUE
      BY <1>1, <1>2, <3>2, RestFacts DEF Ready, Reading
    <3>4. f[u] = f[t]
      BY <2>5, <3>3 DEF DechunkTurn
    <3>. QED  BY <2>3, <2>7, <3>2, <3>4
  <2>. QED  BY <2>3, <2>6, <2>7
<1>. HIDE DEF S
<1>9. \A t \in Nat : t \in S
  BY <1>7, <1>8, SetInduction
<1>10. Reading(f[len], chs, ms, is, n, g[n])
  <2>1. IF len <= n THEN Reading(f[len], chs, ms, is, len, g[len]) ELSE Reading(f[len], chs, ms, is, n, g[n])
    BY <1>2, <1>9 DEF S
  <2>2. len <= n => len = n
    BY <1>2
  <2>. QED  BY <2>1, <2>2
<1>11. DOMAIN chs = 1..n
  BY <1>1, CutCells, SeqLen
<1>. QED  BY <1>1, <1>3, <1>4, <1>10, <1>11 DEF Ready, Reading

\* Bytes that begin inside a message: nothing is started that they could continue.
LEMMA ReadInside ==
  ASSUME NEW chs, NEW ms, NEW is, NEW ids, Cut(chs, ms, is, ids), Len(chs) # 0, is[1] # 1,
         NEW size
  PROVE  LET parsed == ChunkProcessorTryParse(Rest(chs, 0), size)
         IN parsed.garbled = FALSE /\ parsed.retval = <<>>
<1>1. PICK n, data, len : n = Len(chs) /\ data = Rest(chs, 0) /\ len = Len(data)
  OBVIOUS
<1>2. n \in Nat \ {0} /\ len \in Nat /\ n <= len
  BY <1>1, CutCells, RestLong
<1>3. PICK f : DechunkOf(f, data, size, len) /\ ChunkProcessorTryParse(data, size) = f[len]
  BY <1>1, <1>2, DechunkIs
<1>4. \A t \in 0..len : f[t] = IF t = 0 THEN Dechunking(data, size) ELSE DechunkTurn(f[t - 1])
  BY <1>3, DechunkAt
<1>5. PICK st : st = Dechunking(data, size)
  OBVIOUS
<1>6. /\ IsDechunk(st) /\ st.rest = data /\ st.started = <<>> /\ st.retval = <<>>
      /\ st.chunkSize = size /\ st.stopped = FALSE /\ st.garbled = FALSE
  <2>1. IsFirst(st, data, size)
    BY <1>5, FirstDechunk
  <2>. QED  BY <2>1 DEF IsFirst
<1>7. PICK m, j, rest, chunk : m = ms[1] /\ j = is[1] /\ rest = Rest(chs, 1) /\ chunk = ParseChunk(data, size)
  OBVIOUS
<1>8. IsMsg(m, ids) /\ j \in 1..Count(m) /\ IsSeq(rest) /\ Joins(data, PieceOf(m, j), rest)
  <2>1. 0 \in Nat /\ 0 < Len(chs) /\ 0 + 1 = 1
    BY <1>1, <1>2
  <2>. QED  BY <1>1, <1>7, <2>1, HeadPiece
<1>9. data # <<>> /\ HeaderReads(data) /\ chunk.fmt = 3
  <2>1. IsPieceRead(m, j, rest, data, size, HeadOf(m, j), PieceData(m, j), chunk)
    BY <1>7, <1>8, PieceRead
  <2>. QED  BY <1>7, <2>1 DEF IsPieceRead, FmtOf
<1>10. DechunkTurn(st) = [st EXCEPT !.stopped = TRUE]
  <2>1. DechunkTurn(st) = DechunkType3(st, chunk)
    BY <1>6, <1>7, <1>9, TurnIs
  <2>2. {i \in DOMAIN st.started : st.started[i].csid = chunk.csid} = {}
    BY <1>6
  <2>. QED  BY <2>1, <2>2 DEF DechunkType3
<1>11. PICK new : new = DechunkTurn(st)
  OBVIOUS
<1>12. new.stopped = TRUE /\ new.garbled = FALSE /\ new.retval = <<>>
  BY <1>6, <1>10, <1>11 DEF IsDechunk, DechunkFields
<1>. DEFINE S == {t \in Nat : t + 1 <= len => f[t + 1] = new}
<1>13. 0 \in S
  <2>1. 0 \in 0..len /\ 0 + 1 \in 0..len /\ 0 + 1 # 0 /\ (0 + 1) - 1 = 0
    BY <1>2
  <2>2. f[0] = st
    BY <1>4, <1>5, <2>1
  <2>3. f[0 + 1] = DechunkTurn(f[0])
    BY <1>4, <2>1
  <2>. QED  BY <1>11, <2>2, <2>3
<1>14. ASSUME NEW t \in Nat, t \in S PROVE t + 1 \in S
  <2>1. SUFFICES ASSUME (t + 1) + 1 <= len PROVE f[(t + 1) + 1] = new
    OBVIOUS
  <2>2. f[t + 1] = new
    BY <1>2, <1>14, <2>1
  <2>. HIDE DEF S
  <2>3. PICK u : u = (t + 1) + 1
    OBVIOUS
  <2>4. u \in 0..len /\ u # 0 /\ u - 1 = t + 1
    BY <1>2, <2>1, <2>3
  <2>5. f[u] = DechunkTurn(f[t + 1])
    BY <1>4, <2>4
  <2>6. DechunkTurn(new) = new
    BY <1>12 DEF DechunkTurn
  <2>. QED  BY <2>2, <2>3, <2>5, <2>6
<1>. HIDE DEF S
<1>15. \A t \in Nat : t \in S
  BY <1>13, <1>14, SetInduction
<1>16. f[len] = new
  <2>1. len - 1 \in Nat /\ (len - 1) + 1 = len
    BY <1>2
  <2>. QED  BY <1>15, <2>1 DEF S
<1>. QED  BY <1>1, <1>3, <1>12, <1>16

----------------------------------------------------------------------------
(* What a receive function does with the messages of a read.                    *)

LEMMA HandleNone == ASSUME NEW function, NEW st PROVE HandleAll(function, st, <<>>) = st
<1>1. PICK e : e = <<>>
  OBVIOUS
<1>2. Len(e) = 0
  BY <1>1, SeqEmpty
<1>3. PICK f : HandledOf(f, function, st, e, 0) /\ HandleAll(function, st, e) = f[0]
  BY <1>2, HandledIs
<1>4. f[0] = st
  <2>1. 0 \in 0..0
    OBVIOUS
  <2>. QED  BY <1>3, <2>1, HandledAt
<1>. QED  BY <1>1, <1>3, <1>4

LEMMA HandleOneMore ==
  ASSUME NEW function, NEW st, NEW messages, IsSeq(messages), NEW v
  PROVE  HandleAll(function, st, Append(messages, v)) = Handle(function, HandleAll(function, st, messages), v)
<1>1. PICK n, more : n = Len(messages) /\ more = Append(messages, v)
  OBVIOUS
<1>2. /\ n \in Nat /\ Len(more) = n + 1 /\ more[n + 1] = v
      /\ \A i \in 1..n : more[i] = messages[i]
  BY <1>1, SeqLen, SeqAppend
<1>3. PICK f : HandledOf(f, function, st, messages, n) /\ HandleAll(function, st, messages) = f[n]
  BY <1>1, <1>2, HandledIs
<1>4. PICK m : m = n + 1
  OBVIOUS
<1>5. PICK h : HandledOf(h, function, st, more, m) /\ HandleAll(function, st, more) = h[m]
  BY <1>2, <1>4, HandledIs
<1>6. \A i \in 0..n : f[i] = IF i = 0 THEN st ELSE Handle(function, f[i - 1], messages[i])
  BY <1>3, HandledAt
<1>7. \A i \in 0..m : h[i] = IF i = 0 THEN st ELSE Handle(function, h[i - 1], more[i])
  BY <1>5, HandledAt
<1>. DEFINE S == {i \in Nat : i <= n => h[i] = f[i]}
<1>8. 0 \in S
  <2>1. 0 \in 0..n /\ 0 \in 0..m
    BY <1>2, <1>4
  <2>. QED  BY <1>6, <1>7, <2>1
<1>9. ASSUME NEW i \in Nat, i \in S PROVE i + 1 \in S
  <2>1. SUFFICES ASSUME i + 1 <= n PROVE h[i + 1] = f[i + 1]
    OBVIOUS
  <2>2. h[i] = f[i]
    BY <1>2, <1>9, <2>1
  <2>. HIDE DEF S
  <2>3. PICK k : k = i + 1
    OBVIOUS
  <2>4. k \in 0..n /\ k \in 0..m /\ k \in 1..n /\ k # 0 /\ k - 1 = i
    BY <1>2, <1>4, <2>1, <2>3
  <2>5. f[k] = Handle(function, f[i], messages[k])
    BY <1>6, <2>4
  <2>6. h[k] = Handle(function, h[i], more[k])
    BY <1>7, <2>4
  <2>7. more[k] = messages[k]
    BY <1>2, <2>4
  <2>. QED  BY <2>2, <2>3, <2>5, <2>6, <2>7
<1>. HIDE DEF S
<1>10. \A i \in Nat : i \in S
  BY <1>8, <1>9, SetInduction
<1>11. h[n] = f[n]
  BY <1>2, <1>10 DEF S
<1>12. m \in 0..m /\ m # 0 /\ m - 1 = n
  BY <1>2, <1>4
<1>13. h[m] = Handle(function, h[n], more[m])
  BY <1>7, <1>12
<1>. QED  BY <1>1, <1>2, <1>3, <1>4, <1>5, <1>11, <1>13

\* What a function has in its hands while it goes through the messages.
DoneFields == {"serverChunkSize", "streamID", "throws"}
IsDone(st) == DOMAIN st = DoneFields /\ st = [f \in DoneFields |-> st[f]] /\ st.throws \in BOOLEAN
IsStreamID(function, message, id) ==
  /\ function = "createStream" /\ IsNamed(message, "_result")
  /\ CreatedStream(message)[1] = "Number" /\ id = CreatedStream(message)[2] \div Double(1)
IsHandled(new, function, st, message) ==
  /\ IsDone(new)
  /\ st.throws => new.throws
  /\ \/ new.serverChunkSize = st.serverChunkSize
     \/ RemembersSize(function, message) /\ new.serverChunkSize = message.body
  /\ ~st.throws /\ RemembersSize(function, message) => new.serverChunkSize = message.body
  /\ \/ new.streamID = st.streamID
     \/ IsStreamID(function, message, new.streamID)

LEMMA HandleIs ==
  ASSUME NEW function, NEW st, IsDone(st), NEW message
  PROVE  IsHandled(Handle(function, st, message), function, st, message)
<1>1. PICK new : new = Handle(function, st, message)
  OBVIOUS
<1>2. CASE st.throws
  <2>1. new = st
    BY <1>1, <1>2 DEF Handle
  <2>. QED  BY <1>1, <1>2, <2>1 DEF IsHandled
<1>3. CASE ~st.throws /\ RemembersSize(function, message)
  <2>1. new = [st EXCEPT !.serverChunkSize = message.body]
    BY <1>1, <1>3 DEF Handle
  <2>2. new.serverChunkSize = message.body /\ new.streamID = st.streamID /\ IsDone(new)
    BY <2>1 DEF IsDone, DoneFields
  <2>. QED  BY <1>1, <1>3, <2>2 DEF IsHandled
<1>4. CASE ~st.throws /\ ~RemembersSize(function, message)
  <2>1. CASE new = [st EXCEPT !.throws = TRUE]
    <3>1. new.serverChunkSize = st.serverChunkSize /\ new.streamID = st.streamID /\ IsDone(new)
      BY <2>1 DEF IsDone, DoneFields
    <3>. QED  BY <1>1, <1>4, <3>1 DEF IsHandled
  <2>2. CASE new = st
    BY <1>1, <1>4, <2>2 DEF IsHandled
  <2>3. CASE /\ function = "createStream" /\ IsNamed(message, "_result")
             /\ CreatedStream(message)[1] = "Number"
             /\ new = [st EXCEPT !.streamID = CreatedStream(message)[2] \div Double(1)]
    <3>1. PICK id : id = CreatedStream(message)[2] \div Double(1)
      OBVIOUS
    <3>2. new = [st EXCEPT !.streamID = id]
      BY <2>3, <3>1
    <3>3. new.serverChunkSize = st.serverChunkSize /\ new.streamID = id /\ IsDone(new)
      BY <3>2 DEF IsDone, DoneFields
    <3>4. IsStreamID(function, message, id)
      BY <2>3, <3>1 DEF IsStreamID
    <3>. QED  BY <1>1, <1>4, <3>3, <3>4 DEF IsHandled
  <2>4. \/ new = [st EXCEPT !.throws = TRUE]
        \/ new = st
        \/ /\ function = "createStream" /\ IsNamed(message, "_result")
           /\ CreatedStream(message)[1] = "Number"
           /\ new = [st EXCEPT !.streamID = CreatedStream(message)[2] \div Double(1)]
    BY <1>1, <1>4, Zenon DEF Handle
  <2>. QED  BY <2>1, <2>2, <2>3, <2>4
<1>. QED  BY <1>2, <1>3, <1>4 DEF IsDone

\* The size remembered after a whole read that was parsed right is the one that the next
\* chunk is cut with.
LEMMA SaidOneMore ==
  ASSUME NEW chs, NEW ms, NEW is, NEW ids, Cut(chs, ms, is, ids), NEW t \in Nat, t < Len(chs)
  PROVE  \A said : \/ SaidWith(chs[t + 1], said) = said /\ ms[t + 1].type # PROTOSETCHUNKSIZE
                   \/ SaidWith(chs[t + 1], said) = Append(said, SaysOf(ms[t + 1]))
<1>1. TAKE said
<1>2. PICK m, j, c : m = ms[t + 1] /\ j = is[t + 1] /\ c = chs[t + 1]
  OBVIOUS
<1>3. IsMsg(m, ids) /\ j \in 1..Count(m) /\ c = PieceRec(m, j)
  BY <1>2, HeadPiece
<1>4. c.first = (j = 1) /\ c.last = (j = Count(m)) /\ c.says = SaysOf(m)
  BY <1>3, RecFields
<1>5. CASE InOneChunk(c)
  BY <1>2, <1>4, <1>5 DEF SaidWith
<1>6. CASE ~InOneChunk(c)
  <2>1. ~(j = 1 /\ j = Count(m))
    BY <1>4, <1>6 DEF InOneChunk
  <2>2. m.type \in Controls => Count(m) = 1
    BY <1>3, CountFacts
  <2>3. m.type # PROTOSETCHUNKSIZE
    BY <1>3, <2>1, <2>2 DEF Controls
  <2>. QED  BY <1>2, <1>6, <2>3 DEF SaidWith
<1>. QED  BY <1>5, <1>6

NextSize(st, chs, ms, t) ==
  \/ st.throws
  \/ /\ t # 0 => st.serverChunkSize = SizeAfter(ms[t])
     /\ t < Len(chs) /\ ms[t + 1].type # PROTOSETCHUNKSIZE => st.serverChunkSize = ms[t + 1].size

LEMMA SizeRemembered ==
  ASSUME NEW chs, NEW ms, NEW is, NEW ids, Cut(chs, ms, is, ids), Len(chs) # 0,
         NEW st, IsDone(st), ms[1].type # PROTOSETCHUNKSIZE => st.serverChunkSize = ms[1].size,
         NEW function, function = "connect"
  PROVE  LET done == HandleAll(function, st, SaidInOneChunk(chs))
         IN done.throws \/ done.serverChunkSize = SizeAfter(ms[Len(chs)])
<1>1. PICK n : n = Len(chs)
  OBVIOUS
<1>2. n \in Nat \ {0}
  BY <1>1, CutCells
<1>3. PICK g : SaidOf(g, chs, n) /\ SaidInOneChunk(chs) = g[n]
  BY <1>1, <1>2, SaidIs
<1>4. \A t \in 0..n : g[t] = IF t = 0 THEN <<>> ELSE SaidWith(chs[t], g[t - 1])
  BY <1>3, SaidAt
<1>. DEFINE S == {t \in Nat : t <= n => /\ IsSeq(g[t]) /\ IsDone(HandleAll(function, st, g[t]))
                                       /\ NextSize(HandleAll(function, st, g[t]), chs, ms, t)}
<1>5. 0 \in S
  <2>1. 0 \in 0..n /\ 0 + 1 = 1
    BY <1>2
  <2>2. g[0] = <<>>
    BY <1>4, <2>1
  <2>3. PICK e : e = <<>>
    OBVIOUS
  <2>4. IsSeq(e) /\ HandleAll(function, st, e) = st
    BY <2>3, SeqEmpty, HandleNone
  <2>5. NextSize(st, chs, ms, 0)
    BY <2>1 DEF NextSize
  <2>. QED  BY <2>2, <2>3, <2>4, <2>5
<1>6. ASSUME NEW t \in Nat, t \in S PROVE t + 1 \in S
  <2>1. SUFFICES ASSUME t + 1 <= n
                 PROVE /\ IsSeq(g[t + 1]) /\ IsDone(HandleAll(function, st, g[t + 1]))
                       /\ NextSize(HandleAll(function, st, g[t + 1]), chs, ms, t + 1)
    OBVIOUS
  <2>2. /\ IsSeq(g[t]) /\ IsDone(HandleAll(function, st, g[t]))
        /\ NextSize(HandleAll(function, st, g[t]), chs, ms, t)
    BY <1>2, <1>6, <2>1
  <2>. HIDE DEF S
  <2>3. PICK u, m, old, said, v : /\ u = t + 1 /\ m = ms[u] /\ said = g[t]
                                  /\ old = HandleAll(function, st, said) /\ v = SaysOf(m)
    OBVIOUS
  <2>4. u \in 0..n /\ u # 0 /\ u - 1 = t /\ t < Len(chs)
    BY <1>1, <1>2, <2>1, <2>3
  <2>5. g[u] = SaidWith(chs[u], said)
    BY <1>4, <2>3, <2>4
  <2>6. (SaidWith(chs[u], said) = said /\ m.type # PROTOSETCHUNKSIZE) \/ SaidWith(chs[u], said) = Append(said, v)
    <3>1. \/ SaidWith(chs[t + 1], said) = said /\ ms[t + 1].type # PROTOSETCHUNKSIZE
          \/ SaidWith(chs[t + 1], said) = Append(said, SaysOf(ms[t + 1]))
      BY <2>4, SaidOneMore
    <3>. QED  BY <2>3, <3>1, Zenon
  <2>7. IsSeq(said) /\ IsDone(old) /\ NextSize(old, chs, ms, t)
    BY <2>2, <2>3
  <2>8. v.type = m.type /\ v.body = m.body
    BY <2>3 DEF SaysOf
  <2>9. u < Len(chs) /\ ms[u + 1].type # PROTOSETCHUNKSIZE => ms[u + 1].size = SizeAfter(m)
    <3>1. HAVE u < Len(chs) /\ ms[u + 1].type # PROTOSETCHUNKSIZE
    <3>2. Follows(m, is[u], ms[u + 1], is[u + 1])
      <4>1. u \in 1..Len(chs) /\ u + 1 <= Len(chs)
        BY <1>1, <1>2, <2>3, <2>4, <3>1
      <4>. QED  BY <2>3, <4>1 DEF Cut
    <3>. QED  BY <3>1, <3>2 DEF Follows, SizeAfter
  <2>10. m.type # PROTOSETCHUNKSIZE => old.throws \/ old.serverChunkSize = SizeAfter(m)
    BY <2>3, <2>4, <2>7 DEF NextSize, SizeAfter
  <2>11. CASE SaidWith(chs[u], said) = said /\ m.type # PROTOSETCHUNKSIZE
    <3>1. NextSize(old, chs, ms, u)
      BY <2>3, <2>9, <2>10, <2>11 DEF NextSize
    <3>. QED  BY <2>3, <2>5, <2>7, <2>11, <3>1
  <2>12. CASE SaidWith(chs[u], said) = Append(said, v)
    <3>1. PICK new : new = Handle(function, old, v)
      OBVIOUS
    <3>2. HandleAll(function, st, g[u]) = new
      BY <2>3, <2>5, <2>7, <2>12, <3>1, HandleOneMore
    <3>3. IsHandled(new, function, old, v)
      BY <2>7, <3>1, HandleIs
    <3>4. RemembersSize(function, v) <=> m.type = PROTOSETCHUNKSIZE
      BY <2>8 DEF RemembersSize
    <3>5. IsSeq(g[u])
      BY <2>5, <2>7, <2>12, SeqAppend
    <3>6. old.throws => new.throws
      BY <3>3 DEF IsHandled
    <3>7. ~old.throws /\ m.type = PROTOSETCHUNKSIZE => new.serverChunkSize = SizeAfter(m)
      BY <2>8, <3>3, <3>4 DEF IsHandled, SizeAfter
    <3>8. m.type # PROTOSETCHUNKSIZE => new.serverChunkSize = old.serverChunkSize
      BY <3>3, <3>4 DEF IsHandled
    <3>9. new.throws \/ new.serverChunkSize = SizeAfter(m)
      BY <2>10, <3>6, <3>7, <3>8
    <3>10. NextSize(new, chs, ms, u)
      BY <2>3, <2>9, <3>9 DEF NextSize
    <3>11. IsDone(new)
      BY <3>3 DEF IsHandled
    <3>. QED  BY <2>3, <3>2, <3>5, <3>10, <3>11
  <2>. QED  BY <2>6, <2>11, <2>12
<1>. HIDE DEF S
<1>7. \A t \in Nat : t \in S
  BY <1>5, <1>6, SetInduction
<1>8. NextSize(HandleAll(function, st, g[n]), chs, ms, n)
  BY <1>2, <1>7 DEF S
<1>. QED  BY <1>1, <1>2, <1>3, <1>8 DEF NextSize

\* What messages of the server leave in the hands of a function, however the read was cut.
IsSaid(v, ids) == \E m : IsMsg(m, ids) /\ v = SaysOf(m)
AllSaid(messages, ids) == IsSeq(messages) /\ \A k \in 1..Len(messages) : IsSaid(messages[k], ids)
HandsHold(st, ids) == IsDone(st) /\ st.serverChunkSize \in Sizes /\ st.streamID \in ids \union {0}

StillHolds(new, function, st, ids) ==
  /\ HandsHold(new, ids) /\ (st.throws => new.throws)
  /\ function # "connect" => new.serverChunkSize = st.serverChunkSize

LEMMA HandleHolds ==
  ASSUME NEW ids, NEW function, NEW st, HandsHold(st, ids), NEW v, IsSaid(v, ids)
  PROVE  StillHolds(Handle(function, st, v), function, st, ids)
<1>1. PICK new : new = Handle(function, st, v)
  OBVIOUS
<1>2. IsHandled(new, function, st, v)
  BY <1>1, HandleIs DEF HandsHold
<1>3. PICK m : IsMsg(m, ids) /\ v = SaysOf(m)
  BY DEF IsSaid
<1>4. v.type = m.type /\ v.body = m.body
  BY <1>3 DEF SaysOf
<1>5. new.serverChunkSize \in Sizes
  <2>1. CASE new.serverChunkSize = st.serverChunkSize
    BY <2>1 DEF HandsHold
  <2>2. CASE RemembersSize(function, v) /\ new.serverChunkSize = v.body
    <3>1. m.type = PROTOSETCHUNKSIZE
      BY <1>4, <2>2 DEF RemembersSize
    <3>2. m.body \in ServerChunkSizes
      BY <1>3, <3>1 DEF IsMsg, COMMANDAMF0, PROTOSETCHUNKSIZE
    <3>. QED  BY <1>4, <2>2, <3>2 DEF Sizes
  <2>. QED  BY <1>2, <2>1, <2>2 DEF IsHandled
<1>6. new.streamID \in ids \union {0}
  <2>1. CASE new.streamID = st.streamID
    BY <2>1 DEF HandsHold
  <2>2. CASE IsStreamID(function, v, new.streamID)
    <3>1. m.type = COMMANDAMF0 /\ m.body[1] = Str("_result")
      BY <1>4, <2>2 DEF IsStreamID, IsNamed
    <3>2. m.type \notin Controls
      BY <3>1, MessageTypes
    <3>3. IsReply(m.body, ids)
      BY <1>3, <3>2 DEF IsMsg
    <3>4. EndsIn(m.body, ids)
      BY <3>3, ReplyTold
    <3>5. PICK e : e = m.body[Len(m.body)]
      OBVIOUS
    <3>6. e[1] = "Number" /\ new.streamID = e[2] \div Double(1)
      BY <1>4, <2>2, <3>5 DEF IsStreamID, CreatedStream
    <3>7. \E id \in ids : e[2] \div Double(1) = id
      BY <3>1, <3>4, <3>5, <3>6 DEF EndsIn
    <3>. QED  BY <3>6, <3>7
  <2>. QED  BY <1>2, <2>1, <2>2 DEF IsHandled
<1>7. function # "connect" => new.serverChunkSize = st.serverChunkSize
  BY <1>2 DEF IsHandled, RemembersSize
<1>. QED  BY <1>1, <1>2, <1>5, <1>6, <1>7 DEF IsHandled, HandsHold, StillHolds

LEMMA AllHold ==
  ASSUME NEW ids, NEW function, NEW st, HandsHold(st, ids), NEW messages, AllSaid(messages, ids)
  PROVE  StillHolds(HandleAll(function, st, messages), function, st, ids)
<1>1. PICK n : n = Len(messages)
  OBVIOUS
<1>2. n \in Nat
  BY <1>1, SeqLen DEF AllSaid
<1>3. PICK f : HandledOf(f, function, st, messages, n) /\ HandleAll(function, st, messages) = f[n]
  BY <1>1, <1>2, HandledIs
<1>4. \A i \in 0..n : f[i] = IF i = 0 THEN st ELSE Handle(function, f[i - 1], messages[i])
  BY <1>3, HandledAt
<1>. DEFINE S == {i \in Nat : i <= n => StillHolds(f[i], function, st, ids)}
<1>5. 0 \in S
  <2>1. 0 \in 0..n
    BY <1>2
  <2>2. f[0] = st
    BY <1>4, <2>1
  <2>. QED  BY <2>2 DEF StillHolds
<1>6. ASSUME NEW i \in Nat, i \in S PROVE i + 1 \in S
  <2>1. SUFFICES ASSUME i + 1 <= n PROVE StillHolds(f[i + 1], function, st, ids)
    OBVIOUS
  <2>2. StillHolds(f[i], function, st, ids)
    BY <1>2, <1>6, <2>1
  <2>. HIDE DEF S
  <2>3. PICK k, old, v : k = i + 1 /\ old = f[i] /\ v = messages[k]
    OBVIOUS
  <2>4. k \in 0..n /\ k \in 1..n /\ k # 0 /\ k - 1 = i
    BY <1>2, <2>1, <2>3
  <2>5. f[k] = Handle(function, old, v)
    BY <1>4, <2>3, <2>4
  <2>6. IsSaid(v, ids)
    BY <1>1, <2>3, <2>4 DEF AllSaid
  <2>7. HandsHold(old, ids)
    BY <2>2, <2>3 DEF StillHolds
  <2>8. StillHolds(f[k], function, old, ids)
    BY <2>5, <2>6, <2>7, HandleHolds
  <2>. QED  BY <2>2, <2>3, <2>8 DEF StillHolds
<1>. HIDE DEF S
<1>7. \A i \in Nat : i \in S
  BY <1>5, <1>6, SetInduction
<1>8. n <= n => StillHolds(f[n], function, st, ids)
  BY <1>2, <1>7 DEF S
<1>. QED  BY <1>2, <1>3, <1>8

----------------------------------------------------------------------------
(* A payload that was cut off, and what the parser of commands makes of it.     *)

LEMMA AfterIs ==
  ASSUME NEW x, IsSeq(x), NEW k \in Nat, k <= Len(x)
  PROVE  /\ IsSeq(After(x, k)) /\ Len(After(x, k)) = Len(x) - k
         /\ \A i \in 1..(Len(x) - k) : After(x, k)[i] = x[k + i]
<1>1. PICK n, g : n = Len(x) /\ g = k + 1
  OBVIOUS
<1>2. n \in Nat
  BY <1>1, SeqLen
<1>3. g \in Nat \ {0} /\ n \in 0..Len(x) /\ g <= n + 1 /\ n - g + 1 = n - k
  BY <1>1, <1>2
<1>4. PICK t : t = SubSeq(x, g, n)
  OBVIOUS
<1>5. IsSeq(t) /\ Len(t) = n - g + 1 /\ \A i \in 1..(n - g + 1) : t[i] = x[g + i - 1]
  BY <1>3, <1>4, SeqSub
<1>6. \A i \in 1..(n - k) : t[i] = x[k + i]
  <2>1. TAKE i \in 1..(n - k)
  <2>2. g + i - 1 = k + i /\ i \in 1..(n - g + 1)
    BY <1>1, <1>2, <1>3
  <2>. QED  BY <1>5, <2>2
<1>7. After(x, k) = t
  BY <1>1, <1>4 DEF After
<1>. QED  BY <1>1, <1>3, <1>5, <1>6, <1>7

LEMMA AfterAfter ==
  ASSUME NEW x, IsSeq(x), NEW k \in Nat, NEW c \in Nat, k + c <= Len(x)
  PROVE  After(After(x, k), c) = After(x, k + c)
<1>1. PICK n, a, b, d : n = Len(x) /\ a = After(x, k) /\ b = After(a, c) /\ d = After(x, k + c)
  OBVIOUS
<1>2. n \in Nat /\ k <= n /\ k + c \in Nat
  BY <1>1, SeqLen
<1>3. IsSeq(a) /\ Len(a) = n - k /\ \A i \in 1..(n - k) : a[i] = x[k + i]
  BY <1>1, <1>2, AfterIs
<1>4. c <= Len(a) /\ Len(a) - c = n - (k + c)
  BY <1>1, <1>2, <1>3
<1>5. IsSeq(b) /\ Len(b) = Len(a) - c /\ \A i \in 1..(Len(a) - c) : b[i] = a[c + i]
  BY <1>1, <1>3, <1>4, AfterIs
<1>6. IsSeq(d) /\ Len(d) = n - (k + c) /\ \A i \in 1..(n - (k + c)) : d[i] = x[(k + c) + i]
  BY <1>1, <1>2, AfterIs
<1>7. \A i \in 1..Len(b) : b[i] = d[i]
  <2>1. TAKE i \in 1..Len(b)
  <2>2. i \in 1..(n - (k + c)) /\ c + i \in 1..(n - k) /\ k + (c + i) = (k + c) + i
    BY <1>2, <1>4, <1>5
  <2>3. b[i] = a[c + i] /\ a[c + i] = x[k + (c + i)] /\ d[i] = x[(k + c) + i]
    BY <1>3, <1>4, <1>5, <1>6, <2>2
  <2>. QED  BY <2>2, <2>3
<1>8. b = d
  BY <1>4, <1>5, <1>6, <1>7, SeqSame
<1>. QED  BY <1>1, <1>8

\* A payload that was cut in chunks, put together by a reader with another size in mind:
\* x, of as many cells as the payload y, is right up to the s-th; then comes the head of
\* the next chunk or, where nothing more was read, what is filled up with.
Junk == {"basic", "byte", "csid"}
CutOff(x, y, s) ==
  /\ IsSeq(x) /\ IsSeq(y) /\ Len(x) = Len(y) /\ s \in Nat \ {0} /\ s < Len(y)
  /\ \A i \in 1..s : x[i] = y[i]
  /\ x[s + 1][1] \in Junk
  /\ s + 2 <= Len(y) => x[s + 2][1] \in Junk \/ x[s + 2] = y[s + 1]
  /\ Named(y)

LEMMA JunkIsNot == ASSUME NEW type \in Junk
  PROVE type \notin {"strlen", "chars", "fprep", "ObjectEnd", "Boolean", "Number", "String", "Null", "EcmaArray", "Object"}
BY DEF Junk

\* The n-th cell of what is left after k.
LEMMA CellAt ==
  ASSUME NEW x, NEW y, NEW s, CutOff(x, y, s), NEW k \in Nat, NEW n \in Nat \ {0}, k + n <= s + 1, k <= s
  PROVE  /\ Len(After(x, k)) = Len(After(y, k)) /\ Len(After(x, k)) >= n
         /\ Len(After(x, k)) \in Nat
         /\ After(x, k) # <<>> /\ After(y, k) # <<>>
         /\ After(x, k)[n] = x[k + n] /\ After(y, k)[n] = y[k + n]
         /\ k + n <= s => After(x, k)[n] = After(y, k)[n] /\ y[k + n][1] \in ReplyFields
         /\ k + n = s + 1 => After(x, k)[n][1] \in Junk
<1>1. PICK m, a, b : m = Len(y) /\ a = After(x, k) /\ b = After(y, k)
  OBVIOUS
<1>2. m \in Nat /\ s \in Nat /\ s < m /\ Len(x) = m /\ IsSeq(x) /\ IsSeq(y)
  BY <1>1, SeqLen DEF CutOff
<1>3. k <= m /\ n \in 1..(m - k) /\ k + n \in 1..m
  BY <1>2
<1>4. IsSeq(a) /\ Len(a) = m - k /\ \A i \in 1..(m - k) : a[i] = x[k + i]
  BY <1>1, <1>2, <1>3, AfterIs
<1>5. IsSeq(b) /\ Len(b) = m - k /\ \A i \in 1..(m - k) : b[i] = y[k + i]
  BY <1>1, <1>2, <1>3, AfterIs
<1>6. m - k \in Nat /\ m - k >= n /\ m - k # 0
  BY <1>2, <1>3
<1>7. a # <<>> /\ b # <<>>
  BY <1>4, <1>5, <1>6, SeqLen
<1>8. k + n <= s => x[k + n] = y[k + n] /\ y[k + n][1] \in ReplyFields
  BY <1>1, <1>3 DEF CutOff, Named
<1>9. k + n = s + 1 => x[k + n][1] \in Junk
  BY DEF CutOff
<1>10. a[n] = x[k + n] /\ b[n] = y[k + n]
  BY <1>3, <1>4, <1>5
<1>. QED  BY <1>1, <1>4, <1>5, <1>6, <1>7, <1>8, <1>9, <1>10

\* Two parsers in step, the one at x and the other at y, with k cells of each behind them.
Lock(a, b, x, y, k) ==
  /\ IsParser(a) /\ IsParser(b)
  /\ a.rest = After(x, k) /\ b.rest = After(y, k)
  /\ a.retval = b.retval /\ a.inObject = b.inObject /\ a.curObject = b.curObject
  /\ a.curPropKey = b.curPropKey /\ a.garbled = FALSE /\ b.garbled = FALSE
  /\ a.inObject \in BOOLEAN

LEMMA StringCut ==
  ASSUME NEW x, NEW y, NEW s, CutOff(x, y, s), NEW k \in Nat, k <= s
  PROVE  \/ StringCells(After(x, k)) = 0
         \/ /\ StringCells(After(x, k)) = StringCells(After(y, k))
            /\ StringCells(After(x, k)) \in {1, 2}
            /\ k + StringCells(After(x, k)) <= s
            /\ StringAt(After(x, k)) = StringAt(After(y, k))
<1>1. PICK a, b : a = After(x, k) /\ b = After(y, k)
  OBVIOUS
<1>2. s \in Nat \ {0}
  BY DEF CutOff
<1>3. CASE k = s
  <2>1. a[1][1] \in Junk
    BY <1>1, <1>2, <1>3, CellAt
  <2>2. a[1][1] # "strlen"
    BY <2>1, JunkIsNot
  <2>3. StringCells(a) = 0
    BY <2>2 DEF StringCells, IsField
  <2>. QED  BY <1>1, <2>3
<1>4. CASE k < s
  <2>1. Len(a) = Len(b) /\ Len(a) \in Nat /\ a[1] = b[1]
    <3>1. k + 1 <= s /\ k + 1 <= s + 1
      BY <1>2, <1>4
    <3>. QED  BY <1>1, <1>2, <3>1, CellAt
  <2>2. CASE k + 1 < s
    <3>1. a[2] = b[2]
      <4>1. k + 2 <= s /\ k + 2 <= s + 1
        BY <1>2, <2>2
      <4>. QED  BY <1>1, <1>2, <4>1, CellAt
    <3>2. StringCells(a) = StringCells(b) /\ StringCells(a) \in {0, 1, 2}
      BY <2>1, <3>1 DEF StringCells, IsField
    <3>3. StringAt(a) = StringAt(b)
      BY <3>1, <3>2 DEF StringAt
    <3>4. k + StringCells(a) <= s
      BY <1>2, <2>2, <3>2
    <3>. QED  BY <1>1, <3>2, <3>3, <3>4
  <2>3. CASE k + 1 = s
    <3>1. a[2][1] \in Junk
      <4>1. k + 2 = s + 1
        BY <2>3
      <4>. QED  BY <1>1, <1>2, <1>4, <4>1, CellAt
    <3>2. a[2][1] # "chars"
      BY <3>1, JunkIsNot
    <3>3. CASE a[1][2] = 0 /\ IsField(a, 1, "strlen")
      <4>1. StringCells(a) = 1 /\ StringCells(b) = 1
        BY <2>1, <3>3 DEF StringCells, IsField
      <4>2. StringAt(a) = "" /\ StringAt(b) = ""
        BY <4>1 DEF StringAt
      <4>3. StringCells(a) \in {1, 2} /\ k + StringCells(a) <= s
        BY <1>2, <2>3, <4>1
      <4>. QED  BY <1>1, <4>1, <4>2, <4>3
    <3>4. CASE ~(a[1][2] = 0 /\ IsField(a, 1, "strlen"))
      <4>1. StringCells(a) = 0
        BY <3>2, <3>4 DEF StringCells, IsField
      <4>. QED  BY <1>1, <4>1
    <3>. QED  BY <1>1, <3>3, <3>4
  <2>4. k + 1 < s \/ k + 1 = s
    BY <1>2, <1>4
  <2>. QED  BY <2>2, <2>3, <2>4
<1>5. k = s \/ k < s
  BY <1>2
<1>. QED  BY <1>3, <1>4, <1>5

LEMMA ValueCut ==
  ASSUME NEW x, NEW y, IsSeq(x), IsSeq(y), NEW k \in Nat, NEW n \in Nat, k + (1 + n) <= Len(x), k + (1 + n) <= Len(y),
         NEW a, NEW b, Lock(a, b, x, y, k), NEW entity
  PROVE  Lock(Value(a, n, entity), Value(b, n, entity), x, y, k + (1 + n))
<1>1. PICK r, t, m : r = After(x, k + (1 + n)) /\ t = After(y, k + (1 + n)) /\ m = 1 + n
  OBVIOUS
<1>2. After(a.rest, m) = r /\ After(b.rest, m) = t
  <2>1. 1 + n \in Nat
    OBVIOUS
  <2>. QED  BY <1>1, <2>1, AfterAfter DEF Lock
<1>3. PICK e, c, d : e = <<a.curPropKey, entity>> /\ c = Append(a.curObject, e) /\ d = Append(a.retval, entity)
  OBVIOUS
<1>4. /\ e = <<b.curPropKey, entity>> /\ c = Append(b.curObject, e) /\ d = Append(b.retval, entity)
      /\ IsParser(a) /\ IsParser(b) /\ a.inObject = b.inObject /\ a.garbled = FALSE /\ b.garbled = FALSE
      /\ a.retval = b.retval /\ a.curObject = b.curObject /\ a.curPropKey = b.curPropKey /\ a.inObject \in BOOLEAN
  BY <1>3 DEF Lock
<1>5. PICK v, w : v = Value(a, n, entity) /\ w = Value(b, n, entity)
  OBVIOUS
<1>6. CASE a.inObject
  <2>1. v = [a EXCEPT !.curObject = c, !.curPropKey = "", !.rest = r]
    BY <1>1, <1>2, <1>3, <1>5, <1>6 DEF Value
  <2>2. w = [b EXCEPT !.curObject = c, !.curPropKey = "", !.rest = t]
    BY <1>1, <1>2, <1>4, <1>5, <1>6 DEF Value
  <2>3. /\ IsParser(v) /\ v.rest = r /\ v.retval = a.retval /\ v.inObject = a.inObject /\ v.curObject = c
        /\ v.curPropKey = "" /\ v.garbled = FALSE
    BY <1>4, <2>1 DEF IsParser, ParserFields
  <2>4. /\ IsParser(w) /\ w.rest = t /\ w.retval = b.retval /\ w.inObject = b.inObject /\ w.curObject = c
        /\ w.curPropKey = "" /\ w.garbled = FALSE
    BY <1>4, <2>2 DEF IsParser, ParserFields
  <2>. QED  BY <1>1, <1>4, <1>5, <2>3, <2>4 DEF Lock
<1>7. CASE ~a.inObject
  <2>1. v = [a EXCEPT !.retval = d, !.rest = r]
    BY <1>1, <1>2, <1>3, <1>5, <1>7 DEF Value
  <2>2. w = [b EXCEPT !.retval = d, !.rest = t]
    BY <1>1, <1>2, <1>4, <1>5, <1>7 DEF Value
  <2>3. /\ IsParser(v) /\ v.rest = r /\ v.retval = d /\ v.inObject = a.inObject /\ v.curObject = a.curObject
        /\ v.curPropKey = a.curPropKey /\ v.garbled = FALSE
    BY <1>4, <2>1 DEF IsParser, ParserFields
  <2>4. /\ IsParser(w) /\ w.rest = t /\ w.retval = d /\ w.inObject = b.inObject /\ w.curObject = b.curObject
        /\ w.curPropKey = b.curPropKey /\ w.garbled = FALSE
    BY <1>4, <2>2 DEF IsParser, ParserFields
  <2>. QED  BY <1>1, <1>4, <1>5, <2>3, <2>4 DEF Lock
<1>. QED  BY <1>6, <1>7

\* A value that is read at a cell of a reply, or at what is none.
LEMMA ReadNumber ==
  ASSUME NEW p, p.rest[1][1] = "Number"
  PROVE  ReadValue(p) = IF IsField(p.rest, 2, "fprep")
                        THEN Value(p, 1, <<"Number", FromFPRepToDouble(p.rest[2][2])>>)
                        ELSE [p EXCEPT !.garbled = TRUE]
BY DEF ReadValue
LEMMA ReadString ==
  ASSUME NEW p, p.rest[1][1] = "String"
  PROVE  ReadValue(p) = IF StringCells(After(p.rest, 1)) > 0
                        THEN Value(p, StringCells(After(p.rest, 1)), <<"String", StringAt(After(p.rest, 1))>>)
                        ELSE [p EXCEPT !.garbled = TRUE]
BY DEF ReadValue
LEMMA ReadNull ==
  ASSUME NEW p, p.rest[1][1] = "Null"
  PROVE  ReadValue(p) = [p EXCEPT !.retval = Append(@, <<"Null", 0>>), !.rest = After(@, 1)]
BY DEF ReadValue
LEMMA ReadObject ==
  ASSUME NEW p, p.rest[1][1] = "Object"
  PROVE  ReadValue(p) = [p EXCEPT !.inObject = TRUE, !.curObject = <<>>, !.rest = After(@, 1)]
BY DEF ReadValue
LEMMA ReadNone ==
  ASSUME NEW p, p.rest[1][1] \notin {"Boolean", "Number", "String", "Null", "EcmaArray", "Object"}
  PROVE  ReadValue(p) = [p EXCEPT !.garbled = TRUE]
BY DEF ReadValue

Locked(a, b, x, y, k, s) == a.garbled \/ \E n \in Nat : k < n /\ n <= s /\ Lock(a, b, x, y, n)

LEMMA GarbledIs == ASSUME NEW p, IsParser(p) PROVE [p EXCEPT !.garbled = TRUE].garbled
BY DEF IsParser, ParserFields

\* Both read the same value, or the one at x goes astray.
LEMMA ReadCut ==
  ASSUME NEW x, NEW y, NEW s, CutOff(x, y, s), NEW k \in Nat, k <= s,
         NEW a, NEW b, Lock(a, b, x, y, k)
  PROVE  Locked(ReadValue(a), ReadValue(b), x, y, k, s)
<1>1. /\ s \in Nat \ {0} /\ IsSeq(x) /\ IsSeq(y) /\ Len(x) = Len(y) /\ s < Len(y) /\ Len(y) \in Nat
  BY SeqLen DEF CutOff
<1>2. PICK r, t, u, v : r = a.rest /\ t = b.rest /\ u = ReadValue(a) /\ v = ReadValue(b)
  OBVIOUS
<1>3. /\ r = After(x, k) /\ t = After(y, k) /\ IsParser(a) /\ IsParser(b)
  BY <1>2 DEF Lock
<1>4. PICK g : g = [a EXCEPT !.garbled = TRUE]
  OBVIOUS
<1>5. g.garbled
  BY <1>3, <1>4, GarbledIs
<1>6. u = g => Locked(u, v, x, y, k, s)
  BY <1>5 DEF Locked
<1>7. CASE k = s
  <2>1. r[1][1] \in Junk
    BY <1>1, <1>3, <1>7, CellAt
  <2>2. r[1][1] \notin {"Boolean", "Number", "String", "Null", "EcmaArray", "Object"}
    BY <2>1, JunkIsNot
  <2>3. u = g
    BY <1>2, <1>4, <2>2, ReadNone
  <2>. QED  BY <1>2, <1>6, <2>3
<1>8. CASE k < s
  <2>1. Len(r) = Len(t) /\ r[1] = t[1] /\ r[1][1] \in ReplyFields /\ Len(r) \in Nat
    <3>1. k + 1 <= s /\ k + 1 <= s + 1
      BY <1>1, <1>8
    <3>2. r[1] = x[k + 1] /\ r[1] = t[1] /\ y[k + 1][1] \in ReplyFields /\ t[1] = y[k + 1] /\ Len(r) = Len(t) /\ Len(r) \in Nat
      BY <1>1, <1>3, <3>1, CellAt
    <3>. QED  BY <3>2
  <2>2. After(r, 1) = After(x, k + 1) /\ After(t, 1) = After(y, k + 1) /\ k + 1 \in Nat /\ k + 1 <= s
    BY <1>1, <1>3, <1>8, AfterAfter
  <2>3. CASE r[1][1] = "Number"
    <3>1. PICK w : w = "Number"
      OBVIOUS
    <3>2. CASE IsField(r, 2, "fprep")
      <4>1. r[2][1] = "fprep"
        BY <3>2 DEF IsField
      <4>2. k + 2 <= s
        <5>1. SUFFICES ASSUME k + 2 = s + 1 PROVE FALSE
          BY <1>1, <1>8
        <5>2. r[2][1] \in Junk
          BY <1>1, <1>3, <5>1, CellAt
        <5>. QED  BY <4>1, <5>2, JunkIsNot
      <4>3. r[2] = t[2]
        <5>1. k + 2 <= s + 1
          BY <1>1, <4>2
        <5>. QED  BY <1>1, <1>3, <4>2, <5>1, CellAt
      <4>4. IsField(t, 2, "fprep")
        BY <2>1, <3>2, <4>3 DEF IsField
      <4>5. PICK e : e = <<w, FromFPRepToDouble(r[2][2])>>
        OBVIOUS
      <4>6. u = Value(a, 1, e) /\ v = Value(b, 1, e)
        BY <1>2, <2>1, <2>3, <3>1, <3>2, <4>3, <4>4, <4>5, ReadNumber
      <4>7. Lock(Value(a, 1, e), Value(b, 1, e), x, y, k + (1 + 1))
        <5>1. 1 \in Nat /\ k + (1 + 1) <= Len(x) /\ k + (1 + 1) <= Len(y)
          BY <1>1, <4>2
        <5>. QED  BY <1>1, <5>1, ValueCut
      <4>8. k + (1 + 1) \in Nat /\ k < k + (1 + 1) /\ k + (1 + 1) <= s
        BY <1>1, <4>2
      <4>. QED  BY <1>2, <4>6, <4>7, <4>8 DEF Locked
    <3>3. CASE ~IsField(r, 2, "fprep")
      <4>1. u = g
        BY <1>2, <1>4, <2>3, <3>3, ReadNumber DEF IsField
      <4>. QED  BY <1>2, <1>6, <4>1
    <3>. QED  BY <3>2, <3>3
  <2>4. CASE r[1][1] = "String"
    <3>1. PICK w, n : w = "String" /\ n = StringCells(After(r, 1))
      OBVIOUS
    <3>2. CASE n = 0
      <4>0. ~(StringCells(After(a.rest, 1)) > 0)
        BY <1>2, <3>1, <3>2
      <4>1. u = g
        BY <1>2, <1>4, <2>4, <4>0, ReadString
      <4>. QED  BY <1>2, <1>6, <4>1
    <3>3. CASE n # 0
      <4>1. /\ n = StringCells(After(t, 1)) /\ n \in {1, 2} /\ (k + 1) + n <= s
            /\ StringAt(After(r, 1)) = StringAt(After(t, 1))
        BY <2>2, <3>1, <3>3, StringCut
      <4>2. PICK e : e = <<w, StringAt(After(r, 1))>>
        OBVIOUS
      <4>3. u = Value(a, n, e)
        BY <1>2, <2>4, <3>1, <4>1, <4>2, ReadString
      <4>4. v = Value(b, n, e)
        BY <1>2, <2>1, <2>4, <3>1, <4>1, <4>2, ReadString
      <4>5. n \in Nat /\ k + (1 + n) \in Nat /\ k < k + (1 + n) /\ k + (1 + n) <= s /\ k + (1 + n) <= Len(x) /\ k + (1 + n) <= Len(y)
        BY <1>1, <4>1
      <4>6. Lock(Value(a, n, e), Value(b, n, e), x, y, k + (1 + n))
        BY <1>1, <4>5, ValueCut
      <4>. QED  BY <1>2, <4>3, <4>4, <4>5, <4>6 DEF Locked
    <3>. QED  BY <3>2, <3>3
  <2>5. CASE r[1][1] = "Null"
    <3>1. PICK e, d : e = <<"Null", 0>> /\ d = Append(a.retval, e)
      OBVIOUS
    <3>2. u = [a EXCEPT !.retval = d, !.rest = After(x, k + 1)]
      BY <1>2, <2>2, <2>5, <3>1, ReadNull
    <3>3. v = [b EXCEPT !.retval = d, !.rest = After(y, k + 1)]
      <4>1. b.retval = a.retval
        BY DEF Lock
      <4>. QED  BY <1>2, <2>1, <2>2, <2>5, <3>1, <4>1, ReadNull
    <3>4. Lock(u, v, x, y, k + 1)
      BY <3>2, <3>3 DEF Lock, IsParser, ParserFields
    <3>. QED  BY <1>2, <2>2, <3>4 DEF Locked
  <2>6. CASE r[1][1] = "Object"
    <3>1. u = [a EXCEPT !.inObject = TRUE, !.curObject = <<>>, !.rest = After(x, k + 1)]
      BY <1>2, <2>2, <2>6, ReadObject
    <3>2. v = [b EXCEPT !.inObject = TRUE, !.curObject = <<>>, !.rest = After(y, k + 1)]
      BY <1>2, <2>1, <2>2, <2>6, ReadObject
    <3>3. Lock(u, v, x, y, k + 1)
      BY <3>1, <3>2 DEF Lock, IsParser, ParserFields
    <3>. QED  BY <1>2, <2>2, <3>3 DEF Locked
  <2>7. CASE r[1][1] \in {"strlen", "chars", "fprep", "ObjectEnd"}
    <3>1. u = g
      BY <1>2, <1>4, <2>7, ReadNone
    <3>. QED  BY <1>2, <1>6, <3>1
  <2>8. r[1][1] \in {"String", "Number", "Null", "Object"} \union {"strlen", "chars", "fprep", "ObjectEnd"}
    BY <2>1 DEF ReplyFields
  <2>. QED  BY <2>3, <2>4, <2>5, <2>6, <2>7, <2>8
<1>9. k = s \/ k < s
  BY <1>1
<1>. QED  BY <1>7, <1>8, <1>9

\* An object that ends with an empty name just where the payload is cut: the cell that
\* the parser skips for its end marker is not the marker.
Swallowed(a, b, x, y, s) ==
  /\ IsParser(a) /\ IsParser(b)
  /\ a.rest = After(x, s + 1) /\ b.rest = After(y, s + 1)
  /\ a.retval = b.retval /\ a.inObject = FALSE /\ a.garbled = FALSE /\ b.garbled = FALSE
  /\ y[s + 1][1] = "ObjectEnd"

LEMMA NotEmptyTurn ==
  ASSUME NEW p, p.rest # <<>>, p.garbled = FALSE PROVE ParseTurn(p) = ParseStep(p)
BY DEF ParseTurn

IsEnded(q, p, n) ==
  /\ IsParser(q) /\ q.rest = After(p.rest, n) /\ q.inObject = FALSE /\ q.garbled = p.garbled
  /\ q.retval = Append(p.retval, <<"Object", p.curObject>>)
  /\ q.curObject = p.curObject /\ q.curPropKey = p.curPropKey

LEMMA EndsIs ==
  ASSUME NEW p, IsParser(p), NEW n, n = IF p.rest[1][1] = "ObjectEnd" /\ Len(p.rest) >= 1 THEN 1 ELSE 2
  PROVE  IsEnded(ObjectEnds(p), p, n)
<1>1. PICK e, r, q : e = Append(p.retval, <<"Object", p.curObject>>) /\ r = After(p.rest, n) /\ q = ObjectEnds(p)
  OBVIOUS
<1>2. After(p.rest, IF IsField(p.rest, 1, "ObjectEnd") THEN 1 ELSE 2) = r
  BY <1>1 DEF IsField
<1>3. q = [p EXCEPT !.inObject = FALSE, !.retval = e, !.rest = r]
  BY <1>1, <1>2 DEF ObjectEnds
<1>4. /\ q.rest = r /\ q.inObject = FALSE /\ q.garbled = p.garbled /\ q.retval = e
      /\ q.curObject = p.curObject /\ q.curPropKey = p.curPropKey
  BY <1>3 DEF IsParser, ParserFields
<1>5. IsParser(q)
  BY <1>3 DEF IsParser, ParserFields
<1>. QED  BY <1>1, <1>4, <1>5 DEF IsEnded

LEMMA EndCellTypes ==
  ASSUME NEW c, c \in {<<"ObjectEnd", 0>>, <<"strlen", 0>>}
  PROVE  /\ c[1] = "ObjectEnd" \/ c = <<"strlen", 0>>
         /\ c[1] \in {"ObjectEnd", "strlen"}
<1>1. PICK w, z : w = "ObjectEnd" /\ z = "strlen"
  OBVIOUS
<1>2. c = <<w, 0>> \/ c = <<z, 0>>
  BY <1>1
<1>. QED  BY <1>1, <1>2

LEMMA TurnCut ==
  ASSUME NEW x, NEW y, NEW s, CutOff(x, y, s), NEW k \in Nat, k <= s,
         NEW a, NEW b, Lock(a, b, x, y, k)
  PROVE  \/ Locked(ParseTurn(a), ParseTurn(b), x, y, k, s)
         \/ k < s /\ Swallowed(ParseTurn(a), ParseTurn(b), x, y, s)
<1>1. /\ s \in Nat \ {0} /\ IsSeq(x) /\ IsSeq(y) /\ Len(x) = Len(y) /\ s < Len(y) /\ Len(y) \in Nat
  BY SeqLen DEF CutOff
<1>2. PICK r, t, u, v : r = a.rest /\ t = b.rest /\ u = ParseTurn(a) /\ v = ParseTurn(b)
  OBVIOUS
<1>3. /\ r = After(x, k) /\ t = After(y, k) /\ IsParser(a) /\ IsParser(b) /\ a.inObject = b.inObject
      /\ a.garbled = FALSE /\ b.garbled = FALSE /\ a.curPropKey = b.curPropKey /\ a.inObject \in BOOLEAN
      /\ a.retval = b.retval /\ a.curObject = b.curObject
  BY <1>2 DEF Lock
<1>4. /\ r # <<>> /\ t # <<>> /\ Len(r) = Len(t) /\ Len(r) \in Nat /\ Len(r) >= 1
      /\ k + 1 <= s => r[1] = t[1]
      /\ k = s => r[1][1] \in Junk
  <2>1. k + 1 <= s + 1 /\ (k = s => k + 1 = s + 1)
    BY <1>1
  <2>2. /\ r # <<>> /\ t # <<>> /\ Len(r) = Len(t) /\ Len(r) \in Nat /\ Len(r) >= 1
        /\ k + 1 <= s => r[1] = t[1]
        /\ k + 1 = s + 1 => r[1][1] \in Junk
    BY <1>1, <1>3, <2>1, CellAt
  <2>. QED  BY <2>1, <2>2
<1>5. u = ParseStep(a) /\ v = ParseStep(b)
  BY <1>2, <1>3, <1>4, NotEmptyTurn
<1>6. CASE ~(a.inObject /\ a.curPropKey = "")
  <2>1. u = ReadValue(a) /\ v = ReadValue(b)
    BY <1>3, <1>5, <1>6 DEF ParseStep
  <2>. QED  BY <1>2, <2>1, ReadCut
<1>7. CASE a.inObject /\ a.curPropKey = "" /\ r[1] \in {<<"ObjectEnd", 0>>, <<"strlen", 0>>}
  <2>1. k + 1 <= s /\ r[1] = t[1]
    <3>1. k # s
      <4>1. SUFFICES ASSUME k = s PROVE FALSE
        OBVIOUS
      <4>2. r[1][1] \in Junk
        BY <1>4, <4>1
      <4>3. r[1][1] \in {"ObjectEnd", "strlen"}
        BY <1>7, EndCellTypes
      <4>. QED  BY <4>2, <4>3, JunkIsNot
    <3>. QED  BY <1>1, <1>4, <3>1
  <2>2. u = ObjectEnds(a) /\ v = ObjectEnds(b)
    BY <1>2, <1>3, <1>5, <1>7, <2>1 DEF ParseStep
  <2>3. PICK n : n = IF r[1][1] = "ObjectEnd" /\ Len(r) >= 1 THEN 1 ELSE 2
    OBVIOUS
  <2>4. n = IF t[1][1] = "ObjectEnd" /\ Len(t) >= 1 THEN 1 ELSE 2
    BY <1>4, <2>1, <2>3
  <2>5. /\ IsParser(u) /\ u.rest = After(r, n) /\ u.inObject = FALSE /\ u.garbled = FALSE
        /\ u.retval = Append(a.retval, <<"Object", a.curObject>>)
        /\ u.curObject = a.curObject /\ u.curPropKey = a.curPropKey
    <3>1. IsEnded(u, a, n)
      BY <1>2, <1>3, <2>2, <2>3, EndsIs
    <3>. QED  BY <1>2, <1>3, <3>1 DEF IsEnded
  <2>6. /\ IsParser(v) /\ v.rest = After(t, n) /\ v.inObject = FALSE /\ v.garbled = FALSE
        /\ v.retval = Append(a.retval, <<"Object", a.curObject>>)
        /\ v.curObject = b.curObject /\ v.curPropKey = b.curPropKey
    <3>1. IsEnded(v, b, n)
      BY <1>2, <1>3, <2>2, <2>4, EndsIs
    <3>. QED  BY <1>2, <1>3, <3>1 DEF IsEnded
  <2>7. n \in {1, 2} /\ n \in Nat /\ k + n \in Nat
    BY <2>3
  <2>8. k + n <= Len(y) => After(r, n) = After(x, k + n) /\ After(t, n) = After(y, k + n)
    BY <1>1, <1>3, <2>7, AfterAfter
  <2>9. CASE k + n <= s
    <3>2. u.rest = After(x, k + n) /\ v.rest = After(y, k + n)
      BY <1>1, <2>5, <2>6, <2>7, <2>8, <2>9
    <3>1. Lock(u, v, x, y, k + n)
      BY <1>3, <2>5, <2>6, <3>2 DEF Lock
    <3>. QED  BY <1>2, <2>7, <2>9, <3>1 DEF Locked
  <2>10. CASE ~(k + n <= s)
    <3>1. n = 2 /\ k + 1 = s /\ k + n = s + 1
      BY <1>1, <2>1, <2>7, <2>10
    <3>2. y[k + 1] = <<"strlen", 0>>
      <4>1. r[1] = <<"strlen", 0>>
        <5>1. r[1][1] # "ObjectEnd"
          BY <1>4, <2>3, <3>1
        <5>2. PICK c : c = r[1]
          OBVIOUS
        <5>3. c \in {<<"ObjectEnd", 0>>, <<"strlen", 0>>}
          BY <1>7, <5>2
        <5>4. c[1] = "ObjectEnd" \/ c = <<"strlen", 0>>
          BY <5>3, EndCellTypes
        <5>. QED  BY <5>1, <5>2, <5>4
      <4>2. t[1] = y[k + 1]
        <5>1. k + 1 <= s + 1
          BY <1>1, <2>1
        <5>. QED  BY <1>1, <1>3, <5>1, CellAt
      <4>. QED  BY <2>1, <4>1, <4>2
    <3>3. y[s + 1][1] = "ObjectEnd"
      <4>1. k + 1 \in 1..Len(y) /\ (k + 1) + 1 = s + 1
        BY <1>1, <3>1
      <4>2. Ended(y)
        BY DEF CutOff, Named
      <4>3. y[(k + 1) + 1][1] = "ObjectEnd"
        BY <3>2, <4>1, <4>2 DEF Ended
      <4>. QED  BY <4>1, <4>3
    <3>4. After(r, n) = After(x, s + 1) /\ After(t, n) = After(y, s + 1)
      BY <1>1, <2>8, <3>1
    <3>5. Swallowed(u, v, x, y, s)
      BY <2>5, <2>6, <3>3, <3>4 DEF Swallowed
    <3>6. k < s
      BY <1>1, <3>1
    <3>. QED  BY <1>2, <3>5, <3>6
  <2>. QED  BY <2>9, <2>10
<1>8. CASE a.inObject /\ a.curPropKey = "" /\ r[1] \notin {<<"ObjectEnd", 0>>, <<"strlen", 0>>}
  <2>1. PICK p, q : p = ReadKey(a) /\ q = ReadKey(b)
    OBVIOUS
  <2>2. u = IF p.garbled \/ p.rest = <<>> THEN [p EXCEPT !.garbled = TRUE] ELSE ReadValue(p)
    BY <1>2, <1>5, <1>8, <2>1 DEF ParseStep
  <2>3. StringCells(r) \in {0, 1, 2}
    BY DEF StringCells
  <2>4. CASE StringCells(r) # 2
    <3>1. p = [a EXCEPT !.garbled = TRUE]
      BY <1>2, <2>1, <2>4 DEF ReadKey
    <3>2. IsParser(p) /\ p.garbled
      BY <1>3, <3>1 DEF IsParser, ParserFields
    <3>3. u.garbled
      BY <2>2, <3>2, GarbledIs
    <3>. QED  BY <1>2, <3>3 DEF Locked
  <2>5. CASE StringCells(r) = 2
    <3>1. StringCells(t) = 2 /\ k + 2 <= s /\ StringAt(r) = StringAt(t)
      <4>1. StringCells(After(x, k)) # 0
        BY <1>3, <2>5
      <4>2. /\ StringCells(After(x, k)) = StringCells(After(y, k))
            /\ k + StringCells(After(x, k)) <= s
            /\ StringAt(After(x, k)) = StringAt(After(y, k))
        BY <4>1, StringCut
      <4>. QED  BY <1>3, <2>5, <4>2
    <3>2. PICK n, w, c, d : n = k + 2 /\ w = StringAt(r) /\ c = After(r, 2) /\ d = After(t, 2)
      OBVIOUS
    <3>3. n \in Nat /\ n <= s /\ k < n /\ n <= Len(x)
      BY <1>1, <3>1, <3>2
    <3>4. c = After(x, n) /\ d = After(y, n)
      BY <1>1, <1>3, <3>2, <3>3, AfterAfter
    <3>5. p = [a EXCEPT !.curPropKey = w, !.rest = c]
      BY <1>2, <2>1, <2>5, <3>2 DEF ReadKey
    <3>6. q = [b EXCEPT !.curPropKey = w, !.rest = d]
      BY <1>2, <2>1, <3>1, <3>2 DEF ReadKey
    <3>7. /\ IsParser(p) /\ p.rest = c /\ p.retval = a.retval /\ p.inObject = a.inObject
          /\ p.curObject = a.curObject /\ p.curPropKey = w /\ p.garbled = FALSE
      BY <1>3, <3>5 DEF IsParser, ParserFields
    <3>8. /\ IsParser(q) /\ q.rest = d /\ q.retval = b.retval /\ q.inObject = b.inObject
          /\ q.curObject = b.curObject /\ q.curPropKey = w /\ q.garbled = FALSE
      BY <1>3, <3>6 DEF IsParser, ParserFields
    <3>9. Lock(p, q, x, y, n)
      BY <1>3, <3>4, <3>7, <3>8 DEF Lock
    <3>10. c # <<>> /\ d # <<>>
      <4>1. n + 1 <= s + 1
        BY <1>1, <3>3
      <4>. QED  BY <1>1, <3>3, <3>4, <4>1, CellAt
    <3>11. u = ReadValue(p)
      BY <2>2, <3>7, <3>10
    <3>12. v = ReadValue(q)
      <4>1. a.inObject = b.inObject /\ b.curPropKey = ""
        BY <1>3, <1>8
      <4>2. t[1] \notin {<<"ObjectEnd", 0>>, <<"strlen", 0>>}
        <5>1. k + 1 <= s
          BY <1>1, <3>1
        <5>. QED  BY <1>4, <1>8, <5>1
      <4>3. v = IF q.garbled \/ q.rest = <<>> THEN [q EXCEPT !.garbled = TRUE] ELSE ReadValue(q)
        BY <1>2, <1>3, <1>5, <1>8, <2>1, <4>1, <4>2 DEF ParseStep
      <4>. QED  BY <3>8, <3>10, <4>3
    <3>13. Locked(u, v, x, y, n, s)
      BY <3>3, <3>9, <3>11, <3>12, ReadCut
    <3>14. Locked(u, v, x, y, k, s)
      <4>1. CASE u.garbled
        BY <4>1 DEF Locked
      <4>2. CASE ~u.garbled
        <5>1. PICK i \in Nat : n < i /\ i <= s /\ Lock(u, v, x, y, i)
          BY <3>13, <4>2 DEF Locked
        <5>2. k < i
          BY <3>3, <5>1
        <5>. QED  BY <5>1, <5>2 DEF Locked
      <4>. QED  BY <4>1, <4>2
    <3>. QED  BY <1>2, <3>14
  <2>. QED  BY <2>4, <2>5
<1>. QED  BY <1>6, <1>7, <1>8

\* Then the payload is at its end, or the parser goes astray.
LEMMA SwallowedTurn ==
  ASSUME NEW x, NEW y, NEW s, CutOff(x, y, s), NEW a, NEW b, Swallowed(a, b, x, y, s)
  PROVE  \/ ParseTurn(a).garbled
         \/ ParseTurn(a) = a /\ ParseTurn(b) = b /\ a.rest = <<>>
<1>1. /\ s \in Nat \ {0} /\ IsSeq(x) /\ IsSeq(y) /\ Len(x) = Len(y) /\ s < Len(y) /\ Len(y) \in Nat
  BY SeqLen DEF CutOff
<1>2. s + 1 \in Nat /\ s + 1 <= Len(x) /\ s + 1 <= Len(y)
  BY <1>1
<1>3. PICK r, t : r = a.rest /\ t = b.rest
  OBVIOUS
<1>4. /\ IsParser(a) /\ r = After(x, s + 1) /\ t = After(y, s + 1) /\ a.inObject = FALSE
      /\ a.garbled = FALSE /\ b.garbled = FALSE /\ y[s + 1][1] = "ObjectEnd"
  BY <1>3 DEF Swallowed
<1>5. IsSeq(r) /\ Len(r) = Len(x) - (s + 1) /\ \A i \in 1..(Len(x) - (s + 1)) : r[i] = x[(s + 1) + i]
  BY <1>1, <1>2, <1>4, AfterIs
<1>6. IsSeq(t) /\ Len(t) = Len(y) - (s + 1)
  BY <1>1, <1>2, <1>4, AfterIs
<1>7. CASE Len(r) = 0
  <2>1. r = <<>> /\ t = <<>>
    BY <1>1, <1>5, <1>6, <1>7, SeqLen
  <2>. QED  BY <1>3, <2>1 DEF ParseTurn
<1>8. CASE Len(r) # 0
  <2>1. 1 \in 1..(Len(x) - (s + 1)) /\ (s + 1) + 1 = s + 2 /\ s + 2 <= Len(y)
    BY <1>1, <1>2, <1>5, <1>8
  <2>2. r[1] = x[s + 2]
    BY <1>5, <2>1
  <2>3. r[1][1] \in Junk \/ r[1][1] = "ObjectEnd"
    BY <1>4, <2>1, <2>2 DEF CutOff
  <2>4. r[1][1] \notin {"Boolean", "Number", "String", "Null", "EcmaArray", "Object"}
    BY <2>3, JunkIsNot
  <2>5. r # <<>>
    BY <1>8, SeqEmpty
  <2>6. ParseTurn(a) = ReadValue(a)
    BY <1>3, <1>4, <2>5 DEF ParseTurn, ParseStep
  <2>7. ReadValue(a) = [a EXCEPT !.garbled = TRUE]
    BY <1>3, <2>4, ReadNone
  <2>. QED  BY <1>4, <2>6, <2>7, GarbledIs
<1>. QED  BY <1>7, <1>8

\* Where the two parsers are after a turn, and after all of them.
CutAfter(a, b, x, y, s, turns) ==
  \/ a.garbled
  \/ \E k \in Nat : turns <= k /\ k <= s /\ Lock(a, b, x, y, k)
  \/ Swallowed(a, b, x, y, s) /\ (a.rest = <<>> \/ turns <= s)

\* What a payload that was cut off is parsed to is what the whole one says, or the
\* parser goes astray.
LEMMA CutParse ==
  ASSUME NEW x, NEW y, NEW s, CutOff(x, y, s)
  PROVE  TryParse(x).garbled \/ TryParse(x).retval = TryParse(y).retval
<1>1. /\ s \in Nat \ {0} /\ IsSeq(x) /\ IsSeq(y) /\ Len(x) = Len(y) /\ s < Len(y) /\ Len(y) \in Nat
  BY SeqLen DEF CutOff
<1>2. PICK n : n = Len(y)
  OBVIOUS
<1>3. n \in Nat /\ s < n /\ Len(x) = n
  BY <1>1, <1>2
<1>4. PICK f : TurnsOf(f, x, n) /\ TryParse(x) = f[n]
  BY <1>3, TryParseIs
<1>5. PICK g : TurnsOf(g, y, n) /\ TryParse(y) = g[n]
  BY <1>2, <1>3, TryParseIs
<1>6. \A i \in 0..n : f[i] = IF i = 0 THEN Parsing(x) ELSE ParseTurn(f[i - 1])
  BY <1>4, TurnsAt
<1>7. \A i \in 0..n : g[i] = IF i = 0 THEN Parsing(y) ELSE ParseTurn(g[i - 1])
  BY <1>5, TurnsAt
<1>. DEFINE S == {i \in Nat : i <= n => CutAfter(f[i], g[i], x, y, s, i)}
<1>8. 0 \in S
  <2>1. f[0] = Parsing(x) /\ g[0] = Parsing(y)
    BY <1>3, <1>6, <1>7
  <2>2. x = After(x, 0) /\ y = After(y, 0)
    <3>1. IsSeq(<<>>) /\ Len(<<>>) = 0 /\ <<>> \o x = x /\ <<>> \o y = y
      BY <1>1, SeqEmpty
    <3>2. PICK e : e = <<>>
      OBVIOUS
    <3>3. After(e \o x, Len(e)) = x /\ After(e \o y, Len(e)) = y
      BY <1>1, <3>1, <3>2, AfterFirst
    <3>. QED  BY <3>1, <3>2, <3>3
  <2>3. PICK a, b : a = Parsing(x) /\ b = Parsing(y)
    OBVIOUS
  <2>4. Lock(a, b, x, y, 0)
    <3>1. PICK r, t : r = After(x, 0) /\ t = After(y, 0)
      OBVIOUS
    <3>2. a = Parsing(r) /\ b = Parsing(t)
      BY <2>2, <2>3, <3>1
    <3>3. /\ IsParser(a) /\ a.rest = r /\ a.retval = <<>> /\ a.inObject = FALSE /\ a.curObject = <<>>
          /\ a.curPropKey = "" /\ a.garbled = FALSE
      BY <3>2 DEF Parsing, IsParser, ParserFields
    <3>4. /\ IsParser(b) /\ b.rest = t /\ b.retval = <<>> /\ b.inObject = FALSE /\ b.curObject = <<>>
          /\ b.curPropKey = "" /\ b.garbled = FALSE
      BY <3>2 DEF Parsing, IsParser, ParserFields
    <3>. QED  BY <3>1, <3>3, <3>4 DEF Lock
  <2>5. 0 <= 0 /\ 0 <= s
    BY <1>1
  <2>. QED  BY <2>1, <2>3, <2>4, <2>5 DEF CutAfter
<1>9. ASSUME NEW i \in Nat, i \in S PROVE i + 1 \in S
  <2>1. SUFFICES ASSUME i + 1 <= n PROVE CutAfter(f[i + 1], g[i + 1], x, y, s, i + 1)
    OBVIOUS
  <2>2. CutAfter(f[i], g[i], x, y, s, i)
    BY <1>3, <1>9, <2>1
  <2>. HIDE DEF S
  <2>3. PICK j, a, b, u, v : j = i + 1 /\ a = f[i] /\ b = g[i] /\ u = f[j] /\ v = g[j]
    OBVIOUS
  <2>4. j \in 0..n /\ j # 0 /\ j - 1 = i
    BY <1>3, <2>1, <2>3
  <2>5. u = ParseTurn(a) /\ v = ParseTurn(b)
    BY <1>6, <1>7, <2>3, <2>4
  <2>6. CASE a.garbled
    <3>1. u = a
      BY <2>5, <2>6 DEF ParseTurn
    <3>. QED  BY <2>3, <2>6, <3>1 DEF CutAfter
  <2>7. CASE \E k \in Nat : i <= k /\ k <= s /\ Lock(a, b, x, y, k)
    <3>1. PICK k \in Nat : i <= k /\ k <= s /\ Lock(a, b, x, y, k)
      BY <2>7
    <3>2. Locked(u, v, x, y, k, s) \/ (k < s /\ Swallowed(u, v, x, y, s))
      BY <2>5, <3>1, TurnCut
    <3>3. CASE u.garbled
      BY <2>3, <3>3 DEF CutAfter
    <3>4. CASE \E m \in Nat : k < m /\ m <= s /\ Lock(u, v, x, y, m)
      <4>1. PICK m \in Nat : k < m /\ m <= s /\ Lock(u, v, x, y, m)
        BY <3>4
      <4>2. j <= m
        BY <2>3, <3>1, <4>1
      <4>. QED  BY <2>3, <4>1, <4>2 DEF CutAfter
    <3>5. CASE k < s /\ Swallowed(u, v, x, y, s)
      <4>1. j <= s
        BY <1>1, <2>3, <3>1, <3>5
      <4>. QED  BY <2>3, <3>5, <4>1 DEF CutAfter
    <3>. QED  BY <3>2, <3>3, <3>4, <3>5 DEF Locked
  <2>8. CASE Swallowed(a, b, x, y, s) /\ (a.rest = <<>> \/ i <= s)
    <3>1. \/ u.garbled
          \/ u = a /\ v = b /\ a.rest = <<>>
      BY <2>5, <2>8, SwallowedTurn
    <3>. QED  BY <2>3, <2>8, <3>1 DEF CutAfter
  <2>. QED  BY <2>2, <2>3, <2>6, <2>7, <2>8 DEF CutAfter
<1>. HIDE DEF S
<1>10. \A i \in Nat : i \in S
  BY <1>8, <1>9, SetInduction
<1>11. CutAfter(f[n], g[n], x, y, s, n)
  <2>1. n \in S /\ n <= n
    BY <1>3, <1>10
  <2>. QED  BY <2>1 DEF S
<1>12. PICK a, b : a = f[n] /\ b = g[n]
  OBVIOUS
<1>13. a.garbled \/ Swallowed(a, b, x, y, s)
  <2>1. ~(\E k \in Nat : n <= k /\ k <= s)
    BY <1>1, <1>3
  <2>. QED  BY <1>11, <1>12, <2>1 DEF CutAfter
<1>14. a.garbled \/ a.retval = b.retval
  BY <1>13 DEF Swallowed
<1>. QED  BY <1>4, <1>5, <1>12, <1>14

----------------------------------------------------------------------------
(* A reader that may have lost its way.                                         *)

\* What lies at the head of a chunk, and what its payload is.
LEMMA HeadCells ==
  ASSUME NEW ids, NEW m, IsMsg(m, ids), NEW j \in 1..Count(m), NEW data, NEW rest, IsSeq(rest),
         Joins(data, PieceOf(m, j), rest)
  PROVE  /\ data[1][1] = "basic"
         /\ \A i \in 2..HeadOf(m, j) : data[i][1] # "basic"
         /\ j # 1 => \A i \in 2..HeadOf(m, j) : data[i][1] = "csid"
<1>1. PICK fmt, r, d, h, p : /\ fmt = FmtOf(m, j) /\ r = RawOf(m) /\ d = PieceData(m, j) /\ h = HeadOf(m, j)
                             /\ p = PieceOf(m, j)
  OBVIOUS
<1>2. m.fmt \in {0, 1} /\ m.csid \in Nat /\ m.csid >= 2
  BY MsgFacts
<1>3. fmt \in {0, 1, 3} /\ (fmt # 3 <=> j = 1)
  BY <1>1, <1>2 DEF FmtOf
<1>4. ~(r.ts > ExtendedStamp)
  BY <1>1, RawFacts
<1>5. IsSeq(d)
  BY <1>1, PieceDataFacts
<1>6. p = ToBitstream(fmt, m.csid, r, d) /\ h = HeadSize(fmt, m.csid, r)
  BY <1>1 DEF PieceOf, HeadOf
<1>7. Begins(data, fmt, m.csid, r)
  <2>1. Joins(data, ToBitstream(fmt, m.csid, r, d), rest)
    BY <1>1, <1>6
  <2>. QED  BY <1>2, <1>3, <1>5, <2>1, ChunkFollowed
<1>8. PICK b, mh : b = BasicSize(data) /\ mh = MessageHeader(fmt, r)
  OBVIOUS
<1>9. /\ b = Len(BasicHeader(fmt, m.csid)) /\ b \in 1..3
      /\ data[1][1] = "basic" /\ \A i \in 2..b : data[i][1] = "csid"
      /\ \A i \in 1..Len(mh) : data[b + i] = mh[i]
  <2>1. PICK c : c = m.csid
    OBVIOUS
  <2>2. fmt \in {0, 1, 3} /\ c \in Nat /\ c >= 2 /\ Begins(data, fmt, c, r)
    BY <1>2, <1>3, <1>7, <2>1
  <2>3. /\ BasicSize(data) = Len(BasicHeader(fmt, c)) /\ BasicSize(data) \in 1..3
        /\ data[1][1] = "basic" /\ \A i \in 2..BasicSize(data) : data[i][1] = "csid"
        /\ \A i \in 1..Len(MessageHeader(fmt, r)) :
             data[BasicSize(data) + i] = MessageHeader(fmt, r)[i]
    BY <2>2, HeaderAt
  <2>. QED  BY <1>8, <2>1, <2>3
<1>10. /\ fmt # 3 => mh[1][1] = "timestamp" /\ mh[2][1] = "length" /\ mh[3][1] = "typeid"
       /\ fmt = 0 => mh[4][1] = "streamid"
       /\ Len(mh) = Len(Fields(fmt))
  <2>. DEFINE head == MessageHeader(fmt, r)
  <2>1. /\ fmt # 3 => /\ head[1] = <<"timestamp", Least(r.ts, ExtendedStamp)>>
                      /\ head[2] = <<"length", Len(r.payload)>>
                      /\ head[3] = <<"typeid", r.type>>
        /\ fmt = 0 => head[4] = <<"streamid", r.stream>>
        /\ ~(r.ts > ExtendedStamp) => Len(head) = Len(Fields(fmt))
    BY <1>3, HeaderCells
  <2>2. mh = head
    BY <1>8
  <2>. HIDE DEF head
  <2>. QED  BY <1>4, <2>1, <2>2
<1>11. Len(mh) = IF fmt = 0 THEN 4 ELSE IF fmt = 1 THEN 3 ELSE 0
  <2>1. Len(Fields(0)) = 4 /\ Len(Fields(1)) = 3 /\ Len(Fields(3)) = 0
    BY FieldsFacts
  <2>. QED  BY <1>3, <1>10, <2>1
<1>12. h = b + Len(mh)
  BY <1>6, <1>8, <1>9 DEF HeadSize
<1>13. ASSUME NEW i \in 2..h PROVE data[i][1] # "basic" /\ (j # 1 => data[i][1] = "csid")
  <2>1. CASE i <= b
    <3>1. i \in 2..b
      BY <1>9, <1>11, <1>12, <2>1
    <3>. QED  BY <1>9, <3>1
  <2>2. CASE ~(i <= b)
    <3>1. PICK n : n = i - b
      OBVIOUS
    <3>2. n \in 1..Len(mh) /\ b + n = i
      BY <1>9, <1>11, <1>12, <2>2, <3>1
    <3>3. data[i] = mh[n]
      BY <1>9, <3>2
    <3>4. fmt \in {0, 1} /\ n \in {1, 2, 3, 4} /\ (n = 4 => fmt = 0)
      BY <1>3, <1>11, <3>2
    <3>5. j = 1
      BY <1>3, <3>4
    <3>6. mh[n][1] \in {"timestamp", "length", "typeid", "streamid"}
      BY <1>10, <3>4
    <3>. QED  BY <3>3, <3>5, <3>6
  <2>. QED  BY <2>1, <2>2
<1>. QED  BY <1>1, <1>9, <1>13

LEMMA PayloadCells ==
  ASSUME NEW ids, NEW m, IsMsg(m, ids)
  PROVE  /\ \A i \in 1..Len(m.payload) : m.payload[i][1] # "basic"
         /\ m.type = COMMANDAMF0 => Named(m.payload)
<1>1. CASE m.type = COMMANDAMF0
  <2>1. m.type \notin Controls
    BY <1>1, MessageTypes
  <2>2. IsReply(m.body, ids) /\ m.payload = Encode(m.body)
    BY <1>1, <2>1 DEF IsMsg
  <2>3. Named(m.payload)
    BY <2>2, ReplyTold DEF Told
  <2>4. \A type \in ReplyFields : type # "basic"
    BY DEF ReplyFields
  <2>. QED  BY <2>3, <2>4 DEF Named
<1>2. CASE m.type # COMMANDAMF0
  <2>1. m.payload = <<<<"value", m.body>>>>
    BY <1>2 DEF IsMsg
  <2>2. PICK v, w : v = m.body /\ w = "value"
    OBVIOUS
  <2>3. Len(m.payload) = 1 /\ m.payload[1][1] = w
    BY <2>1, <2>2, OneValue
  <2>. QED  BY <1>2, <2>2, <2>3
<1>. QED  BY <1>1, <1>2

\* Only the first cell of a chunk begins a header.
LEMMA OneBasic ==
  ASSUME NEW ids, NEW m, IsMsg(m, ids), NEW j \in 1..Count(m)
  PROVE  \A i \in 2..Len(PieceOf(m, j)) : PieceOf(m, j)[i][1] # "basic"
<1>1. PICK p, d, h, e : p = PieceOf(m, j) /\ d = PieceData(m, j) /\ h = HeadOf(m, j) /\ e = <<>>
  OBVIOUS
<1>2. IsSeq(p)
  BY <1>1, PieceIsSeq
<1>3. IsSeq(e) /\ p = p \o e
  BY <1>1, <1>2, SeqEmpty
<1>4. Joins(p, PieceOf(m, j), e)
  BY <1>1, <1>3 DEF Joins
<1>5. h \in Nat \ {0} /\ Len(p) = h + Len(d) /\ \A i \in 1..Len(d) : p[h + i] = d[i]
  <2>1. IsPieceRead(m, j, e, p, 1, h, d, ParseChunk(p, 1))
    BY <1>1, <1>3, <1>4, PieceRead
  <2>. QED  BY <1>1, <2>1 DEF IsPieceRead
<1>6. \A i \in 2..h : p[i][1] # "basic"
  BY <1>1, <1>3, <1>4, HeadCells
<1>7. PICK a : a = (j - 1) * m.size
  OBVIOUS
<1>8. /\ a \in Nat /\ Len(d) \in Nat \ {0} /\ Len(d) = Least(m.size, Len(m.payload) - a)
      /\ \A i \in 1..Len(d) : d[i] = m.payload[a + i]
  BY <1>1, <1>7, PieceDataFacts
<1>9. Len(m.payload) \in Nat /\ m.size \in Nat
  BY MsgFacts
<1>10. ASSUME NEW i \in 1..Len(d) PROVE d[i][1] # "basic"
  <2>1. a + i \in 1..Len(m.payload)
    BY <1>8, <1>9 DEF Least
  <2>. QED  BY <1>8, <2>1, PayloadCells
<1>11. ASSUME NEW i \in 2..Len(p) PROVE p[i][1] # "basic"
  <2>1. CASE i <= h
    BY <1>5, <1>6, <2>1
  <2>2. CASE ~(i <= h)
    <3>1. PICK n : n = i - h
      OBVIOUS
    <3>2. n \in 1..Len(d) /\ h + n = i
      BY <1>5, <1>8, <2>2, <3>1
    <3>. QED  BY <1>5, <1>10, <3>2
  <2>. QED  BY <2>1, <2>2
<1>. QED  BY <1>1, <1>11

\* A payload as resize leaves it, cell by cell.
LEMMA TrimmedCells ==
  ASSUME NEW data, IsSeq(data), NEW h \in Nat, h <= Len(data), NEW size \in Nat, NEW n \in Nat, n <= size,
         NEW x, x = TrimPayload(SubSeq(data, h + 1, Least(h + size, Len(data))), n)
  PROVE  /\ IsSeq(x) /\ Len(x) = n
         /\ \A i \in 1..n : x[i] = IF h + i <= Len(data) THEN data[h + i] ELSE <<"byte", 0>>
<1>1. PICK l, e, g : l = Len(data) /\ e = Least(h + size, l) /\ g = h + 1
  OBVIOUS
<1>2. l \in Nat
  BY <1>1, SeqLen
<1>3. e \in 0..Len(data) /\ g \in Nat \ {0} /\ g <= e + 1 /\ e - g + 1 = e - h
  BY <1>1, <1>2 DEF Least
<1>4. PICK p : p = SubSeq(data, g, e)
  OBVIOUS
<1>5. IsSeq(p) /\ Len(p) = e - g + 1 /\ \A i \in 1..(e - g + 1) : p[i] = data[g + i - 1]
  BY <1>3, <1>4, SeqSub
<1>6. x = [i \in 1..n |-> IF i <= Len(p) THEN p[i] ELSE <<"byte", 0>>]
  BY <1>1, <1>4 DEF TrimPayload
<1>7. DOMAIN x = 1..n /\ x = [i \in 1..n |-> x[i]] /\ \A i \in 1..n : x[i] = IF i <= Len(p) THEN p[i] ELSE <<"byte", 0>>
  BY <1>6
<1>8. IsSeq(x) /\ Len(x) = n
  BY <1>7, SeqMade
<1>9. ASSUME NEW i \in 1..n PROVE x[i] = IF h + i <= l THEN data[h + i] ELSE <<"byte", 0>>
  <2>1. i <= Len(p) <=> h + i <= l
    BY <1>1, <1>2, <1>3, <1>5 DEF Least
  <2>2. CASE i <= Len(p)
    <3>1. i \in 1..(e - g + 1) /\ g + i - 1 = h + i
      BY <1>1, <1>3, <1>5, <2>2
    <3>. QED  BY <1>5, <1>7, <2>1, <2>2, <3>1
  <2>3. CASE ~(i <= Len(p))
    BY <1>7, <2>1, <2>3
  <2>. QED  BY <2>2, <2>3
<1>. QED  BY <1>1, <1>8, <1>9

IsTrimmed(x, data, h, size, n) == x = TrimPayload(SubSeq(data, h + 1, Least(h + size, Len(data))), n)

LEMMA AfterSum ==
  ASSUME NEW data, IsSeq(data), NEW a \in Nat, NEW rest, IsSeq(rest),
         Len(data) = a + Len(rest), After(data, a) = rest
  PROVE  \A k \in 1..Len(rest) : rest[k] = data[a + k]
<1>1. PICK l, r : l = Len(data) /\ r = Len(rest)
  OBVIOUS
<1>2. r \in Nat
  BY <1>1, SeqLen
<1>3. a <= l /\ l - a = r
  BY <1>1, <1>2
<1>4. \A k \in 1..(Len(data) - a) : After(data, a)[k] = data[a + k]
  BY <1>1, <1>3, AfterIs
<1>. QED  BY <1>1, <1>3, <1>4

\* A reader with a larger size in mind: the payload it puts together of a message's first
\* chunk and what follows it.
LEMMA CutPayload ==
  ASSUME NEW chs, NEW ms, NEW is, NEW ids, Cut(chs, ms, is, ids), NEW t \in Nat, t < Len(chs),
         is[t + 1] = 1, NEW m, m = ms[t + 1], Count(m) # 1, NEW data, data = Rest(chs, t),
         NEW size \in Nat, Len(m.payload) <= size, NEW h, h = HeadOf(m, 1),
         NEW x, IsTrimmed(x, data, h, size, Len(m.payload))
  PROVE  CutOff(x, m.payload, m.size) /\ m.type = COMMANDAMF0
<1>1. PICK y, s, n, rest, d : y = m.payload /\ s = m.size /\ n = Len(y) /\ rest = Rest(chs, t + 1) /\ d = PieceData(m, 1)
  OBVIOUS
<1>2. /\ IsMsg(m, ids) /\ 1 \in 1..Count(m) /\ IsSeq(rest) /\ Joins(data, PieceOf(m, 1), rest)
      /\ t + 1 < Len(chs) => Follows(m, 1, ms[t + 2], is[t + 2])
  BY <1>1, HeadPiece
<1>3. /\ Count(m) \in Nat \ {0} /\ (1 < Count(m) <=> 1 * m.size < Len(m.payload))
      /\ m.type \in Controls => Count(m) = 1
  BY <1>2, CountFacts
<1>4. IsSeq(y) /\ n \in Nat \ {0} /\ s \in Nat \ {0} /\ m.type \in Controls \union {COMMANDAMF0}
  BY <1>1, <1>2, MsgFacts
<1>5. s < n /\ m.type = COMMANDAMF0 /\ 1 < Count(m)
  <2>1. 1 * m.size = s
    BY <1>1, <1>4
  <2>. QED  BY <1>1, <1>3, <1>4, <2>1
<1>6. /\ Len(d) = s
      /\ \A i \in 1..Len(d) : d[i] = y[i]
  <2>1. PICK a : a = (1 - 1) * m.size
    OBVIOUS
  <2>2. a = 0
    BY <1>1, <1>4, <2>1
  <2>3. (1 < Count(m) => Len(d) = m.size) /\ \A i \in 1..Len(d) : d[i] = m.payload[a + i]
    <3>1. LET e == PieceData(m, 1)
          IN /\ 1 < Count(m) => Len(e) = m.size
             /\ \A i \in 1..Len(e) : e[i] = m.payload[(1 - 1) * m.size + i]
      BY <1>2, PieceDataFacts
    <3>. QED  BY <1>1, <2>1, <3>1, Zenon
  <2>4. \A i \in 1..s : a + i = i
    BY <1>4, <2>2
  <2>. QED  BY <1>1, <1>5, <2>3, <2>4
<1>7. /\ h \in Nat \ {0} /\ IsSeq(data) /\ Len(data) = h + s + Len(rest)
      /\ \A i \in 1..s : data[h + i] = y[i]
      /\ After(data, h + s) = rest
  <2>1. IsPieceRead(m, 1, rest, data, size, h, d, ParseChunk(data, size))
    BY <1>1, <1>2, PieceRead
  <2>. QED  BY <1>6, <2>1 DEF IsPieceRead
<1>8. Len(rest) \in Nat
  BY <1>2, SeqLen
<1>9. /\ IsSeq(x) /\ Len(x) = n
      /\ \A i \in 1..n : x[i] = IF h + i <= Len(data) THEN data[h + i] ELSE <<"byte", 0>>
  <2>1. h \in Nat /\ h <= Len(data)
    BY <1>4, <1>7, <1>8
  <2>2. x = TrimPayload(SubSeq(data, h + 1, Least(h + size, Len(data))), n) /\ n <= size /\ n \in Nat
    BY <1>1, <1>4 DEF IsTrimmed
  <2>3. IsSeq(data)
    BY <1>7
  <2>. QED  BY <2>1, <2>2, <2>3, TrimmedCells
<1>10. \A i \in 1..s : x[i] = y[i]
  <2>1. TAKE i \in 1..s
  <2>2. i \in 1..n /\ h + i <= Len(data)
    BY <1>4, <1>5, <1>7, <1>8
  <2>. QED  BY <1>7, <1>9, <2>2
<1>11. \A i \in 1..(n - s) : x[s + i] = IF i <= Len(rest) THEN rest[i] ELSE <<"byte", 0>>
  <2>1. TAKE i \in 1..(n - s)
  <2>2. s + i \in 1..n /\ (h + (s + i) <= Len(data) <=> i <= Len(rest)) /\ h + (s + i) = (h + s) + i
    BY <1>4, <1>5, <1>7, <1>8
  <2>3. i <= Len(rest) => rest[i] = data[(h + s) + i]
    <3>1. PICK a : a = h + s
      OBVIOUS
    <3>4. a \in Nat /\ IsSeq(data) /\ IsSeq(rest)
      BY <1>2, <1>4, <1>7, <3>1
    <3>5. Len(data) = a + Len(rest) /\ After(data, a) = rest
      BY <1>7, <3>1
    <3>6. \A k \in 1..Len(rest) : rest[k] = data[a + k]
      BY <3>4, <3>5, AfterSum
    <3>2. \A k \in 1..Len(rest) : rest[k] = data[(h + s) + k]
      BY <3>1, <3>6
    <3>3. i \in Nat \ {0}
      BY <1>4
    <3>. QED  BY <1>8, <3>2, <3>3
  <2>. QED  BY <1>9, <2>2, <2>3
<1>12. 1 \in 1..(n - s)
  BY <1>4, <1>5
<1>13. CASE Len(rest) = 0
  <2>1. \A i \in 1..(n - s) : x[s + i] = <<"byte", 0>>
    BY <1>11, <1>13
  <2>2. \A i \in 1..(n - s) : x[s + i][1] \in Junk
    BY <2>1 DEF Junk
  <2>3. s + 2 <= n => 2 \in 1..(n - s)
    BY <1>4, <1>5
  <2>4. x[s + 1][1] \in Junk
    BY <1>12, <2>2
  <2>5. s + 2 <= n => x[s + 2][1] \in Junk
    BY <2>2, <2>3
  <2>6. Named(y)
    BY <1>1, <1>2, <1>5, PayloadCells
  <2>. QED  BY <1>1, <1>4, <1>5, <1>9, <1>10, <2>4, <2>5, <2>6 DEF CutOff
<1>14. CASE Len(rest) # 0
  <2>1. t + 1 < Len(chs) /\ t + 1 \in Nat
    <3>1. AllCells(chs) /\ Len(chs) \in Nat
      BY CutCells
    <3>2. t + 1 \in Nat /\ t + 1 <= Len(chs)
      BY <3>1
    <3>3. t + 1 = Len(chs) => rest = <<>>
      BY <1>1, <3>1, <3>2, RestFacts
    <3>. QED  BY <1>14, <3>1, <3>2, <3>3, SeqEmpty
  <2>2. PICK k, q, e, g, after : k = t + 1 /\ q = HeadOf(m, 2) /\ e = PieceData(m, 2) /\ after = Rest(chs, t + 2) /\ g = k + 1
    OBVIOUS
  <2>3. ms[t + 2] = m /\ is[t + 2] = 2 /\ g = t + 2
    BY <1>2, <1>5, <2>1, <2>2 DEF Follows
  <2>4. 2 \in 1..Count(m) /\ IsSeq(after) /\ Joins(rest, PieceOf(m, 2), after)
    <3>1. k \in Nat /\ k < Len(chs)
      BY <2>1, <2>2
    <3>2. is[k + 1] \in 1..Count(ms[k + 1]) /\ IsSeq(Rest(chs, k + 1)) /\ Joins(Rest(chs, k), PieceOf(ms[k + 1], is[k + 1]), Rest(chs, k + 1))
      BY <3>1, HeadPiece
    <3>. QED  BY <1>1, <2>2, <2>3, <3>2
  <2>5. /\ q \in Nat \ {0} /\ Len(rest) = q + Len(e) + Len(after) /\ \A i \in 1..Len(e) : rest[q + i] = e[i]
    <3>1. IsPieceRead(m, 2, after, rest, size, q, e, ParseChunk(rest, size))
      BY <1>2, <2>2, <2>4, PieceRead
    <3>. QED  BY <3>1 DEF IsPieceRead
  <2>6. rest[1][1] = "basic" /\ \A i \in 2..q : rest[i][1] = "csid"
    BY <1>2, <2>2, <2>4, HeadCells
  <2>7. PICK a : a = (2 - 1) * m.size
    OBVIOUS
  <2>8. a = s /\ Len(e) \in Nat \ {0} /\ \A i \in 1..Len(e) : e[i] = y[a + i]
    <3>1. a = s
      BY <1>1, <1>4, <2>7
    <3>2. /\ Len(PieceData(m, 2)) \in Nat \ {0}
          /\ \A i \in 1..Len(PieceData(m, 2)) : PieceData(m, 2)[i] = m.payload[(2 - 1) * m.size + i]
      BY <1>2, <2>4, PieceDataFacts
    <3>. QED  BY <1>1, <2>2, <2>7, <3>1, <3>2, Zenon
  <2>9. Len(after) \in Nat
    BY <2>4, SeqLen
  <2>10. 1 <= Len(rest) /\ 2 <= Len(rest)
    BY <2>5, <2>8, <2>9
  <2>11. x[s + 1][1] \in Junk
    <3>1. x[s + 1] = rest[1]
      BY <1>11, <1>12, <2>10
    <3>. QED  BY <2>6, <3>1 DEF Junk
  <2>12. ASSUME s + 2 <= n PROVE x[s + 2][1] \in Junk \/ x[s + 2] = y[s + 1]
    <3>1. 2 \in 1..(n - s)
      BY <1>4, <1>5, <2>12
    <3>2. x[s + 2] = rest[2]
      BY <1>11, <2>10, <3>1
    <3>3. CASE q = 1
      <4>1. 1 \in 1..Len(e) /\ q + 1 = 2
        BY <2>8, <3>3
      <4>2. rest[q + 1] = e[1] /\ e[1] = y[a + 1]
        BY <2>5, <2>8, <4>1
      <4>. QED  BY <2>8, <3>2, <4>1, <4>2
    <3>4. CASE q # 1
      <4>1. 2 \in 2..q
        BY <2>5, <3>4
      <4>. QED  BY <2>6, <3>2, <4>1 DEF Junk
    <3>. QED  BY <3>3, <3>4
  <2>13. Named(y)
    BY <1>1, <1>2, <1>5, PayloadCells
  <2>. QED  BY <1>1, <1>4, <1>5, <1>9, <1>10, <2>11, <2>12, <2>13 DEF CutOff
<1>. QED  BY <1>13, <1>14

\* Where a reader may be that goes on from a chunk by any number of cells: at the end, at
\* a chunk, or at a cell that begins no header.
Somewhere(data, chs) ==
  \/ data = <<>> \/ data[1][1] # "basic"
  \/ \E k \in Nat : k <= Len(chs) /\ data = Rest(chs, k)

LEMMA AfterBeyond == ASSUME NEW x, IsSeq(x), NEW p \in Nat, p > Len(x) PROVE After(x, p) = <<>>
<1>1. PICK n, g : n = Len(x) /\ g = p + 1
  OBVIOUS
<1>2. n \in Nat /\ g \in Nat /\ g > n + 1
  BY <1>1, SeqLen
<1>3. SubSeq(x, g, n) = <<>>
  BY <1>2
<1>. QED  BY <1>1, <1>3 DEF After

LEMMA AfterRest ==
  ASSUME NEW chs, NEW ms, NEW is, NEW ids, Cut(chs, ms, is, ids)
  PROVE  \A i \in Nat : i <= Len(chs) => \A p \in Nat : Somewhere(After(Rest(chs, i), p), chs)
<1>1. PICK n : n = Len(chs)
  OBVIOUS
<1>2. n \in Nat /\ AllCells(chs)
  BY <1>1, CutCells
<1>3. \A i \in Nat : i <= n => IsSeq(Rest(chs, i))
  BY <1>1, <1>2, RestFacts
<1>. DEFINE S == {k \in Nat : \A i \in Nat : i <= n /\ i + k = n => \A p \in Nat : Somewhere(After(Rest(chs, i), p), chs)}
<1>4. 0 \in S
  <2>1. SUFFICES ASSUME NEW i \in Nat, i <= n /\ i + 0 = n, NEW p \in Nat
                 PROVE Somewhere(After(Rest(chs, i), p), chs)
    OBVIOUS
  <2>. HIDE DEF S
  <2>2. Rest(chs, i) = <<>>
    BY <1>1, <1>2, <2>1, RestFacts
  <2>3. PICK e : e = Rest(chs, i)
    OBVIOUS
  <2>4. IsSeq(e) /\ Len(e) = 0
    BY <2>2, <2>3, SeqEmpty
  <2>5. After(e, p) = <<>>
    <3>1. CASE p > 0
      BY <2>4, <3>1, AfterBeyond
    <3>2. CASE p = 0
      <4>1. IsSeq(After(e, p)) /\ Len(After(e, p)) = 0
        <5>1. p <= Len(e) /\ Len(e) - p = 0
          BY <2>4, <3>2
        <5>. QED  BY <2>4, <5>1, AfterIs
      <4>2. PICK a : a = After(e, p)
        OBVIOUS
      <4>. QED  BY <4>1, <4>2, SeqLen
    <3>. QED  BY <3>1, <3>2
  <2>. QED  BY <2>3, <2>5 DEF Somewhere
<1>5. ASSUME NEW k \in Nat, k \in S PROVE k + 1 \in S
  <2>1. SUFFICES ASSUME NEW i \in Nat, i <= n /\ i + (k + 1) = n, NEW p \in Nat
                 PROVE Somewhere(After(Rest(chs, i), p), chs)
    OBVIOUS
  <2>2. PICK j : j = i + 1
    OBVIOUS
  <2>3. j \in Nat /\ j <= n /\ j + k = n /\ i < n
    BY <1>2, <2>1, <2>2
  <2>4. \A c \in Nat : Somewhere(After(Rest(chs, j), c), chs)
    BY <1>5, <2>3
  <2>. HIDE DEF S
  <2>5. PICK piece, rest, data : piece = PieceOf(ms[j], is[j]) /\ rest = Rest(chs, j) /\ data = Rest(chs, i)
    OBVIOUS
  <2>6. IsMsg(ms[j], ids) /\ is[j] \in 1..Count(ms[j]) /\ IsSeq(rest) /\ data = piece \o rest
    <3>1. /\ IsMsg(ms[i + 1], ids) /\ is[i + 1] \in 1..Count(ms[i + 1]) /\ IsSeq(Rest(chs, i + 1))
          /\ Joins(Rest(chs, i), PieceOf(ms[i + 1], is[i + 1]), Rest(chs, i + 1))
      BY <1>1, <2>3, HeadPiece
    <3>. QED  BY <2>2, <2>5, <3>1 DEF Joins
  <2>7. IsSeq(piece) /\ Len(piece) \in Nat \ {0} /\ \A c \in 2..Len(piece) : piece[c][1] # "basic"
    BY <2>5, <2>6, PieceIsSeq, OneBasic
  <2>8. /\ IsSeq(data) /\ Len(data) = Len(piece) + Len(rest)
        /\ \A c \in 1..Len(piece) : data[c] = piece[c]
    BY <2>6, <2>7, SeqConcat
  <2>9. Len(rest) \in Nat /\ Len(data) \in Nat
    BY <2>6, <2>8, SeqLen
  <2>10. CASE p > Len(data)
    BY <2>5, <2>8, <2>10, AfterBeyond DEF Somewhere
  <2>11. CASE p <= Len(data) /\ p >= Len(piece)
    <3>1. PICK c, l : l = Len(piece) /\ c = p - l
      OBVIOUS
    <3>2. c \in Nat /\ l \in Nat /\ l + c = p /\ l + c <= Len(data)
      BY <2>7, <2>9, <2>11, <3>1
    <3>3. After(data, l) = rest
      BY <2>6, <2>7, <3>1, AfterFirst
    <3>4. After(After(data, l), c) = After(data, l + c)
      BY <2>8, <3>2, AfterAfter
    <3>. QED  BY <2>4, <2>5, <3>2, <3>3, <3>4
  <2>12. CASE p < Len(piece)
    <3>1. p <= Len(data) /\ 1 \in 1..(Len(data) - p)
      BY <2>7, <2>8, <2>9, <2>12
    <3>2. \A c \in 1..(Len(data) - p) : After(data, p)[c] = data[p + c]
      BY <2>8, <3>1, AfterIs
    <3>3. After(data, p)[1] = data[p + 1]
      BY <3>1, <3>2
    <3>4. CASE p = 0
      <4>1. IsSeq(<<>>) /\ Len(<<>>) = 0 /\ <<>> \o data = data
        BY <2>8, SeqEmpty
      <4>2. PICK e : e = <<>>
        OBVIOUS
      <4>3. After(e \o data, Len(e)) = data
        BY <2>8, <4>1, <4>2, AfterFirst
      <4>4. After(data, p) = Rest(chs, i)
        BY <2>5, <3>4, <4>1, <4>2, <4>3
      <4>5. After(Rest(chs, i), p) = Rest(chs, i)
        BY <2>5, <4>4
      <4>. QED  BY <1>1, <2>1, <4>5 DEF Somewhere
    <3>5. CASE p # 0
      <4>1. p + 1 \in 2..Len(piece) /\ p + 1 \in 1..Len(piece)
        BY <2>7, <2>12, <3>5
      <4>2. data[p + 1][1] # "basic"
        BY <2>7, <2>8, <4>1
      <4>3. PICK a : a = After(data, p)
        OBVIOUS
      <4>4. a[1][1] # "basic"
        BY <3>3, <4>2, <4>3
      <4>. QED  BY <2>5, <4>3, <4>4 DEF Somewhere
    <3>. QED  BY <3>4, <3>5
  <2>13. p > Len(data) \/ (p <= Len(data) /\ p >= Len(piece)) \/ p < Len(piece)
    BY <2>7, <2>9
  <2>. QED  BY <2>10, <2>11, <2>12, <2>13
<1>. HIDE DEF S
<1>6. \A k \in Nat : k \in S
  BY <1>4, <1>5, SetInduction
<1>7. ASSUME NEW i \in Nat, i <= n, NEW p \in Nat PROVE Somewhere(After(Rest(chs, i), p), chs)
  <2>1. n - i \in Nat /\ i + (n - i) = n
    BY <1>2, <1>7
  <2>2. n - i \in S
    BY <1>6, <2>1
  <2>. QED  BY <1>7, <2>1, <2>2 DEF S
<1>. QED  BY <1>1, <1>7

\* A reader that may have lost its way.
Held(c) == IsParsed(c) /\ c.length \in Nat /\ IsSeq(c.payload) /\ Len(c.payload) <= c.length
AllHeld(started) == IsSeq(started) /\ \A k \in 1..Len(started) : Held(started[k])
Going(st, chs) ==
  /\ st.garbled = FALSE /\ st.stopped = FALSE
  /\ Somewhere(st.rest, chs) /\ st.chunkSize \in Nat \ {0} /\ AllHeld(st.started)
Loose(st, chs, ids) ==
  /\ IsDechunk(st) /\ AllSaid(st.retval, ids) /\ st.garbled \in BOOLEAN
  /\ st.garbled = TRUE \/ st.stopped = TRUE \/ Going(st, chs)

LEMMA Largest ==
  ASSUME NEW n \in Nat, NEW S, S \subseteq 1..n, S # {}
  PROVE  \E k \in S : \A i \in S : i <= k
<1>. DEFINE P == {d \in Nat : \A T \in SUBSET (1..d) : T # {} => \E k \in T : \A i \in T : i <= k}
<1>1. 0 \in P
  <2>1. 1..0 = {}
    OBVIOUS
  <2>2. \A T \in SUBSET (1..0) : T = {}
    BY <2>1
  <2>. QED  BY <2>2
<1>2. ASSUME NEW d \in Nat, d \in P PROVE d + 1 \in P
  <2>1. SUFFICES ASSUME NEW T \in SUBSET (1..(d + 1)), T # {}
                 PROVE \E k \in T : \A i \in T : i <= k
    OBVIOUS
  <2>2. CASE d + 1 \in T
    BY <2>1, <2>2
  <2>3. CASE d + 1 \notin T
    <3>1. T \in SUBSET (1..d)
      BY <2>1, <2>3
    <3>. QED  BY <1>2, <2>1, <3>1
  <2>. QED  BY <2>2, <2>3
<1>. HIDE DEF P
<1>3. \A d \in Nat : d \in P
  BY <1>1, <1>2, SetInduction
<1>4. n \in P
  BY <1>3
<1>. QED  BY <1>4 DEF P

LEMMA SaidAppended ==
  ASSUME NEW ids, NEW s, AllSaid(s, ids), NEW v, IsSaid(v, ids)
  PROVE  AllSaid(Append(s, v), ids)
<1>1. PICK t, n : t = Append(s, v) /\ n = Len(s)
  OBVIOUS
<1>2. IsSeq(s) /\ n \in Nat
  BY <1>1, SeqLen DEF AllSaid
<1>3. IsSeq(t) /\ Len(t) = n + 1 /\ t[n + 1] = v /\ \A i \in 1..n : t[i] = s[i]
  BY <1>1, <1>2, SeqAppend
<1>4. ASSUME NEW k \in 1..Len(t) PROVE IsSaid(t[k], ids)
  <2>1. CASE k = n + 1
    BY <1>3, <2>1
  <2>2. CASE k # n + 1
    <3>1. k \in 1..n
      BY <1>2, <1>3, <2>2
    <3>. QED  BY <1>1, <1>3, <3>1 DEF AllSaid
  <2>. QED  BY <2>1, <2>2
<1>. QED  BY <1>1, <1>3, <1>4 DEF AllSaid

LEMMA TrimmedLen ==
  ASSUME NEW p, NEW n \in Nat
  PROVE  IsSeq(TrimPayload(p, n)) /\ Len(TrimPayload(p, n)) = n
<1>1. PICK x : x = TrimPayload(p, n)
  OBVIOUS
<1>2. DOMAIN x = 1..n /\ x = [i \in 1..n |-> x[i]]
  BY <1>1 DEF TrimPayload
<1>. QED  BY <1>1, <1>2, SeqMade

\* A turn at a chunk that continues a message.
LEMMA LooseContinues ==
  ASSUME NEW chs, NEW ids, NEW st, Loose(st, chs, ids), Going(st, chs), NEW chunk,
         \A p \in Nat : Somewhere(After(st.rest, p), chs), chunk.header \in Nat
  PROVE  Loose(DechunkType3(st, chunk), chs, ids)
<1>1. /\ IsDechunk(st) /\ AllSaid(st.retval, ids) /\ st.garbled = FALSE /\ st.stopped = FALSE
      /\ st.chunkSize \in Nat \ {0} /\ AllHeld(st.started) /\ IsSeq(st.started)
  BY DEF Loose, Going, AllHeld
<1>2. PICK n, S : n = Len(st.started) /\ S = {i \in 1..n : st.started[i].csid = chunk.csid}
  OBVIOUS
<1>3. n \in Nat /\ DOMAIN st.started = 1..n
  BY <1>1, <1>2, SeqLen
<1>4. PICK new : new = DechunkType3(st, chunk)
  OBVIOUS
<1>5. CASE S = {}
  <2>1. {i \in DOMAIN st.started : st.started[i].csid = chunk.csid} = {}
    BY <1>2, <1>3, <1>5
  <2>2. new = [st EXCEPT !.stopped = TRUE]
    BY <1>4, <2>1 DEF DechunkType3
  <2>3. IsDechunk(new) /\ new.retval = st.retval /\ new.garbled = st.garbled /\ new.stopped = TRUE
    BY <1>1, <2>2 DEF IsDechunk, DechunkFields
  <2>. QED  BY <1>1, <1>4, <2>3 DEF Loose
<1>6. CASE S # {}
  <2>1. PICK k \in S : \A i \in S : i <= k
    BY <1>2, <1>3, <1>6, Largest
  <2>2. k \in 1..Len(st.started) /\ st.started[k].csid = chunk.csid
    BY <1>2, <2>1
  <2>3. \A i \in 1..Len(st.started) : st.started[i].csid = chunk.csid => i <= k
    BY <1>2, <2>1
  <2>4. PICK d, old, room : d = DataOf(st, chunk, k) /\ old = st.started[k] /\ room = old.length - Len(old.payload)
    OBVIOUS
  <2>5. IsContinued(new, st, chunk, k, d)
    BY <1>1, <1>4, <2>2, <2>3, <2>4, ContinuedIs
  <2>6. Held(old)
    BY <1>1, <2>2, <2>4 DEF AllHeld
  <2>7. IsParsed(old) /\ old.length \in Nat /\ IsSeq(old.payload) /\ Len(old.payload) <= old.length /\ Len(old.payload) \in Nat
    BY <2>6, SeqLen DEF Held
  <2>8. IsSeq(d) /\ Len(d) \in Nat /\ Len(d) <= room
    <3>1. PICK l : l = Least(st.chunkSize, room)
      OBVIOUS
    <3>2. l \in Nat /\ l <= room
      BY <1>1, <2>4, <2>7, <3>1 DEF Least
    <3>3. d = TrimPayload(chunk.payload, l)
      BY <2>4, <3>1 DEF DataOf
    <3>. QED  BY <3>2, <3>3, TrimmedLen
  <2>9. PICK new_k, x : new_k = new.started[k] /\ x = old.payload \o d
    OBVIOUS
  <2>10. /\ IsDechunk(new) /\ new.rest = After(st.rest, chunk.header + Len(d))
         /\ new.retval = st.retval /\ new.chunkSize = st.chunkSize
         /\ new.stopped = FALSE /\ new.garbled = FALSE
         /\ IsSeq(new.started) /\ Len(new.started) = n
         /\ \A i \in 1..n : i # k => new.started[i] = st.started[i]
         /\ IsParsed(new_k) /\ new_k.length = old.length /\ new_k.payload = x
    BY <1>1, <1>2, <2>4, <2>5, <2>7, <2>9 DEF IsContinued
  <2>11. IsSeq(x) /\ Len(x) = Len(old.payload) + Len(d)
    BY <2>7, <2>8, <2>9, SeqConcat
  <2>12. Held(new_k)
    <3>1. Len(x) <= old.length
      BY <2>4, <2>7, <2>8, <2>11
    <3>. QED  BY <2>7, <2>10, <2>11, <3>1 DEF Held
  <2>13. AllHeld(new.started)
    <3>1. ASSUME NEW i \in 1..n PROVE Held(new.started[i])
      <4>1. CASE i = k
        BY <2>9, <2>12, <4>1
      <4>2. CASE i # k
        BY <1>1, <1>2, <2>10, <4>2 DEF AllHeld
      <4>. QED  BY <4>1, <4>2
    <3>. QED  BY <2>10, <3>1 DEF AllHeld
  <2>14. Somewhere(new.rest, chs)
    <3>1. PICK p : p = chunk.header + Len(d)
      OBVIOUS
    <3>2. p \in Nat
      BY <2>8, <3>1
    <3>. QED  BY <2>10, <3>1, <3>2
  <2>15. Going(new, chs)
    BY <1>1, <2>10, <2>13, <2>14 DEF Going
  <2>. QED  BY <1>1, <1>4, <2>10, <2>15 DEF Loose
<1>. QED  BY <1>5, <1>6

\* What a command is given out as when its payload was parsed astray, or as if it were whole.
LEMMA GivesOutCommand ==
  ASSUME NEW ids, NEW m, IsMsg(m, ids), m.type = COMMANDAMF0, NEW st, IsDechunk(st), NEW chunk,
         chunk.type = COMMANDAMF0,
         TryParse(chunk.payload).garbled \/ TryParse(chunk.payload).retval = TryParse(m.payload).retval
  PROVE  \/ GiveOut(st, chunk) = [st EXCEPT !.garbled = TRUE]
         \/ GivenOut(GiveOut(st, chunk), st, m)
<1>1. /\ TryParse(m.payload).retval = m.body /\ m.body # <<>> /\ m.body[1][1] = "String"
  BY MsgFacts
<1>2. PICK g, x : g = GiveOut(st, chunk) /\ x = TryParse(chunk.payload)
  OBVIOUS
<1>5. ~ConstructorThrows(chunk.type, chunk.payload[1][2])
  BY DEF ConstructorThrows, COMMANDAMF0, PROTOSETCHUNKSIZE, PROTOSETPEERBANDWIDTH
<1>3. CASE x.garbled
  <2>1. chunk.type = COMMANDAMF0 /\ TryParse(chunk.payload).garbled
    BY <1>2, <1>3
  <2>2. /\ chunk.type # PROTOSETCHUNKSIZE
        /\ chunk.type \notin {PROTOABORT, PROTOACKNOWLEDGEMENT, USERCONTROL, PROTOACKWINDOWSIZE, PROTOSETPEERBANDWIDTH}
    BY <2>1 DEF COMMANDAMF0, PROTOSETCHUNKSIZE, PROTOABORT, PROTOACKNOWLEDGEMENT, USERCONTROL, PROTOACKWINDOWSIZE, PROTOSETPEERBANDWIDTH
  <2>. QED  BY <1>5, <2>1, <2>2 DEF GiveOut
<1>4. CASE ~x.garbled
  <2>1. x.retval = m.body
    BY <1>1, <1>2, <1>4
  <2>2. g = [st EXCEPT !.retval = Append(@, [type |-> COMMANDAMF0, body |-> m.body])]
    <3>1. /\ chunk.type = COMMANDAMF0 /\ ~TryParse(chunk.payload).garbled
          /\ TryParse(chunk.payload).retval # <<>> /\ TryParse(chunk.payload).retval[1][1] = "String"
          /\ TryParse(chunk.payload).retval = m.body
      BY <1>1, <1>2, <1>4, <2>1
    <3>2. GiveOut(st, chunk) =
            [st EXCEPT !.retval = Append(@, [type |-> COMMANDAMF0, body |-> TryParse(chunk.payload).retval])]
      <4>1. /\ chunk.type # PROTOSETCHUNKSIZE
            /\ chunk.type \notin {PROTOABORT, PROTOACKNOWLEDGEMENT, USERCONTROL, PROTOACKWINDOWSIZE, PROTOSETPEERBANDWIDTH}
        BY <3>1 DEF COMMANDAMF0, PROTOSETCHUNKSIZE, PROTOABORT, PROTOACKNOWLEDGEMENT, USERCONTROL, PROTOACKWINDOWSIZE, PROTOSETPEERBANDWIDTH
      <4>. QED  BY <1>5, <3>1, <4>1 DEF GiveOut
    <3>. QED  BY <1>2, <3>1, <3>2, Zenon
  <2>3. m.type # PROTOSETCHUNKSIZE
    BY DEF COMMANDAMF0, PROTOSETCHUNKSIZE
  <2>. QED  BY <1>2, <2>2, <2>3 DEF GivenOut, IsDechunk, DechunkFields, SaysOf
<1>. QED  BY <1>3, <1>4

\* A turn at a chunk that begins a message.
LEMMA LooseStarts ==
  ASSUME NEW chs, NEW ms, NEW is, NEW ids, Cut(chs, ms, is, ids), NEW t \in Nat, t < Len(chs),
         is[t + 1] = 1, NEW st, Loose(st, chs, ids), Going(st, chs), st.rest = Rest(chs, t)
  PROVE  Loose(DechunkTurn(st), chs, ids)
<1>1. PICK m, data, rest, size : /\ m = ms[t + 1] /\ data = Rest(chs, t) /\ rest = Rest(chs, t + 1)
                                 /\ size = st.chunkSize
  OBVIOUS
<1>2. /\ IsMsg(m, ids) /\ 1 \in 1..Count(m) /\ IsSeq(rest) /\ Joins(data, PieceOf(m, 1), rest)
      /\ t <= Len(chs)
  <2>1. /\ IsMsg(ms[t + 1], ids) /\ is[t + 1] \in 1..Count(ms[t + 1])
        /\ IsSeq(Rest(chs, t + 1)) /\ Joins(Rest(chs, t), PieceOf(ms[t + 1], is[t + 1]), Rest(chs, t + 1))
    BY HeadPiece
  <2>2. Len(chs) \in Nat
    BY CutCells
  <2>. QED  BY <1>1, <2>1, <2>2
<1>3. /\ IsDechunk(st) /\ st.rest = data /\ AllHeld(st.started) /\ IsSeq(st.started) /\ AllSaid(st.retval, ids)
      /\ st.stopped = FALSE /\ st.garbled = FALSE /\ size \in Nat \ {0}
  BY <1>1 DEF Loose, Going, AllHeld
<1>4. PICK h, d, chunk : h = HeadOf(m, 1) /\ d = PieceData(m, 1) /\ chunk = ParseChunk(data, size)
  OBVIOUS
<1>5. /\ h \in Nat \ {0} /\ IsSeq(data) /\ data # <<>>
      /\ Len(data) = h + Len(d) + Len(rest)
      /\ \A i \in 1..Len(d) : data[h + i] = d[i]
      /\ HeaderReads(data)
      /\ chunk.fmt = FmtOf(m, 1) /\ chunk.header = h
      /\ chunk.length = Len(m.payload) /\ chunk.type = m.type
      /\ chunk.payload = SubSeq(data, h + 1, Least(h + size, Len(data)))
  <2>1. IsPieceRead(m, 1, rest, data, size, h, d, chunk)
    BY <1>2, <1>4, PieceRead
  <2>. QED  BY <2>1 DEF IsPieceRead
<1>6. /\ IsSeq(m.payload) /\ Len(m.payload) \in Nat \ {0} /\ m.fmt \in {0, 1} /\ m.size \in Nat \ {0}
      /\ SizeAfter(m) \in Nat \ {0}
  BY <1>2, MsgFacts, SizesAre
<1>7. IsParsed(chunk) /\ chunk.fmt # 3
  BY <1>4, <1>5, <1>6, ParsedShape DEF FmtOf
<1>8. PICK c, p, l, x : /\ c = Trimmed(st, chunk) /\ p = Pushed(st, chunk)
                        /\ l = Least(size, chunk.length) /\ x = c.payload
  OBVIOUS
<1>9. /\ IsParsed(c) /\ x = TrimPayload(chunk.payload, l)
      /\ c.length = Len(m.payload) /\ c.type = m.type
      /\ IsDechunk(p) /\ p.started = Append(st.started, c)
      /\ p.rest = After(data, h + Len(x))
      /\ p.retval = st.retval /\ p.chunkSize = size
      /\ p.stopped = FALSE /\ p.garbled = FALSE
      /\ DechunkStart(st, chunk) = IF Len(x) = Len(m.payload) THEN GiveOut(p, c) ELSE p
  <2>1. IsStarted(st, chunk, c, p)
    BY <1>3, <1>7, <1>8, StartIs
  <2>. QED  BY <1>1, <1>3, <1>5, <1>8, <2>1 DEF IsStarted
<1>10. l \in Nat /\ l <= Len(m.payload) /\ l <= size /\ (l = Len(m.payload) <=> Len(m.payload) <= size)
  BY <1>3, <1>5, <1>6, <1>8 DEF Least
<1>11. IsSeq(x) /\ Len(x) = l
  BY <1>9, <1>10, TrimmedLen
<1>12. AllHeld(p.started)
  <2>1. Held(c)
    BY <1>6, <1>8, <1>9, <1>10, <1>11 DEF Held
  <2>2. PICK s, n : s = Append(st.started, c) /\ n = Len(st.started)
    OBVIOUS
  <2>3. n \in Nat /\ IsSeq(s) /\ Len(s) = n + 1 /\ s[n + 1] = c /\ \A i \in 1..n : s[i] = st.started[i]
    BY <1>3, <2>2, SeqLen, SeqAppend
  <2>4. ASSUME NEW i \in 1..Len(s) PROVE Held(s[i])
    <3>1. CASE i = n + 1
      BY <2>1, <2>3, <3>1
    <3>2. CASE i # n + 1
      <4>1. i \in 1..n
        BY <2>3, <3>2
      <4>. QED  BY <1>3, <2>2, <2>3, <4>1 DEF AllHeld
    <3>. QED  BY <3>1, <3>2
  <2>. QED  BY <1>9, <2>2, <2>3, <2>4 DEF AllHeld
<1>13. Somewhere(p.rest, chs)
  <2>1. PICK k : k = h + Len(x)
    OBVIOUS
  <2>2. k \in Nat
    BY <1>5, <1>10, <1>11, <2>1
  <2>3. Somewhere(After(Rest(chs, t), k), chs)
    BY <1>2, <2>2, AfterRest
  <2>. QED  BY <1>1, <1>9, <2>1, <2>3
<1>14. PICK new : new = DechunkTurn(st)
  OBVIOUS
<1>15. new = IF Len(x) = Len(m.payload) THEN GiveOut(p, c) ELSE p
  <2>1. HeaderReads(st.rest) /\ st.rest # <<>> /\ chunk = ParseChunk(st.rest, st.chunkSize)
    BY <1>1, <1>3, <1>4, <1>5
  <2>2. DechunkTurn(st) = DechunkStart(st, chunk)
    BY <1>3, <1>7, <2>1, TurnIs
  <2>. QED  BY <1>9, <1>14, <2>2
<1>16. CASE Len(x) # Len(m.payload)
  <2>1. Going(p, chs)
    BY <1>3, <1>9, <1>12, <1>13 DEF Going
  <2>2. Loose(p, chs, ids)
    BY <1>3, <1>9, <2>1 DEF Loose
  <2>. QED  BY <1>14, <1>15, <1>16, <2>2
<1>17. CASE Len(x) = Len(m.payload)
  <2>1. l = Len(m.payload) /\ Len(m.payload) <= size
    BY <1>10, <1>11, <1>17
  <2>2. new = GiveOut(p, c)
    BY <1>15, <1>17
  <2>3. new = [p EXCEPT !.garbled = TRUE] \/ GivenOut(new, p, m)
    <3>1. CASE Count(m) = 1
      <4>1. d = m.payload /\ IsSeq(d)
        BY <1>2, <1>4, <3>1, PieceDataFacts
      <4>2. Len(rest) \in Nat
        BY <1>2, SeqLen
      <4>3. h + Len(d) <= Len(data)
        BY <1>5, <1>6, <4>1, <4>2
      <4>4. IsSeq(data) /\ h \in Nat /\ size \in Nat /\ Len(d) <= size
        BY <1>3, <1>5, <2>1, <4>1
      <4>5. \A i \in 1..Len(d) : data[h + i] = d[i]
        BY <1>5
      <4>6. TrimPayload(SubSeq(data, h + 1, Least(h + size, Len(data))), Len(d)) = d
        BY <4>1, <4>3, <4>4, <4>5, TrimmedIs
      <4>7. c.payload = m.payload
        BY <1>5, <1>8, <1>9, <2>1, <4>1, <4>6
      <4>8. GiveOut(p, c) = [p EXCEPT !.garbled = TRUE] \/ GivenOut(GiveOut(p, c), p, m)
        BY <1>2, <1>9, <4>7, GivesOut
      <4>. QED  BY <2>2, <4>8
    <3>2. CASE Count(m) # 1
      <4>1. IsTrimmed(x, data, h, size, Len(m.payload))
        BY <1>5, <1>9, <2>1 DEF IsTrimmed
      <4>2. CutOff(x, m.payload, m.size) /\ m.type = COMMANDAMF0
        <5>1. size \in Nat /\ is[t + 1] = 1 /\ m = ms[t + 1] /\ data = Rest(chs, t)
          BY <1>1, <1>3
        <5>. QED  BY <1>4, <2>1, <3>2, <4>1, <5>1, CutPayload
      <4>3. TryParse(x).garbled \/ TryParse(x).retval = TryParse(m.payload).retval
        BY <4>2, CutParse
      <4>4. TryParse(c.payload).garbled \/ TryParse(c.payload).retval = TryParse(m.payload).retval
        BY <1>8, <4>3
      <4>5. GiveOut(p, c) = [p EXCEPT !.garbled = TRUE] \/ GivenOut(GiveOut(p, c), p, m)
        BY <1>2, <1>9, <4>2, <4>4, GivesOutCommand
      <4>. QED  BY <2>2, <4>5
    <3>. QED  BY <3>1, <3>2
  <2>4. CASE new = [p EXCEPT !.garbled = TRUE]
    <3>1. IsDechunk(new) /\ new.retval = st.retval /\ new.garbled = TRUE
      BY <1>9, <2>4 DEF IsDechunk, DechunkFields
    <3>. QED  BY <1>3, <1>14, <3>1 DEF Loose
  <2>5. CASE GivenOut(new, p, m)
    <3>1. PICK v : v = SaysOf(m)
      OBVIOUS
    <3>2. IsSaid(v, ids)
      BY <1>2, <3>1 DEF IsSaid
    <3>3. /\ IsDechunk(new) /\ new.rest = p.rest /\ new.started = p.started
          /\ new.stopped = FALSE /\ new.garbled = FALSE
          /\ new.retval = Append(st.retval, v)
          /\ new.chunkSize = IF m.type = PROTOSETCHUNKSIZE THEN m.body ELSE size
      BY <1>9, <2>5, <3>1 DEF GivenOut
    <3>4. AllSaid(new.retval, ids)
      BY <1>3, <3>2, <3>3, SaidAppended
    <3>5. new.chunkSize \in Nat \ {0}
      BY <1>3, <1>6, <3>3 DEF SizeAfter
    <3>6. Going(new, chs)
      BY <1>12, <1>13, <3>3, <3>5 DEF Going
    <3>. QED  BY <1>14, <3>3, <3>4, <3>6 DEF Loose
  <2>. QED  BY <2>3, <2>4, <2>5
<1>. QED  BY <1>16, <1>17

LEMMA LooseTurn ==
  ASSUME NEW chs, NEW ms, NEW is, NEW ids, Cut(chs, ms, is, ids), NEW st, Loose(st, chs, ids)
  PROVE  Loose(DechunkTurn(st), chs, ids)
<1>1. PICK new, data : new = DechunkTurn(st) /\ data = st.rest
  OBVIOUS
<1>2. CASE st.garbled = TRUE \/ st.stopped = TRUE \/ data = <<>>
  <2>1. new = st
    BY <1>1, <1>2 DEF DechunkTurn
  <2>. QED  BY <1>1, <2>1
<1>3. CASE ~(st.garbled = TRUE \/ st.stopped = TRUE \/ data = <<>>)
  <2>1. Going(st, chs) /\ st.garbled = FALSE /\ st.stopped = FALSE /\ Somewhere(data, chs) /\ data # <<>>
    BY <1>1, <1>3 DEF Loose, Going
  <2>2. new = DechunkStep(st)
    BY <1>1, <2>1 DEF DechunkTurn
  <2>3. CASE data[1][1] # "basic"
    <3>1. ~HeaderReads(data)
      BY <2>3 DEF HeaderReads, IsField
    <3>2. new = [st EXCEPT !.garbled = TRUE]
      BY <1>1, <2>2, <3>1 DEF DechunkStep
    <3>3. IsDechunk(new) /\ new.retval = st.retval /\ new.garbled = TRUE
      BY <3>2 DEF IsDechunk, DechunkFields, Loose
    <3>. QED  BY <1>1, <3>3 DEF Loose
  <2>4. CASE \E t \in Nat : t <= Len(chs) /\ data = Rest(chs, t)
    <3>1. PICK t \in Nat : t <= Len(chs) /\ data = Rest(chs, t)
      BY <2>4
    <3>2. AllCells(chs) /\ Len(chs) \in Nat
      BY CutCells
    <3>3. t < Len(chs)
      <4>1. t = Len(chs) => Rest(chs, t) = <<>>
        BY <3>1, <3>2, RestFacts
      <4>. QED  BY <2>1, <3>1, <3>2, <4>1
    <3>4. CASE is[t + 1] = 1
      BY <1>1, <2>1, <3>1, <3>3, <3>4, LooseStarts
    <3>5. CASE is[t + 1] # 1
      <4>1. PICK m, j, rest, size : m = ms[t + 1] /\ j = is[t + 1] /\ rest = Rest(chs, t + 1) /\ size = st.chunkSize
        OBVIOUS
      <4>2. IsMsg(m, ids) /\ j \in 1..Count(m) /\ IsSeq(rest) /\ Joins(data, PieceOf(m, j), rest)
        BY <3>1, <3>3, <4>1, HeadPiece
      <4>3. PICK h, d, chunk : h = HeadOf(m, j) /\ d = PieceData(m, j) /\ chunk = ParseChunk(data, size)
        OBVIOUS
      <4>4. h \in Nat \ {0} /\ HeaderReads(data) /\ chunk.fmt = FmtOf(m, j) /\ chunk.header = h
        <5>1. IsPieceRead(m, j, rest, data, size, h, d, chunk)
          BY <4>2, <4>3, PieceRead
        <5>. QED  BY <5>1 DEF IsPieceRead
      <4>5. chunk.fmt = 3 /\ chunk.header \in Nat
        BY <3>5, <4>1, <4>4 DEF FmtOf
      <4>6. new = DechunkType3(st, chunk)
        <5>1. HeaderReads(st.rest) /\ st.rest # <<>> /\ chunk = ParseChunk(st.rest, st.chunkSize)
          BY <1>1, <2>1, <4>1, <4>3, <4>4
        <5>2. IsDechunk(st)
          BY DEF Loose
        <5>. QED  BY <1>1, <2>1, <4>5, <5>1, <5>2, TurnIs
      <4>7. \A p \in Nat : Somewhere(After(st.rest, p), chs)
        BY <1>1, <3>1, AfterRest
      <4>8. Loose(DechunkType3(st, chunk), chs, ids)
        BY <2>1, <4>5, <4>7, LooseContinues
      <4>. QED  BY <1>1, <4>6, <4>8
    <3>. QED  BY <3>4, <3>5
  <2>. QED  BY <2>1, <2>3, <2>4 DEF Somewhere
<1>. QED  BY <1>2, <1>3

IsStray(parsed, ids) == AllSaid(parsed.retval, ids) /\ parsed.garbled \in BOOLEAN

\* ChunkProcessor::TryParse with any size, the right one or not: the messages it gives out
\* are messages of the server, with the values they had. What it takes for a message and
\* is none it finds out or drops.
THEOREM ReadStray ==
  ASSUME NEW chs, NEW ms, NEW is, NEW ids, Cut(chs, ms, is, ids), NEW size \in Nat \ {0}
  PROVE  IsStray(ChunkProcessorTryParse(Rest(chs, 0), size), ids)
<1>1. PICK data, len : data = Rest(chs, 0) /\ len = Len(data)
  OBVIOUS
<1>2. len \in Nat /\ Len(chs) \in Nat
  BY <1>1, CutCells, RestLong
<1>3. PICK f : DechunkOf(f, data, size, len) /\ ChunkProcessorTryParse(data, size) = f[len]
  BY <1>1, <1>2, DechunkIs
<1>5. \A t \in 0..len : f[t] = IF t = 0 THEN Dechunking(data, size) ELSE DechunkTurn(f[t - 1])
  BY <1>3, DechunkAt
<1>. DEFINE S == {t \in Nat : t <= len => Loose(f[t], chs, ids)}
<1>7. 0 \in S
  <2>1. f[0] = Dechunking(data, size)
    <3>1. 0 \in 0..len
      BY <1>2
    <3>. QED  BY <1>5, <3>1
  <2>2. PICK st, e : st = Dechunking(data, size) /\ e = <<>>
    OBVIOUS
  <2>3. /\ IsDechunk(st) /\ st.rest = data /\ st.started = e /\ st.retval = e
        /\ st.chunkSize = size /\ st.stopped = FALSE /\ st.garbled = FALSE
    <3>1. IsFirst(st, data, size)
      BY <2>2, FirstDechunk
    <3>. QED  BY <2>2, <3>1 DEF IsFirst
  <2>4. IsSeq(e) /\ Len(e) = 0
    BY <2>2, SeqEmpty
  <2>5. AllSaid(st.retval, ids) /\ AllHeld(st.started)
    BY <2>3, <2>4 DEF AllSaid, AllHeld
  <2>6. Somewhere(st.rest, chs)
    BY <1>1, <1>2, <2>3 DEF Somewhere
  <2>7. Going(st, chs)
    BY <2>3, <2>5, <2>6 DEF Going
  <2>8. Loose(st, chs, ids)
    BY <2>3, <2>5, <2>7 DEF Loose
  <2>. QED  BY <2>1, <2>2, <2>8
<1>8. ASSUME NEW t \in Nat, t \in S PROVE t + 1 \in S
  <2>1. SUFFICES ASSUME t + 1 <= len PROVE Loose(f[t + 1], chs, ids)
    OBVIOUS
  <2>2. Loose(f[t], chs, ids)
    BY <1>2, <1>8, <2>1
  <2>. HIDE DEF S
  <2>3. t + 1 \in 0..len /\ t + 1 # 0 /\ (t + 1) - 1 = t
    BY <1>2, <2>1
  <2>4. f[t + 1] = DechunkTurn(f[t])
    BY <1>5, <2>3
  <2>. QED  BY <2>2, <2>4, LooseTurn
<1>. HIDE DEF S
<1>9. \A t \in Nat : t \in S
  BY <1>7, <1>8, SetInduction
<1>10. Loose(f[len], chs, ids)
  BY <1>2, <1>9 DEF S
<1>. QED  BY <1>1, <1>3, <1>10 DEF Loose, IsStray

----------------------------------------------------------------------------
(* The invariant.                                                               *)

\* All the chunks of a message.
PiecesOf(m) == [j \in 1..Count(m) |-> PieceRec(m, j)]

\* Bytes of the server that end with a message, and the size it writes with then.
Ends(chs, ms, is, size) ==
  Len(chs) # 0 => is[Len(chs)] = Count(ms[Len(chs)]) /\ SizeAfter(ms[Len(chs)]) = size
Pieces(chs, size, ids) == \E ms, is : Cut(chs, ms, is, ids) /\ Ends(chs, ms, is, size)

LEMMA PiecesFacts ==
  ASSUME NEW ids, NEW m, IsMsg(m, ids)
  PROVE  /\ Count(m) \in Nat \ {0} /\ IsSeq(PiecesOf(m)) /\ Len(PiecesOf(m)) = Count(m)
         /\ \A j \in 1..Count(m) : PiecesOf(m)[j] = PieceRec(m, j)
<1>1. PICK n, p : n = Count(m) /\ p = PiecesOf(m)
  OBVIOUS
<1>2. n \in Nat \ {0}
  BY <1>1, CountFacts
<1>3. DOMAIN p = 1..n /\ p = [j \in 1..n |-> p[j]] /\ \A j \in 1..n : p[j] = PieceRec(m, j)
  BY <1>1 DEF PiecesOf
<1>4. IsSeq(p) /\ Len(p) = n
  BY <1>2, <1>3, SeqMade
<1>. QED  BY <1>1, <1>2, <1>3, <1>4

LEMMA MsgMonotonic ==
  ASSUME NEW ids, NEW more, ids \subseteq more, NEW m, IsMsg(m, ids) PROVE IsMsg(m, more)
<1>1. IsReply(m.body, ids) => IsReply(m.body, more)
  BY DEF IsReply
<1>. QED  BY <1>1 DEF IsMsg

LEMMA CutMonotonic ==
  ASSUME NEW ids, NEW more, ids \subseteq more, NEW chs, NEW ms, NEW is, Cut(chs, ms, is, ids)
  PROVE  Cut(chs, ms, is, more)
BY MsgMonotonic DEF Cut

LEMMA CutPrefix ==
  ASSUME NEW chs, NEW ms, NEW is, NEW ids, Cut(chs, ms, is, ids), NEW n \in 1..Len(chs)
  PROVE  /\ Cut(SubSeq(chs, 1, n), ms, is, ids) /\ Len(SubSeq(chs, 1, n)) = n
         /\ \A i \in 1..n : SubSeq(chs, 1, n)[i] = chs[i]
<1>1. PICK x, l : x = SubSeq(chs, 1, n) /\ l = Len(chs)
  OBVIOUS
<1>2. IsSeq(chs) /\ l \in Nat
  BY <1>1, CutCells
<1>3. n \in 1..l /\ n \in Nat
  BY <1>1, <1>2
<1>4. IsSeq(x) /\ Len(x) = n /\ \A i \in 1..n : x[i] = chs[i]
  <2>1. 1 \in Nat \ {0} /\ n \in 0..Len(chs) /\ 1 <= n + 1 /\ n - 1 + 1 = n
    BY <1>1, <1>3
  <2>2. IsSeq(x) /\ Len(x) = n - 1 + 1 /\ \A i \in 1..(n - 1 + 1) : x[i] = chs[1 + i - 1]
    BY <1>1, <1>2, <2>1, SeqSub
  <2>3. \A i \in 1..n : 1 + i - 1 = i
    OBVIOUS
  <2>. QED  BY <2>1, <2>2, <2>3
<1>5. \A i \in 1..n : i \in 1..Len(chs)
  BY <1>1, <1>3
<1>6. \A i \in 1..Len(x) : IsMsg(ms[i], ids) /\ is[i] \in 1..Count(ms[i]) /\ x[i] = PieceRec(ms[i], is[i])
  BY <1>4, <1>5 DEF Cut
<1>7. \A i \in 1..Len(x) : i + 1 <= Len(x) => Follows(ms[i], is[i], ms[i + 1], is[i + 1])
  <2>1. TAKE i \in 1..Len(x)
  <2>2. i \in 1..Len(chs) /\ (i + 1 <= Len(x) => i + 1 <= Len(chs))
    BY <1>1, <1>3, <1>4
  <2>. QED  BY <2>2 DEF Cut
<1>. QED  BY <1>1, <1>4, <1>6, <1>7 DEF Cut

LEMMA CutSuffix ==
  ASSUME NEW chs, NEW ms, NEW is, NEW ids, Cut(chs, ms, is, ids), NEW size, Ends(chs, ms, is, size),
         NEW n \in 1..Len(chs)
  PROVE  LET left == SubSeq(chs, n + 1, Len(chs))
         IN /\ Pieces(left, size, ids)
            /\ left = <<>> <=> n = Len(chs)
            /\ n < Len(chs) => left[1] = chs[n + 1]
<1>1. PICK x, l, g : x = SubSeq(chs, g, l) /\ l = Len(chs) /\ g = n + 1
  OBVIOUS
<1>2. IsSeq(chs) /\ l \in Nat
  BY <1>1, CutCells
<1>3. l \in Nat /\ n \in 1..l /\ n \in Nat /\ l - n \in Nat
  BY <1>1, <1>2
<1>4. IsSeq(x) /\ Len(x) = l - n /\ \A i \in 1..(l - n) : x[i] = chs[n + i]
  <2>1. g \in Nat \ {0} /\ l \in 0..Len(chs) /\ g <= l + 1 /\ l - g + 1 = l - n
    BY <1>1, <1>2, <1>3
  <2>2. IsSeq(x) /\ Len(x) = l - g + 1 /\ \A i \in 1..(l - g + 1) : x[i] = chs[g + i - 1]
    BY <1>1, <1>2, <2>1, SeqSub
  <2>3. \A i \in 1..(l - n) : g + i - 1 = n + i
    BY <1>1, <1>3
  <2>. QED  BY <2>1, <2>2, <2>3
<1>5. PICK ms2, is2 : ms2 = [i \in 1..(l - n) |-> ms[n + i]] /\ is2 = [i \in 1..(l - n) |-> is[n + i]]
  OBVIOUS
<1>6. \A i \in 1..(l - n) : ms2[i] = ms[n + i] /\ is2[i] = is[n + i] /\ n + i \in 1..Len(chs)
  BY <1>1, <1>3, <1>5
<1>7. \A i \in 1..Len(x) : IsMsg(ms2[i], ids) /\ is2[i] \in 1..Count(ms2[i]) /\ x[i] = PieceRec(ms2[i], is2[i])
  BY <1>4, <1>6 DEF Cut
<1>8. ASSUME NEW i \in 1..Len(x), i + 1 <= Len(x) PROVE Follows(ms2[i], is2[i], ms2[i + 1], is2[i + 1])
  <2>1. i \in 1..(l - n) /\ i + 1 \in 1..(l - n) /\ n + i \in 1..Len(chs) /\ (n + i) + 1 <= Len(chs)
        /\ n + (i + 1) = (n + i) + 1
    <3>1. i \in 1..(l - n) /\ i + 1 <= l - n
      BY <1>4, <1>8
    <3>. QED  BY <1>1, <1>3, <3>1
  <2>2. Follows(ms[n + i], is[n + i], ms[(n + i) + 1], is[(n + i) + 1])
    BY <2>1 DEF Cut
  <2>. QED  BY <1>6, <2>1, <2>2
<1>9. Cut(x, ms2, is2, ids)
  BY <1>4, <1>7, <1>8 DEF Cut
<1>10. Ends(x, ms2, is2, size)
  <2>1. SUFFICES ASSUME Len(x) # 0 PROVE is2[Len(x)] = Count(ms2[Len(x)]) /\ SizeAfter(ms2[Len(x)]) = size
    BY DEF Ends
  <2>2. l - n \in 1..(l - n) /\ n + (l - n) = l /\ Len(chs) # 0
    BY <1>1, <1>3, <1>4, <2>1
  <2>3. ms2[l - n] = ms[l] /\ is2[l - n] = is[l]
    BY <1>6, <2>2
  <2>. QED  BY <1>1, <1>4, <2>2, <2>3 DEF Ends
<1>11. x = <<>> <=> n = l
  <2>1. x = <<>> <=> Len(x) = 0
    BY <1>4, SeqLen
  <2>. QED  BY <1>3, <1>4, <2>1
<1>12. n < l => x[1] = chs[n + 1]
  <2>1. n < l => 1 \in 1..(l - n)
    BY <1>3
  <2>. QED  BY <1>4, <2>1
<1>13. Pieces(x, size, ids)
  BY <1>9, <1>10 DEF Pieces
<1>. QED  BY <1>1, <1>11, <1>12, <1>13

\* The messages and the numbers of the chunks of chs, and then those of m.
LEMMA CutJoined ==
  ASSUME NEW ids, NEW chs, NEW size, Pieces(chs, size, ids), NEW m, IsMsg(m, ids), m.size = size
  PROVE  /\ Pieces(chs \o PiecesOf(m), SizeAfter(m), ids)
         /\ chs \o PiecesOf(m) # <<>>
         /\ chs # <<>> => (chs \o PiecesOf(m))[1] = chs[1]
         /\ chs = <<>> => (chs \o PiecesOf(m))[1] = PieceRec(m, 1)
<1>1. PICK ms, is : Cut(chs, ms, is, ids) /\ Ends(chs, ms, is, size)
  BY DEF Pieces
<1>2. PICK p, n, c, x : p = PiecesOf(m) /\ n = Len(chs) /\ c = Count(m) /\ x = chs \o p
  OBVIOUS
<1>3. IsSeq(chs) /\ n \in Nat
  BY <1>1, <1>2, CutCells
<1>4. c \in Nat \ {0} /\ IsSeq(p) /\ Len(p) = c /\ \A j \in 1..c : p[j] = PieceRec(m, j)
  BY <1>2, PiecesFacts
<1>5. /\ IsSeq(x) /\ Len(x) = n + c /\ (\A i \in 1..n : x[i] = chs[i])
      /\ \A j \in 1..c : x[n + j] = p[j]
  <2>1. /\ IsSeq(chs \o p) /\ Len(chs \o p) = Len(chs) + Len(p)
        /\ \A i \in 1..Len(chs) : (chs \o p)[i] = chs[i]
        /\ \A i \in 1..Len(p) : (chs \o p)[Len(chs) + i] = p[i]
    BY <1>3, <1>4, SeqConcat
  <2>. QED  BY <1>2, <1>4, <2>1
<1>6. PICK l : l = n + c
  OBVIOUS
<1>7. PICK ms2, is2 : /\ ms2 = [i \in 1..l |-> IF i <= n THEN ms[i] ELSE m]
                      /\ is2 = [i \in 1..l |-> IF i <= n THEN is[i] ELSE i - n]
  OBVIOUS
<1>8. l \in Nat /\ l > n
  BY <1>3, <1>4, <1>6
<1>9. \A i \in 1..n : ms2[i] = ms[i] /\ is2[i] = is[i] /\ x[i] = chs[i] /\ i \in 1..Len(chs)
  BY <1>2, <1>3, <1>5, <1>7, <1>8
<1>10. ASSUME NEW i \in 1..l, ~(i <= n)
       PROVE  ms2[i] = m /\ is2[i] = i - n /\ i - n \in 1..c /\ x[i] = PieceRec(m, i - n)
  <2>1. PICK j : j = i - n
    OBVIOUS
  <2>2. j \in 1..c /\ n + j = i
    BY <1>3, <1>4, <1>6, <1>10, <2>1
  <2>3. x[i] = p[j] /\ p[j] = PieceRec(m, j)
    BY <1>4, <1>5, <2>2
  <2>. QED  BY <1>7, <1>10, <2>1, <2>2, <2>3
<1>11. ASSUME NEW i \in 1..l
       PROVE  IsMsg(ms2[i], ids) /\ is2[i] \in 1..Count(ms2[i]) /\ x[i] = PieceRec(ms2[i], is2[i])
  <2>1. CASE i <= n
    <3>1. i \in 1..n
      BY <1>3, <2>1
    <3>2. IsMsg(ms[i], ids) /\ is[i] \in 1..Count(ms[i]) /\ chs[i] = PieceRec(ms[i], is[i])
      BY <1>1, <1>9, <3>1 DEF Cut
    <3>. QED  BY <1>9, <3>1, <3>2
  <2>2. CASE ~(i <= n)
    BY <1>2, <1>10, <2>2
  <2>. QED  BY <2>1, <2>2
<1>12. ASSUME NEW i \in 1..l, i + 1 <= l PROVE Follows(ms2[i], is2[i], ms2[i + 1], is2[i + 1])
  <2>1. CASE i + 1 <= n
    <3>1. i \in 1..n /\ i + 1 \in 1..n /\ i \in 1..Len(chs) /\ i + 1 <= Len(chs)
      BY <1>2, <1>3, <2>1
    <3>2. Follows(ms[i], is[i], ms[i + 1], is[i + 1])
      BY <1>1, <3>1 DEF Cut
    <3>. QED  BY <1>9, <3>1, <3>2
  <2>2. CASE i = n
    <3>1. i \in 1..n /\ Len(chs) # 0
      BY <1>2, <2>2
    <3>2. is2[i] = Count(ms2[i]) /\ SizeAfter(ms2[i]) = size
      BY <1>1, <1>2, <1>9, <2>2, <3>1 DEF Ends
    <3>3. i + 1 \in 1..l /\ ~(i + 1 <= n) /\ (i + 1) - n = 1
      BY <1>3, <1>8, <2>2
    <3>4. ms2[i + 1] = m /\ is2[i + 1] = 1
      BY <1>10, <3>3
    <3>. QED  BY <3>2, <3>4 DEF Follows
  <2>3. CASE ~(i <= n)
    <3>1. i + 1 \in 1..l /\ ~(i + 1 <= n) /\ (i + 1) - n = (i - n) + 1 /\ i - n < c
      BY <1>3, <1>4, <1>6, <1>12, <2>3
    <3>2. ms2[i] = m /\ is2[i] = i - n
      BY <1>10, <2>3
    <3>3. ms2[i + 1] = m /\ is2[i + 1] = (i - n) + 1
      BY <1>10, <3>1
    <3>. QED  BY <1>2, <3>1, <3>2, <3>3 DEF Follows
  <2>4. i + 1 <= n \/ i = n \/ ~(i <= n)
    BY <1>3
  <2>. QED  BY <2>1, <2>2, <2>3, <2>4
<1>13. Cut(x, ms2, is2, ids)
  BY <1>5, <1>6, <1>11, <1>12 DEF Cut
<1>14. Ends(x, ms2, is2, SizeAfter(m))
  <2>1. l \in 1..l /\ ~(l <= n) /\ l - n = c
    BY <1>3, <1>4, <1>6
  <2>2. ms2[l] = m /\ is2[l] = c
    BY <1>10, <2>1
  <2>. QED  BY <1>2, <1>5, <1>6, <2>2 DEF Ends
<1>15. Pieces(x, SizeAfter(m), ids)
  BY <1>13, <1>14 DEF Pieces
<1>16. x # <<>>
  <2>1. IsSeq(x) /\ Len(x) = l /\ l # 0
    BY <1>3, <1>5, <1>6, <1>8
  <2>. QED  BY <2>1, SeqLen
<1>17. chs # <<>> => x[1] = chs[1]
  <2>1. chs # <<>> => 1 \in 1..n
    BY <1>2, <1>3, SeqLen
  <2>. QED  BY <1>5, <2>1
<1>18. chs = <<>> => x[1] = PieceRec(m, 1)
  <2>1. chs = <<>> => n = 0
    BY <1>2, SeqEmpty
  <2>2. chs = <<>> => 1 \in 1..l /\ ~(1 <= n) /\ 1 - n = 1
    BY <1>8, <2>1
  <2>. QED  BY <1>10, <2>2
<1>. QED  BY <1>2, <1>15, <1>16, <1>17, <1>18

LEMMA ChunksArePieces ==
  ASSUME NEW fmt, NEW csid, NEW type, NEW body, NEW payload,
         NEW m, m = [fmt |-> fmt, csid |-> csid, type |-> type, body |-> body, payload |-> payload, size |-> outSize]
  PROVE  Chunks(fmt, csid, type, body, payload) = PiecesOf(m)
<1>1. /\ m.fmt = fmt /\ m.csid = csid /\ m.type = type /\ m.body = body /\ m.payload = payload
      /\ m.size = outSize
  OBVIOUS
<1>2. PICK raw, n : raw = RTMPMessage(0, type, 0, payload) /\ n = (Len(payload) + outSize - 1) \div outSize
  OBVIOUS
<1>3. RawOf(m) = raw /\ raw.payload = payload /\ Count(m) = n
  BY <1>1, <1>2 DEF RawOf, RTMPMessage, Count, NumChunks
<1>4. \A i : PieceData(m, i) = SubSeq(payload, (i - 1) * outSize + 1, Least(i * outSize, Len(payload)))
  BY <1>1, <1>3 DEF PieceData, ChunkData
<1>. DEFINE Part(i) ==
       [cells |-> ToBitstream(IF i = 1 THEN fmt ELSE 3, csid, raw,
                              SubSeq(payload, (i - 1) * outSize + 1, Least(i * outSize, Len(payload)))),
        size |-> outSize, first |-> i = 1, last |-> i = n, says |-> [type |-> type, body |-> body]]
<1>5. \A i : PieceRec(m, i) = Part(i)
  BY <1>1, <1>3, <1>4 DEF PieceRec, PieceOf, FmtOf, SaysOf
<1>6. PiecesOf(m) = [i \in 1..n |-> PieceRec(m, i)]
  BY <1>3 DEF PiecesOf
<1>7. Chunks(fmt, csid, type, body, payload) = [i \in 1..n |-> Part(i)]
  BY <1>2, Zenon DEF Chunks
<1>. HIDE DEF Part
<1>. QED  BY <1>5, <1>6, <1>7

\* What is true of the messenger and the server before every step, and after it.
AtTheStart == at = 1 /\ fromServer # <<>> => fromServer[1].first = TRUE
InputInv ==
  /\ TypeOK
  /\ Pieces(fromServer, outSize, given)
  /\ AtTheStart
  /\ StreamIDGiven
  /\ ServerChunkSizeFollowed

LEMMA ReceivesAre ==
  /\ Len(Receives) = 5 /\ DOMAIN Receives = 1..5
  /\ Receives[1] = "connect" /\ Receives[2] = "releaseStream" /\ Receives[3] = "FCPublish"
  /\ Receives[4] = "createStream" /\ Receives[5] = "publish"
BY DEF Receives

LEMMA CutNone == ASSUME NEW size, NEW ids PROVE Pieces(<<>>, size, ids)
<1>1. PICK e : e = <<>>
  OBVIOUS
<1>2. IsSeq(e) /\ Len(e) = 0
  BY <1>1, SeqEmpty
<1>3. Cut(e, e, e, ids) /\ Ends(e, e, e, size)
  BY <1>2 DEF Cut, Ends
<1>. QED  BY <1>1, <1>3 DEF Pieces

LEMMA InitHolds == ASSUME Init PROVE InputInv /\ ReadAsWritten
<1>1. TypeOK
  <2>1. at \in 0..(Len(Receives) + 1) /\ replied \in 0..Len(Receives)
    BY ReceivesAre DEF Init
  <2>2. 1 \in 1..MaxAttempts /\ 0 \in 0..MaxControls
    BY InputAssumption
  <2>. QED  BY <2>1, <2>2 DEF Init, TypeOK
<1>2. Pieces(fromServer, outSize, given)
  BY CutNone DEF Init
<1>3. AtTheStart /\ StreamIDGiven /\ ServerChunkSizeFollowed
  BY DEF Init, AtTheStart, StreamIDGiven, ServerChunkSizeFollowed
<1>4. ReadAsWritten
  <2>1. read.chunks = <<>>
    BY DEF Init, NoRead
  <2>. QED  BY <2>1 DEF ReadAsWritten
<1>. QED  BY <1>1, <1>2, <1>3, <1>4 DEF InputInv

\* A message that the server sends.
LEMMA MessageSent ==
  ASSUME InputInv, NEW m, IsMsg(m, given'), m.size = outSize, fromServer' = fromServer \o PiecesOf(m),
         outSize' = SizeAfter(m), given \subseteq given', UNCHANGED client, read' = NoRead, TypeOK'
  PROVE  InputInv' /\ ReadAsWritten'
<1>1. PICK size, more, old, chs : /\ size = outSize /\ more = given' /\ old = fromServer /\ chs = old \o PiecesOf(m)
  OBVIOUS
<1>2. Pieces(old, size, more)
  <2>1. PICK ms, is : Cut(fromServer, ms, is, given) /\ Ends(fromServer, ms, is, size)
    BY <1>1 DEF InputInv, Pieces
  <2>2. Cut(old, ms, is, more)
    BY <1>1, <2>1, CutMonotonic
  <2>. QED  BY <1>1, <2>1, <2>2 DEF Pieces
<1>3. /\ Pieces(chs, SizeAfter(m), more) /\ chs # <<>>
      /\ old # <<>> => chs[1] = old[1]
      /\ old = <<>> => chs[1] = PieceRec(m, 1)
  BY <1>1, <1>2, CutJoined
<1>4. Pieces(fromServer', outSize', given')
  BY <1>1, <1>3
<1>5. PieceRec(m, 1).first = (1 = 1) /\ PieceRec(m, 1).size = outSize
  BY RecFields
<1>6. at' = at /\ serverChunkSize' = serverChunkSize /\ streamID' = streamID /\ missed' = missed
  BY DEF client
<1>7. AtTheStart'
  BY <1>1, <1>3, <1>5, <1>6 DEF InputInv, AtTheStart
<1>8. StreamIDGiven'
  BY <1>6 DEF InputInv, StreamIDGiven
<1>9. ServerChunkSizeFollowed'
  BY <1>1, <1>3, <1>5, <1>6 DEF InputInv, ServerChunkSizeFollowed, Receiving
<1>10. ReadAsWritten'
  <2>1. (read.chunks)' = <<>>
    BY DEF NoRead
  <2>. QED  BY <2>1 DEF ReadAsWritten
<1>. QED  BY <1>4, <1>7, <1>8, <1>9, <1>10 DEF InputInv

LEMMA SentHolds ==
  ASSUME InputInv, NEW type, NEW body, NEW payload, ServerSends(type, body, payload), TypeOK',
         given \subseteq given',
         \/ type = COMMANDAMF0 /\ IsReply(body, given') /\ payload = Encode(body) /\ outSize' = outSize
         \/ /\ type \in Controls /\ payload = <<<<"value", body>>>>
            /\ type = PROTOSETCHUNKSIZE => body \in ServerChunkSizes /\ outSize' = body
            /\ type # PROTOSETCHUNKSIZE => outSize' = outSize
            /\ type = PROTOSETPEERBANDWIDTH => body \in LimitTypes
  PROVE  InputInv' /\ ReadAsWritten'
<1>1. PICK fmt, csid : /\ fmt \in IF type = COMMANDAMF0 /\ replied > 0 THEN LaterTypes ELSE {0}
                       /\ csid \in IF type = COMMANDAMF0 THEN ReplyIDs ELSE {2}
                       /\ fromServer' = fromServer \o Chunks(fmt, csid, type, body, payload)
                       /\ read' = NoRead /\ UNCHANGED client
  BY DEF ServerSends
<1>2. fmt \in {0, 1} /\ csid \in Nat /\ csid >= 2
  BY <1>1, InputAssumption, LastIsNat
<1>3. PICK m : m = [fmt |-> fmt, csid |-> csid, type |-> type, body |-> body, payload |-> payload, size |-> outSize]
  OBVIOUS
<1>4. /\ m.fmt = fmt /\ m.csid = csid /\ m.type = type /\ m.body = body /\ m.payload = payload
      /\ m.size = outSize
  BY <1>3
<1>5. Chunks(fmt, csid, type, body, payload) = PiecesOf(m)
  BY <1>3, ChunksArePieces
<1>6. outSize \in Sizes
  BY DEF InputInv, TypeOK, Sizes
<1>7. type \in Controls => type # COMMANDAMF0
  BY MessageTypes
<1>8. IsMsg(m, given')
  BY <1>2, <1>4, <1>6 DEF IsMsg
<1>9. outSize' = SizeAfter(m)
  BY <1>4, <1>7 DEF SizeAfter, COMMANDAMF0, PROTOSETCHUNKSIZE
<1>10. fromServer' = fromServer \o PiecesOf(m) /\ read' = NoRead /\ UNCHANGED client
  BY <1>1, <1>5
<1>. QED  BY <1>4, <1>8, <1>9, <1>10, MessageSent

LEMMA SaysReply == ASSUME InputInv, ServerReplies PROVE InputInv' /\ ReadAsWritten'
<1>1. Receiving /\ replied < Sent /\ replied' = replied + 1 /\ outSize' = outSize /\ controls' = controls
  BY DEF ServerReplies
<1>2. at \in 1..5 /\ replied \in 0..4 /\ replied + 1 \in 1..5
  <2>1. at \in 1..5
    BY <1>1, ReceivesAre DEF Receiving
  <2>2. replied \in Nat /\ Sent \in 1..5
    BY <2>1, ReceivesAre DEF InputInv, TypeOK, Sent
  <2>. QED  BY <1>1, <2>1, <2>2
<1>3. PICK command : command = Receives[replied + 1]
  OBVIOUS
<1>4. command \in Commands
  BY <1>2, <1>3, ReceivesAre DEF Commands
<1>5. PICK id \in StreamIDs, refuses \in {FALSE, (command \in MayRefuse)} :
        LET body == IF refuses THEN Refusal ELSE Reply(command, id)
        IN /\ ServerSends(COMMANDAMF0, body, Encode(body))
           /\ given' = IF command = "createStream" /\ ~refuses THEN given \union {id} ELSE given
  BY <1>3 DEF ServerReplies
<1>6. PICK body, payload : body = (IF refuses THEN Refusal ELSE Reply(command, id)) /\ payload = Encode(body)
  OBVIOUS
<1>7. /\ ServerSends(COMMANDAMF0, body, payload)
      /\ given' = IF command = "createStream" /\ ~refuses THEN given \union {id} ELSE given
  BY <1>5, <1>6
<1>8. given \subseteq given' /\ IsReply(body, given')
  BY <1>4, <1>6, <1>7 DEF IsReply
<1>9. UNCHANGED client
  BY <1>7 DEF ServerSends
<1>10. TypeOK'
  BY <1>1, <1>2, <1>7, <1>9, ReceivesAre DEF InputInv, TypeOK, client
<1>11. PICK type : type = COMMANDAMF0
  OBVIOUS
<1>12. ServerSends(type, body, payload)
  BY <1>7, <1>11
<1>. QED  BY <1>1, <1>6, <1>8, <1>10, <1>11, <1>12, SentHolds

LEMMA SaysSize == ASSUME InputInv, ServerSetsChunkSize PROVE InputInv' /\ ReadAsWritten'
<1>1. PICK type : type = PROTOSETCHUNKSIZE
  OBVIOUS
<1>2. PICK size \in ServerChunkSizes : ServerSendsControl(type, size) /\ outSize' = size
  BY <1>1 DEF ServerSetsChunkSize
<1>3. PICK payload : payload = <<<<"value", size>>>>
  OBVIOUS
<1>4. /\ controls < MaxControls /\ controls' = controls + 1 /\ ServerSends(type, size, payload)
      /\ replied' = replied /\ given' = given
  BY <1>2, <1>3 DEF ServerSendsControl
<1>5. UNCHANGED client
  BY <1>4 DEF ServerSends
<1>6. TypeOK'
  BY <1>2, <1>4, <1>5, InputAssumption DEF InputInv, TypeOK, client
<1>7. type \in Controls /\ type # PROTOSETPEERBANDWIDTH
  BY <1>1 DEF Controls, PROTOSETCHUNKSIZE, PROTOSETPEERBANDWIDTH
<1>. QED  BY <1>1, <1>2, <1>3, <1>4, <1>6, <1>7, SentHolds

LEMMA SaysWindow == ASSUME InputInv, ServerSetsAckWindow PROVE InputInv' /\ ReadAsWritten'
<1>1. PICK type, body : type = PROTOACKWINDOWSIZE /\ body = 1
  OBVIOUS
<1>2. ServerSendsControl(type, body) /\ outSize' = outSize
  BY <1>1 DEF ServerSetsAckWindow
<1>3. PICK payload : payload = <<<<"value", body>>>>
  OBVIOUS
<1>4. /\ controls < MaxControls /\ controls' = controls + 1 /\ ServerSends(type, body, payload)
      /\ replied' = replied /\ given' = given
  BY <1>2, <1>3 DEF ServerSendsControl
<1>5. UNCHANGED client
  BY <1>4 DEF ServerSends
<1>6. TypeOK'
  BY <1>2, <1>4, <1>5, InputAssumption DEF InputInv, TypeOK, client
<1>7. type \in Controls /\ type # PROTOSETCHUNKSIZE /\ type # PROTOSETPEERBANDWIDTH
  BY <1>1 DEF Controls, PROTOACKWINDOWSIZE, PROTOSETCHUNKSIZE, PROTOSETPEERBANDWIDTH
<1>. QED  BY <1>2, <1>3, <1>4, <1>6, <1>7, SentHolds

LEMMA SaysLimit == ASSUME InputInv, ServerSetsPeerBandwidth PROVE InputInv' /\ ReadAsWritten'
<1>1. PICK type : type = PROTOSETPEERBANDWIDTH
  OBVIOUS
<1>2. PICK body \in LimitTypes : ServerSendsControl(type, body) /\ outSize' = outSize
  BY <1>1 DEF ServerSetsPeerBandwidth
<1>3. PICK payload : payload = <<<<"value", body>>>>
  OBVIOUS
<1>4. /\ controls < MaxControls /\ controls' = controls + 1 /\ ServerSends(type, body, payload)
      /\ replied' = replied /\ given' = given
  BY <1>2, <1>3 DEF ServerSendsControl
<1>5. UNCHANGED client
  BY <1>4 DEF ServerSends
<1>6. TypeOK'
  BY <1>2, <1>4, <1>5, InputAssumption DEF InputInv, TypeOK, client
<1>7. type \in Controls /\ type # PROTOSETCHUNKSIZE
  BY <1>1 DEF Controls, PROTOSETPEERBANDWIDTH, PROTOSETCHUNKSIZE
<1>. QED  BY <1>2, <1>3, <1>4, <1>6, <1>7, SentHolds

LEMMA Reconnected == ASSUME InputInv, ConnectAsync PROVE InputInv' /\ ReadAsWritten'
<1>1. TypeOK'
  BY InputAssumption, ReceivesAre DEF InputInv, TypeOK, ConnectAsync
<1>2. Pieces(fromServer', outSize', given')
  BY CutNone DEF ConnectAsync
<1>3. AtTheStart' /\ StreamIDGiven'
  BY DEF InputInv, ConnectAsync, AtTheStart, StreamIDGiven
<1>4. ServerChunkSizeFollowed'
  BY DEF ConnectAsync, ServerChunkSizeFollowed
<1>5. ReadAsWritten'
  <2>1. (read.chunks)' = <<>>
    BY DEF ConnectAsync, NoRead
  <2>. QED  BY <2>1 DEF ReadAsWritten
<1>. QED  BY <1>1, <1>2, <1>3, <1>4, <1>5 DEF InputInv

----------------------------------------------------------------------------
(* A read.                                                                      *)

LEMMA BytesOf ==
  ASSUME NEW chs, NEW ms, NEW is, NEW ids, Cut(chs, ms, is, ids)
  PROVE  FlattenSeq([i \in DOMAIN chs |-> chs[i].cells]) = Rest(chs, 0)
<1>1. PICK n : n = Len(chs)
  OBVIOUS
<1>2. n \in Nat /\ DOMAIN chs = 1..n
  BY <1>1, CutCells, SeqLen
<1>3. PICK f, g : f = [i \in DOMAIN chs |-> chs[i].cells] /\ g = [i \in 1..(n - 0) |-> chs[0 + i].cells]
  OBVIOUS
<1>4. n - 0 = n /\ \A i \in 1..n : 0 + i = i
  BY <1>2
<1>5. f = g
  BY <1>2, <1>3, <1>4
<1>. QED  BY <1>1, <1>3, <1>5 DEF Rest

\* As long as no size change is among them the chunks are cut with the same size.
LEMMA SameSize ==
  ASSUME NEW chs, NEW ms, NEW is, NEW ids, Cut(chs, ms, is, ids), NEW n \in Nat, n <= Len(chs),
         \A i \in 1..n : ms[i].type # PROTOSETCHUNKSIZE
  PROVE  \A i \in 1..n : SizeAfter(ms[i]) = ms[1].size
<1>1. Len(chs) \in Nat
  BY CutCells
<1>. DEFINE S == {t \in Nat : t \in 1..n => ms[t].size = ms[1].size}
<1>2. 0 \in S
  OBVIOUS
<1>3. ASSUME NEW t \in Nat, t \in S PROVE t + 1 \in S
  <2>1. SUFFICES ASSUME t + 1 \in 1..n PROVE ms[t + 1].size = ms[1].size
    OBVIOUS
  <2>2. CASE t = 0
    <3>1. t + 1 = 1
      BY <2>2
    <3>. QED  BY <3>1
  <2>3. CASE t # 0
    <3>1. t \in 1..n /\ t \in 1..Len(chs) /\ t + 1 <= Len(chs)
      BY <1>1, <2>1, <2>3
    <3>2. ms[t].size = ms[1].size
      BY <1>3, <3>1
    <3>. HIDE DEF S
    <3>3. Follows(ms[t], is[t], ms[t + 1], is[t + 1])
      BY <3>1 DEF Cut
    <3>4. SizeAfter(ms[t]) = ms[t].size
      BY <3>1 DEF SizeAfter
    <3>. QED  BY <3>2, <3>3, <3>4 DEF Follows
  <2>. QED  BY <2>2, <2>3
<1>. HIDE DEF S
<1>4. \A t \in Nat : t \in S
  BY <1>2, <1>3, SetInduction
<1>5. \A t \in 1..n : ms[t].size = ms[1].size
  BY <1>4 DEF S
<1>. QED  BY <1>5 DEF SizeAfter

\* The size that is expected after a read is the one the next chunk is cut with.
LEMMA NextIsCut ==
  ASSUME NEW chs, NEW ms, NEW is, NEW ids, Cut(chs, ms, is, ids), NEW size, Ends(chs, ms, is, size),
         NEW n \in 1..Len(chs)
  PROVE  IF n = Len(chs) THEN SizeAfter(ms[n]) = size ELSE chs[n + 1].size = SizeAfter(ms[n])
<1>1. Len(chs) \in Nat
  BY CutCells
<1>2. CASE n = Len(chs)
  <2>1. Len(chs) # 0
    BY <1>1, <1>2
  <2>. QED  BY <1>2, <2>1 DEF Ends
<1>3. CASE n # Len(chs)
  <2>1. n + 1 <= Len(chs) /\ n + 1 \in 1..Len(chs) /\ n \in 1..Len(chs)
    BY <1>1, <1>3
  <2>2. PICK m, k, j, i : m = ms[n] /\ k = ms[n + 1] /\ i = is[n] /\ j = is[n + 1]
    OBVIOUS
  <2>3. IsMsg(m, ids) /\ i \in 1..Count(m) /\ Follows(m, i, k, j) /\ chs[n + 1] = PieceRec(k, j)
    BY <2>1, <2>2 DEF Cut
  <2>4. chs[n + 1].size = k.size
    BY <2>3, RecFields
  <2>5. k.size = SizeAfter(m)
    <3>1. CASE i < Count(m) /\ k = m
      <4>1. Count(m) \in Nat /\ (m.type \in Controls => Count(m) = 1)
        BY <2>3, CountFacts
      <4>2. m.type # PROTOSETCHUNKSIZE
        BY <2>3, <3>1, <4>1 DEF Controls
      <4>. QED  BY <3>1, <4>2 DEF SizeAfter
    <3>2. CASE k.size = SizeAfter(m)
      BY <3>2
    <3>. QED  BY <2>3, <3>1, <3>2 DEF Follows
  <2>. QED  BY <1>3, <2>2, <2>4, <2>5
<1>. QED  BY <1>2, <1>3

\* What the readings say of the result of a parser, whatever it is called.
LEMMA ReadGivesSaid ==
  ASSUME NEW chs, NEW ms, NEW is, NEW ids, Cut(chs, ms, is, ids), Len(chs) # 0, is[1] = 1,
         NEW size \in Nat \ {0}, ms[1].type # PROTOSETCHUNKSIZE => size = ms[1].size,
         NEW parsed, parsed = ChunkProcessorTryParse(Rest(chs, 0), size)
  PROVE  IF \E i \in DOMAIN chs : Throws(chs[i]) THEN parsed.garbled = TRUE
         ELSE parsed.garbled = FALSE /\ parsed.retval = SaidInOneChunk(chs)
BY ReadAligned, Zenon

LEMMA ReadGivesNone ==
  ASSUME NEW chs, NEW ms, NEW is, NEW ids, Cut(chs, ms, is, ids), Len(chs) # 0, is[1] # 1,
         NEW size, NEW parsed, parsed = ChunkProcessorTryParse(Rest(chs, 0), size)
  PROVE  parsed.garbled = FALSE /\ parsed.retval = <<>>
BY ReadInside, Zenon

LEMMA ConnectRemembers ==
  ASSUME NEW chs, NEW ms, NEW is, NEW ids, Cut(chs, ms, is, ids), Len(chs) # 0,
         NEW st, IsDone(st), ms[1].type # PROTOSETCHUNKSIZE => st.serverChunkSize = ms[1].size,
         NEW function, function = "connect", NEW done, done = HandleAll(function, st, SaidInOneChunk(chs))
  PROVE  done.throws \/ done.serverChunkSize = SizeAfter(ms[Len(chs)])
BY SizeRemembered, Zenon

LEMMA ReceiveHolds ==
  ASSUME InputInv, NEW function, NEW n \in ReadSizes, Receive(function, n)
  PROVE  InputInv' /\ ReadAsWritten'
<1>1. PICK ms, is : Cut(fromServer, ms, is, given) /\ Ends(fromServer, ms, is, outSize)
  BY DEF InputInv, Pieces
<1>2. PICK chunks, data, size, parsed, st, done :
        /\ chunks = SubSeq(fromServer, 1, n)
        /\ data = FlattenSeq([i \in DOMAIN chunks |-> chunks[i].cells])
        /\ size = serverChunkSize /\ parsed = ChunkProcessorTryParse(data, size)
        /\ st = [serverChunkSize |-> size, streamID |-> streamID, throws |-> parsed.garbled]
        /\ done = HandleAll(function, st, parsed.retval)
  OBVIOUS
<1>3. /\ Receiving /\ Receives[at] = function
      /\ fromServer' = SubSeq(fromServer, n + 1, Len(fromServer))
      /\ read' = [chunks |-> chunks, size |-> size, retval |-> parsed.retval, garbled |-> parsed.garbled]
      /\ missed' = IF function = "connect" THEN missed /\ ~IsSizeChange(chunks[1].says)
                   ELSE missed \/ \E i \in DOMAIN chunks : IsSizeChange(chunks[i].says)
      /\ serverChunkSize' = done.serverChunkSize
      /\ streamID' = done.streamID
      /\ at' = (IF done.throws THEN 0 ELSE at + 1)
      /\ UNCHANGED <<attempt, server>>
  BY <1>2 DEF Receive
<1>4. /\ Cut(chunks, ms, is, given) /\ Len(chunks) = n /\ \A i \in 1..n : chunks[i] = fromServer[i]
      /\ n \in 1..Len(fromServer) /\ n \in Nat \ {0} /\ Len(fromServer) \in Nat
      /\ DOMAIN chunks = 1..n
  <2>1. n \in 1..Len(fromServer) /\ Len(fromServer) \in Nat
    BY <1>1, CutCells DEF ReadSizes
  <2>2. /\ Cut(chunks, ms, is, given) /\ Len(chunks) = n /\ \A i \in 1..n : chunks[i] = fromServer[i]
    BY <1>1, <1>2, <2>1, CutPrefix
  <2>3. IsSeq(chunks)
    BY <2>2, CutCells
  <2>. QED  BY <2>1, <2>2, <2>3, SeqLen
<1>5. data = Rest(chunks, 0) /\ size \in Nat \ {0}
  <2>1. size \in Sizes
    BY <1>2 DEF InputInv, TypeOK, Sizes
  <2>. QED  BY <1>2, <1>4, <2>1, BytesOf, SizesAre
<1>6. AllSaid(parsed.retval, given) /\ parsed.garbled \in BOOLEAN
  <2>1. IsStray(parsed, given)
    BY <1>2, <1>4, <1>5, ReadStray
  <2>. QED  BY <2>1 DEF IsStray
<1>7. /\ IsDone(st) /\ st.serverChunkSize = size /\ st.streamID = streamID /\ st.throws = parsed.garbled
  BY <1>2, <1>6 DEF IsDone, DoneFields
<1>8. HandsHold(st, given)
  BY <1>2, <1>7 DEF HandsHold, InputInv, TypeOK, Sizes, StreamIDGiven
<1>9. /\ IsDone(done) /\ done.serverChunkSize \in Sizes /\ done.streamID \in given \union {0}
      /\ function # "connect" => done.serverChunkSize = size
      /\ done.throws \in BOOLEAN /\ (parsed.garbled => done.throws)
  <2>1. StillHolds(done, function, st, given)
    BY <1>2, <1>6, <1>8, AllHold
  <2>. QED  BY <1>7, <2>1 DEF StillHolds, HandsHold, IsDone
<1>10. /\ at \in 1..5 /\ at' \in 0..6 /\ at' # 1 /\ (at' # 0 => at' = at + 1 /\ ~done.throws)
       /\ given' = given /\ outSize' = outSize
  <2>1. at \in 1..5
    BY <1>3, ReceivesAre DEF Receiving
  <2>. QED  BY <1>3, <1>9, <2>1 DEF server
<1>11. TypeOK'
  <2>1. missed' \in BOOLEAN
    BY <1>3 DEF InputInv, TypeOK
  <2>2. serverChunkSize' \in ServerChunkSizes \union {DefaultChunkSize}
    BY <1>3, <1>9 DEF Sizes
  <2>3. at' \in 0..(Len(Receives) + 1)
    BY <1>10, ReceivesAre
  <2>. QED  BY <1>3, <2>1, <2>2, <2>3 DEF InputInv, TypeOK, server
<1>12. PICK left : left = SubSeq(fromServer, n + 1, Len(fromServer))
  OBVIOUS
<1>13. /\ Pieces(left, outSize, given) /\ (left = <<>> <=> n = Len(fromServer))
       /\ n < Len(fromServer) => left[1] = fromServer[n + 1]
  BY <1>1, <1>4, <1>12, CutSuffix
<1>14. Pieces(fromServer', outSize', given')
  BY <1>3, <1>10, <1>12, <1>13
<1>15. AtTheStart' /\ StreamIDGiven'
  BY <1>3, <1>9, <1>10 DEF AtTheStart, StreamIDGiven
<1>16. /\ 1 \in 1..n /\ IsMsg(ms[1], given) /\ is[1] \in 1..Count(ms[1])
       /\ chunks[1].first = (is[1] = 1) /\ chunks[1].size = ms[1].size
       /\ fromServer[1] = chunks[1]
       /\ \A i \in 1..n : chunks[i].says.type = ms[i].type
  <2>1. 1 \in 1..n
    BY <1>4
  <2>2. \A i \in 1..n : IsMsg(ms[i], given) /\ is[i] \in 1..Count(ms[i]) /\ chunks[i] = PieceRec(ms[i], is[i])
    BY <1>4 DEF Cut
  <2>3. \A i \in 1..n : chunks[i].says = SaysOf(ms[i])
    BY <2>2, RecFields
  <2>4. \A m : SaysOf(m).type = m.type
    BY DEF SaysOf
  <2>5. \A i \in 1..n : chunks[i].says.type = ms[i].type
    BY <2>3, <2>4
  <2>. QED  BY <1>4, <2>1, <2>2, <2>5, RecFields
<1>19. parsed = ChunkProcessorTryParse(Rest(chunks, 0), size)
  BY <1>2, <1>5
<1>17. ReadAsWritten'
  <2>1. SUFFICES ASSUME size = chunks[1].size
                 PROVE  IF chunks[1].first
                        THEN /\ parsed.garbled = \E i \in DOMAIN chunks : Throws(chunks[i])
                             /\ ~parsed.garbled => parsed.retval = SaidInOneChunk(chunks)
                        ELSE ~parsed.garbled /\ parsed.retval = <<>>
    <3>1. /\ read'.chunks = chunks /\ read'.size = size /\ read'.retval = parsed.retval
          /\ read'.garbled = parsed.garbled
      BY <1>3
    <3>. QED  BY <3>1 DEF ReadAsWritten
  <2>2. Len(chunks) # 0
    BY <1>4
  <2>3. CASE is[1] = 1
    <3>1. IF \E i \in DOMAIN chunks : Throws(chunks[i]) THEN parsed.garbled = TRUE
          ELSE parsed.garbled = FALSE /\ parsed.retval = SaidInOneChunk(chunks)
      <4>1. ms[1].type # PROTOSETCHUNKSIZE => size = ms[1].size
        BY <1>16, <2>1
      <4>. QED  BY <1>4, <1>5, <1>19, <2>2, <2>3, <4>1, ReadGivesSaid
    <3>. QED  BY <1>16, <2>3, <3>1
  <2>4. CASE is[1] # 1
    <3>1. parsed.garbled = FALSE /\ parsed.retval = <<>>
      BY <1>4, <1>19, <2>2, <2>4, ReadGivesNone
    <3>. QED  BY <1>16, <2>4, <3>1
  <2>. QED  BY <2>3, <2>4
<1>18. ServerChunkSizeFollowed'
  <2>1. SUFFICES ASSUME ~missed', at' # 0 PROVE done.serverChunkSize = SizeAfter(ms[n])
    <3>1. IF n = Len(fromServer) THEN SizeAfter(ms[n]) = outSize ELSE fromServer[n + 1].size = SizeAfter(ms[n])
      BY <1>1, <1>4, NextIsCut
    <3>2. Receiving' => at' # 0
      BY ReceivesAre DEF Receiving
    <3>3. ~missed' /\ Receiving' =>
            serverChunkSize' = IF fromServer' = <<>> THEN outSize' ELSE fromServer'[1].size
      BY <1>3, <1>4, <1>10, <1>12, <1>13, <2>1, <3>1, <3>2
    <3>. QED  BY <3>3 DEF ServerChunkSizeFollowed
  <2>2. missed \in BOOLEAN
    BY DEF InputInv, TypeOK
  <2>4. fromServer # <<>>
    <3>1. IsSeq(fromServer) /\ Len(fromServer) # 0
      BY <1>1, <1>4, CutCells
    <3>. QED  BY <3>1, SeqLen
  <2>5. ~missed => size = ms[1].size
    <3>1. ~missed => serverChunkSize = fromServer[1].size
      BY <1>3, <2>4 DEF InputInv, ServerChunkSizeFollowed
    <3>. QED  BY <1>2, <1>16, <3>1
  <2>6. CASE function = "connect"
    <3>1. at = 1
      BY <1>3, <1>10, <2>6, ReceivesAre
    <3>2. is[1] = 1
      BY <1>16, <2>4, <3>1 DEF InputInv, AtTheStart
    <3>3. Len(chunks) # 0 /\ (ms[1].type # PROTOSETCHUNKSIZE => size = ms[1].size)
      <4>1. missed' = (missed /\ ~IsSizeChange(chunks[1].says))
        BY <1>3, <2>6
      <4>2. ms[1].type # PROTOSETCHUNKSIZE => ~IsSizeChange(chunks[1].says)
        BY <1>16 DEF IsSizeChange
      <4>. QED  BY <1>4, <2>1, <2>2, <2>5, <4>1, <4>2
    <3>8. parsed.garbled = FALSE
      <4>1. done.throws = FALSE
        BY <1>9, <1>10, <2>1
      <4>. QED  BY <1>6, <1>7, <1>9, <4>1
    <3>4. parsed.retval = SaidInOneChunk(chunks)
      <4>1. IF \E i \in DOMAIN chunks : Throws(chunks[i]) THEN parsed.garbled = TRUE
            ELSE parsed.garbled = FALSE /\ parsed.retval = SaidInOneChunk(chunks)
        BY <1>4, <1>5, <1>19, <3>2, <3>3, ReadGivesSaid
      <4>. QED  BY <3>8, <4>1
    <3>5. ms[1].type # PROTOSETCHUNKSIZE => st.serverChunkSize = ms[1].size
      BY <1>7, <3>3
    <3>6. done = HandleAll(function, st, SaidInOneChunk(chunks))
      BY <1>2, <3>4
    <3>7. done.throws \/ done.serverChunkSize = SizeAfter(ms[Len(chunks)])
      BY <1>4, <1>7, <2>6, <3>3, <3>5, <3>6, ConnectRemembers
    <3>. QED  BY <1>4, <1>10, <2>1, <3>7
  <2>7. CASE function # "connect"
    <3>1. \A i \in 1..n : ms[i].type # PROTOSETCHUNKSIZE
      <4>1. missed' = (missed \/ \E i \in DOMAIN chunks : IsSizeChange(chunks[i].says))
        BY <1>3, <2>7
      <4>2. ~(\E i \in DOMAIN chunks : IsSizeChange(chunks[i].says))
        BY <2>1, <4>1
      <4>. QED  BY <1>4, <1>16, <4>2 DEF IsSizeChange
    <3>2. n \in Nat /\ n <= Len(fromServer) /\ n \in 1..n
      BY <1>4
    <3>3. SizeAfter(ms[n]) = ms[1].size
      BY <1>1, <3>1, <3>2, SameSize
    <3>4. ~missed
      <4>1. missed' = (missed \/ \E i \in DOMAIN chunks : IsSizeChange(chunks[i].says))
        BY <1>3, <2>7
      <4>. QED  BY <2>1, <4>1
    <3>. QED  BY <1>9, <2>5, <2>7, <3>3, <3>4
  <2>. QED  BY <2>6, <2>7
<1>. QED  BY <1>11, <1>14, <1>15, <1>17, <1>18 DEF InputInv

LEMMA InputStep == ASSUME InputInv, Next PROVE InputInv' /\ ReadAsWritten'
<1>1. CASE ServerReplies
  BY <1>1, SaysReply
<1>2. CASE ServerSetsChunkSize
  BY <1>2, SaysSize
<1>3. CASE ServerSetsAckWindow
  BY <1>3, SaysWindow
<1>7. CASE ServerSetsPeerBandwidth
  BY <1>7, SaysLimit
<1>4. CASE ConnectAsync
  BY <1>4, Reconnected
<1>5. CASE \E function : \E n \in ReadSizes : Receive(function, n)
  BY <1>5, ReceiveHolds
<1>6. \/ ReceiveConnectResponse \/ ReceiveReleaseStreamResponse \/ ReceiveFCPublishResponse
      \/ ReceiveCreateStreamResponse \/ ReceivePublishStreamResponse
      => \E function : \E n \in ReadSizes : Receive(function, n)
  BY DEF ReceiveConnectResponse, ReceiveReleaseStreamResponse, ReceiveFCPublishResponse,
         ReceiveCreateStreamResponse, ReceivePublishStreamResponse
<1>. QED  BY <1>1, <1>2, <1>3, <1>4, <1>5, <1>6, <1>7 DEF Next

LEMMA InputStutters == ASSUME InputInv, ReadAsWritten, UNCHANGED vars PROVE InputInv' /\ ReadAsWritten'
<1>1. /\ UNCHANGED client /\ UNCHANGED server /\ fromServer' = fromServer /\ read' = read
  BY DEF vars
<1>2. TypeOK' /\ Pieces(fromServer', outSize', given') /\ AtTheStart' /\ StreamIDGiven'
      /\ ServerChunkSizeFollowed'
  BY <1>1 DEF client, server, InputInv, TypeOK, AtTheStart, StreamIDGiven, ServerChunkSizeFollowed, Receiving
<1>. QED  BY <1>1, <1>2 DEF InputInv, ReadAsWritten

\* What is true of the messenger and of the chunks on their way after every step: the
\* chunks are pieces of messages of the server, cut by its size when it wrote each, and
\* everything that the messenger remembers comes from them.
THEOREM InputInvariance == Spec => [](InputInv /\ ReadAsWritten)
<1>1. Init => InputInv /\ ReadAsWritten
  BY InitHolds
<1>2. (InputInv /\ ReadAsWritten) /\ [Next]_vars => (InputInv /\ ReadAsWritten)'
  BY InputStep, InputStutters
<1>. QED  BY <1>1, <1>2, PTL DEF Spec

\* The variables have their types: no size is remembered that no server announced.
THEOREM TypeCorrect == Spec => []TypeOK
<1>1. InputInv => TypeOK
  BY DEF InputInv
<1>. QED  BY <1>1, InputInvariance, PTL

\* _serverChunkSize is the size of the next chunk as long as the server changes it where
\* ReceiveConnectResponseAsync looks for it, and starts where the last connection ended.
THEOREM ChunkSizeFollowed == Spec => []ServerChunkSizeFollowed
<1>1. InputInv => ServerChunkSizeFollowed
  BY DEF InputInv
<1>. QED  BY <1>1, InputInvariance, PTL

\* ChunkProcessor::TryParse with the right size: the messages of the read in one chunk,
\* in their order and with their values, and no other; or nothing of it, because one is
\* a Set Peer Bandwidth with a Hard limit.
THEOREM ReadsAsWritten == Spec => []ReadAsWritten
BY InputInvariance, PTL

\* _messageStreamID is an id of the server, on whatever connection and with whatever size
\* the reply to createStream was read.
THEOREM StreamIDsGiven == Spec => []StreamIDGiven
<1>1. InputInv => StreamIDGiven
  BY DEF InputInv
<1>. QED  BY <1>1, InputInvariance, PTL
=============================================================================
