----------------------------- MODULE Codec_proofs -----------------------------
(* What the codec does to messages of any length, under any limits below    *)
(* 2^16: a frame is taken apart into what it was made of, a message that is *)
(* encoded is decoded as itself, and no other frame is decoded.             *)
EXTENDS Codec, SequenceTheorems, WellFoundedInduction, TLAPS

(* Induction over numbers, by a set of those for which a statement holds.   *)
LEMMA SetInduction ==
    ASSUME NEW S, 0 \in S, \A n \in Nat : n \in S => n + 1 \in S
    PROVE  Nat \subseteq S
<1> DEFINE R == OpToRel(<, Nat)
           T == Nat \ S
<1> SUFFICES ASSUME T # {} PROVE FALSE
  OBVIOUS
<1>1. IsWellFoundedOn(R, Nat)
  BY NatLessThanWellFounded, Zenon
<1>2. T \subseteq Nat
  OBVIOUS
<1> HIDE DEF T, R
<1>3. PICK n \in T : \A m \in T : ~ (<<m, n>> \in R)
  BY <1>1, <1>2, WFMin, Zenon
<1>4. n \in Nat /\ n # 0 /\ n - 1 \in Nat /\ n - 1 \in T
  BY <1>3 DEF T
<1>5. <<n - 1, n>> \in R
  BY <1>4 DEF R, OpToRel
<1> QED
  BY <1>3, <1>4, <1>5

(* The greatest of the first numbers. *)
LEMMA MaxOfPrefix ==
    ASSUME NEW n \in Nat, NEW s \in SUBSET (1..n), n \in s
    PROVE  Max(s) = n
<1>1. \A y \in s : n >= y
  OBVIOUS
<1>2. \E x \in s : \A y \in s : x >= y
  BY <1>1
<1> DEFINE m == CHOOSE x \in s : \A y \in s : x >= y
<1>3. m \in s /\ \A y \in s : m >= y
  BY <1>2, Zenon
<1>4. Max(s) = m
  BY Zenon DEF Max
<1> HIDE DEF m
<1>5. m = n
  BY <1>3
<1> QED
  BY <1>4, <1>5

------------------------------------------------------------------------------
(* Words. *)
Short == {n \in Nat : n <= 65535}
High(n) == n \div 256
Low(n) == n % 256

LEMMA Divide ==
    ASSUME NEW n \in Int, NEW q \in Int, NEW r \in Int,
           256 * q + r = n, 0 <= n, n <= 65535, 0 <= r, r <= 255
    PROVE  0 <= q /\ q <= 255
  OBVIOUS

LEMMA HighLow ==
    ASSUME NEW n \in Short
    PROVE  High(n) \in Byte /\ Low(n) \in Byte /\ 256 * High(n) + Low(n) = n
<1>1. 256 * High(n) + Low(n) = n /\ Low(n) \in Int /\ 0 <= Low(n) /\ Low(n) <= 255 /\ High(n) \in Int
  BY DEF Short, High, Low
<1>2. n \in Int /\ 0 <= n /\ n <= 65535
  BY DEF Short
<1>4. 0 <= High(n) /\ High(n) <= 255
  BY <1>1, <1>2, Divide
<1> QED
  BY <1>1, <1>4 DEF Byte

LEMMA Word16HighLow ==
    ASSUME NEW n
    PROVE  Word16(n) = <<High(n), Low(n)>>
  BY SMT DEF Word16, High, Low

LEMMA TwoBytes ==
    ASSUME NEW S, NEW a \in S, NEW b \in S
    PROVE  <<a, b>> \in Seq(S) /\ 2 = Len(<<a, b>>) /\ <<a, b>>[1] = a /\ <<a, b>>[2] = b
  OBVIOUS

LEMMA Word16Bytes ==
    ASSUME NEW n \in Short
    PROVE  /\ Word16(n) \in Seq(Byte) /\ 2 = Len(Word16(n))
           /\ Word16(n)[1] = High(n) /\ Word16(n)[2] = Low(n)
<1>1. High(n) \in Byte /\ Low(n) \in Byte
  BY HighLow, Zenon
<1>2. /\ <<High(n), Low(n)>> \in Seq(Byte) /\ 2 = Len(<<High(n), Low(n)>>)
           /\ <<High(n), Low(n)>>[1] = High(n) /\ <<High(n), Low(n)>>[2] = Low(n)
  BY <1>1, TwoBytes, Zenon
<1> QED
  BY <1>2, Word16HighLow, Zenon

LEMMA TakeFront ==
    ASSUME NEW a \in Seq(Byte), NEW b \in Seq(Byte), NEW n, n = Len(a)
    PROVE  Take(a \o b, n) = Got(a, b)
<1> DEFINE c == a \o b
<1>1. /\ c \in Seq(Byte)
      /\ Len(c) = Len(a) + Len(b)
      /\ \A i \in 1..Len(c) : c[i] = IF i <= Len(a) THEN a[i] ELSE b[i - Len(a)]
  BY ConcatProperties
<1> HIDE DEF c
<1>2. SubSeq(c, 1, Len(a)) = a
  <2> DEFINE d == SubSeq(c, 1, Len(a))
  <2>1. d \in Seq(Byte) /\ Len(d) = Len(a) /\ \A i \in 1..Len(a) : d[i] = c[i]
    BY <1>1, SubSeqProperties
  <2> HIDE DEF d
  <2>2. d = a
    BY <1>1, <2>1, SeqEqual
  <2> QED
    BY <2>2 DEF d
<1>3. SubSeq(c, Len(a) + 1, Len(c)) = b
  <2> DEFINE d == SubSeq(c, Len(a) + 1, Len(c))
  <2>1. d \in Seq(Byte) /\ Len(d) = Len(b) /\ \A i \in 1..Len(b) : d[i] = c[Len(a) + i]
    BY <1>1, SubSeqProperties
  <2>2. \A i \in 1..Len(b) : c[Len(a) + i] = b[i]
    BY <1>1
  <2> HIDE DEF d
  <2>3. d = b
    BY <2>1, <2>2, SeqEqual
  <2> QED
    BY <2>3 DEF d
<1>4. Len(a) <= Len(c)
  BY <1>1
<1> QED
  BY <1>2, <1>3, <1>4, Zenon DEF Take, If, Got, c

LEMMA GotFields ==
    ASSUME NEW a, NEW b
    PROVE  Got(a, b).ok /\ Got(a, b).value = a /\ Got(a, b).rest = b
  BY DEF Got

WordOf(w) == 256 * w[1] + w[2]

LEMMA Get16Reads ==
    ASSUME NEW bytes, NEW w, NEW b, Take(bytes, 2) = Got(w, b)
    PROVE  Get16(bytes) = Got(WordOf(w), b)
<1>1. Get16(bytes) = IF Take(bytes, 2).ok
                       THEN Got(256 * Take(bytes, 2).value[1] + Take(bytes, 2).value[2],
                                Take(bytes, 2).rest)
                       ELSE Failed
  BY DEF Get16, Then
<1> QED
  BY <1>1, GotFields DEF WordOf

LEMMA Get16Word ==
    ASSUME NEW n \in Short, NEW b \in Seq(Byte)
    PROVE  Get16(Word16(n) \o b) = Got(n, b)
<1> DEFINE w == Word16(n)
<1>1. w \in Seq(Byte) /\ 2 = Len(w)
  BY Word16Bytes, Zenon
<1>2. WordOf(w) = n
  BY HighLow, Word16Bytes DEF WordOf
<1> HIDE DEF w
<1>3. Take(w \o b, 2) = Got(w, b)
  BY <1>1, TakeFront, Zenon
<1>4. Get16(w \o b) = Got(WordOf(w), b)
  BY <1>3, Get16Reads, Zenon
<1> QED
  BY <1>4, <1>2, Zenon DEF w

LEMMA GetByteReads ==
    ASSUME NEW e \in Byte, NEW b \in Seq(Byte)
    PROVE  GetByte(<<e>> \o b) = Got(e, b)
<1>1. <<e>> \in Seq(Byte) /\ 1 = Len(<<e>>) /\ <<e>>[1] = e
  OBVIOUS
<1>2. Take(<<e>> \o b, 1) = Got(<<e>>, b)
  BY <1>1, TakeFront, Zenon
<1>3. GetByte(<<e>> \o b) = IF Take(<<e>> \o b, 1).ok
                       THEN Got(Take(<<e>> \o b, 1).value[1], Take(<<e>> \o b, 1).rest)
                       ELSE Failed
  BY DEF GetByte, Then
<1> QED
  BY <1>1, <1>2, <1>3, GotFields

LEMMA GetBytesPut ==
    ASSUME NEW s \in Seq(Byte), NEW b \in Seq(Byte), NEW maximum, Len(s) <= maximum, Len(s) \in Short
    PROVE  GetBytes(PutBytes(s) \o b, maximum) = Got(s, b)
<1>1. Word16(Len(s)) \in Seq(Byte) /\ s \o b \in Seq(Byte)
  BY Word16Bytes, ConcatProperties, Zenon
<1>2. PutBytes(s) \o b = Word16(Len(s)) \o (s \o b)
  BY <1>1, ConcatAssociative DEF PutBytes
<1>3. Get16(PutBytes(s) \o b) = Got(Len(s), s \o b)
  BY <1>1, <1>2, Get16Word, Zenon
<1>4. Take(s \o b, Len(s)) = Got(s, b)
  BY TakeFront, Zenon
<1> DEFINE g == Get16(PutBytes(s) \o b)
<1>5. GetBytes(PutBytes(s) \o b, maximum) =
        IF g.ok THEN IF g.value <= maximum THEN Take(g.rest, g.value) ELSE Failed ELSE Failed
  BY DEF GetBytes, Then, If
<1> QED
  BY <1>3, <1>4, <1>5, GotFields

LEMMA NameLimit == MaxNameBytes \in Nat /\ MaxNameBytes <= 255
<1>1. MaxNameBytes \in 0..255
  BY CodecAssumption
<1> QED
  BY <1>1

LEMMA LengthByte == \A n, max \in Nat : max <= 255 /\ n <= max => n \in Byte
  BY DEF Byte

LEMMA GetNamePut ==
    ASSUME NEW s \in Name, NEW b \in Seq(Byte)
    PROVE  GetName(PutName(s) \o b) = Got(s, b)
<1>1. s \in Seq(Byte) /\ Len(s) \in 1..MaxNameBytes /\ \A i \in DOMAIN s : s[i] \in NameByte
  <2>1. NameByte \subseteq Byte
    BY DEF NameByte, Byte
  <2>2. s \in Seq(NameByte) /\ Len(s) \in 1..MaxNameBytes
    BY DEF Name
  <2> QED
    BY <2>1, <2>2
<1>2. Len(s) \in Byte
  BY <1>1, NameLimit, LengthByte
<1>3. s \o b \in Seq(Byte) /\ <<Len(s)>> \in Seq(Byte)
  BY <1>1, <1>2, ConcatProperties
<1>4. PutName(s) \o b = <<Len(s)>> \o (s \o b)
  BY <1>1, <1>3, ConcatAssociative DEF PutName
<1>5. GetByte(PutName(s) \o b) = Got(Len(s), s \o b)
  BY <1>2, <1>3, <1>4, GetByteReads, Zenon
<1>6. Take(s \o b, Len(s)) = Got(s, b)
  BY <1>1, TakeFront, Zenon
<1> DEFINE g == GetByte(PutName(s) \o b)
           t == Take(g.rest, g.value)
<1>7. GetName(PutName(s) \o b) =
        IF g.ok THEN IF g.value \in 1..MaxNameBytes
                       THEN IF t.ok
                              THEN IF \A i \in DOMAIN t.value : t.value[i] \in NameByte THEN t ELSE Failed
                              ELSE Failed
                       ELSE Failed
        ELSE Failed
  BY DEF GetName, Then, If
<1> QED
  BY <1>1, <1>5, <1>6, <1>7, GotFields

------------------------------------------------------------------------------
(* Whole payloads: after the last field nothing may be left.                *)
LEMMA NoLongerThanShort ==
    ASSUME NEW s \in Seq(Byte), Len(s) <= MaxInputBytes \/ Len(s) <= MaxErrorBytes
    PROVE  Len(s) \in Short
<1>1. /\ MaxFrameBytes \in Nat /\ MaxFrameBytes <= 65535
      /\ MaxErrorBytes <= MaxFrameBytes /\ MaxErrorBytes \in Int
      /\ MaxInputBytes <= MaxFrameBytes /\ MaxInputBytes \in Int
  BY CodecAssumption
<1>3. Len(s) \in Int /\ 0 <= Len(s)
  OBVIOUS
<1>4. Len(s) <= 65535
  BY <1>1, <1>3
<1> QED
  BY <1>3, <1>4 DEF Short

LEMMA NameBytes ==
    ASSUME NEW n \in Name
    PROVE  PutName(n) \in Seq(Byte)
<1>1. n \in Seq(Byte) /\ Len(n) \in Byte
  <2>1. NameByte \subseteq Byte
    BY DEF NameByte, Byte
  <2>2. n \in Seq(NameByte) /\ Len(n) \in 1..MaxNameBytes
    BY DEF Name
  <2>3. n \in Seq(Byte)
    BY <2>1, <2>2
  <2>4. Len(n) \in Byte
    BY <2>2, NameLimit, LengthByte
  <2> QED
    BY <2>3, <2>4
<1>2. <<Len(n)>> \in Seq(Byte)
  BY <1>1
<1> QED
  BY <1>1, <1>2, ConcatProperties DEF PutName

LEMMA NamePayload ==
    ASSUME NEW n \in Name
    PROVE  GetName(PutName(n)) = Got(n, <<>>)
<1>1. PutName(n) \in Seq(Byte) /\ <<>> \in Seq(Byte)
  BY NameBytes
<1> QED
  BY <1>1, GetNamePut, ConcatEmptySeq

LEMMA BytesPayload ==
    ASSUME NEW s \in Seq(Byte), NEW maximum, Len(s) <= maximum, Len(s) \in Short
    PROVE  GetBytes(PutBytes(s), maximum) = Got(s, <<>>)
<1>1. PutBytes(s) \in Seq(Byte) /\ <<>> \in Seq(Byte)
  BY Word16Bytes, ConcatProperties DEF PutBytes
<1> QED
  BY <1>1, GetBytesPut, ConcatEmptySeq

(* A u64, kept as its bytes. *)
EightBytes == {s \in Seq(Byte) : 8 = Len(s)}

LEMMA RestPayload ==
    ASSUME NEW s \in Seq(Byte), NEW n, n = Len(s)
    PROVE  Take(s, n) = Got(s, <<>>)
<1>1. <<>> \in Seq(Byte) /\ s \o <<>> = s
  BY ConcatEmptySeq
<1>2. Take(s \o <<>>, n) = Got(s, <<>>)
  BY <1>1, TakeFront, Zenon
<1> QED
  BY <1>1, <1>2, Zenon

(* What a request carries is read back as it was written, for every name,   *)
(* nonce, input and size within the limits: encode_request and              *)
(* decode_request agree on every payload.                                   *)
THEOREM RequestPayloads ==
    /\ \A kind \in {"CREATE", "ATTACH", "DETACH"}, n \in Name :
         RequestOf(kind, PutName(n)) = Got([kind |-> kind, name |-> n], <<>>)
    /\ \A s \in Seq(Byte) : Len(s) <= MaxInputBytes =>
         RequestOf("INPUT", PutBytes(s)) = Got([kind |-> "INPUT", bytes |-> s], <<>>)
    /\ \A cols, rows \in Short :
         RequestOf("RESIZE", Word16(cols) \o Word16(rows))
           = Got([kind |-> "RESIZE", cols |-> cols, rows |-> rows], <<>>)
    /\ \A c \in Byte : RequestOf("COMMAND", <<c>>) = Got([kind |-> "COMMAND", command |-> c], <<>>)
    /\ \A nonce \in EightBytes : RequestOf("PING", nonce) = Got([kind |-> "PING", nonce |-> nonce], <<>>)
    /\ \A kind \in {"LIST", "SNAPSHOT"} : RequestOf(kind, <<>>) = Got([kind |-> kind], <<>>)
<1>1. ASSUME NEW kind \in {"CREATE", "ATTACH", "DETACH"}, NEW n \in Name
      PROVE  RequestOf(kind, PutName(n)) = Got([kind |-> kind, name |-> n], <<>>)
  <2>1. RequestOf(kind, PutName(n))
          = Finished(GetName(PutName(n)), LAMBDA name : [kind |-> kind, name |-> name])
    BY DEF RequestOf
  <2> QED
    BY <2>1, NamePayload, GotFields DEF Finished, Then, If
<1>2. ASSUME NEW s \in Seq(Byte), Len(s) <= MaxInputBytes
      PROVE  RequestOf("INPUT", PutBytes(s)) = Got([kind |-> "INPUT", bytes |-> s], <<>>)
  <2>1. RequestOf("INPUT", PutBytes(s))
          = Finished(GetBytes(PutBytes(s), MaxInputBytes),
                     LAMBDA bytes : [kind |-> "INPUT", bytes |-> bytes])
    BY DEF RequestOf
  <2>2. GetBytes(PutBytes(s), MaxInputBytes) = Got(s, <<>>)
    BY <1>2, NoLongerThanShort, BytesPayload
  <2> QED
    BY <2>1, <2>2, GotFields DEF Finished, Then, If
<1>3. ASSUME NEW cols \in Short, NEW rows \in Short
      PROVE  RequestOf("RESIZE", Word16(cols) \o Word16(rows))
               = Got([kind |-> "RESIZE", cols |-> cols, rows |-> rows], <<>>)
  <2>1. Get16(Word16(cols) \o Word16(rows)) = Got(cols, Word16(rows))
    BY Word16Bytes, Get16Word
  <2>2. Get16(Word16(rows)) = Got(rows, <<>>)
    <3>1. <<>> \in Seq(Byte) /\ Word16(rows) \in Seq(Byte)
      BY Word16Bytes
    <3> QED
      BY <3>1, Get16Word, ConcatEmptySeq
  <2> DEFINE both == Then(Get16(Word16(cols) \o Word16(rows)), LAMBDA c :
                          Then(Get16(c.rest), LAMBDA r : Got(<<c.value, r.value>>, r.rest)))
  <2>3. both = Got(<<cols, rows>>, <<>>)
    BY <2>1, <2>2, GotFields DEF Then
  <2>4. RequestOf("RESIZE", Word16(cols) \o Word16(rows))
          = Finished(both, LAMBDA size : [kind |-> "RESIZE", cols |-> size[1], rows |-> size[2]])
    BY DEF RequestOf
  <2> HIDE DEF both
  <2> QED
    BY <2>3, <2>4, GotFields DEF Finished, Then, If
<1>4. ASSUME NEW c \in Byte
      PROVE  RequestOf("COMMAND", <<c>>) = Got([kind |-> "COMMAND", command |-> c], <<>>)
  <2>1. RequestOf("COMMAND", <<c>>)
          = Finished(GetByte(<<c>>), LAMBDA b : [kind |-> "COMMAND", command |-> b])
    BY DEF RequestOf
  <2>2. GetByte(<<c>>) = Got(c, <<>>)
    <3>1. <<>> \in Seq(Byte) /\ <<c>> \in Seq(Byte) /\ <<c>> \o <<>> = <<c>>
      OBVIOUS
    <3> QED
      BY <3>1, GetByteReads
  <2> QED
    BY <2>1, <2>2, GotFields DEF Finished, Then, If
<1>5. ASSUME NEW nonce \in EightBytes
      PROVE  RequestOf("PING", nonce) = Got([kind |-> "PING", nonce |-> nonce], <<>>)
  <2>1. RequestOf("PING", nonce)
          = Finished(Take(nonce, 8), LAMBDA n : [kind |-> "PING", nonce |-> n])
    BY DEF RequestOf
  <2>2. Take(nonce, 8) = Got(nonce, <<>>)
    <3>1. nonce \in Seq(Byte) /\ 8 = Len(nonce)
      BY DEF EightBytes
    <3> QED
      BY <3>1, RestPayload
  <2> QED
    BY <2>1, <2>2, GotFields DEF Finished, Then, If
<1>6. ASSUME NEW kind \in {"LIST", "SNAPSHOT"}
      PROVE  RequestOf(kind, <<>>) = Got([kind |-> kind], <<>>)
  <2>1. RequestOf(kind, <<>>) = Finished(Take(<<>>, 0), LAMBDA none : [kind |-> kind])
    BY DEF RequestOf
  <2>2. Take(<<>>, 0) = Got(<<>>, <<>>)
    <3>1. <<>> \in Seq(Byte) /\ 0 = Len(<<>>)
      OBVIOUS
    <3> QED
      BY <3>1, RestPayload
  <2> QED
    BY <2>1, <2>2, GotFields DEF Finished, Then, If
<1> QED
  BY <1>1, <1>2, <1>3, <1>4, <1>5, <1>6

------------------------------------------------------------------------------
(* The header.                                                              *)
LEMMA Word32Short ==
    ASSUME NEW n \in Short
    PROVE  Word32(n) = <<0, 0, High(n), Low(n)>>
<1>1. n \in Int /\ 0 <= n /\ n <= 65535
  BY DEF Short
<1>2. n \div 16777216 = 0
  BY <1>1
<1>3. n \div 65536 = 0
  BY <1>1
<1>4. 0 % 256 = 0
  OBVIOUS
<1>5. High(n) \in Byte
  BY HighLow
<1>6. High(n) % 256 = High(n)
  BY <1>5 DEF Byte
<1>7. Word32(n) = <<n \div 16777216, (n \div 65536) % 256, High(n) % 256, Low(n)>>
  BY DEF Word32, High, Low
<1> QED
  BY <1>2, <1>3, <1>4, <1>6, <1>7

LEMMA Joined ==
    ASSUME NEW S, NEW s \in Seq(S), NEW t \in Seq(S)
    PROVE  /\ s \o t \in Seq(S) /\ Len(s \o t) = Len(s) + Len(t)
           /\ \A i \in 1..Len(s) : (s \o t)[i] = s[i]
           /\ \A i \in 1..Len(t) : (s \o t)[Len(s) + i] = t[i]
<1> DEFINE c == s \o t
           m == Len(s)
           n == Len(t)
<1>1. /\ c \in Seq(S) /\ Len(c) = m + n
      /\ \A i \in 1..(m + n) : c[i] = IF i <= m THEN s[i] ELSE t[i - m]
  BY ConcatProperties
<1>2. m \in Nat /\ n \in Nat
  OBVIOUS
<1> HIDE DEF c, m, n
<1>3. ASSUME NEW i \in 1..m PROVE c[i] = s[i]
  BY <1>1, <1>2
<1>4. ASSUME NEW i \in 1..n PROVE c[m + i] = t[i]
  <2>1. m + i \in 1..(m + n) /\ ~(m + i <= m) /\ (m + i) - m = i
    BY <1>2
  <2> QED
    BY <1>1, <2>1
<1> QED
  BY <1>1, <1>3, <1>4 DEF c, m, n

(* c is s and then t. *)
Joins(c, s, t) ==
    /\ c \in Seq(Byte) /\ Len(c) = Len(s) + Len(t)
    /\ \A i \in 1..Len(s) : c[i] = s[i]
    /\ \A i \in 1..Len(t) : c[Len(s) + i] = t[i]

LEMMA JoinedBytes == \A s, t \in Seq(Byte) : Joins(s \o t, s, t)
<1> SUFFICES ASSUME NEW s \in Seq(Byte), NEW t \in Seq(Byte) PROVE Joins(s \o t, s, t)
  OBVIOUS
<1> DEFINE c == s \o t
<1>1. /\ c \in Seq(Byte) /\ Len(c) = Len(s) + Len(t)
      /\ \A i \in 1..Len(s) : c[i] = s[i]
      /\ \A i \in 1..Len(t) : c[Len(s) + i] = t[i]
  BY Joined
<1> HIDE DEF c
<1>2. Joins(c, s, t)
  BY <1>1, Zenon DEF Joins
<1> QED
  BY <1>2 DEF c

LEMMA TakeBack ==
    ASSUME NEW s \in Seq(Byte), NEW t \in Seq(Byte)
    PROVE  SubSeq(s \o t, Len(s) + 1, Len(s \o t)) = t
<1> DEFINE c == s \o t
           d == SubSeq(c, Len(s) + 1, Len(c))
<1>1. c \in Seq(Byte) /\ Len(c) = Len(s) + Len(t) /\ \A i \in 1..Len(t) : c[Len(s) + i] = t[i]
  BY Joined
<1> HIDE DEF c
<1>2. d \in Seq(Byte) /\ Len(d) = Len(t) /\ \A i \in 1..Len(t) : d[i] = c[Len(s) + i]
  BY <1>1, SubSeqProperties
<1> HIDE DEF d
<1>3. d = t
  BY <1>1, <1>2, SeqEqual
<1> QED
  BY <1>3 DEF c, d

LEMMA FourElements ==
    ASSUME NEW S, NEW a \in S, NEW b \in S, NEW c \in S, NEW d \in S
    PROVE  /\ <<a, b, c, d>> \in Seq(S) /\ Len(<<a, b, c, d>>) = 4
           /\ <<a, b, c, d>>[1] = a /\ <<a, b, c, d>>[2] = b
           /\ <<a, b, c, d>>[3] = c /\ <<a, b, c, d>>[4] = d
  OBVIOUS

Header(code, n) == Magic \o <<Version, code>> \o Word32(n)

Heads(h, code, n) ==
    /\ h \in Seq(Byte) /\ 10 = Len(h)
    /\ \A i \in 1..4 : h[i] = Magic[i]
    /\ h[5] = Version /\ h[6] = code
    /\ h[7] = 0 /\ h[8] = 0 /\ h[9] = High(n) /\ h[10] = Low(n)

LEMMA HeaderSequence ==
    ASSUME NEW code \in Byte, NEW n \in Short
    PROVE  Heads(Header(code, n), code, n)
<1> DEFINE v == <<Version, code>>
           w == Word32(n)
           m == Magic \o v
           h == m \o w
<1>1. Magic \in Seq(Byte) /\ Len(Magic) = 4
  BY DEF Magic, Byte
<1>2. v \in Seq(Byte) /\ Len(v) = 2 /\ v[1] = Version /\ v[2] = code
  <2>1. Version \in Byte
    BY DEF Version, Byte
  <2> QED
    BY <2>1, TwoBytes
<1>3. w \in Seq(Byte) /\ Len(w) = 4 /\ w[1] = 0 /\ w[2] = 0 /\ w[3] = High(n) /\ w[4] = Low(n)
  <2>1. High(n) \in Byte /\ Low(n) \in Byte /\ 0 \in Byte
    BY HighLow DEF Byte
  <2>2. w = <<0, 0, High(n), Low(n)>>
    BY Word32Short
  <2> HIDE DEF w
  <2> QED
    BY <2>1, <2>2, FourElements
<1> HIDE DEF v, w
<1>4. /\ m \in Seq(Byte) /\ Len(m) = 4 + 2
      /\ \A i \in 1..4 : m[i] = Magic[i]
      /\ \A i \in 1..2 : m[4 + i] = v[i]
  <2>1. Joins(m, Magic, v)
    BY <1>1, <1>2, JoinedBytes
  <2> HIDE DEF m
  <2> QED
    BY <1>1, <1>2, <2>1 DEF Joins
<1> HIDE DEF m
<1>5. Len(m) = 6 /\ m[5] = Version /\ m[6] = code
  <2>1. 1 \in 1..2 /\ 2 \in 1..2 /\ 4 + 1 = 5 /\ 4 + 2 = 6
    OBVIOUS
  <2> QED
    BY <1>2, <1>4, <2>1
<1>6. /\ h \in Seq(Byte) /\ Len(h) = 6 + 4
      /\ \A i \in 1..6 : h[i] = m[i]
      /\ \A i \in 1..4 : h[6 + i] = w[i]
  <2>1. Joins(h, m, w)
    BY <1>3, <1>4, JoinedBytes
  <2> HIDE DEF h
  <2> QED
    BY <1>3, <1>5, <2>1 DEF Joins
<1> HIDE DEF h
<1>7. \A i \in 1..4 : h[i] = Magic[i]
  BY <1>4, <1>6
<1>8. h[5] = Version /\ h[6] = code
  BY <1>5, <1>6
<1>9. h[7] = 0 /\ h[8] = 0 /\ h[9] = High(n) /\ h[10] = Low(n)
  <2>1. /\ 1 \in 1..4 /\ 2 \in 1..4 /\ 3 \in 1..4 /\ 4 \in 1..4
        /\ 6 + 1 = 7 /\ 6 + 2 = 8 /\ 6 + 3 = 9 /\ 6 + 4 = 10
    OBVIOUS
  <2> QED
    BY <1>3, <1>6, <2>1
<1>10. h = Header(code, n)
  BY DEF h, m, v, w, Header
<1>11. 10 = Len(h)
  BY <1>6
<1>12. Heads(h, code, n)
  BY <1>6, <1>7, <1>8, <1>9, <1>11, Zenon DEF Heads
<1> QED
  BY <1>10, <1>12

LEMMA FrameSequence ==
    ASSUME NEW h \in Seq(Byte), 10 = Len(h), NEW p \in Seq(Byte),
           \A i \in 1..4 : h[i] = Magic[i]
    PROVE  /\ h \o p \in Seq(Byte) /\ Len(h \o p) = 10 + Len(p)
           /\ \A i \in 1..10 : (h \o p)[i] = h[i]
           /\ SubSeq(h \o p, 1, 4) = Magic
           /\ SubSeq(h \o p, 11, Len(h \o p)) = p
<1> DEFINE f == h \o p
           s == SubSeq(f, 1, 4)
<1>1. Len(p) \in Nat
  OBVIOUS
<1>2. /\ f \in Seq(Byte) /\ Len(f) = 10 + Len(p)
      /\ \A i \in 1..10 : f[i] = h[i]
  <2>1. Joins(f, h, p)
    BY JoinedBytes, Zenon
  <2> HIDE DEF f
  <2> QED
    BY <2>1 DEF Joins
<1>3. SubSeq(f, Len(h) + 1, Len(f)) = p
  BY TakeBack, Zenon
<1> HIDE DEF f
<1>4. SubSeq(f, 11, Len(f)) = p
  <2>1. 10 + 1 = 11
    OBVIOUS
  <2> QED
    BY <1>3, <2>1
<1>5. s = Magic
  <2>1. \A i \in 1..4 : f[i] \in Byte /\ f[i] = Magic[i]
    BY <1>1, <1>2
  <2>2. s \in Seq(Byte) /\ Len(s) = 4
    BY <2>1, SubSeqProperties
  <2>3. \A i \in 1..4 : s[i] = f[i]
    BY <2>1, SubSeqProperties
  <2>4. Magic \in Seq(Byte) /\ Len(Magic) = 4
    BY DEF Magic, Byte
  <2> HIDE DEF s
  <2>5. Len(s) = Len(Magic) /\ \A i \in 1..Len(s) : s[i] = Magic[i]
    BY <2>1, <2>2, <2>3, <2>4
  <2> QED
    BY <2>2, <2>4, <2>5, SeqEqual, Zenon
<1> QED
  BY <1>2, <1>4, <1>5 DEF f, s

(* What frame makes, unframe takes apart, and it is within the limit.       *)
THEOREM UnframeFrame ==
    ASSUME NEW kind, Kind[kind] \in Byte, NEW p \in Seq(Byte), Frame(kind, p) # NoFrame
    PROVE  /\ Frame(kind, p) \in Seq(Byte) /\ Len(Frame(kind, p)) <= MaxFrameBytes
           /\ Unframe(Frame(kind, p)) = Got(Kind[kind], p)
<1> DEFINE n == Len(p)
           h == Header(Kind[kind], n)
           f == Frame(kind, p)
<1>1. n \in Nat /\ MaxFrameBytes \in Nat /\ MaxFrameBytes <= 65535
  BY CodecAssumption
<1>2. HeaderBytes + n <= MaxFrameBytes
  <2>1. ~(HeaderBytes + n > MaxFrameBytes)
    BY Zenon DEF Frame
  <2> QED
    BY <1>1, <2>1 DEF HeaderBytes
<1>3. n \in Short
  BY <1>1, <1>2 DEF Short, HeaderBytes
<1>4. f = h \o p
  BY <1>2 DEF Frame, Header
<1>5. /\ h \in Seq(Byte) /\ 10 = Len(h)
      /\ \A i \in 1..4 : h[i] = Magic[i]
      /\ h[5] = Version /\ h[6] = Kind[kind]
      /\ h[7] = 0 /\ h[8] = 0 /\ h[9] = High(n) /\ h[10] = Low(n)
  <2>1. Heads(h, Kind[kind], n)
    BY <1>3, HeaderSequence, Zenon
  <2> HIDE DEF h, n
  <2> QED
    BY <2>1, Zenon DEF Heads
<1>6. 256 * High(n) + Low(n) = n /\ High(n) \in Int /\ Low(n) \in Int
  <2>1. High(n) \in Byte /\ Low(n) \in Byte /\ 256 * High(n) + Low(n) = n
    BY <1>3, HighLow, Zenon
  <2>2. Byte \subseteq Int
    BY DEF Byte
  <2> QED
    BY <2>1, <2>2
<1> HIDE DEF f, h
<1>7. /\ f \in Seq(Byte) /\ Len(f) = 10 + n
      /\ \A i \in 1..10 : f[i] = h[i]
      /\ SubSeq(f, 1, 4) = Magic
      /\ SubSeq(f, 11, Len(f)) = p
  BY <1>4, <1>5, FrameSequence
<1>8. /\ f[5] = Version /\ f[6] = Kind[kind]
      /\ f[7] = 0 /\ f[8] = 0 /\ f[9] = High(n) /\ f[10] = Low(n)
  BY <1>5, <1>7
<1> HIDE DEF n
<1>9. FrameLength(f) = 10 + n
  BY <1>1, <1>6, <1>8 DEF FrameLength, HeaderBytes
<1>10. 10 + n <= MaxFrameBytes /\ 10 <= Len(f)
  BY <1>1, <1>2, <1>7 DEF HeaderBytes
<1>11. Unframe(f) = Got(f[6], SubSeq(f, 11, Len(f)))
  BY <1>7, <1>8, <1>9, <1>10 DEF Unframe, If, HeaderBytes
<1> QED
  BY <1>7, <1>8, <1>10, <1>11 DEF f

------------------------------------------------------------------------------
(* Whole requests.                                                          *)
RequestKinds == {"CREATE", "LIST", "ATTACH", "DETACH", "PING", "INPUT", "RESIZE", "COMMAND", "SNAPSHOT"}

LEMMA KindCodes ==
    /\ DOMAIN RequestKind = RequestKinds
    /\ \A k \in RequestKinds : /\ RequestKind[k] \in Byte
                             /\ Kind[k] = RequestKind[k]
                             /\ RequestKind[k] \in Range(RequestKind)
    /\ \A j, k \in RequestKinds : RequestKind[j] = RequestKind[k] => j = k
<1>1. DOMAIN RequestKind = RequestKinds
  BY DEF RequestKind, RequestKinds
<1>2. ASSUME NEW k \in RequestKinds PROVE RequestKind[k] \in Byte
  BY DEF RequestKind, RequestKinds, Byte
<1>3. ASSUME NEW k \in RequestKinds PROVE Kind[k] = RequestKind[k]
  BY <1>1, Zenon DEF Kind
<1>4. ASSUME NEW k \in RequestKinds PROVE RequestKind[k] \in Range(RequestKind)
  BY <1>1 DEF Range
<1>5. ASSUME NEW j \in RequestKinds, NEW k \in RequestKinds, RequestKind[j] = RequestKind[k]
      PROVE  j = k
  BY <1>5 DEF RequestKind, RequestKinds
<1> QED
  BY <1>1, <1>2, <1>3, <1>4, <1>5

LEMMA RequestRead ==
    ASSUME NEW k \in RequestKinds, NEW p \in Seq(Byte), NEW m,
           RequestOf(k, p) = Got(m, <<>>), Frame(k, p) # NoFrame
    PROVE  Frame(k, p) \in Seq(Byte) /\ DecodeRequest(Frame(k, p)) = Got(m, <<>>)
<1> DEFINE f == Frame(k, p)
           u == Unframe(f)
           kind == CHOOSE j \in DOMAIN RequestKind : RequestKind[j] = u.value
<1>1. Kind[k] \in Byte /\ Kind[k] = RequestKind[k] /\ RequestKind[k] \in Range(RequestKind)
  BY KindCodes, Zenon
<1>2. u = Got(Kind[k], p) /\ f \in Seq(Byte)
  BY <1>1, UnframeFrame, Zenon
<1>3. DecodeRequest(f) = IF u.ok THEN IF u.value \in Range(RequestKind)
                                        THEN RequestOf(kind, u.rest) ELSE Failed
                         ELSE Failed
  BY DEF DecodeRequest, Known, Then, If
<1> HIDE DEF u
<1>4. u.ok /\ u.value = RequestKind[k] /\ u.rest = p
  BY <1>1, <1>2, GotFields
<1>5. kind = k
  <2>1. \E j \in DOMAIN RequestKind : RequestKind[j] = u.value
    BY <1>4, KindCodes, Zenon
  <2>2. kind \in DOMAIN RequestKind /\ RequestKind[kind] = u.value
    BY <2>1, Zenon
  <2> HIDE DEF kind
  <2> QED
    BY <1>4, <2>2, KindCodes, Zenon
<1> HIDE DEF kind, f
<1>6. DecodeRequest(f) = Got(m, <<>>)
  BY <1>1, <1>3, <1>4, <1>5, Zenon
<1> QED
  BY <1>2, <1>6 DEF f

(* A request that can be written is read back as itself. *)
ReadBack(r) ==
    EncodeRequest(r) # NoFrame =>
        EncodeRequest(r) \in Seq(Byte) /\ DecodeRequest(EncodeRequest(r)) = Got(r, <<>>)

(* decode_request of encode_request is the identity, for any limits and     *)
(* every request: what the daemon executes is what the client asked for.    *)
THEOREM RequestRoundTrip ==
    /\ \A kind \in {"CREATE", "ATTACH", "DETACH"}, n \in Name : ReadBack([kind |-> kind, name |-> n])
    /\ \A s \in Seq(Byte) : ReadBack([kind |-> "INPUT", bytes |-> s])
    /\ \A cols, rows \in Short : ReadBack([kind |-> "RESIZE", cols |-> cols, rows |-> rows])
    /\ \A c \in Byte : ReadBack([kind |-> "COMMAND", command |-> c])
    /\ \A nonce \in EightBytes : ReadBack([kind |-> "PING", nonce |-> nonce])
    /\ \A kind \in {"LIST", "SNAPSHOT"} : ReadBack([kind |-> kind])
<1> DEFINE K == {"CREATE", "ATTACH", "DETACH"}
<1>1. ASSUME NEW k \in K, NEW n \in Name PROVE ReadBack([kind |-> k, name |-> n])
  <2> DEFINE r == [kind |-> k, name |-> n]
  <2>1. EncodeRequest(r) = Frame(k, PutName(n))
    BY DEF EncodeRequest
  <2>2. PutName(n) \in Seq(Byte)
    BY NameBytes, Zenon
  <2>3. k \in RequestKinds
    BY DEF RequestKinds
  <2>4. RequestOf(k, PutName(n)) = Got(r, <<>>)
    BY RequestPayloads
  <2> HIDE DEF r
  <2>5. ReadBack(r)
    BY <2>1, <2>2, <2>3, <2>4, RequestRead, Zenon DEF ReadBack
  <2> QED
    BY <2>5 DEF r
<1>2. ASSUME NEW s \in Seq(Byte) PROVE ReadBack([kind |-> "INPUT", bytes |-> s])
  <2> DEFINE r == [kind |-> "INPUT", bytes |-> s]
  <2>1. EncodeRequest(r) = IF Len(s) > MaxInputBytes THEN NoFrame ELSE Frame("INPUT", PutBytes(s))
    BY DEF EncodeRequest
  <2>2. SUFFICES ASSUME EncodeRequest(r) # NoFrame
                 PROVE  EncodeRequest(r) \in Seq(Byte) /\ DecodeRequest(EncodeRequest(r)) = Got(r, <<>>)
    BY DEF ReadBack
  <2>3. ~(Len(s) > MaxInputBytes) /\ EncodeRequest(r) = Frame("INPUT", PutBytes(s))
    BY <2>1, <2>2, Zenon
  <2>4. Len(s) <= MaxInputBytes
    <3>1. MaxInputBytes \in Int
      BY CodecAssumption
    <3> QED
      BY <2>3, <3>1
  <2>5. RequestOf("INPUT", PutBytes(s)) = Got(r, <<>>)
    BY <2>4, RequestPayloads
  <2>6. PutBytes(s) \in Seq(Byte)
    BY <2>4, NoLongerThanShort, Word16Bytes, ConcatProperties DEF PutBytes
  <2>7. "INPUT" \in RequestKinds
    BY DEF RequestKinds
  <2> HIDE DEF r
  <2> QED
    BY <2>2, <2>3, <2>5, <2>6, <2>7, RequestRead, Zenon
<1>3. ASSUME NEW cols \in Short, NEW rows \in Short
      PROVE  ReadBack([kind |-> "RESIZE", cols |-> cols, rows |-> rows])
  <2> DEFINE r == [kind |-> "RESIZE", cols |-> cols, rows |-> rows]
             p == Word16(cols) \o Word16(rows)
  <2>1. EncodeRequest(r) = Frame("RESIZE", p)
    BY DEF EncodeRequest
  <2>2. p \in Seq(Byte)
    BY Word16Bytes, ConcatProperties
  <2>3. "RESIZE" \in RequestKinds
    BY DEF RequestKinds
  <2>4. RequestOf("RESIZE", p) = Got(r, <<>>)
    BY RequestPayloads
  <2> HIDE DEF r, p
  <2>5. ReadBack(r)
    BY <2>1, <2>2, <2>3, <2>4, RequestRead, Zenon DEF ReadBack
  <2> QED
    BY <2>5 DEF r
<1>4. ASSUME NEW c \in Byte PROVE ReadBack([kind |-> "COMMAND", command |-> c])
  <2> DEFINE r == [kind |-> "COMMAND", command |-> c]
  <2>1. EncodeRequest(r) = Frame("COMMAND", <<c>>)
    BY DEF EncodeRequest
  <2>2. <<c>> \in Seq(Byte)
    OBVIOUS
  <2>3. "COMMAND" \in RequestKinds
    BY DEF RequestKinds
  <2>4. RequestOf("COMMAND", <<c>>) = Got(r, <<>>)
    BY RequestPayloads
  <2> HIDE DEF r
  <2>5. ReadBack(r)
    BY <2>1, <2>2, <2>3, <2>4, RequestRead, Zenon DEF ReadBack
  <2> QED
    BY <2>5 DEF r
<1>5. ASSUME NEW nonce \in EightBytes PROVE ReadBack([kind |-> "PING", nonce |-> nonce])
  <2> DEFINE r == [kind |-> "PING", nonce |-> nonce]
  <2>1. EncodeRequest(r) = Frame("PING", nonce)
    BY DEF EncodeRequest
  <2>2. nonce \in Seq(Byte)
    BY DEF EightBytes
  <2>3. "PING" \in RequestKinds
    BY DEF RequestKinds
  <2>4. RequestOf("PING", nonce) = Got(r, <<>>)
    BY RequestPayloads
  <2> HIDE DEF r
  <2>5. ReadBack(r)
    BY <2>1, <2>2, <2>3, <2>4, RequestRead, Zenon DEF ReadBack
  <2> QED
    BY <2>5 DEF r
<1>6. ASSUME NEW k \in {"LIST", "SNAPSHOT"} PROVE ReadBack([kind |-> k])
  <2> DEFINE r == [kind |-> k]
  <2>1. EncodeRequest(r) = Frame(k, <<>>)
    BY DEF EncodeRequest
  <2>2. <<>> \in Seq(Byte)
    OBVIOUS
  <2>3. k \in RequestKinds
    BY DEF RequestKinds
  <2>4. RequestOf(k, <<>>) = Got(r, <<>>)
    BY RequestPayloads
  <2> HIDE DEF r
  <2>5. ReadBack(r)
    BY <2>1, <2>2, <2>3, <2>4, RequestRead, Zenon DEF ReadBack
  <2> QED
    BY <2>5 DEF r
<1> QED
  BY <1>1, <1>2, <1>3, <1>4, <1>5, <1>6

(* The first of the numbers from 0 to n that is in S, and the last one.      *)
LEMMA LeastOf ==
    ASSUME NEW S \in SUBSET Nat, S # {}
    PROVE  \E m \in S : \A k \in S : m <= k
<1> DEFINE R == OpToRel(<, Nat)
<1>1. IsWellFoundedOn(R, Nat)
  BY NatLessThanWellFounded, Zenon
<1> HIDE DEF R
<1>2. PICK m \in S : \A k \in S : ~ (<<k, m>> \in R)
  BY <1>1, WFMin, Zenon
<1>3. ASSUME NEW k \in S PROVE m <= k
  <2>1. k \in Nat /\ m \in Nat /\ ~(<<k, m>> \in R)
    BY <1>2
  <2>2. ~(k < m)
    BY <2>1 DEF R, OpToRel
  <2> QED
    BY <2>1, <2>2
<1> QED
  BY <1>2, <1>3

LEMMA GreatestOf ==
    ASSUME NEW n \in Nat, NEW S \in SUBSET (0..n), S # {}
    PROVE  \E m \in S : \A k \in S : k <= m
<1> DEFINE T == {n - k : k \in S}
<1>1. T \in SUBSET Nat /\ T # {}
  OBVIOUS
<1> HIDE DEF T
<1>2. PICK t \in T : \A u \in T : t <= u
  BY <1>1, LeastOf
<1>3. PICK m \in S : t = n - m
  BY <1>2 DEF T
<1>4. ASSUME NEW k \in S PROVE k <= m
  <2>1. n - k \in T
    BY DEF T
  <2>2. n - m <= n - k /\ k \in Nat /\ m \in Nat
    BY <1>2, <1>3, <2>1
  <2> QED
    BY <2>2
<1> QED
  BY <1>4

(* Whole characters within the maximum. *)
Cut(text, maximum, cut) ==
    /\ cut \in Seq(Byte)
    /\ Len(cut) <= maximum
    /\ Utf8(text) => Utf8(cut)

LEMMA WidthRange == \A b : Width(b) \in 0..4
  BY DEF Width

(* A tail that starts where a character does holds whole characters. *)
LEMMA TailOfText ==
    ASSUME NEW text \in Seq(Byte), NEW s \in 0..Len(text), CharBoundary(text, s), Utf8(text)
    PROVE  Utf8(SubSeq(text, s + 1, Len(text)))
<1> DEFINE t == SubSeq(text, s + 1, Len(text))
           n == Len(text)
<1>1. n \in Nat /\ s \in Nat /\ s <= n
  OBVIOUS
<1>2. t \in Seq(Byte) /\ Len(t) = n - s /\ \A i \in 1..(n - s) : t[i] = text[s + i]
  BY SubSeqProperties
<1>3. s = n \/ text[s + 1] \notin Continuation
  BY DEF CharBoundary
<1> HIDE DEF t, n
<1>4. DOMAIN t = 1..(n - s)
  BY <1>1, <1>2
<1>5. DOMAIN text = 1..n
  BY DEF n
<1>6. \A m \in 1..n : text[m] \in Continuation =>
        \E k \in 1..3 : /\ k < m
                        /\ Width(text[m - k]) > k
                        /\ \A j \in (m - k + 1)..m : text[j] \in Continuation
  BY <1>5, Zenon DEF Utf8
<1>7. ASSUME NEW i \in 1..(n - s), t[i] \in Continuation
      PROVE  \E k \in 1..3 : /\ k < i
                            /\ Width(t[i - k]) > k
                            /\ \A j \in (i - k + 1)..i : t[j] \in Continuation
  <2>1. s + i \in 1..n /\ text[s + i] \in Continuation
    BY <1>1, <1>2, <1>7
  <2>2. PICK k \in 1..3 : /\ k < s + i
                          /\ Width(text[s + i - k]) > k
                          /\ \A j \in (s + i - k + 1)..(s + i) : text[j] \in Continuation
    BY <1>6, <2>1
  <2>3. k < i
    <3>1. ASSUME ~(k < i) PROVE FALSE
      <4>1. s + 1 \in (s + i - k + 1)..(s + i)
        BY <1>1, <3>1
      <4> QED
        BY <1>1, <1>3, <2>2, <4>1
    <3> QED
      BY <3>1
  <2>4. t[i - k] = text[s + i - k]
    <3>1. i - k \in 1..(n - s) /\ s + (i - k) = s + i - k
      BY <1>1, <2>3
    <3> QED
      BY <1>2, <3>1
  <2>5. ASSUME NEW j \in (i - k + 1)..i PROVE t[j] \in Continuation
    <3>1. j \in 1..(n - s) /\ s + j \in (s + i - k + 1)..(s + i)
      BY <1>1, <2>3
    <3> QED
      BY <1>2, <2>2, <3>1
  <2> QED
    BY <2>2, <2>3, <2>4, <2>5
<1>8. ASSUME NEW i \in 1..(n - s), t[i] \notin Continuation
      PROVE  /\ Width(t[i]) > 0
             /\ \A k \in 1..(Width(t[i]) - 1) : i + k <= Len(t) /\ t[i + k] \in Continuation
  <2>1. s + i \in 1..n /\ text[s + i] \notin Continuation /\ t[i] = text[s + i]
    BY <1>1, <1>2, <1>8
  <2>2. /\ Width(text[s + i]) > 0
        /\ \A k \in 1..(Width(text[s + i]) - 1) :
             s + i + k <= Len(text) /\ text[s + i + k] \in Continuation
    BY <1>5, <2>1 DEF Utf8
  <2>3. ASSUME NEW k \in 1..(Width(t[i]) - 1)
        PROVE  i + k <= Len(t) /\ t[i + k] \in Continuation
    <3>1. k \in 1..(Width(text[s + i]) - 1) /\ k \in Nat
      BY <2>1, WidthRange
    <3>2. s + i + k <= n /\ text[s + i + k] \in Continuation
      BY <2>2, <3>1 DEF n
    <3>3. i + k <= n - s /\ i + k \in 1..(n - s) /\ s + (i + k) = s + i + k
      BY <1>1, <3>1, <3>2
    <3> QED
      BY <1>2, <3>2, <3>3
  <2> QED
    BY <2>1, <2>2, <2>3
<1>9. Utf8(t)
  BY <1>4, <1>7, <1>8 DEF Utf8
<1> QED
  BY <1>9 DEF t, n

(* A beginning that ends where a character does holds whole characters. *)
LEMMA HeadOfText ==
    ASSUME NEW text \in Seq(Byte), NEW e \in 0..Len(text), CharBoundary(text, e), Utf8(text)
    PROVE  Utf8(SubSeq(text, 1, e))
<1> DEFINE t == SubSeq(text, 1, e)
           n == Len(text)
<1>1. n \in Nat /\ e \in Nat /\ e <= n
  OBVIOUS
<1>2. t \in Seq(Byte) /\ Len(t) = e /\ \A i \in 1..e : t[i] = text[i]
  BY SubSeqProperties
<1>3. e = n \/ text[e + 1] \notin Continuation
  BY DEF CharBoundary
<1> HIDE DEF t, n
<1>4. DOMAIN t = 1..e
  BY <1>1, <1>2
<1>5. DOMAIN text = 1..n
  BY DEF n
<1>6. ASSUME NEW i \in 1..e, t[i] \in Continuation
      PROVE  \E k \in 1..3 : /\ k < i
                            /\ Width(t[i - k]) > k
                            /\ \A j \in (i - k + 1)..i : t[j] \in Continuation
  <2>1. i \in 1..n /\ text[i] \in Continuation
    BY <1>1, <1>2, <1>6
  <2>2. PICK k \in 1..3 : /\ k < i
                          /\ Width(text[i - k]) > k
                          /\ \A j \in (i - k + 1)..i : text[j] \in Continuation
    BY <1>5, <2>1 DEF Utf8
  <2>4. t[i - k] = text[i - k]
    <3>1. i - k \in 1..e
      BY <1>1, <2>2
    <3> QED
      BY <1>2, <3>1
  <2>5. ASSUME NEW j \in (i - k + 1)..i PROVE t[j] \in Continuation
    <3>1. j \in 1..e
      BY <1>1, <2>2
    <3> QED
      BY <1>2, <2>2, <3>1
  <2> QED
    BY <2>2, <2>4, <2>5
<1>7. ASSUME NEW i \in 1..e, t[i] \notin Continuation
      PROVE  /\ Width(t[i]) > 0
             /\ \A k \in 1..(Width(t[i]) - 1) : i + k <= Len(t) /\ t[i + k] \in Continuation
  <2>1. i \in 1..n /\ text[i] \notin Continuation /\ t[i] = text[i]
    BY <1>1, <1>2, <1>7
  <2>2. /\ Width(text[i]) > 0
        /\ \A k \in 1..(Width(text[i]) - 1) : i + k <= n /\ text[i + k] \in Continuation
    BY <1>5, <2>1 DEF Utf8, n
  <2> DEFINE w == Width(text[i])
  <2>3. w \in Nat /\ w > 0
    BY <2>2, WidthRange
  <2>4. \A k \in 1..(w - 1) : i + k <= n /\ text[i + k] \in Continuation
    BY <2>2
  <2> HIDE DEF w
  <2>5. ASSUME NEW k \in 1..(w - 1)
        PROVE  i + k <= e /\ t[i + k] \in Continuation
    <3>1. i + k <= e
      <4>1. ASSUME ~(i + k <= e) PROVE FALSE
        <5>1. e + 1 - i \in 1..(w - 1) /\ i + (e + 1 - i) = e + 1
          BY <1>1, <2>3, <4>1
        <5>2. e + 1 <= n /\ text[e + 1] \in Continuation
          BY <2>4, <5>1
        <5> QED
          BY <1>1, <1>3, <5>2
      <4> QED
        BY <4>1
    <3>2. i + k \in 1..e
      BY <1>1, <2>3, <3>1
    <3> QED
      BY <1>2, <2>4, <3>1, <3>2
  <2> QED
    BY <1>2, <2>1, <2>3, <2>5 DEF w
<1>8. Utf8(t)
  BY <1>4, <1>6, <1>7 DEF Utf8
<1> QED
  BY <1>8 DEF t, n

(* truncate_utf8 keeps whole characters and no more than the maximum.        *)
LEMMA TruncateCuts ==
    ASSUME NEW text \in Seq(Byte), NEW maximum \in Nat
    PROVE  Cut(text, maximum, TruncateUtf8(text, maximum))
<1> DEFINE n == Len(text)
           cut == TruncateUtf8(text, maximum)
<1>1. n \in Nat
  OBVIOUS
<1>2. CASE n <= maximum
  <2>1. cut = text
    BY <1>2 DEF TruncateUtf8
  <2> HIDE DEF cut
  <2>2. Cut(text, maximum, cut)
    BY <1>2, <2>1 DEF Cut
  <2> QED
    BY <2>2 DEF cut
<1>3. CASE ~(n <= maximum)
  <2> DEFINE FirstCut(s) == /\ CharBoundary(text, s)
                            /\ \A t \in (n - maximum)..(s - 1) : ~CharBoundary(text, t)
             start == CHOOSE s \in (n - maximum)..n : FirstCut(s)
             S == {s \in (n - maximum)..n : CharBoundary(text, s)}
  <2>1. n - maximum \in Nat /\ n - maximum <= n
    BY <1>1, <1>3
  <2>2. CharBoundary(text, n)
    BY DEF CharBoundary
  <2>3. S \in SUBSET Nat /\ S # {}
    BY <1>1, <2>1, <2>2
  <2>4. PICK m \in S : \A k \in S : m <= k
    <3> HIDE DEF S
    <3> QED
      BY <2>3, LeastOf
  <2>5. FirstCut(m)
    <3>1. ASSUME NEW t \in (n - maximum)..(m - 1), CharBoundary(text, t) PROVE FALSE
      <4>1. t \in S /\ t < m
        BY <1>1, <2>1, <3>1
      <4> QED
        BY <2>4, <4>1
    <3> QED
      BY <3>1
  <2>6. start \in (n - maximum)..n /\ FirstCut(start)
    <3>1. m \in (n - maximum)..n
      OBVIOUS
    <3> HIDE DEF FirstCut, S
    <3> QED
      BY <2>5, <3>1, Zenon
  <2>7. cut = SubSeq(text, start + 1, n)
    BY <1>3, Zenon DEF TruncateUtf8
  <2>8. CharBoundary(text, start)
    BY <2>6
  <2> HIDE DEF start, cut, FirstCut
  <2>9. start \in 0..n /\ start \in Nat /\ start <= n /\ n - start <= maximum
    BY <1>1, <2>1, <2>6
  <2>10. cut \in Seq(Byte) /\ Len(cut) = n - start
    <3>1. \A i \in (start + 1)..n : text[i] \in Byte
      BY <1>1, <2>9
    <3> QED
      BY <1>1, <2>7, <2>9, <3>1, SubSeqProperties
  <2>11. Utf8(text) => Utf8(cut)
    BY <2>7, <2>8, <2>9, TailOfText
  <2>12. Cut(text, maximum, cut)
    BY <2>9, <2>10, <2>11 DEF Cut
  <2> QED
    BY <2>12 DEF cut
<1> QED
  BY <1>2, <1>3

(* bounded_message does too. *)
LEMMA BoundedCuts ==
    ASSUME NEW text \in Seq(Byte), Utf8(text)
    PROVE  Cut(text, MaxErrorBytes, BoundedMessage(text))
<1> DEFINE n == Len(text)
           max == MaxErrorBytes
           cut == BoundedMessage(text)
<1>1. n \in Nat /\ max \in Nat
  BY CodecAssumption
<1>2. CASE n <= max
  <2>1. cut = text
    BY <1>2 DEF BoundedMessage
  <2> HIDE DEF cut
  <2>2. Cut(text, max, cut)
    BY <1>2, <2>1 DEF Cut
  <2> QED
    BY <2>2 DEF cut
<1>3. CASE ~(n <= max)
  <2> DEFINE LastCut(e) == /\ CharBoundary(text, e)
                           /\ \A t \in (e + 1)..max : ~CharBoundary(text, t)
             end == CHOOSE e \in 0..max : LastCut(e)
             S == {s \in 0..max : CharBoundary(text, s)}
  <2>1. n > max /\ n > 0 /\ DOMAIN text = 1..n
    BY <1>1, <1>3
  <2>2. CharBoundary(text, 0)
    <3>1. text[1] \notin Continuation
      <4>1. 1 \in DOMAIN text
        BY <1>1, <2>1
      <4>2. ASSUME text[1] \in Continuation PROVE FALSE
        <5>1. \E k \in 1..3 : k < 1
          BY <4>1, <4>2 DEF Utf8
        <5> QED
          BY <5>1
      <4> QED
        BY <4>2
    <3> QED
      BY <3>1 DEF CharBoundary
  <2>3. S \in SUBSET (0..max) /\ S # {}
    BY <1>1, <2>2
  <2>4. PICK m \in S : \A k \in S : k <= m
    <3> HIDE DEF S
    <3> QED
      BY <1>1, <2>3, GreatestOf
  <2>5. LastCut(m)
    <3>1. ASSUME NEW t \in (m + 1)..max, CharBoundary(text, t) PROVE FALSE
      <4>1. t \in S /\ m < t
        BY <1>1, <3>1
      <4> QED
        BY <2>4, <4>1
    <3> QED
      BY <3>1
  <2>6. end \in 0..max /\ LastCut(end)
    <3>1. m \in 0..max
      OBVIOUS
    <3> HIDE DEF LastCut, S
    <3> QED
      BY <2>5, <3>1, Zenon
  <2>7. cut = SubSeq(text, 1, end)
    BY <1>3, Zenon DEF BoundedMessage
  <2>8. CharBoundary(text, end)
    BY <2>6
  <2> HIDE DEF end, cut, LastCut
  <2>9. end \in 0..n /\ end \in Nat /\ end <= max
    BY <1>1, <2>1, <2>6
  <2>10. cut \in Seq(Byte) /\ Len(cut) = end
    <3>1. \A i \in 1..end : text[i] \in Byte
      BY <1>1, <2>1, <2>9
    <3> QED
      BY <1>1, <2>7, <2>9, <3>1, SubSeqProperties
  <2>11. Utf8(cut)
    BY <2>7, <2>8, <2>9, HeadOfText
  <2>12. Cut(text, max, cut)
    BY <2>9, <2>10, <2>11 DEF Cut
  <2> QED
    BY <2>12 DEF cut
<1> QED
  BY <1>2, <1>3

------------------------------------------------------------------------------
(* Fields of responses, written and read.                                   *)

(* front has been read of bytes, and rest is left. *)
Splits(bytes, front, rest) ==
    front \in Seq(Byte) /\ rest \in Seq(Byte) /\ bytes = front \o rest

LEMMA ConcatMoves ==
    \A s, t, u \in Seq(Byte) : (s \o t) \o u = s \o (t \o u)
  BY ConcatAssociative

LEMMA SplitsOn ==
    ASSUME NEW bytes, NEW f, NEW r, NEW g, NEW s, Splits(bytes, f, r), Splits(r, g, s)
    PROVE  Splits(bytes, f \o g, s)
<1>1. f \in Seq(Byte) /\ g \in Seq(Byte) /\ s \in Seq(Byte) /\ bytes = f \o (g \o s)
  BY DEF Splits
<1>2. f \o (g \o s) = (f \o g) \o s
  BY <1>1, ConcatMoves, Zenon
<1>3. f \o g \in Seq(Byte)
  BY <1>1, ConcatProperties
<1> QED
  BY <1>1, <1>2, <1>3, Zenon DEF Splits

LEMMA SplitsBytes ==
    ASSUME NEW bytes, NEW f, NEW r, Splits(bytes, f, r)
    PROVE  bytes \in Seq(Byte) /\ r \in Seq(Byte) /\ f \in Seq(Byte) /\ Len(bytes) = Len(f) + Len(r)
<1>1. f \in Seq(Byte) /\ r \in Seq(Byte) /\ bytes = f \o r
  BY DEF Splits
<1> QED
  BY <1>1, ConcatProperties

LEMMA SplitsTyped ==
    \A bytes, f, r : Splits(bytes, f, r) =>
        /\ bytes \in Seq(Byte) /\ r \in Seq(Byte) /\ f \in Seq(Byte)
        /\ Len(bytes) = Len(f) + Len(r)
  BY SplitsBytes

LEMMA FailedIsNotOk == Failed.ok = FALSE
  BY DEF Failed

LEMMA TakeSplits ==
    ASSUME NEW bytes \in Seq(Byte), NEW n \in Nat, Take(bytes, n).ok
    PROVE  \E v \in Seq(Byte), r \in Seq(Byte) :
             Take(bytes, n) = Got(v, r) /\ Len(v) = n /\ Splits(bytes, v, r)
<1> DEFINE v == SubSeq(bytes, 1, n)
           r == SubSeq(bytes, n + 1, Len(bytes))
<1>1. n <= Len(bytes)
  BY FailedIsNotOk DEF Take, If
<1>2. Take(bytes, n) = Got(v, r)
  BY <1>1 DEF Take, If
<1>3. v \in Seq(Byte) /\ Len(v) = n
  <2>1. \A i \in 1..n : bytes[i] \in Byte
    BY <1>1
  <2> QED
    BY <1>1, <2>1, SubSeqProperties
<1>4. r \in Seq(Byte)
  <2>1. \A i \in (n + 1)..Len(bytes) : bytes[i] \in Byte
    BY <1>1
  <2> QED
    BY <1>1, <2>1, SubSeqProperties
<1>5. v \o r = bytes
  <2>1. 1 \in 1..(Len(bytes) + 1) /\ n \in (1 - 1)..Len(bytes) /\ Len(bytes) \in n..Len(bytes)
    BY <1>1
  <2>2. v \o r = SubSeq(bytes, 1, Len(bytes))
    BY <2>1, ConcatAdjacentSubSeq
  <2>3. SubSeq(bytes, 1, Len(bytes)) = bytes
    BY SubSeqFull, Zenon
  <2> QED
    BY <2>2, <2>3, Zenon
<1> HIDE DEF v, r
<1> QED
  BY <1>2, <1>3, <1>4, <1>5, Zenon DEF Splits

LEMMA OneElement ==
    ASSUME NEW S, NEW v \in Seq(S), Len(v) = 1
    PROVE  v[1] \in S /\ v = <<v[1]>>
  OBVIOUS

LEMMA TwoElements ==
    ASSUME NEW S, NEW v \in Seq(S), Len(v) = 2
    PROVE  v[1] \in S /\ v[2] \in S /\ v = <<v[1], v[2]>>
  OBVIOUS

LEMMA GetByteSplits ==
    ASSUME NEW bytes \in Seq(Byte), GetByte(bytes).ok
    PROVE  \E e \in Byte, r \in Seq(Byte) :
             GetByte(bytes) = Got(e, r) /\ Splits(bytes, <<e>>, r)
<1> DEFINE t == Take(bytes, 1)
<1>1. GetByte(bytes) = IF t.ok THEN Got(t.value[1], t.rest) ELSE Failed
  BY Zenon DEF GetByte, Then
<1>2. t.ok
  BY <1>1, FailedIsNotOk
<1>3. PICK v \in Seq(Byte), r \in Seq(Byte) : t = Got(v, r) /\ Len(v) = 1 /\ Splits(bytes, v, r)
  BY <1>2, TakeSplits
<1> HIDE DEF t
<1>4. t.value = v /\ t.rest = r
  BY <1>3, GotFields
<1>5. v[1] \in Byte /\ v = <<v[1]>>
  BY <1>3, OneElement
<1>6. GetByte(bytes) = Got(v[1], r) /\ Splits(bytes, <<v[1]>>, r)
  BY <1>1, <1>2, <1>3, <1>4, <1>5
<1> QED
  BY <1>5, <1>6

LEMMA Recombine ==
    ASSUME NEW a \in Byte, NEW b \in Byte
    PROVE  256 * a + b \in Short /\ High(256 * a + b) = a /\ Low(256 * a + b) = b
  BY DEF Byte, Short, High, Low

LEMMA Get16Splits ==
    ASSUME NEW bytes \in Seq(Byte), Get16(bytes).ok
    PROVE  \E n \in Short, r \in Seq(Byte) :
             Get16(bytes) = Got(n, r) /\ Splits(bytes, Word16(n), r)
<1> DEFINE t == Take(bytes, 2)
<1>1. Get16(bytes) = IF t.ok THEN Got(256 * t.value[1] + t.value[2], t.rest) ELSE Failed
  BY Zenon DEF Get16, Then
<1>2. t.ok
  BY <1>1, FailedIsNotOk
<1>3. PICK v \in Seq(Byte), r \in Seq(Byte) : t = Got(v, r) /\ Len(v) = 2 /\ Splits(bytes, v, r)
  BY <1>2, TakeSplits
<1> HIDE DEF t
<1>4. t.value = v /\ t.rest = r
  BY <1>3, GotFields
<1>5. v[1] \in Byte /\ v[2] \in Byte /\ v = <<v[1], v[2]>>
  BY <1>3, TwoElements
<1> DEFINE n == 256 * v[1] + v[2]
<1>6. n \in Short /\ Word16(n) = <<v[1], v[2]>>
  BY <1>5, Recombine, Word16HighLow
<1>7. Get16(bytes) = Got(n, r)
  BY <1>1, <1>2, <1>4
<1> HIDE DEF n
<1>8. Splits(bytes, Word16(n), r)
  BY <1>3, <1>5, <1>6
<1> QED
  BY <1>6, <1>7, <1>8

LEMMA GetBytesSplits ==
    ASSUME NEW bytes \in Seq(Byte), NEW maximum, GetBytes(bytes, maximum).ok
    PROVE  \E s \in Seq(Byte), r \in Seq(Byte) :
             /\ GetBytes(bytes, maximum) = Got(s, r)
             /\ Len(s) <= maximum /\ Splits(bytes, PutBytes(s), r)
<1> DEFINE g == Get16(bytes)
           t == Take(g.rest, g.value)
<1>1. GetBytes(bytes, maximum) = IF g.ok THEN IF g.value <= maximum THEN t ELSE Failed ELSE Failed
  BY Zenon DEF GetBytes, Then, If
<1>2. g.ok /\ g.value <= maximum /\ t.ok
  BY <1>1, FailedIsNotOk
<1>3. PICK n \in Short, q \in Seq(Byte) : g = Got(n, q) /\ Splits(bytes, Word16(n), q)
  BY <1>2, Get16Splits
<1>4. g.value = n /\ g.rest = q
  <2> HIDE DEF g
  <2> QED
    BY <1>3, GotFields
<1> HIDE DEF g
<1>5. n \in Nat /\ t = Take(q, n)
  BY <1>4 DEF Short
<1> HIDE DEF t
<1>6. PICK s \in Seq(Byte), r \in Seq(Byte) : t = Got(s, r) /\ Len(s) = n /\ Splits(q, s, r)
  BY <1>2, <1>5, TakeSplits
<1>7. Splits(bytes, PutBytes(s), r)
  BY <1>3, <1>6, SplitsOn DEF PutBytes
<1> QED
  BY <1>1, <1>2, <1>4, <1>6, <1>7

(* A text of at most so many bytes. *)
TextUpTo(maximum) == {s \in Seq(Byte) : Utf8(s) /\ Len(s) <= maximum}

LEMMA GetTextSplits ==
    ASSUME NEW bytes \in Seq(Byte), NEW maximum, GetText(bytes, maximum).ok
    PROVE  \E s \in TextUpTo(maximum), r \in Seq(Byte) :
             GetText(bytes, maximum) = Got(s, r) /\ Splits(bytes, PutBytes(s), r)
<1> DEFINE g == GetBytes(bytes, maximum)
<1>1. GetText(bytes, maximum) = IF g.ok THEN IF Utf8(g.value) THEN g ELSE Failed ELSE Failed
  BY Zenon DEF GetText, Then, If
<1>2. g.ok /\ Utf8(g.value)
  BY <1>1, FailedIsNotOk
<1>3. PICK s \in Seq(Byte), r \in Seq(Byte) :
        g = Got(s, r) /\ Len(s) <= maximum /\ Splits(bytes, PutBytes(s), r)
  BY <1>2, GetBytesSplits
<1> HIDE DEF g
<1>4. g.value = s
  BY <1>3, GotFields
<1>5. s \in TextUpTo(maximum)
  BY <1>2, <1>3, <1>4 DEF TextUpTo
<1> QED
  BY <1>1, <1>2, <1>3, <1>5

LEMMA GetTextPut ==
    ASSUME NEW maximum, NEW s \in TextUpTo(maximum), Len(s) \in Short, NEW b \in Seq(Byte)
    PROVE  GetText(PutBytes(s) \o b, maximum) = Got(s, b)
<1> DEFINE g == GetBytes(PutBytes(s) \o b, maximum)
<1>1. GetText(PutBytes(s) \o b, maximum) = IF g.ok THEN IF Utf8(g.value) THEN g ELSE Failed ELSE Failed
  BY Zenon DEF GetText, Then, If
<1>2. s \in Seq(Byte) /\ Utf8(s) /\ Len(s) <= maximum
  BY DEF TextUpTo
<1>3. g = Got(s, b)
  BY <1>2, GetBytesPut
<1> HIDE DEF g
<1> QED
  BY <1>1, <1>2, <1>3, GotFields

LEMMA NameOfBytes ==
    ASSUME NEW v \in Seq(Byte), NEW n, Len(v) = n, n \in 1..MaxNameBytes,
           \A i \in DOMAIN v : v[i] \in NameByte
    PROVE  v \in Name
<1>1. v \in Seq(NameByte)
  OBVIOUS
<1> QED
  BY <1>1 DEF Name

LEMMA GetNameSplits ==
    ASSUME NEW bytes \in Seq(Byte), GetName(bytes).ok
    PROVE  \E s \in Name, r \in Seq(Byte) :
             GetName(bytes) = Got(s, r) /\ Splits(bytes, PutName(s), r)
<1> DEFINE g == GetByte(bytes)
           t == Take(g.rest, g.value)
           isname == \A i \in DOMAIN t.value : t.value[i] \in NameByte
<1>1. GetName(bytes) = IF g.ok THEN IF g.value \in 1..MaxNameBytes
                                     THEN IF t.ok THEN IF isname THEN t ELSE Failed ELSE Failed
                                     ELSE Failed
                       ELSE Failed
  BY Zenon DEF GetName, Then, If
<1>2. g.ok /\ g.value \in 1..MaxNameBytes /\ t.ok /\ isname
  <2> HIDE DEF g, t, isname
  <2> QED
    BY <1>1, FailedIsNotOk
<1>3. PICK n \in Byte, q \in Seq(Byte) : g = Got(n, q) /\ Splits(bytes, <<n>>, q)
  BY <1>2, GetByteSplits
<1>4. g.value = n /\ g.rest = q
  <2> HIDE DEF g
  <2> QED
    BY <1>3, GotFields
<1>5. n \in Nat /\ n \in 1..MaxNameBytes
  BY <1>2, <1>4
<1>6. t = Take(q, n)
  BY <1>4
<1> HIDE DEF g, t
<1>7. PICK s \in Seq(Byte), r \in Seq(Byte) : t = Got(s, r) /\ Len(s) = n /\ Splits(q, s, r)
  BY <1>2, <1>5, <1>6, TakeSplits
<1>8. s \in Name
  <2>1. t.value = s
    BY <1>7, GotFields
  <2>2. \A i \in DOMAIN s : s[i] \in NameByte
    BY <1>2, <2>1
  <2> QED
    BY <1>5, <1>7, <2>2, NameOfBytes
<1>9. Splits(bytes, PutName(s), r)
  BY <1>3, <1>7, SplitsOn DEF PutName
<1>10. GetName(bytes) = t
  <2> HIDE DEF isname
  <2> QED
    BY <1>1, <1>2
<1> QED
  BY <1>7, <1>8, <1>9, <1>10

Focus(f) == <<IF f THEN 1 ELSE 0>>

LEMMA FocusByte == \A f \in BOOLEAN : Focus(f) \in Seq(Byte) /\ Len(Focus(f)) = 1
<1> SUFFICES ASSUME NEW f \in BOOLEAN PROVE Focus(f) \in Seq(Byte) /\ Len(Focus(f)) = 1
  OBVIOUS
<1>1. (IF f THEN 1 ELSE 0) \in Byte
  BY DEF Byte
<1> QED
  BY <1>1 DEF Focus

LEMMA GetFocusedPut ==
    ASSUME NEW f \in BOOLEAN, NEW b \in Seq(Byte)
    PROVE  GetFocused(Focus(f) \o b) = Got(f, b)
<1> DEFINE e == IF f THEN 1 ELSE 0
           g == GetByte(<<e>> \o b)
<1>1. GetFocused(<<e>> \o b) = IF g.ok THEN IF g.value \in {0, 1} THEN Got(g.value = 1, g.rest) ELSE Failed
                               ELSE Failed
  BY Zenon DEF GetFocused, Then, If
<1>2. e \in Byte /\ e \in {0, 1} /\ (e = 1) = f
  BY DEF Byte
<1> HIDE DEF e
<1>3. g = Got(e, b)
  BY <1>2, GetByteReads
<1> HIDE DEF g
<1>4. g.ok /\ g.value = e /\ g.rest = b
  BY <1>3, GotFields
<1>5. GetFocused(<<e>> \o b) = Got(f, b)
  BY <1>1, <1>2, <1>4
<1> QED
  BY <1>5 DEF Focus, e

LEMMA GetFocusedSplits ==
    ASSUME NEW bytes \in Seq(Byte), GetFocused(bytes).ok
    PROVE  \E f \in BOOLEAN, r \in Seq(Byte) :
             GetFocused(bytes) = Got(f, r) /\ Splits(bytes, Focus(f), r)
<1> DEFINE g == GetByte(bytes)
<1>1. GetFocused(bytes) = IF g.ok THEN IF g.value \in {0, 1} THEN Got(g.value = 1, g.rest) ELSE Failed
                          ELSE Failed
  BY Zenon DEF GetFocused, Then, If
<1>2. g.ok /\ g.value \in {0, 1}
  <2> HIDE DEF g
  <2> QED
    BY <1>1, FailedIsNotOk
<1>3. PICK e \in Byte, r \in Seq(Byte) : g = Got(e, r) /\ Splits(bytes, <<e>>, r)
  BY <1>2, GetByteSplits
<1> HIDE DEF g
<1>4. g.value = e /\ g.rest = r
  BY <1>3, GotFields
<1> DEFINE f == (e = 1)
<1>5. f \in BOOLEAN /\ Focus(f) = <<e>>
  BY <1>2, <1>4 DEF Focus
<1>6. GetFocused(bytes) = Got(f, r)
  BY <1>1, <1>2, <1>4
<1> HIDE DEF f
<1> QED
  BY <1>3, <1>5, <1>6

------------------------------------------------------------------------------
(* A session of a list.                                                     *)
Session == [name : Name, attached_clients : Short]

LEMMA SessionBytes ==
    ASSUME NEW s \in Session
    PROVE  PutSession(s) \in Seq(Byte) /\ Len(PutSession(s)) <= MaxNameBytes + 3
<1> DEFINE a == PutName(s.name)
           b == Word16(s.attached_clients)
<1>1. s.name \in Name /\ s.attached_clients \in Short
  BY DEF Session
<1>2. a \in Seq(Byte) /\ b \in Seq(Byte) /\ Len(b) = 2
  BY <1>1, NameBytes, Word16Bytes
<1>3. Len(a) = 1 + Len(s.name) /\ Len(s.name) <= MaxNameBytes /\ Len(s.name) \in Nat
  BY <1>1 DEF PutName, Name
<1>4. a \o b \in Seq(Byte) /\ Len(a \o b) = Len(a) + Len(b)
  <2> HIDE DEF a, b
  <2> QED
    BY <1>2, ConcatProperties
<1>5. PutSession(s) = a \o b
  BY DEF PutSession
<1> HIDE DEF a, b
<1> QED
  BY <1>2, <1>3, <1>4, <1>5, NameLimit

SessionRead(name, count) ==
    IF name.ok
      THEN IF count.ok
             THEN Got([name |-> name.value, attached_clients |-> count.value], count.rest)
             ELSE Failed
      ELSE Failed

LEMMA GetSessionReads ==
    \A bytes : GetSession(bytes) = SessionRead(GetName(bytes), Get16(GetName(bytes).rest))
  BY Zenon DEF GetSession, SessionRead, Then

LEMMA GetSessionPut ==
    ASSUME NEW s \in Session, NEW b \in Seq(Byte)
    PROVE  GetSession(PutSession(s) \o b) = Got(s, b)
<1> DEFINE w == Word16(s.attached_clients)
           bytes == PutSession(s) \o b
           g == GetName(bytes)
           c == Get16(g.rest)
<1>1. s.name \in Name /\ s.attached_clients \in Short
      /\ s = [name |-> s.name, attached_clients |-> s.attached_clients]
  BY DEF Session
<1>2. PutName(s.name) \in Seq(Byte) /\ w \in Seq(Byte) /\ w \o b \in Seq(Byte)
  BY <1>1, NameBytes, Word16Bytes, ConcatProperties
<1>3. bytes = PutName(s.name) \o (w \o b)
  BY <1>2, ConcatAssociative DEF PutSession
<1> HIDE DEF bytes
<1>4. g = Got(s.name, w \o b)
  BY <1>1, <1>2, <1>3, GetNamePut
<1> HIDE DEF g
<1>5. g.ok /\ g.value = s.name /\ g.rest = w \o b
  <2> HIDE DEF w
  <2>1. \A v, r : Got(v, r).ok /\ Got(v, r).value = v /\ Got(v, r).rest = r
    BY GotFields, Zenon
  <2> QED
    BY <1>4, <2>1, Zenon
<1>6. Get16(w \o b) = Got(s.attached_clients, b)
  BY <1>1, Get16Word, Zenon
<1>7. c = Got(s.attached_clients, b)
  BY <1>5, <1>6
<1> HIDE DEF c
<1>8. c.ok /\ c.value = s.attached_clients /\ c.rest = b
  BY <1>7, GotFields
<1>9. SessionRead(g, c) = Got(s, b)
  BY <1>1, <1>5, <1>8 DEF SessionRead
<1> QED
  BY <1>9, GetSessionReads DEF g, c, bytes

LEMMA GetSessionSplits ==
    ASSUME NEW bytes \in Seq(Byte), GetSession(bytes).ok
    PROVE  \E s \in Session, r \in Seq(Byte) :
             GetSession(bytes) = Got(s, r) /\ Splits(bytes, PutSession(s), r)
<1> DEFINE g == GetName(bytes)
           c == Get16(g.rest)
<1>1. GetSession(bytes) = SessionRead(g, c)
  BY GetSessionReads
<1>2. g.ok /\ c.ok
  <2> HIDE DEF g, c
  <2> QED
    BY <1>1, FailedIsNotOk DEF SessionRead
<1>3. PICK n \in Name, q \in Seq(Byte) : g = Got(n, q) /\ Splits(bytes, PutName(n), q)
  BY <1>2, GetNameSplits
<1>4. g.value = n /\ g.rest = q
  <2> HIDE DEF g
  <2> QED
    BY <1>3, GotFields
<1> HIDE DEF g
<1>5. PICK k \in Short, r \in Seq(Byte) : c = Got(k, r) /\ Splits(q, Word16(k), r)
  BY <1>2, <1>4, Get16Splits
<1> HIDE DEF c
<1>6. c.value = k /\ c.rest = r
  BY <1>5, GotFields
<1> DEFINE s == [name |-> n, attached_clients |-> k]
<1>7. s \in Session /\ PutSession(s) = PutName(n) \o Word16(k)
  BY DEF Session, PutSession
<1>8. GetSession(bytes) = Got(s, r)
  BY <1>1, <1>2, <1>4, <1>6 DEF SessionRead
<1>9. Splits(bytes, PutName(n) \o Word16(k), r)
  BY <1>3, <1>5, SplitsOn
<1> HIDE DEF s
<1> QED
  BY <1>7, <1>8, <1>9

------------------------------------------------------------------------------
(* A pane of a screen.                                                      *)
Pane == [id : EightBytes, x : Short, y : Short, width : Short, height : Short,
         focused : BOOLEAN, text : TextUpTo(MaxFrameBytes)]

LEMMA ConcatTyped == \A s, t \in Seq(Byte) : s \o t \in Seq(Byte) /\ Len(s \o t) = Len(s) + Len(t)
  BY ConcatProperties

LEMMA WordTyped == \A n \in Short : Word16(n) \in Seq(Byte) /\ Len(Word16(n)) = 2
  BY Word16Bytes

LEMMA FrameBytesShort == MaxFrameBytes \in Nat /\ \A n \in Nat : n <= MaxFrameBytes => n \in Short
  BY CodecAssumption DEF Short

LEMMA TextTyped ==
    ASSUME NEW s \in TextUpTo(MaxFrameBytes)
    PROVE  /\ s \in Seq(Byte) /\ Len(s) \in Short
           /\ PutBytes(s) \in Seq(Byte) /\ Len(PutBytes(s)) = 2 + Len(s)
<1>1. s \in Seq(Byte) /\ Len(s) <= MaxFrameBytes /\ Len(s) \in Nat
  BY DEF TextUpTo
<1>2. Len(s) \in Short
  BY <1>1, FrameBytesShort
<1>3. Word16(Len(s)) \in Seq(Byte) /\ Len(Word16(Len(s))) = 2
  BY <1>2, WordTyped, Zenon
<1>4. PutBytes(s) \in Seq(Byte) /\ Len(PutBytes(s)) = Len(Word16(Len(s))) + Len(s)
  BY <1>1, <1>3, ConcatTyped, Zenon DEF PutBytes
<1> QED
  BY <1>1, <1>2, <1>3, <1>4

LEMMA PaneFields ==
    ASSUME NEW p \in Pane
    PROVE  /\ p.id \in Seq(Byte) /\ Len(p.id) = 8
           /\ p.x \in Short /\ p.y \in Short /\ p.width \in Short /\ p.height \in Short
           /\ p.focused \in BOOLEAN /\ p.text \in TextUpTo(MaxFrameBytes)
           /\ p = [id |-> p.id, x |-> p.x, y |-> p.y, width |-> p.width, height |-> p.height,
                   focused |-> p.focused, text |-> p.text]
  BY DEF Pane, EightBytes

LEMMA PaneLength ==
    ASSUME NEW p \in Pane
    PROVE  PutPane(p) \in Seq(Byte) /\ Len(PutPane(p)) = PaneBytes + Len(p.text)
<1> DEFINE a == p.id
           b == a \o Word16(p.x)
           c == b \o Word16(p.y)
           d == c \o Word16(p.width)
           e == d \o Word16(p.height)
           f == e \o Focus(p.focused)
           g == f \o PutBytes(p.text)
<1>1. a \in Seq(Byte) /\ Len(a) = 8
  BY PaneFields
<1>2. b \in Seq(Byte) /\ Len(b) = 10
  <2>1. Word16(p.x) \in Seq(Byte) /\ Len(Word16(p.x)) = 2
    BY PaneFields, WordTyped
  <2> HIDE DEF a
  <2>2. b \in Seq(Byte) /\ Len(b) = Len(a) + Len(Word16(p.x))
    BY <1>1, <2>1, ConcatTyped, Zenon
  <2> HIDE DEF b
  <2> QED
    BY <1>1, <2>1, <2>2
<1>3. c \in Seq(Byte) /\ Len(c) = 12
  <2>1. Word16(p.y) \in Seq(Byte) /\ Len(Word16(p.y)) = 2
    BY PaneFields, WordTyped
  <2> HIDE DEF b
  <2>2. c \in Seq(Byte) /\ Len(c) = Len(b) + Len(Word16(p.y))
    BY <1>2, <2>1, ConcatTyped, Zenon
  <2> HIDE DEF c
  <2> QED
    BY <1>2, <2>1, <2>2
<1>4. d \in Seq(Byte) /\ Len(d) = 14
  <2>1. Word16(p.width) \in Seq(Byte) /\ Len(Word16(p.width)) = 2
    BY PaneFields, WordTyped
  <2> HIDE DEF c
  <2>2. d \in Seq(Byte) /\ Len(d) = Len(c) + Len(Word16(p.width))
    BY <1>3, <2>1, ConcatTyped, Zenon
  <2> HIDE DEF d
  <2> QED
    BY <1>3, <2>1, <2>2
<1>5. e \in Seq(Byte) /\ Len(e) = 16
  <2>1. Word16(p.height) \in Seq(Byte) /\ Len(Word16(p.height)) = 2
    BY PaneFields, WordTyped
  <2> HIDE DEF d
  <2>2. e \in Seq(Byte) /\ Len(e) = Len(d) + Len(Word16(p.height))
    BY <1>4, <2>1, ConcatTyped, Zenon
  <2> HIDE DEF e
  <2> QED
    BY <1>4, <2>1, <2>2
<1>6. f \in Seq(Byte) /\ Len(f) = 17
  <2>1. Focus(p.focused) \in Seq(Byte) /\ Len(Focus(p.focused)) = 1
    BY PaneFields, FocusByte
  <2> HIDE DEF e
  <2>2. f \in Seq(Byte) /\ Len(f) = Len(e) + Len(Focus(p.focused))
    BY <1>5, <2>1, ConcatTyped, Zenon
  <2> HIDE DEF f
  <2> QED
    BY <1>5, <2>1, <2>2
<1>7. g \in Seq(Byte) /\ Len(g) = 19 + Len(p.text)
  <2>1. PutBytes(p.text) \in Seq(Byte) /\ Len(PutBytes(p.text)) = 2 + Len(p.text) /\ Len(p.text) \in Nat
    BY PaneFields, TextTyped
  <2> HIDE DEF f
  <2>2. g \in Seq(Byte) /\ Len(g) = Len(f) + Len(PutBytes(p.text))
    BY <1>6, <2>1, ConcatTyped, Zenon
  <2> HIDE DEF g
  <2> QED
    BY <1>6, <2>1, <2>2
<1>8. PutPane(p) = g
  BY DEF PutPane, Focus
<1> HIDE DEF g
<1> QED
  BY <1>7, <1>8 DEF PaneBytes

PaneRead(id, x, y, width, height, focused, text) ==
    IF id.ok
      THEN IF x.ok
        THEN IF y.ok
          THEN IF width.ok
            THEN IF height.ok
              THEN IF focused.ok
                THEN IF text.ok
                  THEN Got([id |-> id.value, x |-> x.value, y |-> y.value, width |-> width.value,
                            height |-> height.value, focused |-> focused.value,
                            text |-> text.value], text.rest)
                  ELSE Failed
                ELSE Failed
              ELSE Failed
            ELSE Failed
          ELSE Failed
        ELSE Failed
      ELSE Failed

(* The seven readers of a pane, one after the other. *)
PaneReaders(bytes, id, x, y, width, height, focused, text) ==
    /\ id = Take(bytes, 8) /\ x = Get16(id.rest) /\ y = Get16(x.rest) /\ width = Get16(y.rest)
    /\ height = Get16(width.rest) /\ focused = GetFocused(height.rest)
    /\ text = GetText(focused.rest, MaxFrameBytes)

LEMMA GetPaneReads ==
    ASSUME NEW bytes, NEW id, NEW x, NEW y, NEW width, NEW height, NEW focused, NEW text,
           PaneReaders(bytes, id, x, y, width, height, focused, text)
    PROVE  GetPane(bytes) = PaneRead(id, x, y, width, height, focused, text)
<1>1. GetPane(bytes) =
        LET i == Take(bytes, 8)
            a == Get16(i.rest)
            b == Get16(a.rest)
            c == Get16(b.rest)
            d == Get16(c.rest)
            e == GetFocused(d.rest)
            f == GetText(e.rest, MaxFrameBytes)
        IN  PaneRead(i, a, b, c, d, e, f)
  BY Zenon DEF GetPane, PaneRead, Then
<1> QED
  BY <1>1, Zenon DEF PaneReaders

LEMMA GotIsRead ==
    ASSUME NEW g, NEW v, NEW r, g = Got(v, r)
    PROVE  g.ok /\ g.value = v /\ g.rest = r
  BY GotFields

LEMMA SplitsMake ==
    \A f, r \in Seq(Byte) : Splits(f \o r, f, r) /\ f \o r \in Seq(Byte)
  BY ConcatTyped DEF Splits

(* The parts of a pane are those of its bytes, from either side. *)
LEMMA PaneSplits ==
    ASSUME NEW p, NEW bytes, NEW r1, NEW r2, NEW r3, NEW r4, NEW r5, NEW r6, NEW b,
           Splits(bytes, p.id, r1), Splits(r1, Word16(p.x), r2), Splits(r2, Word16(p.y), r3),
           Splits(r3, Word16(p.width), r4), Splits(r4, Word16(p.height), r5),
           Splits(r5, Focus(p.focused), r6), Splits(r6, PutBytes(p.text), b)
    PROVE  Splits(bytes, PutPane(p), b)
<1>1. Splits(bytes, p.id \o Word16(p.x), r2)
  BY SplitsOn, Zenon
<1>2. Splits(bytes, p.id \o Word16(p.x) \o Word16(p.y), r3)
  BY <1>1, SplitsOn, Zenon
<1>3. Splits(bytes, p.id \o Word16(p.x) \o Word16(p.y) \o Word16(p.width), r4)
  BY <1>2, SplitsOn, Zenon
<1>4. Splits(bytes, p.id \o Word16(p.x) \o Word16(p.y) \o Word16(p.width) \o Word16(p.height), r5)
  BY <1>3, SplitsOn, Zenon
<1>5. Splits(bytes, p.id \o Word16(p.x) \o Word16(p.y) \o Word16(p.width) \o Word16(p.height)
                      \o Focus(p.focused), r6)
  BY <1>4, SplitsOn, Zenon
<1>6. Splits(bytes, p.id \o Word16(p.x) \o Word16(p.y) \o Word16(p.width) \o Word16(p.height)
                      \o Focus(p.focused) \o PutBytes(p.text), b)
  BY <1>5, SplitsOn, Zenon
<1> QED
  BY <1>6, Zenon DEF PutPane, Focus

WholePane(p) ==
    p = [id |-> p.id, x |-> p.x, y |-> p.y, width |-> p.width, height |-> p.height,
         focused |-> p.focused, text |-> p.text]

PaneReadIs(p, r1, r2, r3, r4, r5, r6, b) ==
    PaneRead(Got(p.id, r1), Got(p.x, r2), Got(p.y, r3), Got(p.width, r4),
             Got(p.height, r5), Got(p.focused, r6), Got(p.text, b)) = Got(p, b)

LEMMA PaneReadGot ==
    \A p : WholePane(p) =>
        \A r1, r2, r3, r4, r5, r6, b : PaneReadIs(p, r1, r2, r3, r4, r5, r6, b)
<1> SUFFICES ASSUME NEW p, WholePane(p),
                    NEW r1, NEW r2, NEW r3, NEW r4, NEW r5, NEW r6, NEW b
             PROVE  PaneReadIs(p, r1, r2, r3, r4, r5, r6, b)
  OBVIOUS
<1>1. \A v, r : Got(v, r).ok /\ Got(v, r).value = v /\ Got(v, r).rest = r
  BY GotFields
<1> QED
  BY <1>1 DEF PaneReadIs, PaneRead, WholePane

LEMMA WordAfter ==
    ASSUME NEW g, NEW v, NEW q, NEW n \in Short, NEW r, g = Got(v, q), Splits(q, Word16(n), r)
    PROVE  Get16(g.rest) = Got(n, r)
<1>1. g.rest = q
  BY GotIsRead
<1>2. r \in Seq(Byte) /\ q = Word16(n) \o r
  BY DEF Splits
<1> QED
  BY <1>1, <1>2, Get16Word, Zenon

LEMMA FocusAfter ==
    ASSUME NEW g, NEW v, NEW q, NEW f \in BOOLEAN, NEW r, g = Got(v, q), Splits(q, Focus(f), r)
    PROVE  GetFocused(g.rest) = Got(f, r)
<1>1. g.rest = q
  BY GotIsRead
<1>2. r \in Seq(Byte) /\ q = Focus(f) \o r
  BY DEF Splits
<1> QED
  BY <1>1, <1>2, GetFocusedPut, Zenon

LEMMA TextAfter ==
    ASSUME NEW g, NEW v, NEW q, NEW s \in TextUpTo(MaxFrameBytes), NEW r,
           g = Got(v, q), Splits(q, PutBytes(s), r)
    PROVE  GetText(g.rest, MaxFrameBytes) = Got(s, r)
<1>1. g.rest = q
  BY GotIsRead
<1>2. r \in Seq(Byte) /\ q = PutBytes(s) \o r
  BY DEF Splits
<1>3. Len(s) \in Short
  BY TextTyped
<1> QED
  BY <1>1, <1>2, <1>3, GetTextPut, Zenon

LEMMA GetPanePut ==
    ASSUME NEW p \in Pane, NEW b \in Seq(Byte)
    PROVE  GetPane(PutPane(p) \o b) = Got(p, b)
<1> DEFINE r6 == PutBytes(p.text) \o b
           r5 == Focus(p.focused) \o r6
           r4 == Word16(p.height) \o r5
           r3 == Word16(p.width) \o r4
           r2 == Word16(p.y) \o r3
           r1 == Word16(p.x) \o r2
           bytes == p.id \o r1
<1>1. /\ p.id \in Seq(Byte) /\ 8 = Len(p.id)
      /\ p.x \in Short /\ p.y \in Short /\ p.width \in Short /\ p.height \in Short
      /\ p.focused \in BOOLEAN /\ p.text \in TextUpTo(MaxFrameBytes)
  BY PaneFields
<1>2. /\ Word16(p.x) \in Seq(Byte) /\ Word16(p.y) \in Seq(Byte)
      /\ Word16(p.width) \in Seq(Byte) /\ Word16(p.height) \in Seq(Byte)
  BY <1>1, WordTyped
<1>3. Focus(p.focused) \in Seq(Byte)
  BY <1>1, FocusByte
<1>4. PutBytes(p.text) \in Seq(Byte) /\ Len(p.text) \in Short
  BY <1>1, TextTyped
<1>5. Splits(r6, PutBytes(p.text), b) /\ r6 \in Seq(Byte)
  BY <1>4, SplitsMake, Zenon
<1>6. Splits(r5, Focus(p.focused), r6) /\ r5 \in Seq(Byte)
  BY <1>3, <1>5, SplitsMake, Zenon
<1>7. Splits(r4, Word16(p.height), r5) /\ r4 \in Seq(Byte)
  BY <1>2, <1>6, SplitsMake, Zenon
<1>8. Splits(r3, Word16(p.width), r4) /\ r3 \in Seq(Byte)
  BY <1>2, <1>7, SplitsMake, Zenon
<1>9. Splits(r2, Word16(p.y), r3) /\ r2 \in Seq(Byte)
  BY <1>2, <1>8, SplitsMake, Zenon
<1>10. Splits(r1, Word16(p.x), r2) /\ r1 \in Seq(Byte)
  BY <1>2, <1>9, SplitsMake, Zenon
<1>11. Splits(bytes, p.id, r1)
  BY <1>1, <1>10, SplitsMake, Zenon
<1> DEFINE id == Take(bytes, 8)
           x == Get16(id.rest)
           y == Get16(x.rest)
           width == Get16(y.rest)
           height == Get16(width.rest)
           focused == GetFocused(height.rest)
           text == GetText(focused.rest, MaxFrameBytes)
<1>12. PaneReaders(bytes, id, x, y, width, height, focused, text)
  BY Zenon DEF PaneReaders
<1>21. id = Got(p.id, r1)
  BY <1>1, <1>10, TakeFront, Zenon
<1> HIDE DEF id, bytes, r1, r2, r3, r4, r5, r6
<1>22. x = Got(p.x, r2)
  BY <1>1, <1>10, <1>21, WordAfter
<1> HIDE DEF x
<1>23. y = Got(p.y, r3)
  BY <1>1, <1>9, <1>22, WordAfter
<1> HIDE DEF y
<1>24. width = Got(p.width, r4)
  BY <1>1, <1>8, <1>23, WordAfter
<1> HIDE DEF width
<1>25. height = Got(p.height, r5)
  BY <1>1, <1>7, <1>24, WordAfter
<1> HIDE DEF height
<1>26. focused = Got(p.focused, r6)
  BY <1>1, <1>6, <1>25, FocusAfter
<1> HIDE DEF focused
<1>27. text = Got(p.text, b)
  BY <1>1, <1>5, <1>26, TextAfter
<1> HIDE DEF text
<1>30. Splits(bytes, PutPane(p), b)
  BY <1>5, <1>6, <1>7, <1>8, <1>9, <1>10, <1>11, PaneSplits, Zenon
<1>31. PaneRead(id, x, y, width, height, focused, text) = Got(p, b)
  <2>1. WholePane(p)
    BY PaneFields DEF WholePane
  <2>2. PaneReadIs(p, r1, r2, r3, r4, r5, r6, b)
    BY <2>1, PaneReadGot, Zenon
  <2> QED
    BY <2>2, <1>21, <1>22, <1>23, <1>24, <1>25, <1>26, <1>27, Zenon DEF PaneReadIs
<1>32. GetPane(bytes) = Got(p, b)
  BY <1>12, <1>31, GetPaneReads, Zenon
<1>33. bytes = PutPane(p) \o b
  BY <1>30 DEF Splits
<1> QED
  BY <1>32, <1>33, Zenon

LEMMA PaneReadOk ==
    ASSUME NEW id, NEW x, NEW y, NEW width, NEW height, NEW focused, NEW text,
           PaneRead(id, x, y, width, height, focused, text).ok
    PROVE  id.ok /\ x.ok /\ y.ok /\ width.ok /\ height.ok /\ focused.ok /\ text.ok
  BY FailedIsNotOk DEF PaneRead

LEMMA GetPaneSplits ==
    ASSUME NEW bytes \in Seq(Byte), GetPane(bytes).ok
    PROVE  \E p \in Pane, r \in Seq(Byte) :
             GetPane(bytes) = Got(p, r) /\ Splits(bytes, PutPane(p), r)
<1> DEFINE id == Take(bytes, 8)
           x == Get16(id.rest)
           y == Get16(x.rest)
           width == Get16(y.rest)
           height == Get16(width.rest)
           focused == GetFocused(height.rest)
           text == GetText(focused.rest, MaxFrameBytes)
<1>1. PaneReaders(bytes, id, x, y, width, height, focused, text)
  BY Zenon DEF PaneReaders
<1>2. GetPane(bytes) = PaneRead(id, x, y, width, height, focused, text)
  <2> HIDE DEF id, x, y, width, height, focused, text
  <2> QED
    BY <1>1, GetPaneReads, Zenon
<1>3. id.ok /\ x.ok /\ y.ok /\ width.ok /\ height.ok /\ focused.ok /\ text.ok
  <2> HIDE DEF id, x, y, width, height, focused, text
  <2>1. PaneRead(id, x, y, width, height, focused, text).ok
    BY <1>2, Zenon
  <2> QED
    BY <2>1, PaneReadOk, Zenon
<1>4. PICK i \in Seq(Byte), r1 \in Seq(Byte) : id = Got(i, r1) /\ Len(i) = 8 /\ Splits(bytes, i, r1)
  BY <1>3, TakeSplits
<1> HIDE DEF id
<1>5. PICK a \in Short, r2 \in Seq(Byte) : x = Got(a, r2) /\ Splits(r1, Word16(a), r2)
  BY <1>3, <1>4, GotIsRead, Get16Splits
<1> HIDE DEF x
<1>6. PICK c \in Short, r3 \in Seq(Byte) : y = Got(c, r3) /\ Splits(r2, Word16(c), r3)
  BY <1>3, <1>5, GotIsRead, Get16Splits
<1> HIDE DEF y
<1>7. PICK w \in Short, r4 \in Seq(Byte) : width = Got(w, r4) /\ Splits(r3, Word16(w), r4)
  BY <1>3, <1>6, GotIsRead, Get16Splits
<1> HIDE DEF width
<1>8. PICK h \in Short, r5 \in Seq(Byte) : height = Got(h, r5) /\ Splits(r4, Word16(h), r5)
  BY <1>3, <1>7, GotIsRead, Get16Splits
<1> HIDE DEF height
<1>9. PICK f \in BOOLEAN, r6 \in Seq(Byte) : focused = Got(f, r6) /\ Splits(r5, Focus(f), r6)
  BY <1>3, <1>8, GotIsRead, GetFocusedSplits
<1> HIDE DEF focused
<1>10. PICK s \in TextUpTo(MaxFrameBytes), b \in Seq(Byte) :
         text = Got(s, b) /\ Splits(r6, PutBytes(s), b)
  BY <1>3, <1>9, GotIsRead, GetTextSplits
<1> HIDE DEF text
<1> DEFINE p == [id |-> i, x |-> a, y |-> c, width |-> w, height |-> h, focused |-> f, text |-> s]
<1>11. p.id = i /\ p.x = a /\ p.y = c /\ p.width = w /\ p.height = h /\ p.focused = f /\ p.text = s
  OBVIOUS
<1>12. p \in Pane
  BY <1>4 DEF Pane, EightBytes
<1>13. WholePane(p)
  BY DEF WholePane
<1> HIDE DEF p
<1>14. PaneRead(id, x, y, width, height, focused, text) = Got(p, b)
  <2>1. PaneReadIs(p, r1, r2, r3, r4, r5, r6, b)
    BY <1>13, PaneReadGot, Zenon
  <2> QED
    BY <2>1, <1>4, <1>5, <1>6, <1>7, <1>8, <1>9, <1>10, <1>11, Zenon DEF PaneReadIs
<1>15. Splits(bytes, PutPane(p), b)
  BY <1>4, <1>5, <1>6, <1>7, <1>8, <1>9, <1>10, <1>11, PaneSplits, Zenon
<1> QED
  BY <1>2, <1>12, <1>14, <1>15, Zenon

------------------------------------------------------------------------------
(* Lists.  t[k] is what follows the first k parts of a list.                *)
Tails(e, t, n) == t[n] = <<>> /\ \A k \in 1..n : Splits(t[k - 1], e[k], t[k])

LEMMA EmptyBytes == <<>> \in Seq(Byte) /\ Len(<<>>) = 0
  OBVIOUS

LEMMA TailsExist ==
    ASSUME NEW n \in Nat, NEW e, \A k \in 1..n : e[k] \in Seq(Byte)
    PROVE  \E t : Tails(e, t, n)
<1> DEFINE From(t, j) == /\ t[n] = <<>> /\ t[n - j] \in Seq(Byte)
                         /\ \A k \in (n - j + 1)..n : Splits(t[k - 1], e[k], t[k])
           S == {j \in Nat : j <= n => \E t : From(t, j)}
<1>1. 0 \in S
  <2> DEFINE t == [k \in 0..n |-> <<>>]
  <2>1. From(t, 0)
    BY EmptyBytes
  <2> QED
    BY <2>1
<1>2. ASSUME NEW j \in Nat, j \in S PROVE j + 1 \in S
  <2>1. SUFFICES ASSUME j + 1 <= n PROVE \E t : From(t, j + 1)
    OBVIOUS
  <2>2. PICK t : From(t, j)
    BY <1>2, <2>1
  <2> DEFINE m == n - j
             u == [k \in 0..n |-> IF k = m - 1 THEN e[m] \o t[m] ELSE t[k]]
  <2>3. m \in 1..n /\ m - 1 \in 0..n /\ n - (j + 1) = m - 1
    BY <2>1
  <2>4. u[m - 1] = e[m] \o t[m] /\ \A k \in 0..n : k # m - 1 => u[k] = t[k]
    BY <2>3
  <2> HIDE DEF u
  <2>5. e[m] \in Seq(Byte) /\ t[m] \in Seq(Byte)
    BY <2>2, <2>3
  <2>6. Splits(u[m - 1], e[m], t[m]) /\ u[m - 1] \in Seq(Byte)
    BY <2>4, <2>5, SplitsMake
  <2>7. u[n] = <<>>
    BY <2>2, <2>3, <2>4
  <2>8. ASSUME NEW k \in (n - (j + 1) + 1)..n PROVE Splits(u[k - 1], e[k], u[k])
    <3>1. k \in m..n /\ k \in 0..n /\ k - 1 \in 0..n /\ k # m - 1
      BY <2>3
    <3>2. u[k] = t[k]
      BY <2>4, <3>1
    <3>3. CASE k = m
      BY <2>6, <3>2, <3>3
    <3>4. CASE k # m
      <4>1. k \in (n - j + 1)..n /\ k - 1 # m - 1
        BY <2>3, <3>1, <3>4
      <4> QED
        BY <2>2, <2>4, <3>1, <3>2, <4>1
    <3> QED
      BY <3>3, <3>4
  <2>9. From(u, j + 1)
    BY <2>3, <2>6, <2>7, <2>8
  <2> QED
    BY <2>9
<1>3. n \in S
  <2> HIDE DEF S
  <2> QED
    BY <1>1, <1>2, SetInduction
<1>4. PICK t : From(t, n)
  BY <1>3
<1>5. Tails(e, t, n)
  BY <1>4 DEF Tails
<1> QED
  BY <1>5

(* FlattenSeq of the library joins the parts from the left. *)
JoinsParts(f, e, n) ==
    f = [i \in 1..n |-> IF i = 1 THEN e[i] ELSE f[i - 1] \o e[i]]

LEMMA JoinExists ==
    ASSUME NEW n \in Nat, NEW e
    PROVE  \E f : JoinsParts(f, e, n)
<1> DEFINE S == {k \in Nat : \E f : JoinsParts(f, e, k)}
<1>1. 0 \in S
  <2> DEFINE f == [i \in 1..0 |-> <<>>]
  <2>1. JoinsParts(f, e, 0)
    BY DEF JoinsParts
  <2> QED
    BY <2>1
<1>2. ASSUME NEW k \in Nat, k \in S PROVE k + 1 \in S
  <2>1. PICK f : JoinsParts(f, e, k)
    BY <1>2
  <2> DEFINE g == [i \in 1..(k + 1) |->
                     IF i = k + 1 THEN IF i = 1 THEN e[i] ELSE f[k] \o e[k + 1] ELSE f[i]]
  <2>2. ASSUME NEW i \in 1..k PROVE g[i] = f[i]
    BY <2>2
  <2>3. ASSUME NEW i \in 1..(k + 1)
        PROVE  g[i] = IF i = 1 THEN e[i] ELSE g[i - 1] \o e[i]
    <3>1. CASE i = k + 1
      <4>1. CASE i = 1
        BY <3>1, <4>1
      <4>2. CASE i # 1
        <5>1. k \in 1..k /\ i - 1 = k
          BY <3>1, <4>2
        <5>2. g[k] = f[k]
          BY <2>2, <5>1
        <5> QED
          BY <3>1, <4>2, <5>1, <5>2
      <4> QED
        BY <4>1, <4>2
    <3>2. CASE i # k + 1
      <4>1. i \in 1..k /\ (i # 1 => i - 1 \in 1..k)
        BY <3>2
      <4>2. f[i] = IF i = 1 THEN e[i] ELSE f[i - 1] \o e[i]
        BY <2>1, <4>1 DEF JoinsParts
      <4>3. g[i] = f[i] /\ (i # 1 => g[i - 1] = f[i - 1])
        BY <2>2, <4>1
      <4> HIDE DEF g
      <4> QED
        BY <4>2, <4>3
    <3> QED
      BY <3>1, <3>2
  <2>5. g = [i \in 1..(k + 1) |-> g[i]]
    OBVIOUS
  <2> HIDE DEF g
  <2>6. g = [i \in 1..(k + 1) |-> IF i = 1 THEN e[i] ELSE g[i - 1] \o e[i]]
    BY <2>3, <2>5, Zenon
  <2>7. JoinsParts(g, e, k + 1)
    BY <2>6, Zenon DEF JoinsParts
  <2> QED
    BY <2>7
<1>3. n \in S
  <2> HIDE DEF S
  <2> QED
    BY <1>1, <1>2, SetInduction
<1> QED
  BY <1>3

LEMMA FlattenTails ==
    ASSUME NEW e \in Seq(Seq(Byte)), NEW t, Tails(e, t, Len(e))
    PROVE  FlattenSeq(e) = t[0]
<1> DEFINE n == Len(e)
           flat == CHOOSE f : JoinsParts(f, e, n)
<1>1. n \in Nat
  OBVIOUS
<1>2. t[n] = <<>> /\ \A k \in 1..n : Splits(t[k - 1], e[k], t[k])
  BY DEF Tails
<1>3. CASE n = 0
  <2>1. FlattenSeq(e) = e /\ e = <<>>
    BY <1>3 DEF FlattenSeq
  <2> QED
    BY <1>2, <1>3, <2>1
<1>4. CASE n # 0
  <2>1. JoinsParts(flat, e, n)
    BY <1>1, JoinExists
  <2>2. FlattenSeq(e) = flat[n]
    BY <1>4, Zenon DEF FlattenSeq, JoinsParts
  <2> HIDE DEF flat, n
  <2>3. \A i \in 1..n : flat[i] = IF i = 1 THEN e[i] ELSE flat[i - 1] \o e[i]
    BY <2>1, Zenon DEF JoinsParts
  <2> DEFINE S == {j \in Nat : j + 1 <= n => Splits(t[0], flat[j + 1], t[j + 1])}
  <2>4. 0 \in S
    <3>1. 1 \in 1..n
      BY <1>1, <1>4
    <3>2. flat[1] = e[1] /\ Splits(t[0], e[1], t[1])
      BY <1>2, <2>3, <3>1
    <3> QED
      BY <3>2
  <2>5. ASSUME NEW j \in Nat, j \in S PROVE j + 1 \in S
    <3>1. SUFFICES ASSUME j + 2 <= n PROVE Splits(t[0], flat[j + 2], t[j + 2])
      OBVIOUS
    <3>2. j + 2 \in 1..n /\ j + 2 # 1 /\ (j + 2) - 1 = j + 1 /\ j + 1 <= n
      BY <1>1, <3>1
    <3>3. Splits(t[0], flat[j + 1], t[j + 1])
      BY <2>5, <3>2
    <3>4. Splits(t[j + 1], e[j + 2], t[j + 2])
      BY <1>2, <3>2
    <3>5. flat[j + 2] = flat[j + 1] \o e[j + 2]
      BY <2>3, <3>2
    <3> QED
      BY <3>3, <3>4, <3>5, SplitsOn
  <2>6. n - 1 \in S
    <3>1. n - 1 \in Nat
      BY <1>1, <1>4
    <3> HIDE DEF S
    <3> QED
      BY <2>4, <2>5, <3>1, SetInduction
  <2>7. Splits(t[0], flat[n], <<>>)
    <3>1. (n - 1) + 1 = n /\ n <= n
      BY <1>1
    <3> QED
      BY <1>2, <2>6, <3>1
  <2>8. t[0] = flat[n]
    BY <2>7, ConcatEmptySeq DEF Splits
  <2> QED
    BY <2>2, <2>8
<1> QED
  BY <1>3, <1>4

LEMMA NextMultiple == \A j, b \in Nat : (j + 1) * b = j * b + b /\ j * b \in Nat
  OBVIOUS

LEMMA TailsLength ==
    ASSUME NEW n \in Nat, NEW e, NEW t, Tails(e, t, n), NEW b \in Nat,
           \A k \in 1..n : Len(e[k]) <= b
    PROVE  t[0] \in Seq(Byte) /\ Len(t[0]) <= n * b
<1> DEFINE S == {j \in Nat : j <= n => t[n - j] \in Seq(Byte) /\ Len(t[n - j]) <= j * b}
<1>1. t[n] = <<>> /\ \A k \in 1..n : Splits(t[k - 1], e[k], t[k])
  BY DEF Tails
<1>2. 0 \in S
  <2>1. n - 0 = n /\ 0 * b = 0
    OBVIOUS
  <2>2. t[n - 0] \in Seq(Byte) /\ Len(t[n - 0]) = 0
    BY <1>1, <2>1, EmptyBytes, Zenon
  <2> QED
    BY <2>1, <2>2
<1>3. ASSUME NEW j \in Nat, j \in S PROVE j + 1 \in S
  <2>1. SUFFICES ASSUME j + 1 <= n
                 PROVE  t[n - (j + 1)] \in Seq(Byte) /\ Len(t[n - (j + 1)]) <= (j + 1) * b
    OBVIOUS
  <2>2. PICK k \in 1..n : n - (j + 1) = k - 1 /\ n - j = k /\ j <= n
    <3>1. n - j \in 1..n /\ n - (j + 1) = (n - j) - 1 /\ j <= n
      BY <2>1
    <3> HIDE DEF S
    <3> QED
      BY <3>1
  <2>3. Splits(t[k - 1], e[k], t[k])
    BY <1>1, <2>2
  <2>4. Len(t[k]) <= j * b
    BY <1>3, <2>2
  <2>5. /\ t[k - 1] \in Seq(Byte) /\ t[k] \in Seq(Byte) /\ e[k] \in Seq(Byte)
        /\ Len(t[k - 1]) = Len(e[k]) + Len(t[k])
    <3> DEFINE u == t[k - 1]
               v == t[k]
               w == e[k]
    <3>1. Splits(u, w, v)
      BY <2>3
    <3> HIDE DEF u, v, w
    <3>2. u \in Seq(Byte) /\ v \in Seq(Byte) /\ w \in Seq(Byte) /\ Len(u) = Len(w) + Len(v)
      BY <3>1, SplitsBytes
    <3> QED
      BY <3>2 DEF u, v, w
  <2>6. Len(e[k]) <= b
    BY <2>2
  <2>7. (j + 1) * b = j * b + b /\ j * b \in Nat
    BY NextMultiple
  <2> DEFINE p == j * b
             q == (j + 1) * b
             x == Len(e[k])
             y == Len(t[k])
  <2>8. x \in Nat /\ y \in Nat
    BY <2>5
  <2>9. x + y <= q
    <3> HIDE DEF p, q, x, y
    <3>1. q = p + b /\ p \in Nat /\ y <= p /\ x <= b
      BY <2>4, <2>6, <2>7 DEF p, q, x, y
    <3> QED
      BY <2>8, <3>1
  <2> QED
    BY <2>2, <2>5, <2>9
<1>4. n \in S
  <2> HIDE DEF S
  <2> QED
    BY <1>2, <1>3, SetInduction
<1> QED
  BY <1>4

------------------------------------------------------------------------------
(* Lists, read item by item.  An item is a session or a pane.               *)
ItemKind == {"session", "pane"}
Item(kind) == IF kind = "session" THEN Session ELSE Pane
PutItem(kind, i) == IF kind = "session" THEN PutSession(i) ELSE PutPane(i)
GetItem(kind, bytes) == IF kind = "session" THEN GetSession(bytes) ELSE GetPane(bytes)

LEMMA ItemPut ==
    ASSUME NEW kind \in ItemKind, NEW i \in Item(kind), NEW b \in Seq(Byte)
    PROVE  PutItem(kind, i) \in Seq(Byte) /\ GetItem(kind, PutItem(kind, i) \o b) = Got(i, b)
<1>1. CASE kind = "session"
  <2>1. i \in Session
    BY <1>1 DEF Item
  <2>2. PutSession(i) \in Seq(Byte) /\ GetSession(PutSession(i) \o b) = Got(i, b)
    BY <2>1, SessionBytes, GetSessionPut
  <2> QED
    BY <1>1, <2>2, Zenon DEF PutItem, GetItem
<1>2. CASE kind # "session"
  <2>1. i \in Pane
    BY <1>2 DEF Item
  <2>2. PutPane(i) \in Seq(Byte) /\ GetPane(PutPane(i) \o b) = Got(i, b)
    BY <2>1, PaneLength, GetPanePut
  <2> QED
    BY <1>2, <2>2, Zenon DEF PutItem, GetItem
<1> QED
  BY <1>1, <1>2

LEMMA ItemSplits ==
    ASSUME NEW kind \in ItemKind, NEW bytes \in Seq(Byte), GetItem(kind, bytes).ok
    PROVE  \E i \in Item(kind), r \in Seq(Byte) :
             GetItem(kind, bytes) = Got(i, r) /\ Splits(bytes, PutItem(kind, i), r)
<1>1. CASE kind = "session"
  <2>1. GetSession(bytes).ok
    BY <1>1, Zenon DEF GetItem
  <2>2. PICK i \in Session, r \in Seq(Byte) :
          GetSession(bytes) = Got(i, r) /\ Splits(bytes, PutSession(i), r)
    BY <2>1, GetSessionSplits
  <2> QED
    BY <1>1, <2>2, Zenon DEF Item, PutItem, GetItem
<1>2. CASE kind # "session"
  <2>1. GetPane(bytes).ok
    BY <1>2, Zenon DEF GetItem
  <2>2. PICK i \in Pane, r \in Seq(Byte) :
          GetPane(bytes) = Got(i, r) /\ Splits(bytes, PutPane(i), r)
    BY <2>1, GetPaneSplits
  <2> QED
    BY <1>2, <2>2, Zenon DEF Item, PutItem, GetItem
<1> QED
  BY <1>1, <1>2

(* What is known after one more session, or pane. *)
MoreSessions(sofar) ==
    IF sofar.ok
      THEN IF GetSession(sofar.rest).ok
             THEN Got(Append(sofar.value, GetSession(sofar.rest).value), GetSession(sofar.rest).rest)
             ELSE Failed
      ELSE Failed
MorePanes(sofar) ==
    IF sofar.ok
      THEN IF GetPane(sofar.rest).ok
             THEN Got(Append(sofar.value, GetPane(sofar.rest).value), GetPane(sofar.rest).rest)
             ELSE Failed
      ELSE Failed
More(kind, sofar) == IF kind = "session" THEN MoreSessions(sofar) ELSE MorePanes(sofar)

(* The fold of GetAll, on all sets of the first numbers. *)
Folding(f, kind, base, n) ==
    f = [s \in SUBSET (1..n) |-> IF s = {} THEN base ELSE More(kind, f[s \ {Max(s)}])]

LEMMA FoldingExists ==
    ASSUME NEW kind, NEW base, NEW n \in Nat
    PROVE  \E f : Folding(f, kind, base, n)
<1> DEFINE S == {k \in Nat : \E f : Folding(f, kind, base, k)}
<1>1. 0 \in S
  <2> DEFINE f == [s \in SUBSET (1..0) |-> base]
  <2>1. SUBSET (1..0) = {{}}
    OBVIOUS
  <2>2. f = [s \in SUBSET (1..0) |-> IF s = {} THEN base ELSE More(kind, f[s \ {Max(s)}])]
    BY <2>1
  <2>3. Folding(f, kind, base, 0)
    BY <2>2 DEF Folding
  <2> QED
    BY <2>3
<1>2. ASSUME NEW k \in Nat, k \in S PROVE k + 1 \in S
  <2>1. PICK f : Folding(f, kind, base, k)
    BY <1>2
  <2> DEFINE g == [s \in SUBSET (1..(k + 1)) |->
                     IF k + 1 \in s THEN More(kind, f[s \ {k + 1}]) ELSE f[s]]
  <2>2. ASSUME NEW s \in SUBSET (1..(k + 1)), k + 1 \notin s PROVE s \in SUBSET (1..k)
    BY <2>2
  <2>3. ASSUME NEW s \in SUBSET (1..k) PROVE g[s] = f[s]
    BY <2>3
  <2>4. ASSUME NEW s \in SUBSET (1..(k + 1))
        PROVE  g[s] = IF s = {} THEN base ELSE More(kind, g[s \ {Max(s)}])
    <3>1. CASE s = {}
      <4>1. s \in SUBSET (1..k)
        BY <3>1
      <4>2. f[s] = base
        BY <2>1, <3>1, <4>1 DEF Folding
      <4> QED
        BY <2>3, <3>1, <4>1, <4>2
    <3>2. CASE k + 1 \in s
      <4>1. Max(s) = k + 1
        BY <3>2, MaxOfPrefix
      <4>2. s \ {k + 1} \in SUBSET (1..k)
        OBVIOUS
      <4>3. g[s \ {k + 1}] = f[s \ {k + 1}]
        BY <2>3, <4>2
      <4> QED
        BY <3>2, <4>1, <4>3
    <3>3. CASE s # {} /\ k + 1 \notin s
      <4>1. s \in SUBSET (1..k) /\ s \ {Max(s)} \in SUBSET (1..k)
        BY <2>2, <3>3
      <4>2. f[s] = More(kind, f[s \ {Max(s)}])
        BY <2>1, <3>3, <4>1 DEF Folding
      <4>3. g[s] = f[s] /\ g[s \ {Max(s)}] = f[s \ {Max(s)}]
        BY <2>3, <4>1
      <4> QED
        BY <3>3, <4>2, <4>3
    <3> QED
      BY <3>1, <3>2, <3>3
  <2>5. DOMAIN g = SUBSET (1..(k + 1)) /\ g = [s \in DOMAIN g |-> g[s]]
    OBVIOUS
  <2> HIDE DEF g
  <2>6. g = [s \in SUBSET (1..(k + 1)) |->
              IF s = {} THEN base ELSE More(kind, g[s \ {Max(s)}])]
    BY <2>4, <2>5, Zenon
  <2>7. Folding(g, kind, base, k + 1)
    BY <2>6, Zenon DEF Folding
  <2> QED
    BY <2>7
<1>3. n \in S
  <2> HIDE DEF S
  <2> QED
    BY <1>1, <1>2, SetInduction
<1> QED
  BY <1>3

(* after[k] is what is known after k items, from what follows the count.    *)
ItemByItem(after, kind, base, n) ==
    after[0] = base /\ \A k \in 1..n : after[k] = More(kind, after[k - 1])

(* The fold that GetAll computes. *)
FoldSessions(base, d) ==
    LET iter == CHOOSE f : f = [s \in SUBSET (DOMAIN d) |->
                    IF s = {} THEN base ELSE MoreSessions(f[s \ {Max(s)}])]
    IN  iter[DOMAIN d]
FoldPanes(base, d) ==
    LET iter == CHOOSE f : f = [s \in SUBSET (DOMAIN d) |->
                    IF s = {} THEN base ELSE MorePanes(f[s \ {Max(s)}])]
    IN  iter[DOMAIN d]
FoldOf(kind, base, d) == IF kind = "session" THEN FoldSessions(base, d) ELSE FoldPanes(base, d)

SessionFold(f, base, n) ==
    f = [s \in SUBSET (1..n) |-> IF s = {} THEN base ELSE MoreSessions(f[s \ {Max(s)}])]
PaneFold(f, base, n) ==
    f = [s \in SUBSET (1..n) |-> IF s = {} THEN base ELSE MorePanes(f[s \ {Max(s)}])]

LEMMA FoldingKinds ==
    \A f, base, n : /\ Folding(f, "session", base, n) <=> SessionFold(f, base, n)
                    /\ Folding(f, "pane", base, n) <=> PaneFold(f, base, n)
<1> SUFFICES ASSUME NEW f, NEW base, NEW n
             PROVE  /\ Folding(f, "session", base, n) <=> SessionFold(f, base, n)
                    /\ Folding(f, "pane", base, n) <=> PaneFold(f, base, n)
  OBVIOUS
<1>1. \A x : More("session", x) = MoreSessions(x) /\ More("pane", x) = MorePanes(x)
  BY DEF More
<1> DEFINE A == [s \in SUBSET (1..n) |-> IF s = {} THEN base ELSE More("session", f[s \ {Max(s)}])]
           B == [s \in SUBSET (1..n) |-> IF s = {} THEN base ELSE MoreSessions(f[s \ {Max(s)}])]
           C == [s \in SUBSET (1..n) |-> IF s = {} THEN base ELSE More("pane", f[s \ {Max(s)}])]
           D == [s \in SUBSET (1..n) |-> IF s = {} THEN base ELSE MorePanes(f[s \ {Max(s)}])]
<1>2. A = B
  <2>1. \A s \in SUBSET (1..n) : A[s] = B[s]
    BY <1>1, Zenon
  <2> QED
    BY <2>1, Zenon
<1>3. C = D
  <2>1. \A s \in SUBSET (1..n) : C[s] = D[s]
    BY <1>1, Zenon
  <2> QED
    BY <2>1, Zenon
<1>4. (Folding(f, "session", base, n) <=> f = A) /\ (Folding(f, "pane", base, n) <=> f = C)
  BY Zenon DEF Folding
<1> QED
  BY <1>2, <1>3, <1>4, Zenon DEF SessionFold, PaneFold

LEMMA FoldOfFolding ==
    ASSUME NEW kind \in ItemKind, NEW base, NEW n \in Nat, NEW d, DOMAIN d = 1..n
    PROVE  \E f : Folding(f, kind, base, n) /\ FoldOf(kind, base, d) = f[1..n]
<1>1. PICK g : Folding(g, kind, base, n)
  BY FoldingExists
<1>2. CASE kind = "session"
  <2> DEFINE iter == CHOOSE f : f = [s \in SUBSET (DOMAIN d) |->
                           IF s = {} THEN base ELSE MoreSessions(f[s \ {Max(s)}])]
  <2>1. FoldOf(kind, base, d) = iter[1..n]
    BY <1>2, Zenon DEF FoldOf, FoldSessions
  <2>2. Folding(g, "session", base, n)
    BY <1>1, <1>2
  <2>3. SessionFold(g, base, n)
    BY <2>2, FoldingKinds, Zenon
  <2>4. SessionFold(iter, base, n)
    BY <2>3, Zenon DEF SessionFold
  <2> HIDE DEF iter
  <2>5. Folding(iter, "session", base, n)
    BY <2>4, FoldingKinds, Zenon
  <2>6. Folding(iter, kind, base, n)
    BY <1>2, <2>5
  <2> QED
    BY <2>1, <2>6
<1>3. CASE kind = "pane"
  <2> DEFINE iter == CHOOSE f : f = [s \in SUBSET (DOMAIN d) |->
                           IF s = {} THEN base ELSE MorePanes(f[s \ {Max(s)}])]
  <2>1. kind # "session"
    BY <1>3
  <2>2. FoldOf(kind, base, d) = iter[1..n]
    BY <2>1, Zenon DEF FoldOf, FoldPanes
  <2>3. Folding(g, "pane", base, n)
    BY <1>1, <1>3
  <2>4. PaneFold(g, base, n)
    BY <2>3, FoldingKinds, Zenon
  <2>5. PaneFold(iter, base, n)
    BY <2>4, Zenon DEF PaneFold
  <2> HIDE DEF iter
  <2>6. Folding(iter, "pane", base, n)
    BY <2>5, FoldingKinds, Zenon
  <2>7. Folding(iter, kind, base, n)
    BY <1>3, <2>6
  <2> QED
    BY <2>2, <2>7
<1> QED
  BY <1>2, <1>3 DEF ItemKind

LEMMA FoldItemByItem ==
    ASSUME NEW kind \in ItemKind, NEW base, NEW n \in Nat, NEW d, DOMAIN d = 1..n
    PROVE  \E after : ItemByItem(after, kind, base, n) /\ FoldOf(kind, base, d) = after[n]
<1>1. PICK iter : Folding(iter, kind, base, n) /\ FoldOf(kind, base, d) = iter[1..n]
  BY FoldOfFolding
<1> DEFINE after == [k \in 0..n |-> iter[1..k]]
<1>4. after[0] = base
  <2>1. 1..0 = {} /\ {} \in SUBSET (1..n) /\ 0 \in 0..n
    OBVIOUS
  <2>2. iter[{}] = base
    BY <1>1, <2>1, Zenon DEF Folding
  <2> QED
    BY <2>1, <2>2, Zenon
<1>5. ASSUME NEW k \in 1..n PROVE after[k] = More(kind, after[k - 1])
  <2>1. 1..k \in SUBSET (1..n) /\ k \in 1..k /\ k \in 0..n /\ k - 1 \in 0..n /\ k \in Nat
    OBVIOUS
  <2>2. (1..k) \ {k} = 1..(k - 1)
    OBVIOUS
  <2>3. Max(1..k) = k
    BY <2>1, MaxOfPrefix
  <2>4. 1..k # {}
    BY <2>1
  <2>5. iter[1..k] = More(kind, iter[1..(k - 1)])
    BY <1>1, <2>1, <2>2, <2>3, <2>4, Zenon DEF Folding
  <2> QED
    BY <2>1, <2>5
<1>6. ItemByItem(after, kind, base, n)
  BY <1>4, <1>5 DEF ItemByItem
<1>7. after[n] = iter[1..n]
  OBVIOUS
<1> QED
  BY <1>1, <1>6, <1>7

(* GetAll and PutAll on items of a kind. *)
GetList(kind, bytes, maximum) ==
    IF kind = "session" THEN GetAll(bytes, maximum, GetSession) ELSE GetAll(bytes, maximum, GetPane)
PutList(kind, items) ==
    IF kind = "session" THEN PutAll(items, PutSession) ELSE PutAll(items, PutPane)

Counted(count, maximum, list) ==
    IF count.ok THEN IF count.value <= maximum THEN list ELSE Failed ELSE Failed

LEMMA GetListFolds ==
    ASSUME NEW kind \in ItemKind, NEW bytes, NEW maximum
    PROVE  GetList(kind, bytes, maximum) =
             Counted(GetByte(bytes), maximum,
                     FoldOf(kind, Got(<<>>, GetByte(bytes).rest), [i \in 1..GetByte(bytes).value |-> i]))
<1>1. GetAll(bytes, maximum, GetSession) =
        Counted(GetByte(bytes), maximum,
                FoldSessions(Got(<<>>, GetByte(bytes).rest), [i \in 1..GetByte(bytes).value |-> i]))
  BY Zenon DEF GetAll, FoldLeft, MapThenFoldSet, Then, If, Counted, FoldSessions, MoreSessions
<1>2. GetAll(bytes, maximum, GetPane) =
        Counted(GetByte(bytes), maximum,
                FoldPanes(Got(<<>>, GetByte(bytes).rest), [i \in 1..GetByte(bytes).value |-> i]))
  BY Zenon DEF GetAll, FoldLeft, MapThenFoldSet, Then, If, Counted, FoldPanes, MorePanes
<1> QED
  BY <1>1, <1>2, Zenon DEF ItemKind, GetList, FoldOf

Parts(kind, items) == [i \in DOMAIN items |-> PutItem(kind, items[i])]

LEMMA PutListParts ==
    ASSUME NEW kind \in ItemKind, NEW items
    PROVE  PutList(kind, items) = <<Len(items)>> \o FlattenSeq(Parts(kind, items))
<1>1. CASE kind = "session"
  BY <1>1, Zenon DEF PutList, PutAll, Parts, PutItem
<1>2. CASE kind # "session"
  BY <1>2, Zenon DEF PutList, PutAll, Parts, PutItem
<1> QED
  BY <1>1, <1>2

LEMMA ItemBytes == \A kind \in ItemKind : \A i \in Item(kind) : PutItem(kind, i) \in Seq(Byte)
<1>1. <<>> \in Seq(Byte)
  OBVIOUS
<1> QED
  BY <1>1, ItemPut

LEMMA PartsBytes ==
    ASSUME NEW kind \in ItemKind, NEW items \in Seq(Item(kind))
    PROVE  /\ Parts(kind, items) \in Seq(Seq(Byte)) /\ Len(Parts(kind, items)) = Len(items)
           /\ \A i \in 1..Len(items) : Parts(kind, items)[i] = PutItem(kind, items[i])
                                       /\ items[i] \in Item(kind)
<1>1. \A i \in DOMAIN items : items[i] \in Item(kind) /\ PutItem(kind, items[i]) \in Seq(Byte)
  <2>1. \A i \in DOMAIN items : items[i] \in Item(kind)
    OBVIOUS
  <2> QED
    BY <2>1, ItemBytes, Zenon
<1>2. DOMAIN items = 1..Len(items) /\ Len(items) \in Nat
  OBVIOUS
<1> DEFINE f == Parts(kind, items)
<1>3. f = [i \in 1..Len(items) |-> PutItem(kind, items[i])]
  BY <1>2 DEF Parts
<1>4. f \in [1..Len(items) -> Seq(Byte)]
  BY <1>1, <1>2, <1>3
<1>5. \A i \in 1..Len(items) : f[i] = PutItem(kind, items[i])
  BY <1>3
<1> HIDE DEF f
<1>6. f \in Seq(Seq(Byte)) /\ Len(f) = Len(items)
  BY <1>2, <1>4
<1> QED
  BY <1>1, <1>2, <1>5, <1>6 DEF f

LEMMA TailsTyped ==
    ASSUME NEW n \in Nat, NEW e, NEW t, Tails(e, t, n), NEW k \in 0..n
    PROVE  t[k] \in Seq(Byte)
<1>1. CASE k = n
  BY <1>1, EmptyBytes DEF Tails
<1>2. CASE k # n
  <2>1. k + 1 \in 1..n /\ (k + 1) - 1 = k
    BY <1>2
  <2>2. Splits(t[(k + 1) - 1], e[k + 1], t[k + 1])
    BY <2>1 DEF Tails
  <2>3. Splits(t[k], e[k + 1], t[k + 1])
    BY <2>1, <2>2
  <2> QED
    BY <2>3, SplitsTyped, Zenon
<1> QED
  BY <1>1, <1>2

LEMMA PrefixGrows ==
    ASSUME NEW S, NEW s \in Seq(S), NEW k \in Nat, k + 1 <= Len(s)
    PROVE  Append(SubSeq(s, 1, k), s[k + 1]) = SubSeq(s, 1, k + 1)
<1> DEFINE a == SubSeq(s, 1, k)
           b == SubSeq(s, 1, k + 1)
           c == Append(a, s[k + 1])
<1>1. \A i \in 1..(k + 1) : s[i] \in S
  OBVIOUS
<1>2. a \in Seq(S) /\ Len(a) = k /\ \A i \in 1..k : a[i] = s[i]
  BY <1>1, SubSeqProperties
<1>3. b \in Seq(S) /\ Len(b) = k + 1 /\ \A i \in 1..(k + 1) : b[i] = s[i]
  BY <1>1, SubSeqProperties
<1>4. s[k + 1] \in S
  BY <1>1
<1> HIDE DEF a, b
<1>5. c \in Seq(S) /\ Len(c) = k + 1 /\ c[k + 1] = s[k + 1] /\ \A i \in 1..k : c[i] = a[i]
  BY <1>2, <1>4
<1> HIDE DEF c
<1>6. \A i \in 1..(k + 1) : c[i] = b[i]
  BY <1>2, <1>3, <1>5
<1>7. c = b
  BY <1>3, <1>5, <1>6, SeqEqual
<1> QED
  BY <1>7 DEF a, b, c

LEMMA MoreGot ==
    ASSUME NEW kind \in ItemKind, NEW g, NEW v, NEW q, NEW i, NEW r,
           g = Got(v, q), GetItem(kind, q) = Got(i, r)
    PROVE  More(kind, g) = Got(Append(v, i), r)
<1>1. g.ok /\ g.value = v /\ g.rest = q
  BY GotFields
<1> DEFINE h == GetItem(kind, q)
<1>2. h.ok /\ h.value = i /\ h.rest = r
  BY GotFields
<1>3. More(kind, g) = IF h.ok THEN Got(Append(v, h.value), h.rest) ELSE Failed
  BY <1>1, Zenon DEF More, MoreSessions, MorePanes, GetItem
<1> HIDE DEF h
<1> QED
  BY <1>2, <1>3

(* Parts that follow one another are read one after another. *)
LEMMA ItemsRead ==
    ASSUME NEW kind \in ItemKind, NEW items \in Seq(Item(kind)), NEW t, NEW after,
           Tails(Parts(kind, items), t, Len(items)),
           ItemByItem(after, kind, Got(<<>>, t[0]), Len(items))
    PROVE  after[Len(items)] = Got(items, <<>>)
<1> DEFINE n == Len(items)
           S == {k \in Nat : k <= n => after[k] = Got(SubSeq(items, 1, k), t[k])}
<1>1. n \in Nat
  OBVIOUS
<1>2. t[n] = <<>> /\ \A k \in 1..n : Splits(t[k - 1], Parts(kind, items)[k], t[k])
  BY DEF Tails
<1>3. after[0] = Got(<<>>, t[0]) /\ \A k \in 1..n : after[k] = More(kind, after[k - 1])
  BY DEF ItemByItem
<1>4. 0 \in S
  <2>1. SubSeq(items, 1, 0) = <<>>
    OBVIOUS
  <2> QED
    BY <1>3, <2>1
<1>5. ASSUME NEW k \in Nat, k \in S PROVE k + 1 \in S
  <2>1. SUFFICES ASSUME k + 1 <= n PROVE after[k + 1] = Got(SubSeq(items, 1, k + 1), t[k + 1])
    OBVIOUS
  <2>2. k + 1 \in 1..n /\ (k + 1) - 1 = k /\ k <= n /\ k + 1 \in 0..n
    BY <1>1, <2>1
  <2>3. after[k] = Got(SubSeq(items, 1, k), t[k]) /\ after[k + 1] = More(kind, after[k])
    BY <1>3, <1>5, <2>2
  <2> DEFINE i == items[k + 1]
             r == t[k + 1]
  <2>4. i \in Item(kind) /\ Parts(kind, items)[k + 1] = PutItem(kind, i)
    BY <2>2, PartsBytes
  <2>5. Splits(t[k], PutItem(kind, i), r)
    BY <1>2, <2>2, <2>4
  <2>6. r \in Seq(Byte) /\ t[k] = PutItem(kind, i) \o r
    BY <2>5 DEF Splits
  <2>7. GetItem(kind, t[k]) = Got(i, r)
    BY <2>4, <2>6, ItemPut
  <2>8. Append(SubSeq(items, 1, k), i) = SubSeq(items, 1, k + 1)
    BY <2>1, PrefixGrows
  <2> HIDE DEF i, r
  <2>9. More(kind, after[k]) = Got(Append(SubSeq(items, 1, k), i), r)
    BY <2>3, <2>7, MoreGot
  <2> QED
    BY <2>3, <2>8, <2>9 DEF r
<1>6. n \in S
  <2> HIDE DEF S
  <2> QED
    BY <1>1, <1>4, <1>5, SetInduction
<1>7. SubSeq(items, 1, n) = items
  BY SubSeqFull, Zenon
<1>8. after[n] = Got(SubSeq(items, 1, n), t[n])
  BY <1>1, <1>6
<1> QED
  BY <1>2, <1>7, <1>8, Zenon

(* A list of at most maximum items is read as it was written. *)
LEMMA ListPayload ==
    ASSUME NEW kind \in ItemKind, NEW items \in Seq(Item(kind)), NEW maximum \in 0..255,
           Len(items) <= maximum
    PROVE  /\ PutList(kind, items) \in Seq(Byte)
           /\ GetList(kind, PutList(kind, items), maximum) = Got(items, <<>>)
<1> DEFINE n == Len(items)
           e == Parts(kind, items)
           bytes == PutList(kind, items)
<1>1. n \in Nat /\ n \in Byte
  <2>1. n \in Nat /\ maximum \in Nat /\ maximum <= 255 /\ n <= maximum
    OBVIOUS
  <2> HIDE DEF n
  <2> QED
    BY <2>1, LengthByte
<1>2. e \in Seq(Seq(Byte)) /\ Len(e) = n /\ \A k \in 1..n : e[k] \in Seq(Byte)
  <2>1. e \in Seq(Seq(Byte)) /\ Len(e) = n
    BY PartsBytes, Zenon
  <2> HIDE DEF e
  <2> QED
    BY <1>1, <2>1
<1>3. PICK t : Tails(e, t, n)
  <2> HIDE DEF e, n
  <2> QED
    BY <1>1, <1>2, TailsExist
<1>4. FlattenSeq(e) = t[0]
  <2>1. Tails(e, t, Len(e))
    BY <1>2, <1>3, Zenon
  <2> HIDE DEF e
  <2> QED
    BY <1>2, <2>1, FlattenTails
<1>5. t[0] \in Seq(Byte)
  <2>1. 0 \in 0..n
    BY <1>1
  <2> QED
    BY <1>1, <1>3, <2>1, TailsTyped
<1>6. bytes = <<n>> \o t[0]
  BY <1>4, PutListParts
<1>7. bytes \in Seq(Byte)
  <2>1. <<n>> \in Seq(Byte)
    BY <1>1
  <2> QED
    BY <1>5, <1>6, <2>1, ConcatTyped, Zenon
<1> DEFINE c == GetByte(bytes)
<1>8. c = Got(n, t[0])
  BY <1>1, <1>5, <1>6, GetByteReads, Zenon
<1> DEFINE d == [i \in 1..c.value |-> i]
<1>9. GetList(kind, bytes, maximum) = Counted(c, maximum, FoldOf(kind, Got(<<>>, c.rest), d))
  BY GetListFolds, Zenon
<1> HIDE DEF c, bytes, e
<1>10. c.ok /\ c.value = n /\ c.rest = t[0]
  BY <1>8, GotIsRead
<1>11. DOMAIN d = 1..n
  BY <1>10
<1> HIDE DEF d
<1>12. PICK after : /\ ItemByItem(after, kind, Got(<<>>, t[0]), n)
                    /\ FoldOf(kind, Got(<<>>, t[0]), d) = after[n]
  <2> HIDE DEF n
  <2> QED
    BY <1>1, <1>11, FoldItemByItem
<1>13. after[n] = Got(items, <<>>)
  BY <1>3, <1>12, ItemsRead, Zenon DEF e
<1>14. GetList(kind, bytes, maximum) = Got(items, <<>>)
  BY <1>9, <1>10, <1>12, <1>13, Zenon DEF Counted
<1> QED
  BY <1>7, <1>14 DEF bytes

LEMMA MoreOk ==
    ASSUME NEW kind \in ItemKind, NEW g, More(kind, g).ok
    PROVE  /\ g.ok /\ GetItem(kind, g.rest).ok
           /\ More(kind, g) = Got(Append(g.value, GetItem(kind, g.rest).value),
                                  GetItem(kind, g.rest).rest)
<1> DEFINE h == GetItem(kind, g.rest)
<1>1. More(kind, g) = IF g.ok THEN IF h.ok THEN Got(Append(g.value, h.value), h.rest) ELSE Failed
                      ELSE Failed
  BY Zenon DEF More, MoreSessions, MorePanes, GetItem
<1> HIDE DEF h
<1>2. g.ok /\ h.ok
  BY <1>1, FailedIsNotOk
<1>3. More(kind, g) = Got(Append(g.value, h.value), h.rest)
  BY <1>1, <1>2
<1> QED
  BY <1>2, <1>3 DEF h

(* When the last item is read, so were all before it. *)
LEMMA AllOk ==
    ASSUME NEW kind \in ItemKind, NEW base, NEW n \in Nat, NEW after,
           ItemByItem(after, kind, base, n), after[n].ok, NEW k \in 0..n
    PROVE  after[k].ok
<1> DEFINE S == {j \in Nat : j <= n => after[n - j].ok}
<1>1. 0 \in S
  <2>1. n - 0 = n
    OBVIOUS
  <2> QED
    BY <2>1
<1>2. ASSUME NEW j \in Nat, j \in S PROVE j + 1 \in S
  <2>1. SUFFICES ASSUME j + 1 <= n PROVE after[n - (j + 1)].ok
    OBVIOUS
  <2>2. n - j \in 1..n /\ (n - j) - 1 = n - (j + 1) /\ j <= n
    BY <2>1
  <2>3. after[n - j] = More(kind, after[n - (j + 1)]) /\ after[n - j].ok
    BY <1>2, <2>2 DEF ItemByItem
  <2> DEFINE g == after[n - (j + 1)]
  <2>4. More(kind, g).ok
    BY <2>3
  <2> HIDE DEF g
  <2>5. g.ok
    BY <2>4, MoreOk, Zenon
  <2> QED
    BY <2>5 DEF g
<1>3. n - k \in Nat /\ n - k <= n /\ n - (n - k) = k
  OBVIOUS
<1>4. n - k \in S
  <2> HIDE DEF S
  <2> QED
    BY <1>1, <1>2, <1>3, SetInduction
<1> QED
  BY <1>3, <1>4

LEMMA ItemAfter ==
    ASSUME NEW kind \in ItemKind, NEW g, NEW h, h = More(kind, g), h.ok, g.rest \in Seq(Byte)
    PROVE  /\ GetItem(kind, g.rest).value \in Item(kind) /\ h.rest \in Seq(Byte)
           /\ Splits(g.rest, PutItem(kind, GetItem(kind, g.rest).value), h.rest)
<1> DEFINE m == GetItem(kind, g.rest)
<1>1. m.ok /\ h = Got(Append(g.value, m.value), m.rest)
  BY MoreOk
<1>2. PICK i \in Item(kind), r \in Seq(Byte) : m = Got(i, r) /\ Splits(g.rest, PutItem(kind, i), r)
  BY <1>1, ItemSplits
<1> HIDE DEF m
<1>3. m.value = i /\ m.rest = r
  BY <1>2, GotIsRead
<1>4. h.rest = m.rest
  BY <1>1, GotIsRead
<1>5. m.value \in Item(kind) /\ h.rest \in Seq(Byte) /\ Splits(g.rest, PutItem(kind, m.value), h.rest)
  BY <1>2, <1>3, <1>4
<1> QED
  BY <1>5 DEF m

(* A list that is read to its end is the one whose bytes these are. *)
LEMMA ListSplits ==
    ASSUME NEW kind \in ItemKind, NEW bytes \in Seq(Byte), NEW maximum,
           GetList(kind, bytes, maximum).ok, GetList(kind, bytes, maximum).rest = <<>>
    PROVE  \E items \in Seq(Item(kind)) :
             /\ GetList(kind, bytes, maximum) = Got(items, <<>>)
             /\ Len(items) <= maximum /\ bytes = PutList(kind, items)
<1> DEFINE list == GetList(kind, bytes, maximum)
           c == GetByte(bytes)
           d == [i \in 1..c.value |-> i]
           all == FoldOf(kind, Got(<<>>, c.rest), d)
<1>1. list = IF c.ok THEN IF c.value <= maximum THEN all ELSE Failed ELSE Failed
  BY GetListFolds, Zenon DEF Counted
<1>2. c.ok /\ c.value <= maximum /\ list = all
  <2> HIDE DEF list, c, all
  <2>1. list.ok
    BY DEF list
  <2> QED
    BY <1>1, <2>1, FailedIsNotOk
<1>3. PICK n \in Byte, q \in Seq(Byte) : c = Got(n, q) /\ Splits(bytes, <<n>>, q)
  BY <1>2, GetByteSplits
<1>4. c.value = n /\ c.rest = q /\ n \in Nat
  <2>1. n \in Nat
    BY DEF Byte
  <2> HIDE DEF c
  <2> QED
    BY <1>3, <2>1, GotIsRead
<1>5. DOMAIN d = 1..n
  BY <1>4
<1>6. all = FoldOf(kind, Got(<<>>, q), d)
  BY <1>4, Zenon
<1> HIDE DEF c, d
<1>7. PICK after : ItemByItem(after, kind, Got(<<>>, q), n) /\ FoldOf(kind, Got(<<>>, q), d) = after[n]
  BY <1>4, <1>5, FoldItemByItem
<1>8. list = after[n] /\ after[n].ok /\ after[n].rest = <<>>
  BY <1>2, <1>6, <1>7, Zenon
<1> HIDE DEF list, all
<1>9. \A k \in 0..n : after[k].ok
  BY <1>4, <1>7, <1>8, AllOk
<1>10. after[0] = Got(<<>>, q) /\ \A k \in 1..n : after[k] = More(kind, after[k - 1])
  BY <1>7, Zenon DEF ItemByItem
<1>11. after[0].rest = q
  BY <1>10, GotIsRead
<1> DEFINE S == {k \in Nat : k <= n => after[k].rest \in Seq(Byte)}
<1>12. 0 \in S
  BY <1>11
<1>13. ASSUME NEW k \in Nat, k \in S PROVE k + 1 \in S
  <2>1. SUFFICES ASSUME k + 1 <= n PROVE after[k + 1].rest \in Seq(Byte)
    OBVIOUS
  <2>2. k + 1 \in 1..n /\ (k + 1) - 1 = k /\ k <= n /\ k + 1 \in 0..n
    BY <1>4, <2>1
  <2> DEFINE g == after[k]
             h == after[k + 1]
  <2>3. h = More(kind, g) /\ h.ok /\ g.rest \in Seq(Byte)
    BY <1>9, <1>10, <1>13, <2>2
  <2> HIDE DEF g, h
  <2>4. h.rest \in Seq(Byte)
    BY <2>3, ItemAfter
  <2> QED
    BY <2>4 DEF h
<1>14. \A k \in 0..n : after[k].rest \in Seq(Byte)
  <2>1. Nat \subseteq S
    <3> HIDE DEF S
    <3> QED
      BY <1>12, <1>13, SetInduction
  <2> QED
    BY <1>4, <2>1
<1> HIDE DEF S
<1> DEFINE t == [k \in 0..n |-> after[k].rest]
           items == [k \in 1..n |-> GetItem(kind, after[k - 1].rest).value]
<1>15. ASSUME NEW k \in 1..n
       PROVE  items[k] \in Item(kind) /\ Splits(t[k - 1], PutItem(kind, items[k]), t[k])
  <2>1. k - 1 \in 0..n /\ k \in 0..n
    BY <1>4
  <2> DEFINE g == after[k - 1]
             h == after[k]
  <2>2. h = More(kind, g) /\ h.ok /\ g.rest \in Seq(Byte)
    BY <1>9, <1>10, <1>14, <2>1
  <2>3. t[k - 1] = g.rest /\ t[k] = h.rest /\ items[k] = GetItem(kind, g.rest).value
    BY <2>1
  <2> HIDE DEF g, h
  <2>4. /\ GetItem(kind, g.rest).value \in Item(kind)
        /\ Splits(g.rest, PutItem(kind, GetItem(kind, g.rest).value), h.rest)
    BY <2>2, ItemAfter
  <2> HIDE DEF t, items
  <2> QED
    BY <2>3, <2>4
<1>16. items \in Seq(Item(kind)) /\ Len(items) = n
  <2>1. items \in [1..n -> Item(kind)]
    BY <1>15
  <2> HIDE DEF items
  <2> QED
    BY <1>4, <2>1
<1>17. t[n] = <<>> /\ t[0] = q
  BY <1>4, <1>8, <1>11
<1> HIDE DEF t, items
<1> DEFINE e == Parts(kind, items)
<1>18. e \in Seq(Seq(Byte)) /\ Len(e) = n /\ \A k \in 1..n : e[k] = PutItem(kind, items[k])
  <2>1. /\ e \in Seq(Seq(Byte)) /\ Len(e) = Len(items)
        /\ \A k \in 1..Len(items) : e[k] = PutItem(kind, items[k])
    BY <1>16, PartsBytes
  <2> HIDE DEF e
  <2> QED
    BY <1>16, <2>1
<1>19. Tails(e, t, n)
  <2> HIDE DEF e
  <2> QED
    BY <1>15, <1>17, <1>18 DEF Tails
<1>20. after[n] = Got(items, <<>>)
  <2>1. Tails(Parts(kind, items), t, Len(items)) /\ ItemByItem(after, kind, Got(<<>>, t[0]), Len(items))
    BY <1>7, <1>16, <1>17, <1>19, Zenon
  <2>2. after[Len(items)] = Got(items, <<>>)
    BY <1>16, <2>1, ItemsRead, Zenon
  <2> QED
    BY <1>16, <2>2
<1>21. FlattenSeq(e) = q
  <2>1. Tails(e, t, Len(e))
    BY <1>18, <1>19, Zenon
  <2>2. FlattenSeq(e) = t[0]
    <3> HIDE DEF e
    <3> QED
      BY <1>18, <2>1, FlattenTails
  <2> QED
    BY <1>17, <2>2
<1>22. bytes = <<n>> \o FlattenSeq(e)
  BY <1>3, <1>21, Zenon DEF Splits
<1>23. bytes = PutList(kind, items)
  BY <1>16, <1>22, PutListParts, Zenon
<1>24. list = Got(items, <<>>) /\ Len(items) <= maximum
  BY <1>2, <1>4, <1>8, <1>16, <1>20
<1> QED
  BY <1>16, <1>23, <1>24 DEF list

------------------------------------------------------------------------------
(* Whole responses.                                                         *)
ResponseKinds == {"CREATED", "SESSIONS", "ATTACHED", "DETACHED", "PONG", "SCREEN", "ERROR"}

LEMMA ResponseCodes ==
    /\ DOMAIN ResponseKind = ResponseKinds
    /\ \A k \in ResponseKinds : /\ ResponseKind[k] \in Byte
                              /\ Kind[k] = ResponseKind[k]
                              /\ ResponseKind[k] \in Range(ResponseKind)
    /\ \A j, k \in ResponseKinds : ResponseKind[j] = ResponseKind[k] => j = k
<1>1. DOMAIN ResponseKind = ResponseKinds
  BY DEF ResponseKind, ResponseKinds
<1>2. ASSUME NEW k \in ResponseKinds PROVE ResponseKind[k] \in Byte
  BY DEF ResponseKind, ResponseKinds, Byte
<1>3. ASSUME NEW k \in ResponseKinds PROVE Kind[k] = ResponseKind[k]
  <2>1. k \notin DOMAIN RequestKind
    <3>1. k \notin RequestKinds
      BY DEF RequestKinds, ResponseKinds
    <3> QED
      BY <3>1, KindCodes, Zenon
  <2>2. k \in DOMAIN RequestKind \cup DOMAIN ResponseKind
    BY <1>1
  <2> QED
    BY <2>1, <2>2, Zenon DEF Kind
<1>4. ASSUME NEW k \in ResponseKinds PROVE ResponseKind[k] \in Range(ResponseKind)
  BY <1>1 DEF Range
<1>5. ASSUME NEW j \in ResponseKinds, NEW k \in ResponseKinds, ResponseKind[j] = ResponseKind[k]
      PROVE  j = k
  BY <1>5 DEF ResponseKind, ResponseKinds
<1> QED
  BY <1>1, <1>2, <1>3, <1>4, <1>5

LEMMA ResponseRead ==
    ASSUME NEW k \in ResponseKinds, NEW p \in Seq(Byte), NEW m,
           ResponseOf(k, p) = Got(m, <<>>), Frame(k, p) # NoFrame
    PROVE  Frame(k, p) \in Seq(Byte) /\ DecodeResponse(Frame(k, p)) = Got(m, <<>>)
<1> DEFINE f == Frame(k, p)
           u == Unframe(f)
           kind == CHOOSE j \in DOMAIN ResponseKind : ResponseKind[j] = u.value
<1>1. Kind[k] \in Byte /\ Kind[k] = ResponseKind[k] /\ ResponseKind[k] \in Range(ResponseKind)
  BY ResponseCodes, Zenon
<1>2. u = Got(Kind[k], p) /\ f \in Seq(Byte)
  BY <1>1, UnframeFrame, Zenon
<1>3. DecodeResponse(f) = IF u.ok THEN IF u.value \in Range(ResponseKind)
                                         THEN ResponseOf(kind, u.rest) ELSE Failed
                          ELSE Failed
  BY DEF DecodeResponse, Known, Then, If
<1> HIDE DEF u
<1>4. u.ok /\ u.value = ResponseKind[k] /\ u.rest = p
  BY <1>1, <1>2, GotFields
<1>5. kind = k
  <2>1. \E j \in DOMAIN ResponseKind : ResponseKind[j] = u.value
    BY <1>4, ResponseCodes, Zenon
  <2>2. kind \in DOMAIN ResponseKind /\ ResponseKind[kind] = u.value
    BY <2>1, Zenon
  <2> HIDE DEF kind
  <2> QED
    BY <1>4, <2>2, ResponseCodes, Zenon
<1> HIDE DEF kind, f
<1>6. DecodeResponse(f) = Got(m, <<>>)
  BY <1>1, <1>3, <1>4, <1>5, Zenon
<1> QED
  BY <1>2, <1>6 DEF f

(* The texts of errors. *)
Message == {s \in Seq(Byte) : Utf8(s)}

(* A response that can be written is read back as itself. *)
AnsweredBack(r) ==
    EncodeResponse(r) # NoFrame =>
        EncodeResponse(r) \in Seq(Byte) /\ DecodeResponse(EncodeResponse(r)) = Got(r, <<>>)

LEMMA AnsweredFrame ==
    ASSUME NEW r, NEW k \in ResponseKinds, NEW p \in Seq(Byte),
           EncodeResponse(r) = Frame(k, p), ResponseOf(k, p) = Got(r, <<>>)
    PROVE  AnsweredBack(r)
  BY ResponseRead, Zenon DEF AnsweredBack

LEMMA ListLimits == MaxListedSessions \in 0..255 /\ MaxSnapshotPanes \in 0..255
<1>1. MaxListedSessions \in 0..255
  BY CodecAssumption
<1>2. MaxSnapshotPanes \in 0..255
  BY CodecAssumption
<1> QED
  BY <1>1, <1>2

LEMMA NotOver == \A n, m \in Int : ~(n > m) => n <= m
  OBVIOUS

LEMMA ErrorPayload ==
    ASSUME NEW c \in ErrorCode, NEW s \in TextUpTo(MaxErrorBytes)
    PROVE  /\ <<c>> \o PutBytes(s) \in Seq(Byte)
           /\ ResponseOf("ERROR", <<c>> \o PutBytes(s))
                = Got([kind |-> "ERROR", code |-> c, message |-> s], <<>>)
<1> DEFINE p == PutBytes(s)
           bytes == <<c>> \o p
           g == GetByte(bytes)
           t == GetText(g.rest, MaxErrorBytes)
<1>1. s \in Seq(Byte) /\ Len(s) \in Short
  BY NoLongerThanShort DEF TextUpTo
<1>2. p \in Seq(Byte)
  BY <1>1, WordTyped, ConcatTyped, Zenon DEF PutBytes
<1>3. c \in Byte /\ <<c>> \in Seq(Byte)
  BY DEF ErrorCode, Byte
<1>4. bytes \in Seq(Byte)
  BY <1>2, <1>3, ConcatTyped, Zenon
<1>5. g = Got(c, p)
  BY <1>2, <1>3, GetByteReads, Zenon
<1>6. g.ok /\ g.value = c /\ g.rest = p
  <2> HIDE DEF g
  <2> QED
    BY <1>5, GotIsRead
<1>7. GetText(p, MaxErrorBytes) = Got(s, <<>>)
  <2>1. <<>> \in Seq(Byte) /\ p \o <<>> = p
    BY <1>2, ConcatEmptySeq
  <2>2. GetText(p \o <<>>, MaxErrorBytes) = Got(s, <<>>)
    BY <1>1, <2>1, GetTextPut, Zenon
  <2> QED
    BY <2>1, <2>2, Zenon
<1>8. t = Got(s, <<>>)
  BY <1>6, <1>7, Zenon
<1> DEFINE error == IF g.ok THEN IF g.value \in ErrorCode
                              THEN IF t.ok THEN Got(<<g.value, t.value>>, t.rest) ELSE Failed
                              ELSE Failed
                    ELSE Failed
<1>9. ResponseOf("ERROR", bytes) =
        IF error.ok THEN IF error.rest = <<>>
                           THEN Got([kind |-> "ERROR", code |-> error.value[1], message |-> error.value[2]], <<>>)
                           ELSE Failed
        ELSE Failed
  BY DEF ResponseOf, Finished, Then, If
<1> HIDE DEF g, t, bytes
<1>10. t.ok /\ t.value = s /\ t.rest = <<>>
  BY <1>8, GotIsRead
<1>11. error = Got(<<c, s>>, <<>>)
  BY <1>6, <1>10
<1> HIDE DEF error
<1>12. error.ok /\ error.value = <<c, s>> /\ error.rest = <<>>
  BY <1>11, GotIsRead
<1> QED
  BY <1>4, <1>9, <1>12 DEF bytes

(* decode_response of encode_response is the identity, for any limits and   *)
(* every response that keeps them: what the client shows is what the daemon *)
(* answered, lists of any length and screens of any panes included.         *)
THEOREM ResponseRoundTrip ==
    /\ \A kind \in {"CREATED", "ATTACHED", "DETACHED"}, n \in Name : AnsweredBack([kind |-> kind, name |-> n])
    /\ \A sessions \in Seq(Session) : AnsweredBack([kind |-> "SESSIONS", sessions |-> sessions])
    /\ \A nonce \in EightBytes : AnsweredBack([kind |-> "PONG", nonce |-> nonce])
    /\ \A panes \in Seq(Pane) : AnsweredBack([kind |-> "SCREEN", panes |-> panes])
    /\ \A code \in ErrorCode, message \in Message :
         AnsweredBack([kind |-> "ERROR", code |-> code, message |-> message])
<1>1. ASSUME NEW k \in {"CREATED", "ATTACHED", "DETACHED"}, NEW n \in Name
      PROVE  AnsweredBack([kind |-> k, name |-> n])
  <2> DEFINE r == [kind |-> k, name |-> n]
  <2>1. EncodeResponse(r) = Frame(k, PutName(n))
    BY DEF EncodeResponse
  <2>2. PutName(n) \in Seq(Byte)
    BY NameBytes, Zenon
  <2>3. k \in ResponseKinds
    BY DEF ResponseKinds
  <2>4. ResponseOf(k, PutName(n)) = Got(r, <<>>)
    <3>1. ResponseOf(k, PutName(n))
            = Finished(GetName(PutName(n)), LAMBDA name : [kind |-> k, name |-> name])
      BY DEF ResponseOf
    <3> QED
      BY <3>1, NamePayload, GotFields DEF Finished, Then, If
  <2> HIDE DEF r
  <2>5. AnsweredBack(r)
    BY <2>1, <2>2, <2>3, <2>4, AnsweredFrame, Zenon
  <2> QED
    BY <2>5 DEF r
<1>2. ASSUME NEW s \in Seq(Session) PROVE AnsweredBack([kind |-> "SESSIONS", sessions |-> s])
  <2> DEFINE r == [kind |-> "SESSIONS", sessions |-> s]
             p == PutAll(s, PutSession)
  <2>1. EncodeResponse(r) = IF Len(s) > MaxListedSessions THEN NoFrame ELSE Frame("SESSIONS", p)
    BY DEF EncodeResponse
  <2>2. SUFFICES ASSUME EncodeResponse(r) # NoFrame PROVE AnsweredBack(r)
    BY DEF AnsweredBack
  <2>3. ~(Len(s) > MaxListedSessions) /\ EncodeResponse(r) = Frame("SESSIONS", p)
    BY <2>1, <2>2, Zenon
  <2>4. Len(s) <= MaxListedSessions
    BY <2>3, ListLimits
  <2>5. /\ PutList("session", s) \in Seq(Byte)
        /\ GetList("session", PutList("session", s), MaxListedSessions) = Got(s, <<>>)
    <3>1. "session" \in ItemKind /\ s \in Seq(Item("session"))
      BY DEF ItemKind, Item
    <3> QED
      BY <2>4, <3>1, ListLimits, ListPayload
  <2>6. p \in Seq(Byte) /\ GetAll(p, MaxListedSessions, GetSession) = Got(s, <<>>)
    <3>1. PutList("session", s) = p
      BY Zenon DEF PutList
    <3>2. GetList("session", p, MaxListedSessions) = GetAll(p, MaxListedSessions, GetSession)
      BY Zenon DEF GetList
    <3> QED
      BY <2>5, <3>1, <3>2, Zenon
  <2> HIDE DEF p
  <2>7. ResponseOf("SESSIONS", p) = Got(r, <<>>)
    <3>1. ResponseOf("SESSIONS", p)
            = Finished(GetAll(p, MaxListedSessions, GetSession),
                       LAMBDA all : [kind |-> "SESSIONS", sessions |-> all])
      BY DEF ResponseOf
    <3> QED
      BY <2>6, <3>1, GotFields DEF Finished, Then, If
  <2>8. "SESSIONS" \in ResponseKinds
    BY DEF ResponseKinds
  <2> HIDE DEF r
  <2> QED
    BY <2>3, <2>6, <2>7, <2>8, AnsweredFrame, Zenon
<1>3. ASSUME NEW nonce \in EightBytes PROVE AnsweredBack([kind |-> "PONG", nonce |-> nonce])
  <2> DEFINE r == [kind |-> "PONG", nonce |-> nonce]
  <2>1. EncodeResponse(r) = Frame("PONG", nonce)
    BY DEF EncodeResponse
  <2>2. nonce \in Seq(Byte) /\ 8 = Len(nonce)
    BY DEF EightBytes
  <2>3. "PONG" \in ResponseKinds
    BY DEF ResponseKinds
  <2>4. ResponseOf("PONG", nonce) = Got(r, <<>>)
    <3>1. ResponseOf("PONG", nonce)
            = Finished(Take(nonce, 8), LAMBDA n : [kind |-> "PONG", nonce |-> n])
      BY DEF ResponseOf
    <3>2. Take(nonce, 8) = Got(nonce, <<>>)
      BY <2>2, RestPayload
    <3> QED
      BY <3>1, <3>2, GotFields DEF Finished, Then, If
  <2> HIDE DEF r
  <2>5. AnsweredBack(r)
    BY <2>1, <2>2, <2>3, <2>4, AnsweredFrame, Zenon
  <2> QED
    BY <2>5 DEF r
<1>4. ASSUME NEW s \in Seq(Pane) PROVE AnsweredBack([kind |-> "SCREEN", panes |-> s])
  <2> DEFINE r == [kind |-> "SCREEN", panes |-> s]
             p == PutAll(s, PutPane)
  <2>1. EncodeResponse(r) = IF Len(s) > MaxSnapshotPanes THEN NoFrame ELSE Frame("SCREEN", p)
    BY DEF EncodeResponse
  <2>2. SUFFICES ASSUME EncodeResponse(r) # NoFrame PROVE AnsweredBack(r)
    BY DEF AnsweredBack
  <2>3. ~(Len(s) > MaxSnapshotPanes) /\ EncodeResponse(r) = Frame("SCREEN", p)
    BY <2>1, <2>2, Zenon
  <2>4. Len(s) <= MaxSnapshotPanes
    BY <2>3, ListLimits
  <2>5. "pane" # "session"
    OBVIOUS
  <2>6. /\ PutList("pane", s) \in Seq(Byte)
        /\ GetList("pane", PutList("pane", s), MaxSnapshotPanes) = Got(s, <<>>)
    <3>1. "pane" \in ItemKind /\ s \in Seq(Item("pane"))
      BY DEF ItemKind, Item
    <3> QED
      BY <2>4, <3>1, ListLimits, ListPayload
  <2>7. p \in Seq(Byte) /\ GetAll(p, MaxSnapshotPanes, GetPane) = Got(s, <<>>)
    <3>1. PutList("pane", s) = p
      BY <2>5, Zenon DEF PutList
    <3>2. GetList("pane", p, MaxSnapshotPanes) = GetAll(p, MaxSnapshotPanes, GetPane)
      BY <2>5, Zenon DEF GetList
    <3> QED
      BY <2>6, <3>1, <3>2, Zenon
  <2> HIDE DEF p
  <2>8. ResponseOf("SCREEN", p) = Got(r, <<>>)
    <3>1. ResponseOf("SCREEN", p)
            = Finished(GetAll(p, MaxSnapshotPanes, GetPane),
                       LAMBDA all : [kind |-> "SCREEN", panes |-> all])
      BY DEF ResponseOf
    <3> QED
      BY <2>7, <3>1, GotFields DEF Finished, Then, If
  <2>9. "SCREEN" \in ResponseKinds
    BY DEF ResponseKinds
  <2> HIDE DEF r
  <2> QED
    BY <2>3, <2>7, <2>8, <2>9, AnsweredFrame, Zenon
<1>5. ASSUME NEW c \in ErrorCode, NEW s \in Message
      PROVE  AnsweredBack([kind |-> "ERROR", code |-> c, message |-> s])
  <2> DEFINE r == [kind |-> "ERROR", code |-> c, message |-> s]
             p == <<c>> \o PutBytes(s)
  <2>1. EncodeResponse(r) = IF Len(s) > MaxErrorBytes THEN NoFrame ELSE Frame("ERROR", p)
    BY DEF EncodeResponse
  <2>2. SUFFICES ASSUME EncodeResponse(r) # NoFrame PROVE AnsweredBack(r)
    BY DEF AnsweredBack
  <2>3. ~(Len(s) > MaxErrorBytes) /\ EncodeResponse(r) = Frame("ERROR", p)
    BY <2>1, <2>2, Zenon
  <2>4. s \in TextUpTo(MaxErrorBytes)
    <3>1. MaxErrorBytes \in 0..MaxFrameBytes
      BY CodecAssumption
    <3>2. s \in Seq(Byte) /\ Utf8(s)
      BY DEF Message
    <3>3. Len(s) <= MaxErrorBytes
      BY <2>3, <3>1, <3>2
    <3> QED
      BY <3>2, <3>3 DEF TextUpTo
  <2>5. p \in Seq(Byte) /\ ResponseOf("ERROR", p) = Got(r, <<>>)
    BY <2>4, ErrorPayload, Zenon
  <2>6. "ERROR" \in ResponseKinds
    BY DEF ResponseKinds
  <2> HIDE DEF r, p
  <2> QED
    BY <2>3, <2>5, <2>6, AnsweredFrame, Zenon
<1> QED
  BY <1>1, <1>2, <1>3, <1>4, <1>5

------------------------------------------------------------------------------
(* What decodes is what was encoded.                                        *)

LEMMA HeaderOf ==
    ASSUME NEW f \in Seq(Byte), Unframe(f).ok
    PROVE  /\ Len(f) >= 10 /\ Len(f) = FrameLength(f) /\ FrameLength(f) <= MaxFrameBytes
           /\ SubSeq(f, 1, 4) = Magic /\ f[5] = Version
           /\ f[7] = 0 /\ f[8] = 0 /\ Len(f) = 10 + (256 * f[9] + f[10])
           /\ Unframe(f) = Got(f[6], SubSeq(f, 11, Len(f)))
<1>1. Len(f) \in Nat /\ MaxFrameBytes \in Nat
  BY CodecAssumption
<1> DEFINE whole == /\ Len(f) >= 10
                    /\ SubSeq(f, 1, 4) = Magic
                    /\ f[5] = Version
                    /\ FrameLength(f) <= MaxFrameBytes
                    /\ Len(f) = FrameLength(f)
<1>2. Unframe(f) = IF whole THEN Got(f[6], SubSeq(f, 10 + 1, Len(f))) ELSE Failed
  BY Zenon DEF Unframe, If, HeaderBytes
<1>3. whole
  <2> HIDE DEF whole
  <2> QED
    BY <1>2, FailedIsNotOk
<1>4. f[7] \in Nat /\ f[8] \in Nat /\ f[9] \in Nat /\ f[10] \in Nat
  <2>1. 7 \in DOMAIN f /\ 8 \in DOMAIN f /\ 9 \in DOMAIN f /\ 10 \in DOMAIN f
    BY <1>1, <1>3
  <2>2. f[7] \in Byte /\ f[8] \in Byte /\ f[9] \in Byte /\ f[10] \in Byte
    BY <2>1
  <2>3. Byte \subseteq Nat
    BY DEF Byte
  <2> QED
    BY <2>2, <2>3
<1> DEFINE total == 10 + 256 * f[9] + f[10]
<1>5. FrameLength(f) = IF f[7] > 0 \/ f[8] > 0 THEN MaxFrameBytes + 1 ELSE total
  BY Zenon DEF FrameLength, HeaderBytes
<1>6. ~(f[7] > 0 \/ f[8] > 0)
  <2>1. FrameLength(f) <= MaxFrameBytes
    BY <1>3
  <2>2. ASSUME f[7] > 0 \/ f[8] > 0 PROVE FALSE
    <3>1. FrameLength(f) = MaxFrameBytes + 1
      BY <1>5, <2>2, Zenon
    <3> HIDE DEF whole
    <3> QED
      BY <1>1, <2>1, <3>1
  <2> QED
    BY <2>2
<1>7. FrameLength(f) = total
  <2> HIDE DEF total
  <2> QED
    BY <1>5, <1>6, Zenon
<1>8. f[7] = 0 /\ f[8] = 0 /\ total = 10 + (256 * f[9] + f[10])
  <2>1. \A a, b \in Nat : ~(a > 0 \/ b > 0) => a = 0 /\ b = 0
    OBVIOUS
  <2>2. \A a, b \in Nat : 10 + 256 * a + b = 10 + (256 * a + b)
    OBVIOUS
  <2>3. total = 10 + (256 * f[9] + f[10])
    BY <1>4, <2>2
  <2> QED
    BY <1>4, <1>6, <2>1, <2>3, Zenon
<1>9. Unframe(f) = Got(f[6], SubSeq(f, 11, Len(f)))
  <2>1. 10 + 1 = 11
    OBVIOUS
  <2> QED
    BY <1>2, <1>3, <2>1
<1> QED
  BY <1>3, <1>7, <1>8, <1>9

LEMMA UnframeSplits ==
    ASSUME NEW f \in Seq(Byte), Unframe(f).ok
    PROVE  \E code \in Byte, p \in Seq(Byte) :
             /\ Unframe(f) = Got(code, p)
             /\ Len(p) \in Short /\ HeaderBytes + Len(p) <= MaxFrameBytes
             /\ f = Header(code, Len(p)) \o p
<1> DEFINE code == f[6]
           p == SubSeq(f, 11, Len(f))
           g == SubSeq(f, 1, 10)
           n == 256 * f[9] + f[10]
<1>1. /\ Len(f) >= 10 /\ Len(f) = FrameLength(f) /\ FrameLength(f) <= MaxFrameBytes
      /\ SubSeq(f, 1, 4) = Magic /\ f[5] = Version
      /\ f[7] = 0 /\ f[8] = 0 /\ Len(f) = 10 + n /\ Unframe(f) = Got(code, p)
  BY HeaderOf
<1>2. Len(f) \in Nat /\ \A i \in 1..10 : i \in DOMAIN f /\ f[i] \in Byte
  <2>1. Len(f) >= 10 /\ Len(f) \in Nat
    BY <1>1
  <2>2. \A i \in 1..10 : i \in 1..Len(f)
    BY <2>1
  <2> QED
    BY <2>1, <2>2
<1>3. code \in Byte /\ f[9] \in Byte /\ f[10] \in Byte
  BY <1>2
<1>4. n \in Short /\ High(n) = f[9] /\ Low(n) = f[10]
  BY <1>3, Recombine
<1> HIDE DEF n
<1>5. n \in Nat
  BY <1>4 DEF Short
<1>6. p \in Seq(Byte) /\ Len(p) = n
  <2>1. \A i \in 11..Len(f) : f[i] \in Byte
    <3>1. \A i \in 11..Len(f) : i \in 1..Len(f)
      OBVIOUS
    <3> QED
      BY <3>1
  <2> QED
    BY <1>1, <1>2, <1>5, <2>1, SubSeqProperties
<1>7. g \in Seq(Byte) /\ Len(g) = 10 /\ \A i \in 1..10 : g[i] = f[i]
  BY <1>2, SubSeqProperties
<1>8. f = g \o p
  <2>1. 1 \in 1..(Len(f) + 1) /\ 10 \in (1 - 1)..Len(f) /\ Len(f) \in 10..Len(f) /\ 10 + 1 = 11
    BY <1>1, <1>2
  <2>2. g \o SubSeq(f, 10 + 1, Len(f)) = SubSeq(f, 1, Len(f))
    BY <2>1, ConcatAdjacentSubSeq
  <2>3. SubSeq(f, 1, Len(f)) = f
    BY SubSeqFull, Zenon
  <2> QED
    BY <2>1, <2>2, <2>3, Zenon
<1>9. \A i \in 1..4 : f[i] = Magic[i]
  <2> DEFINE m == SubSeq(f, 1, 4)
  <2>1. \A i \in 1..4 : i \in 1..10
    OBVIOUS
  <2>2. \A i \in 1..4 : f[i] \in Byte
    BY <1>2, <2>1, Zenon
  <2>3. \A i \in 1..4 : m[i] = f[i]
    BY <2>2, SubSeqProperties
  <2>4. m = Magic
    BY <1>1
  <2> HIDE DEF m
  <2> QED
    BY <2>3, <2>4
<1> HIDE DEF g, p, code
<1> DEFINE h == Header(code, n)
<1>10. /\ h \in Seq(Byte) /\ 10 = Len(h)
       /\ \A i \in 1..4 : h[i] = Magic[i]
       /\ h[5] = Version /\ h[6] = code /\ h[7] = 0 /\ h[8] = 0
       /\ h[9] = High(n) /\ h[10] = Low(n)
  <2>1. Heads(h, code, n)
    BY <1>3, <1>4, HeaderSequence, Zenon
  <2> HIDE DEF h
  <2> QED
    BY <2>1, Zenon DEF Heads
<1> HIDE DEF h
<1>11. \A i \in 1..10 : h[i] = g[i]
  <2>1. \A i \in 1..4 : i \in 1..10
    OBVIOUS
  <2>2. \A i \in 1..4 : h[i] = g[i]
    BY <1>7, <1>9, <1>10, <2>1, Zenon
  <2>3. h[5] = g[5] /\ h[6] = g[6] /\ h[7] = g[7] /\ h[8] = g[8] /\ h[9] = g[9] /\ h[10] = g[10]
    BY <1>1, <1>4, <1>7, <1>10 DEF code
  <2>4. \A i \in 1..10 : i \in 1..4 \/ i = 5 \/ i = 6 \/ i = 7 \/ i = 8 \/ i = 9 \/ i = 10
    OBVIOUS
  <2> QED
    BY <2>2, <2>3, <2>4
<1>12. h = g
  <2>1. h \in Seq(Byte) /\ g \in Seq(Byte) /\ Len(h) = Len(g) /\ \A i \in 1..Len(h) : h[i] = g[i]
    BY <1>7, <1>10, <1>11
  <2> QED
    BY <2>1, SeqEqual
<1>13. f = Header(code, Len(p)) \o p
  BY <1>6, <1>8, <1>12, Zenon DEF h
<1>14. HeaderBytes + Len(p) <= MaxFrameBytes
  BY <1>1, <1>6 DEF HeaderBytes
<1> QED
  BY <1>1, <1>3, <1>4, <1>6, <1>13, <1>14

LEMMA FrameOf ==
    ASSUME NEW f, NEW kind, NEW p \in Seq(Byte),
           HeaderBytes + Len(p) <= MaxFrameBytes, f = Header(Kind[kind], Len(p)) \o p
    PROVE  Frame(kind, p) = f
<1>1. ~(HeaderBytes + Len(p) > MaxFrameBytes)
  <2>1. HeaderBytes + Len(p) \in Nat /\ MaxFrameBytes \in Nat
    BY CodecAssumption DEF HeaderBytes
  <2> HIDE DEF HeaderBytes
  <2> QED
    BY <2>1
<1> QED
  BY <1>1, Zenon DEF Frame, Header

(* A frame that decodes as a response is the frame of one kind of response. *)
LEMMA KnownResponse ==
    ASSUME NEW f \in Seq(Byte), DecodeResponse(f).ok
    PROVE  \E k \in ResponseKinds, p \in Seq(Byte) :
             DecodeResponse(f) = ResponseOf(k, p) /\ Frame(k, p) = f
<1> DEFINE u == Unframe(f)
           kind == CHOOSE j \in DOMAIN ResponseKind : ResponseKind[j] = u.value
           m == ResponseOf(kind, u.rest)
<1>1. DecodeResponse(f) = IF u.ok THEN IF u.value \in Range(ResponseKind) THEN m ELSE Failed
                          ELSE Failed
  BY DEF DecodeResponse, Known, Then, If
<1>2. u.ok /\ u.value \in Range(ResponseKind) /\ DecodeResponse(f) = m
  <2> HIDE DEF u, m
  <2> QED
    BY <1>1, FailedIsNotOk
<1>3. PICK code \in Byte, p \in Seq(Byte) :
        /\ u = Got(code, p) /\ Len(p) \in Short /\ HeaderBytes + Len(p) <= MaxFrameBytes
        /\ f = Header(code, Len(p)) \o p
  BY <1>2, UnframeSplits
<1> HIDE DEF u
<1>4. u.value = code /\ u.rest = p
  BY <1>3, GotIsRead
<1>5. kind \in ResponseKinds /\ ResponseKind[kind] = code
  <2>1. \E j \in DOMAIN ResponseKind : ResponseKind[j] = u.value
    BY <1>2 DEF Range
  <2>2. kind \in DOMAIN ResponseKind /\ ResponseKind[kind] = u.value
    BY <2>1, Zenon
  <2> HIDE DEF kind
  <2> QED
    BY <1>4, <2>2, ResponseCodes, Zenon
<1> HIDE DEF kind
<1>6. Kind[kind] = code
  BY <1>5, ResponseCodes, Zenon
<1>7. Frame(kind, p) = f
  BY <1>3, <1>6, FrameOf
<1>8. DecodeResponse(f) = ResponseOf(kind, p)
  BY <1>2, <1>4, Zenon
<1> QED
  BY <1>5, <1>7, <1>8

LEMMA KnownRequest ==
    ASSUME NEW f \in Seq(Byte), DecodeRequest(f).ok
    PROVE  \E k \in RequestKinds, p \in Seq(Byte) :
             DecodeRequest(f) = RequestOf(k, p) /\ Frame(k, p) = f
<1> DEFINE u == Unframe(f)
           kind == CHOOSE j \in DOMAIN RequestKind : RequestKind[j] = u.value
           m == RequestOf(kind, u.rest)
<1>1. DecodeRequest(f) = IF u.ok THEN IF u.value \in Range(RequestKind) THEN m ELSE Failed
                         ELSE Failed
  BY DEF DecodeRequest, Known, Then, If
<1>2. u.ok /\ u.value \in Range(RequestKind) /\ DecodeRequest(f) = m
  <2> HIDE DEF u, m
  <2> QED
    BY <1>1, FailedIsNotOk
<1>3. PICK code \in Byte, p \in Seq(Byte) :
        /\ u = Got(code, p) /\ Len(p) \in Short /\ HeaderBytes + Len(p) <= MaxFrameBytes
        /\ f = Header(code, Len(p)) \o p
  BY <1>2, UnframeSplits
<1> HIDE DEF u
<1>4. u.value = code /\ u.rest = p
  BY <1>3, GotIsRead
<1>5. kind \in RequestKinds /\ RequestKind[kind] = code
  <2>1. \E j \in DOMAIN RequestKind : RequestKind[j] = u.value
    BY <1>2 DEF Range
  <2>2. kind \in DOMAIN RequestKind /\ RequestKind[kind] = u.value
    BY <2>1, Zenon
  <2> HIDE DEF kind
  <2> QED
    BY <1>4, <2>2, KindCodes, Zenon
<1> HIDE DEF kind
<1>6. Kind[kind] = code
  BY <1>5, KindCodes, Zenon
<1>7. Frame(kind, p) = f
  BY <1>3, <1>6, FrameOf
<1>8. DecodeRequest(f) = RequestOf(kind, p)
  BY <1>2, <1>4, Zenon
<1> QED
  BY <1>5, <1>7, <1>8

(* The end of a decoder: what has been read is all there was. *)
Whole(g, m) == IF g.ok THEN IF g.rest = <<>> THEN Got(m, <<>>) ELSE Failed ELSE Failed

LEMMA WholeOk ==
    ASSUME NEW g, NEW m, Whole(g, m).ok
    PROVE  g.ok /\ g.rest = <<>> /\ Whole(g, m).value = m
<1>1. g.ok /\ g.rest = <<>>
  BY FailedIsNotOk DEF Whole
<1>2. Whole(g, m) = Got(m, <<>>)
  BY <1>1, Zenon DEF Whole
<1> QED
  BY <1>1, <1>2, GotIsRead

LEMMA SplitsAll ==
    ASSUME NEW p, NEW x, NEW r, Splits(p, x, r), r = <<>>
    PROVE  p = x
  BY ConcatEmptySeq DEF Splits

LEMMA NameWritten ==
    ASSUME NEW p \in Seq(Byte), GetName(p).ok, GetName(p).rest = <<>>
    PROVE  PutName(GetName(p).value) = p
<1> DEFINE g == GetName(p)
<1>1. PICK n \in Name, r \in Seq(Byte) : g = Got(n, r) /\ Splits(p, PutName(n), r)
  BY GetNameSplits
<1>2. g.rest = <<>>
  OBVIOUS
<1> HIDE DEF g
<1>3. g.value = n /\ r = <<>>
  BY <1>1, <1>2, GotIsRead
<1>4. PutName(g.value) = p
  BY <1>1, <1>3, SplitsAll
<1> QED
  BY <1>4 DEF g

LEMMA EightWritten ==
    ASSUME NEW p \in Seq(Byte), NEW n \in Nat, Take(p, n).ok, Take(p, n).rest = <<>>
    PROVE  Take(p, n).value = p /\ Len(p) = n
<1> DEFINE g == Take(p, n)
<1>1. PICK v \in Seq(Byte), r \in Seq(Byte) : g = Got(v, r) /\ Len(v) = n /\ Splits(p, v, r)
  BY TakeSplits
<1>2. g.rest = <<>>
  OBVIOUS
<1> HIDE DEF g
<1>3. g.value = v /\ r = <<>>
  BY <1>1, <1>2, GotIsRead
<1>4. p = v
  BY <1>1, <1>3, SplitsAll
<1>5. g.value = p /\ Len(p) = n
  BY <1>1, <1>3, <1>4
<1> QED
  BY <1>5 DEF g

(* A frame that decodes is the frame of what it decodes to. *)
RequestKept(f) == DecodeRequest(f).ok => EncodeRequest(DecodeRequest(f).value) = f
ResponseKept(f) == DecodeResponse(f).ok => EncodeResponse(DecodeResponse(f).value) = f

(* decode_request accepts no frame but those encode_request writes: nothing *)
(* is left over, no length is off, no reserved value slips through.         *)
THEOREM RequestCanonical == \A f \in Seq(Byte) : RequestKept(f)
<1> SUFFICES ASSUME NEW f \in Seq(Byte), DecodeRequest(f).ok
             PROVE  EncodeRequest(DecodeRequest(f).value) = f
  BY DEF RequestKept
<1>1. PICK k \in RequestKinds, p \in Seq(Byte) : DecodeRequest(f) = RequestOf(k, p) /\ Frame(k, p) = f
  BY KnownRequest
<1>2. SUFFICES EncodeRequest(RequestOf(k, p).value) = Frame(k, p)
  BY <1>1
<1>3. RequestOf(k, p).ok
  BY <1>1
<1>4. CASE k \in {"CREATE", "ATTACH", "DETACH"}
  <2> DEFINE g == GetName(p)
             m == [kind |-> k, name |-> g.value]
  <2>1. RequestOf(k, p) = Whole(g, m)
    <3>1. RequestOf(k, p) = Finished(GetName(p), LAMBDA name : [kind |-> k, name |-> name])
      BY <1>4 DEF RequestOf
    <3> QED
      BY <3>1, Zenon DEF Finished, Then, If, Whole
  <2>2. g.ok /\ g.rest = <<>> /\ RequestOf(k, p).value = m
    <3> HIDE DEF g, m
    <3> QED
      BY <1>3, <2>1, WholeOk
  <2>3. PutName(g.value) = p
    BY <2>2, NameWritten
  <2>4. EncodeRequest(m) = Frame(k, PutName(g.value))
    BY <1>4 DEF EncodeRequest
  <2> QED
    BY <2>2, <2>3, <2>4, Zenon
<1>5. CASE k \in {"LIST", "SNAPSHOT"}
  <2> DEFINE g == Take(p, 0)
             m == [kind |-> k]
  <2>1. RequestOf(k, p) = Whole(g, m)
    <3>1. RequestOf(k, p) = Finished(Take(p, 0), LAMBDA none : [kind |-> k])
      BY <1>5 DEF RequestOf
    <3> QED
      BY <3>1, Zenon DEF Finished, Then, If, Whole
  <2>2. g.ok /\ g.rest = <<>> /\ RequestOf(k, p).value = m
    <3> HIDE DEF g, m
    <3> QED
      BY <1>3, <2>1, WholeOk
  <2>3. p = <<>>
    <3>1. Len(p) = 0
      BY <2>2, EightWritten
    <3> QED
      BY <3>1
  <2>4. EncodeRequest(m) = Frame(k, <<>>)
    BY <1>5 DEF EncodeRequest
  <2> QED
    BY <2>2, <2>3, <2>4, Zenon
<1>6. CASE k = "PING"
  <2> DEFINE g == Take(p, 8)
             m == [kind |-> "PING", nonce |-> g.value]
  <2>1. RequestOf(k, p) = Whole(g, m)
    <3>1. RequestOf("PING", p) = Finished(Take(p, 8), LAMBDA nonce : [kind |-> "PING", nonce |-> nonce])
      BY DEF RequestOf
    <3> QED
      BY <1>6, <3>1, Zenon DEF Finished, Then, If, Whole
  <2>2. g.ok /\ g.rest = <<>> /\ RequestOf(k, p).value = m
    <3> HIDE DEF g, m
    <3> QED
      BY <1>3, <2>1, WholeOk
  <2>3. g.value = p
    BY <2>2, EightWritten
  <2>4. EncodeRequest(m) = Frame("PING", g.value)
    BY DEF EncodeRequest
  <2> QED
    BY <1>6, <2>2, <2>3, <2>4, Zenon
<1>7. CASE k = "INPUT"
  <2> DEFINE g == GetBytes(p, MaxInputBytes)
             m == [kind |-> "INPUT", bytes |-> g.value]
  <2>1. RequestOf(k, p) = Whole(g, m)
    <3>1. RequestOf("INPUT", p) = Finished(GetBytes(p, MaxInputBytes),
                                           LAMBDA bytes : [kind |-> "INPUT", bytes |-> bytes])
      BY DEF RequestOf
    <3> QED
      BY <1>7, <3>1, Zenon DEF Finished, Then, If, Whole
  <2>2. g.ok /\ g.rest = <<>> /\ RequestOf(k, p).value = m
    <3> HIDE DEF g, m
    <3> QED
      BY <1>3, <2>1, WholeOk
  <2>3. PICK s \in Seq(Byte), r \in Seq(Byte) :
          g = Got(s, r) /\ Len(s) <= MaxInputBytes /\ Splits(p, PutBytes(s), r)
    BY <2>2, GetBytesSplits
  <2>4. g.value = s /\ r = <<>>
    <3> HIDE DEF g, m
    <3> QED
      BY <2>2, <2>3, GotIsRead
  <2>5. p = PutBytes(s)
    BY <2>3, <2>4, SplitsAll
  <2>6. EncodeRequest(m) = IF Len(g.value) > MaxInputBytes THEN NoFrame
                           ELSE Frame("INPUT", PutBytes(g.value))
    BY DEF EncodeRequest
  <2>7. ~(Len(s) > MaxInputBytes)
    <3>1. MaxInputBytes \in 0..MaxFrameBytes
      BY CodecAssumption
    <3>2. Len(s) \in Int /\ MaxInputBytes \in Int
      BY <3>1
    <3> QED
      BY <2>3, <3>2
  <2> HIDE DEF g, m
  <2>8. EncodeRequest(m) = Frame("INPUT", p)
    BY <2>4, <2>5, <2>6, <2>7, Zenon
  <2> QED
    BY <1>7, <2>2, <2>8, Zenon
<1>8. CASE k = "RESIZE"
  <2> DEFINE a == Get16(p)
             b == Get16(a.rest)
             g == IF a.ok THEN IF b.ok THEN Got(<<a.value, b.value>>, b.rest) ELSE Failed ELSE Failed
             m == [kind |-> "RESIZE", cols |-> g.value[1], rows |-> g.value[2]]
  <2>1. RequestOf(k, p) = Whole(g, m)
    <3>1. RequestOf("RESIZE", p) =
            Finished(Then(Get16(p), LAMBDA cols : Then(Get16(cols.rest), LAMBDA rows :
                         Got(<<cols.value, rows.value>>, rows.rest))),
                     LAMBDA size : [kind |-> "RESIZE", cols |-> size[1], rows |-> size[2]])
      BY DEF RequestOf
    <3> QED
      BY <1>8, <3>1, Zenon DEF Finished, Then, If, Whole
  <2>2. g.ok /\ g.rest = <<>> /\ RequestOf(k, p).value = m
    <3> HIDE DEF g, m
    <3> QED
      BY <1>3, <2>1, WholeOk
  <2>3. a.ok /\ b.ok
    <3>1. g = IF a.ok THEN IF b.ok THEN Got(<<a.value, b.value>>, b.rest) ELSE Failed ELSE Failed
      OBVIOUS
    <3> HIDE DEF a, b, g
    <3> QED
      BY <2>2, <3>1, FailedIsNotOk
  <2>4. PICK c \in Short, q \in Seq(Byte) : a = Got(c, q) /\ Splits(p, Word16(c), q)
    BY <2>3, Get16Splits
  <2>5. a.value = c /\ a.rest = q
    <3> HIDE DEF a
    <3> QED
      BY <2>4, GotIsRead
  <2>6. PICK d \in Short, r \in Seq(Byte) : b = Got(d, r) /\ Splits(q, Word16(d), r)
    <3>1. b = Get16(q)
      BY <2>5
    <3> HIDE DEF b
    <3> QED
      BY <2>3, <3>1, Get16Splits
  <2> HIDE DEF a
  <2>7. b.value = d /\ b.rest = r
    <3> HIDE DEF b
    <3> QED
      BY <2>6, GotIsRead
  <2> HIDE DEF b
  <2>8. g = Got(<<c, d>>, r)
    BY <2>3, <2>5, <2>7
  <2> HIDE DEF g
  <2>9. g.value = <<c, d>> /\ r = <<>>
    BY <2>2, <2>8, GotIsRead
  <2>10. m.kind = "RESIZE" /\ m.cols = c /\ m.rows = d
    BY <2>9
  <2> HIDE DEF m
  <2>11. EncodeRequest(m) = Frame("RESIZE", Word16(c) \o Word16(d))
    BY <2>10 DEF EncodeRequest
  <2>12. p = Word16(c) \o Word16(d)
    <3>1. Splits(p, Word16(c) \o Word16(d), r)
      BY <2>4, <2>6, SplitsOn
    <3> QED
      BY <2>9, <3>1, SplitsAll
  <2> QED
    BY <1>8, <2>2, <2>11, <2>12, Zenon
<1>9. CASE k = "COMMAND"
  <2> DEFINE g == GetByte(p)
             m == [kind |-> "COMMAND", command |-> g.value]
  <2>1. RequestOf(k, p) = Whole(g, m)
    <3>1. RequestOf("COMMAND", p) = Finished(GetByte(p), LAMBDA b : [kind |-> "COMMAND", command |-> b])
      BY DEF RequestOf
    <3> QED
      BY <1>9, <3>1, Zenon DEF Finished, Then, If, Whole
  <2>2. g.ok /\ g.rest = <<>> /\ RequestOf(k, p).value = m
    <3> HIDE DEF g, m
    <3> QED
      BY <1>3, <2>1, WholeOk
  <2>3. PICK e \in Byte, r \in Seq(Byte) : g = Got(e, r) /\ Splits(p, <<e>>, r)
    BY <2>2, GetByteSplits
  <2>4. g.value = e /\ r = <<>>
    <3> HIDE DEF g, m
    <3> QED
      BY <2>2, <2>3, GotIsRead
  <2>5. p = <<e>>
    BY <2>3, <2>4, SplitsAll
  <2>6. EncodeRequest(m) = Frame("COMMAND", <<g.value>>)
    BY DEF EncodeRequest
  <2> HIDE DEF g, m
  <2> QED
    BY <1>9, <2>2, <2>4, <2>5, <2>6, Zenon
<1> QED
  BY <1>4, <1>5, <1>6, <1>7, <1>8, <1>9 DEF RequestKinds

(* decode_response likewise accepts no frame but those encode_response      *)
(* writes, and of no list is an item lost, added or read twice.             *)
THEOREM ResponseCanonical == \A f \in Seq(Byte) : ResponseKept(f)
<1> SUFFICES ASSUME NEW f \in Seq(Byte), DecodeResponse(f).ok
             PROVE  EncodeResponse(DecodeResponse(f).value) = f
  BY DEF ResponseKept
<1>1. PICK k \in ResponseKinds, p \in Seq(Byte) : DecodeResponse(f) = ResponseOf(k, p) /\ Frame(k, p) = f
  BY KnownResponse
<1>2. SUFFICES EncodeResponse(ResponseOf(k, p).value) = Frame(k, p)
  BY <1>1
<1>3. ResponseOf(k, p).ok
  BY <1>1
<1>4. CASE k \in {"CREATED", "ATTACHED", "DETACHED"}
  <2> DEFINE g == GetName(p)
             m == [kind |-> k, name |-> g.value]
  <2>1. ResponseOf(k, p) = Whole(g, m)
    <3>1. ResponseOf(k, p) = Finished(GetName(p), LAMBDA name : [kind |-> k, name |-> name])
      BY <1>4 DEF ResponseOf
    <3> QED
      BY <3>1, Zenon DEF Finished, Then, If, Whole
  <2>2. g.ok /\ g.rest = <<>> /\ ResponseOf(k, p).value = m
    <3> HIDE DEF g, m
    <3> QED
      BY <1>3, <2>1, WholeOk
  <2>3. PutName(g.value) = p
    BY <2>2, NameWritten
  <2>4. EncodeResponse(m) = Frame(k, PutName(g.value))
    BY <1>4 DEF EncodeResponse
  <2> QED
    BY <2>2, <2>3, <2>4, Zenon
<1>5. CASE k = "PONG"
  <2> DEFINE g == Take(p, 8)
             m == [kind |-> "PONG", nonce |-> g.value]
  <2>1. ResponseOf(k, p) = Whole(g, m)
    <3>1. ResponseOf("PONG", p) = Finished(Take(p, 8), LAMBDA nonce : [kind |-> "PONG", nonce |-> nonce])
      BY DEF ResponseOf
    <3> QED
      BY <1>5, <3>1, Zenon DEF Finished, Then, If, Whole
  <2>2. g.ok /\ g.rest = <<>> /\ ResponseOf(k, p).value = m
    <3> HIDE DEF g, m
    <3> QED
      BY <1>3, <2>1, WholeOk
  <2>3. g.value = p
    BY <2>2, EightWritten
  <2>4. EncodeResponse(m) = Frame("PONG", g.value)
    BY DEF EncodeResponse
  <2> QED
    BY <1>5, <2>2, <2>3, <2>4, Zenon
<1>6. CASE k = "SESSIONS"
  <2> DEFINE g == GetAll(p, MaxListedSessions, GetSession)
             m == [kind |-> "SESSIONS", sessions |-> g.value]
  <2>0. GetList("session", p, MaxListedSessions) = g /\ \A s : PutList("session", s) = PutAll(s, PutSession)
    <3>1. "pane" # "session"
      OBVIOUS
    <3> QED
      BY <3>1, Zenon DEF GetList, PutList
  <2>1. ResponseOf(k, p) = Whole(g, m)
    <3>1. ResponseOf("SESSIONS", p) = Finished(GetAll(p, MaxListedSessions, GetSession),
                                             LAMBDA all : [kind |-> "SESSIONS", sessions |-> all])
      BY DEF ResponseOf
    <3> QED
      BY <1>6, <3>1, Zenon DEF Finished, Then, If, Whole
  <2>2. g.ok /\ g.rest = <<>> /\ ResponseOf(k, p).value = m
    <3> HIDE DEF g, m
    <3> QED
      BY <1>3, <2>1, WholeOk
  <2>3. EncodeResponse(m) = IF Len(g.value) > MaxListedSessions THEN NoFrame
                            ELSE Frame("SESSIONS", PutAll(g.value, PutSession))
    BY DEF EncodeResponse
  <2> HIDE DEF g, m
  <2>4. PICK s \in Seq(Item("session")) :
          g = Got(s, <<>>) /\ Len(s) <= MaxListedSessions /\ p = PutList("session", s)
    <3>1. "session" \in ItemKind
      BY DEF ItemKind
    <3>2. GetList("session", p, MaxListedSessions).ok /\ GetList("session", p, MaxListedSessions).rest = <<>>
      BY <2>0, <2>2
    <3>3. PICK s \in Seq(Item("session")) :
            /\ GetList("session", p, MaxListedSessions) = Got(s, <<>>)
            /\ Len(s) <= MaxListedSessions /\ p = PutList("session", s)
      BY <3>1, <3>2, ListSplits
    <3> QED
      BY <2>0, <3>3, Zenon
  <2>5. g.value = s
    BY <2>4, GotIsRead
  <2>6. ~(Len(s) > MaxListedSessions)
    <3>1. Len(s) \in Int /\ MaxListedSessions \in Int
      BY ListLimits
    <3> QED
      BY <2>4, <3>1
  <2>7. EncodeResponse(m) = Frame("SESSIONS", p)
    BY <2>0, <2>3, <2>4, <2>5, <2>6, Zenon
  <2> QED
    BY <1>6, <2>2, <2>7, Zenon
<1>7. CASE k = "SCREEN"
  <2> DEFINE g == GetAll(p, MaxSnapshotPanes, GetPane)
             m == [kind |-> "SCREEN", panes |-> g.value]
  <2>0. GetList("pane", p, MaxSnapshotPanes) = g /\ \A s : PutList("pane", s) = PutAll(s, PutPane)
    <3>1. "pane" # "session"
      OBVIOUS
    <3> QED
      BY <3>1, Zenon DEF GetList, PutList
  <2>1. ResponseOf(k, p) = Whole(g, m)
    <3>1. ResponseOf("SCREEN", p) = Finished(GetAll(p, MaxSnapshotPanes, GetPane),
                                             LAMBDA all : [kind |-> "SCREEN", panes |-> all])
      BY DEF ResponseOf
    <3> QED
      BY <1>7, <3>1, Zenon DEF Finished, Then, If, Whole
  <2>2. g.ok /\ g.rest = <<>> /\ ResponseOf(k, p).value = m
    <3> HIDE DEF g, m
    <3> QED
      BY <1>3, <2>1, WholeOk
  <2>3. EncodeResponse(m) = IF Len(g.value) > MaxSnapshotPanes THEN NoFrame
                            ELSE Frame("SCREEN", PutAll(g.value, PutPane))
    BY DEF EncodeResponse
  <2> HIDE DEF g, m
  <2>4. PICK s \in Seq(Item("pane")) :
          g = Got(s, <<>>) /\ Len(s) <= MaxSnapshotPanes /\ p = PutList("pane", s)
    <3>1. "pane" \in ItemKind
      BY DEF ItemKind
    <3>2. GetList("pane", p, MaxSnapshotPanes).ok /\ GetList("pane", p, MaxSnapshotPanes).rest = <<>>
      BY <2>0, <2>2
    <3>3. PICK s \in Seq(Item("pane")) :
            /\ GetList("pane", p, MaxSnapshotPanes) = Got(s, <<>>)
            /\ Len(s) <= MaxSnapshotPanes /\ p = PutList("pane", s)
      BY <3>1, <3>2, ListSplits
    <3> QED
      BY <2>0, <3>3, Zenon
  <2>5. g.value = s
    BY <2>4, GotIsRead
  <2>6. ~(Len(s) > MaxSnapshotPanes)
    <3>1. Len(s) \in Int /\ MaxSnapshotPanes \in Int
      BY ListLimits
    <3> QED
      BY <2>4, <3>1
  <2>7. EncodeResponse(m) = Frame("SCREEN", p)
    BY <2>0, <2>3, <2>4, <2>5, <2>6, Zenon
  <2> QED
    BY <1>7, <2>2, <2>7, Zenon
<1>8. CASE k = "ERROR"
  <2> DEFINE a == GetByte(p)
             b == GetText(a.rest, MaxErrorBytes)
             g == IF a.ok THEN IF a.value \in ErrorCode
                                 THEN IF b.ok THEN Got(<<a.value, b.value>>, b.rest) ELSE Failed
                                 ELSE Failed
                  ELSE Failed
             m == [kind |-> "ERROR", code |-> g.value[1], message |-> g.value[2]]
  <2>1. ResponseOf(k, p) = Whole(g, m)
    <3>1. ResponseOf("ERROR", p) =
            Finished(Then(GetByte(p), LAMBDA code : If(code.value \in ErrorCode,
                         Then(GetText(code.rest, MaxErrorBytes), LAMBDA text :
                             Got(<<code.value, text.value>>, text.rest)))),
                     LAMBDA error : [kind |-> "ERROR", code |-> error[1], message |-> error[2]])
      BY DEF ResponseOf
    <3> QED
      BY <1>8, <3>1, Zenon DEF Finished, Then, If, Whole
  <2>2. g.ok /\ g.rest = <<>> /\ ResponseOf(k, p).value = m
    <3> HIDE DEF g, m
    <3> QED
      BY <1>3, <2>1, WholeOk
  <2>3. a.ok /\ a.value \in ErrorCode /\ b.ok
    <3>1. g = IF a.ok THEN IF a.value \in ErrorCode
                             THEN IF b.ok THEN Got(<<a.value, b.value>>, b.rest) ELSE Failed
                             ELSE Failed
              ELSE Failed
      OBVIOUS
    <3> HIDE DEF a, b, g
    <3> QED
      BY <2>2, <3>1, FailedIsNotOk
  <2>4. PICK c \in Byte, q \in Seq(Byte) : a = Got(c, q) /\ Splits(p, <<c>>, q)
    BY <2>3, GetByteSplits
  <2>5. a.value = c /\ a.rest = q
    <3> HIDE DEF a
    <3> QED
      BY <2>4, GotIsRead
  <2>6. PICK s \in TextUpTo(MaxErrorBytes), r \in Seq(Byte) : b = Got(s, r) /\ Splits(q, PutBytes(s), r)
    <3>1. b = GetText(q, MaxErrorBytes)
      BY <2>5
    <3> HIDE DEF b
    <3> QED
      BY <2>3, <3>1, GetTextSplits
  <2> HIDE DEF a
  <2>7. b.value = s /\ b.rest = r
    <3> HIDE DEF b
    <3> QED
      BY <2>6, GotIsRead
  <2> HIDE DEF b
  <2>8. g = Got(<<c, s>>, r)
    BY <2>3, <2>5, <2>7
  <2> HIDE DEF g
  <2>9. g.value = <<c, s>> /\ r = <<>>
    BY <2>2, <2>8, GotIsRead
  <2>10. m.kind = "ERROR" /\ m.code = c /\ m.message = s
    BY <2>9
  <2> HIDE DEF m
  <2>11. EncodeResponse(m) = IF Len(s) > MaxErrorBytes THEN NoFrame
                             ELSE Frame("ERROR", <<c>> \o PutBytes(s))
    BY <2>10 DEF EncodeResponse
  <2>12. ~(Len(s) > MaxErrorBytes)
    <3>1. MaxErrorBytes \in 0..MaxFrameBytes
      BY CodecAssumption
    <3>2. Len(s) \in Int /\ MaxErrorBytes \in Int /\ Len(s) <= MaxErrorBytes
      BY <3>1 DEF TextUpTo
    <3> QED
      BY <3>2
  <2>13. p = <<c>> \o PutBytes(s)
    <3>1. Splits(p, <<c>> \o PutBytes(s), r)
      BY <2>4, <2>6, SplitsOn
    <3> QED
      BY <2>9, <3>1, SplitsAll
  <2> QED
    BY <1>8, <2>2, <2>11, <2>12, <2>13, Zenon
<1> QED
  BY <1>4, <1>5, <1>6, <1>7, <1>8 DEF ResponseKinds
==============================================================================
