-------------------------- MODULE ClientMessageProofs --------------------------
(***************************************************************************)
(* The safety properties of ClientMessage, for bytes of any number of      *)
(* values, any white space, any well-typed messages and any digest: each   *)
(* field is read as it was written, wherever the message was not damaged.  *)
(***************************************************************************)
EXTENDS ClientMessage, SequenceTheorems, TLAPS

\* A function on 1 .. n is a sequence of that length.
LEMMA FixedSeq ==
  ASSUME NEW S, NEW n \in Nat, NEW p \in [1 .. n -> S]
  PROVE  p \in Seq(S) /\ Len(p) = n
<1>1. p \in Seq(S)
  BY SeqDef
<1> QED
  BY <1>1, LenProperties

-----------------------------------------------------------------------------
(* Numbers. *)

\* The arithmetic of one byte.
LEMMA DivMod ==
  \A n \in Int : /\ High(n) \in Int /\ n % Radix \in Bytes
                 /\ n = Radix * High(n) + (n % Radix)
BY LayoutAssumption DEF High, Bytes

\* The arithmetic of four bytes.
LEMMA WordDivMod ==
  /\ Word \in Nat /\ Word > 1
  /\ \A n \in Int : /\ n \div Word \in Int /\ n % Word \in 0 .. Word - 1
                    /\ n = Word * (n \div Word) + (n % Word)
<1>1. Radix * Radix \in Nat /\ Radix * Radix > 1
  BY LayoutAssumption
<1>2. Radix * Radix * Radix \in Nat /\ Radix * Radix * Radix > 1
  BY <1>1, LayoutAssumption
<1>3. Word \in Nat /\ Word > 1
  BY <1>2, LayoutAssumption DEF Word
<1> QED
  BY <1>3

\* The only number of a range that differs from one of it by a multiple of the
\* range's length.
LEMMA SameResidue ==
  ASSUME NEW w \in Nat, NEW x \in 0 .. w - 1, NEW y \in 0 .. w - 1, NEW h \in Int, x = y - w * h
  PROVE  x = y
<1>1. CASE h >= 1
  <2>1. w * h >= w
    BY <1>1
  <2> QED
    BY <2>1
<1>2. CASE h <= -1
  <2>1. w * h <= -w
    BY <1>2
  <2> QED
    BY <2>1
<1>3. CASE h = 0
  BY <1>3
<1> QED
  BY <1>1, <1>2, <1>3

\* Four bytes that were written are read as the number, up to multiples of a word.
LEMMA IntegerRead ==
  ASSUME NEW n \in Int
  PROVE  /\ IntegerToBytes(n) \in [1 .. 4 -> Bytes]
         /\ BytesToInteger(IntegerToBytes(n)) \in 0 .. Word - 1
         /\ \E h \in Int : BytesToInteger(IntegerToBytes(n)) = n - Word * h
<1> DEFINE x == High(n)
           y == High(x)
           z == High(y)
           h == High(z)
           a == z % Radix
           b == y % Radix
           c == x % Radix
           d == n % Radix
<1>1. n = Radix * x + d /\ x \in Int /\ d \in Bytes
  BY DivMod
<1>2. x = Radix * y + c /\ y \in Int /\ c \in Bytes
  BY <1>1, DivMod
<1>3. y = Radix * z + b /\ z \in Int /\ b \in Bytes
  BY <1>2, DivMod
<1>4. z = Radix * h + a /\ h \in Int /\ a \in Bytes
  BY <1>3, DivMod
<1>5. IntegerToBytes(n) = <<a, b, c, d>>
  BY DEF IntegerToBytes
<1>6. BytesToInteger(IntegerToBytes(n)) = ((a * Radix + b) * Radix + c) * Radix + d
  BY <1>5 DEF BytesToInteger
<1> HIDE DEF x, y, z, h, a, b, c, d
<1>7. ((a * Radix + b) * Radix + c) * Radix + d = n - Word * h
  <2>1. a * Radix + b = y - Radix * Radix * h
    BY <1>3, <1>4, LayoutAssumption DEF Bytes
  <2>2. (a * Radix + b) * Radix + c = x - Radix * Radix * Radix * h
    BY <2>1, <1>2, <1>4, LayoutAssumption DEF Bytes
  <2> QED
    BY <2>2, <1>1, <1>4, LayoutAssumption DEF Bytes, Word
<1>8. ((a * Radix + b) * Radix + c) * Radix + d \in 0 .. Word - 1
  <2>1. a * Radix + b \in 0 .. Radix * Radix - 1
    BY <1>3, <1>4, LayoutAssumption DEF Bytes
  <2>2. (a * Radix + b) * Radix + c \in 0 .. Radix * Radix * Radix - 1
    BY <2>1, <1>2, LayoutAssumption DEF Bytes
  <2> QED
    BY <2>2, <1>1, LayoutAssumption DEF Bytes, Word
<1>9. IntegerToBytes(n) \in [1 .. 4 -> Bytes]
  BY <1>1, <1>2, <1>3, <1>4, <1>5
<1> QED
  BY <1>4, <1>6, <1>7, <1>8, <1>9

\* A number of four bytes is read as it was written (putUInteger, getUInteger).
LEMMA IntegerRoundTrip ==
  ASSUME NEW n \in 0 .. Word - 1
  PROVE  BytesToInteger(IntegerToBytes(n)) = n
<1>1. PICK h \in Int : BytesToInteger(IntegerToBytes(n)) = n - Word * h
  BY IntegerRead
<1>2. Word \in Nat /\ BytesToInteger(IntegerToBytes(n)) \in 0 .. Word - 1
  BY IntegerRead, WordDivMod
<1> QED
  BY <1>1, <1>2, SameResidue

\* Eight bytes that were written are read as the number, up to multiples of two words.
LEMMA LongRead ==
  ASSUME NEW n \in Int
  PROVE  /\ LongToBytes(n) \in [1 .. 8 -> Bytes]
         /\ LongWord \in Nat
         /\ BytesToULong(LongToBytes(n)) \in 0 .. LongWord - 1
         /\ \E h \in Int : BytesToULong(LongToBytes(n)) = n - LongWord * h
<1> DEFINE p == IntegerToBytes(n \div Word)
           q == IntegerToBytes(n % Word)
<1>1. n \div Word \in Int /\ n % Word \in 0 .. Word - 1 /\ Word \in Nat
      /\ n = Word * (n \div Word) + (n % Word)
  BY WordDivMod
<1>2. p \in [1 .. 4 -> Bytes] /\ q \in [1 .. 4 -> Bytes]
  BY <1>1, IntegerRead
<1>3. BytesToInteger(q) = n % Word
  BY <1>1, IntegerRoundTrip
<1>4. BytesToInteger(p) \in 0 .. Word - 1
  BY <1>1, IntegerRead
<1>5. PICK h \in Int : BytesToInteger(p) = (n \div Word) - Word * h
  BY <1>1, IntegerRead
<1>6. LongToBytes(n) = p \o q
  BY DEF LongToBytes
<1> HIDE DEF p, q
<1> DEFINE r == p \o q
<1>7. r \in [1 .. 8 -> Bytes] /\ \A i \in 1 .. 4 : r[i] = p[i] /\ r[i + 4] = q[i]
  <2>1. p \in Seq(Bytes) /\ q \in Seq(Bytes) /\ Len(p) = 4 /\ Len(q) = 4
    BY <1>2, FixedSeq
  <2>2. r \in Seq(Bytes) /\ Len(r) = Len(p) + Len(q)
        /\ \A i \in 1 .. Len(p) + Len(q) : r[i] = IF i <= Len(p) THEN p[i] ELSE q[i - Len(p)]
    BY <2>1, ConcatProperties, Zenon
  <2> HIDE DEF r
  <2>3. r \in [1 .. Len(r) -> Bytes]
    BY <2>2, LenProperties
  <2> QED
    BY <2>1, <2>2, <2>3
<1> HIDE DEF r
<1>8. BytesToInteger(SubSeq(r, 1, 4)) = BytesToInteger(p)
      /\ BytesToInteger(SubSeq(r, 5, 8)) = BytesToInteger(q)
  <2>1. SubSeq(r, 1, 4) = [i \in 1 .. 4 |-> r[i]] /\ SubSeq(r, 5, 8) = [i \in 1 .. 4 |-> r[i + 4]]
    OBVIOUS
  <2>2. SubSeq(r, 1, 4) = [i \in 1 .. 4 |-> p[i]] /\ SubSeq(r, 5, 8) = [i \in 1 .. 4 |-> q[i]]
    BY <1>7, <2>1
  <2> QED
    BY <2>2 DEF BytesToInteger
<1>9. BytesToULong(LongToBytes(n)) = BytesToInteger(p) * Word + (n % Word)
  BY <1>3, <1>6, <1>8 DEF BytesToULong, r
<1> DEFINE u == BytesToInteger(p)
           l == n % Word
           v == n \div Word
<1> HIDE DEF u, l, v
<1>10. u * Word + l \in 0 .. LongWord - 1 /\ LongWord \in Nat
  <2>1. u \in 0 .. Word - 1 /\ l \in 0 .. Word - 1 /\ Word \in Nat
    BY <1>1, <1>4 DEF u, l
  <2>2. u * Word \in 0 .. (Word - 1) * Word
    BY <2>1
  <2> QED
    BY <2>1, <2>2 DEF LongWord
<1>11. u * Word + l = n - LongWord * h
  <2>1. u = v - Word * h /\ n = Word * v + l /\ v \in Int /\ l \in Int /\ Word \in Nat
    BY <1>1, <1>5 DEF u, v, l
  <2>2. u * Word = v * Word - (Word * Word) * h
    BY <2>1
  <2> QED
    BY <2>1, <2>2 DEF LongWord
<1> QED
  <2>1. LongToBytes(n) \in [1 .. 8 -> Bytes]
    BY <1>6, <1>7 DEF r
  <2>2. BytesToULong(LongToBytes(n)) = u * Word + l
    BY <1>9 DEF u, l
  <2> QED
    BY <1>10, <1>11, <2>1, <2>2

\* A number of eight bytes is read as it was written (putULong, getULong).
LEMMA ULongRoundTrip ==
  ASSUME NEW n \in 0 .. LongWord - 1
  PROVE  BytesToULong(LongToBytes(n)) = n
<1>0. LongWord \in Nat /\ n \in Int
  BY LongRead, WordDivMod DEF LongWord
<1>1. PICK h \in Int : BytesToULong(LongToBytes(n)) = n - LongWord * h
  BY <1>0, LongRead
<1>2. BytesToULong(LongToBytes(n)) \in 0 .. LongWord - 1
  BY <1>0, LongRead
<1> QED
  BY <1>0, <1>1, <1>2, SameResidue

\* So is a signed number, in two's complement (putLong, getLong).
LEMMA LongRoundTrip ==
  ASSUME NEW n \in -(LongWord \div 2) .. (LongWord \div 2) - 1
  PROVE  BytesToLong(LongToBytes(n)) = n
<1> DEFINE u == BytesToULong(LongToBytes(n))
           half == LongWord \div 2
<1>0. LongWord \in Nat /\ n \in Int /\ half \in Nat
      /\ half + half <= LongWord /\ LongWord <= half + half + 1
  BY WordDivMod DEF LongWord
<1>1. PICK h \in Int : u = n - LongWord * h
  BY <1>0, LongRead
<1>2. u \in 0 .. LongWord - 1
  BY <1>0, LongRead
<1>3. n \in -half .. half - 1
  OBVIOUS
<1>4. BytesToLong(LongToBytes(n)) = IF u < half THEN u ELSE u - LongWord
  BY DEF BytesToLong
<1> HIDE DEF u, half
<1>5. CASE n >= 0
  <2>1. n \in 0 .. LongWord - 1
    BY <1>0, <1>3, <1>5
  <2>2. u = n
    BY <2>1, <1>0, <1>1, <1>2, SameResidue
  <2> QED
    BY <2>2, <1>0, <1>3, <1>4
<1>6. CASE n < 0
  <2>1. n + LongWord \in 0 .. LongWord - 1
    BY <1>0, <1>3, <1>6
  <2>2. u = (n + LongWord) - LongWord * (h + 1)
    BY <1>0, <1>1
  <2>3. u = n + LongWord
    BY <2>1, <2>2, <1>0, <1>2, SameResidue
  <2> QED
    BY <2>3, <1>0, <1>3, <1>4
<1> QED
  BY <1>0, <1>5, <1>6

-----------------------------------------------------------------------------
(* The layout. *)

\* The offsets, as numbers.
LEMMA Offsets ==
  /\ Offset = [HeaderLength |-> 0, MessageType |-> 4, SchemaVersion |-> 36, CreatedDate |-> 40,
               SequenceNumber |-> 48, Flags |-> 56, MessageId |-> 64, PayloadDigest |-> 80,
               PayloadType |-> 112, PayloadLength |-> 116]
  /\ PayloadOffset = 120
BY DEF Offset, PayloadOffset, Size

\* The fields and their sizes.
LEMMA Sizes ==
  /\ FieldNames = {"HeaderLength", "MessageType", "SchemaVersion", "CreatedDate",
                   "SequenceNumber", "Flags", "MessageId", "PayloadDigest", "PayloadType",
                   "PayloadLength"}
  /\ Size["HeaderLength"] = 4 /\ Size["MessageType"] = 32 /\ Size["SchemaVersion"] = 4
  /\ Size["CreatedDate"] = 8 /\ Size["SequenceNumber"] = 8 /\ Size["Flags"] = 8
  /\ Size["MessageId"] = 16 /\ Size["PayloadDigest"] = 32 /\ Size["PayloadType"] = 4
  /\ Size["PayloadLength"] = 4
BY DEF FieldNames, Size

\* Each field is one of those written.
LEMMA EachField ==
  /\ \A f \in FieldNames : \E k \in DOMAIN Fields : f = Fields[k]
  /\ \A k \in DOMAIN Fields : Fields[k] \in FieldNames
  /\ DOMAIN Fields = 1 .. 10
<1>1. DOMAIN Fields = 1 .. 10
  BY DEF Fields
<1>2. \A f \in FieldNames : \E k \in 1 .. 10 : f = Fields[k]
  BY Sizes DEF Fields
<1>3. \A k \in 1 .. 10 : Fields[k] \in FieldNames
  BY Sizes DEF Fields
<1> QED
  BY <1>1, <1>2, <1>3

\* A field lies in the header.
LEMMA SpanInHeader ==
  ASSUME NEW k \in DOMAIN Fields
  PROVE  /\ Offset[Fields[k]] \in Nat /\ Size[Fields[k]] \in Nat \ {0}
         /\ Offset[Fields[k]] + Size[Fields[k]] <= 120
<1>1. k \in 1 .. 10
  BY EachField
<1> QED
  BY <1>1, Offsets DEF Fields, Size

\* A field ends before the next ones begin: they do not overlap.
LEMMA SpansAreOrdered ==
  ASSUME NEW j \in DOMAIN Fields, NEW k \in DOMAIN Fields, j < k
  PROVE  Offset[Fields[j]] + Size[Fields[j]] <= Offset[Fields[k]]
<1> DEFINE Start(i) == Offset[Fields[i]]
           End(i) == Start(i) + Size[Fields[i]]
<1>1. \A i \in 1 .. 10 : Start(i) \in Nat /\ End(i) \in Nat /\ Start(i) <= End(i)
  BY SpanInHeader, EachField
<1>2. \A i \in 1 .. 9 : End(i) = Start(i + 1)
  BY Offsets DEF Fields, Size
<1>3. j \in 1 .. 10 /\ k \in 1 .. 10
  BY EachField
<1> HIDE DEF Start, End
<1>4. End(j) <= Start(k)
  BY <1>1, <1>2, <1>3
<1> QED
  BY <1>4 DEF Start, End

\* Each position of the header is written once.
LEMMA WrittenOnce ==
  ASSUME NEW k \in DOMAIN Fields, NEW i \in Span(Fields[k])
  PROVE  {j \in DOMAIN Fields : i \in Span(Fields[j])} = {k}
<1>1. ASSUME NEW j \in DOMAIN Fields, j # k
      PROVE  i \notin Span(Fields[j])
  <2>1. j \in 1 .. 10 /\ k \in 1 .. 10
    BY EachField
  <2>2. Offset[Fields[k]] \in Nat /\ Size[Fields[k]] \in Nat
        /\ Offset[Fields[j]] \in Nat /\ Size[Fields[j]] \in Nat
    BY SpanInHeader
  <2>3. CASE j < k
    BY <2>2, <2>3, SpansAreOrdered DEF Span
  <2>4. CASE k < j
    BY <2>2, <2>4, SpansAreOrdered DEF Span
  <2> QED
    BY <2>1, <2>3, <2>4, <1>1
<1> QED
  BY <1>1

\* The greatest of one number.
LEMMA MaxOfOne ==
  ASSUME NEW k \in Int
  PROVE  Max({k}) = k
BY DEF Max

-----------------------------------------------------------------------------
(* What is written. *)

\* A UUID with its halves swapped is a UUID, and swapping twice gives it back.
LEMMA SwapTwice ==
  ASSUME NEW id \in [1 .. 16 -> Bytes]
  PROVE  /\ SwapHalves(id) \in [1 .. 16 -> Bytes]
         /\ SwapHalves(SwapHalves(id)) = id
<1>1. ASSUME NEW d \in [1 .. 16 -> Bytes]
      PROVE  /\ SwapHalves(d) \in [1 .. 16 -> Bytes]
             /\ \A i \in 1 .. 8 : SwapHalves(d)[i] = d[i + 8] /\ SwapHalves(d)[i + 8] = d[i]
  <2> DEFINE p == SubSeq(d, 9, 16)
             q == SubSeq(d, 1, 8)
             r == p \o q
  <2>1. p = [i \in 1 .. 8 |-> d[i + 8]] /\ q = [i \in 1 .. 8 |-> d[i]]
    OBVIOUS
  <2>2. p \in [1 .. 8 -> Bytes] /\ q \in [1 .. 8 -> Bytes]
    <3>1. \A i \in 1 .. 8 : d[i + 8] \in Bytes /\ d[i] \in Bytes
      OBVIOUS
    <3> HIDE DEF p, q
    <3> QED
      BY <2>1, <3>1
  <2>3. \A i \in 1 .. 8 : p[i] = d[i + 8] /\ q[i] = d[i]
    BY <2>1
  <2> HIDE DEF p, q
  <2>4. p \in Seq(Bytes) /\ q \in Seq(Bytes) /\ Len(p) = 8 /\ Len(q) = 8
    BY <2>2, FixedSeq
  <2>5. r \in Seq(Bytes) /\ Len(r) = Len(p) + Len(q)
        /\ \A i \in 1 .. Len(p) + Len(q) : r[i] = IF i <= Len(p) THEN p[i] ELSE q[i - Len(p)]
    BY <2>4, ConcatProperties, Zenon
  <2>6. SwapHalves(d) = r
    BY DEF SwapHalves, p, q
  <2> HIDE DEF r
  <2>7. r \in [1 .. Len(r) -> Bytes]
    BY <2>5, LenProperties
  <2>8. \A i \in 1 .. 8 : r[i] = p[i] /\ r[i + 8] = q[i]
    <3>1. \A i \in 1 .. 16 : r[i] = IF i <= 8 THEN p[i] ELSE q[i - 8]
      BY <2>4, <2>5
    <3>2. \A i \in 1 .. 8 : i \in 1 .. 16 /\ i + 8 \in 1 .. 16 /\ ~(i + 8 <= 8) /\ (i + 8) - 8 = i
      OBVIOUS
    <3> QED
      BY <3>1, <3>2
  <2> QED
    BY <2>3, <2>4, <2>5, <2>6, <2>7, <2>8
<1>2. SwapHalves(id) \in [1 .. 16 -> Bytes]
  BY <1>1
<1> DEFINE s == SwapHalves(id)
           t == SwapHalves(s)
<1>3. \A i \in 1 .. 8 : s[i] = id[i + 8] /\ s[i + 8] = id[i]
  BY <1>1
<1>4. t \in [1 .. 16 -> Bytes] /\ \A i \in 1 .. 8 : t[i] = s[i + 8] /\ t[i + 8] = s[i]
  BY <1>1, <1>2
<1> HIDE DEF s, t
<1>5. \A i \in 1 .. 8 : t[i] = id[i] /\ t[i + 8] = id[i + 8]
  BY <1>3, <1>4
<1>6. \A i \in 1 .. 16 : i \in 1 .. 8 \/ (i - 8 \in 1 .. 8 /\ i = (i - 8) + 8)
  OBVIOUS
<1>7. \A i \in 1 .. 16 : t[i] = id[i]
  BY <1>5, <1>6
<1>8. t = id
  BY <1>4, <1>7
<1> QED
  BY <1>2, <1>8 DEF s, t

\* The types of a message that is composed.
LEMMA MessageTypes ==
  ASSUME NEW m \in Messages
  PROVE  /\ m.MessageType \in Seq(Bytes) /\ m.MessageType # <<>>
         /\ \A i \in {1, Len(m.MessageType)} : m.MessageType[i] \notin Whitespace \cup {0}
         /\ m.SchemaVersion \in 0 .. Word - 1 /\ m.PayloadType \in 0 .. Word - 1
         /\ m.CreatedDate \in 1 .. LongWord - 1 /\ m.Flags \in 0 .. LongWord - 1
         /\ m.SequenceNumber \in -(LongWord \div 2) .. (LongWord \div 2) - 1
         /\ m.MessageId \in [1 .. 16 -> Bytes]
         /\ m.Payload \in Seq(Bytes) /\ 120 + Len(m.Payload) < Word
         /\ Digest(m.Payload) \in [1 .. 32 -> Bytes]
<1>1. IsMessage(m)
  BY LayoutAssumption
<1> QED
  BY <1>1, Offsets DEF IsMessage

\* The numbers of a message are integers.
LEMMA MessageNumbers ==
  ASSUME NEW m \in Messages
  PROVE  /\ Len(m.Payload) \in Nat /\ m.SchemaVersion \in Int /\ m.PayloadType \in Int
         /\ m.CreatedDate \in Int /\ m.Flags \in Int /\ m.SequenceNumber \in Int
         /\ Word \in Nat /\ LongWord \in Nat
<1>1. Word \in Nat /\ LongWord \in Nat
  BY WordDivMod DEF LongWord
<1>2. m.SchemaVersion \in 0 .. Word - 1
  BY MessageTypes
<1>3. m.PayloadType \in 0 .. Word - 1
  BY MessageTypes
<1>4. m.CreatedDate \in 1 .. LongWord - 1
  BY MessageTypes
<1>5. m.Flags \in 0 .. LongWord - 1
  BY MessageTypes
<1>6. m.SequenceNumber \in -(LongWord \div 2) .. (LongWord \div 2) - 1
  BY MessageTypes
<1>7. Len(m.Payload) \in Nat
  <2>1. m.Payload \in Seq(Bytes)
    BY MessageTypes
  <2> QED
    BY <2>1
<1> QED
  BY <1>1, <1>2, <1>3, <1>4, <1>5, <1>6, <1>7

\* What is put for each field.
LEMMA EncodedAs ==
  ASSUME NEW m
  PROVE  /\ Encoded(m, "HeaderLength") = IntegerToBytes(Offset.PayloadLength)
         /\ Encoded(m, "MessageType") = Padded(m.MessageType, 32)
         /\ Encoded(m, "SchemaVersion") = IntegerToBytes(m.SchemaVersion)
         /\ Encoded(m, "CreatedDate") = LongToBytes(m.CreatedDate)
         /\ Encoded(m, "SequenceNumber") = LongToBytes(m.SequenceNumber)
         /\ Encoded(m, "Flags") = LongToBytes(m.Flags)
         /\ Encoded(m, "MessageId") = SwapHalves(m.MessageId)
         /\ Encoded(m, "PayloadDigest") = Digest(m.Payload)
         /\ Encoded(m, "PayloadType") = IntegerToBytes(m.PayloadType)
         /\ Encoded(m, "PayloadLength") = IntegerToBytes(Len(m.Payload))
BY DEF Encoded, Size

\* What is put for a field has the field's length.
LEMMA EncodedFits ==
  ASSUME NEW m \in Messages, Fits(m), NEW f \in FieldNames
  PROVE  Encoded(m, f) \in [1 .. Size[f] -> Bytes]
<1>1. CASE f = "HeaderLength"
  <2>1. IntegerToBytes(Offset.PayloadLength) \in [1 .. 4 -> Bytes]
    BY Offsets, IntegerRead
  <2> QED
    BY <1>1, <2>1, EncodedAs, Sizes
<1>2. CASE f = "PayloadLength"
  <2>1. Len(m.Payload) \in Int
    BY MessageNumbers
  <2>2. IntegerToBytes(Len(m.Payload)) \in [1 .. 4 -> Bytes]
    BY <2>1, IntegerRead
  <2> QED
    BY <1>2, <2>2, EncodedAs, Sizes
<1>3. CASE f = "PayloadDigest"
  <2>1. Digest(m.Payload) \in [1 .. 32 -> Bytes]
    BY MessageTypes
  <2> QED
    BY <1>3, <2>1, EncodedAs, Sizes
<1>4. CASE f = "MessageType"
  <2>1. m.MessageType \in Seq(Bytes) /\ Space \in Bytes
    BY MessageTypes, LayoutAssumption
  <2>2. \A i \in DOMAIN m.MessageType : m.MessageType[i] \in Bytes
    BY <2>1, LenProperties
  <2>3. Padded(m.MessageType, 32) \in [1 .. 32 -> Bytes]
    BY <2>1, <2>2 DEF Padded
  <2> QED
    BY <1>4, <2>3, EncodedAs, Sizes
<1>5. CASE f = "MessageId"
  <2>1. SwapHalves(m.MessageId) \in [1 .. 16 -> Bytes]
    BY MessageTypes, SwapTwice
  <2> QED
    BY <1>5, <2>1, EncodedAs, Sizes
<1>6. CASE f = "SchemaVersion"
  <2>1. m.SchemaVersion \in Int
    BY MessageNumbers
  <2>2. IntegerToBytes(m.SchemaVersion) \in [1 .. 4 -> Bytes]
    BY <2>1, IntegerRead
  <2> QED
    BY <1>6, <2>2, EncodedAs, Sizes
<1>7. CASE f = "PayloadType"
  <2>1. m.PayloadType \in Int
    BY MessageNumbers
  <2>2. IntegerToBytes(m.PayloadType) \in [1 .. 4 -> Bytes]
    BY <2>1, IntegerRead
  <2> QED
    BY <1>7, <2>2, EncodedAs, Sizes
<1>8. CASE f = "CreatedDate"
  <2>1. m.CreatedDate \in Int
    BY MessageNumbers
  <2>2. LongToBytes(m.CreatedDate) \in [1 .. 8 -> Bytes]
    BY <2>1, LongRead
  <2> QED
    BY <1>8, <2>2, EncodedAs, Sizes
<1>9. CASE f = "SequenceNumber"
  <2>1. m.SequenceNumber \in Int
    BY MessageNumbers
  <2>2. LongToBytes(m.SequenceNumber) \in [1 .. 8 -> Bytes]
    BY <2>1, LongRead
  <2> QED
    BY <1>9, <2>2, EncodedAs, Sizes
<1>10. CASE f = "Flags"
  <2>1. m.Flags \in Int
    BY MessageNumbers
  <2>2. LongToBytes(m.Flags) \in [1 .. 8 -> Bytes]
    BY <2>1, LongRead
  <2> QED
    BY <1>10, <2>2, EncodedAs, Sizes
<1> QED
  BY <1>1, <1>2, <1>3, <1>4, <1>5, <1>6, <1>7, <1>8, <1>9, <1>10, Sizes

\* The serialized message: each field is where it belongs, and the payload behind
\* the header.
LEMMA SerializedAs ==
  ASSUME NEW m \in Messages, Fits(m)
  PROVE  /\ Serialized(m) \in [1 .. 120 + Len(m.Payload) -> Bytes]
         /\ \A f \in FieldNames : \A i \in 1 .. Size[f] :
                Serialized(m)[Offset[f] + i] = Encoded(m, f)[i]
         /\ \A i \in 1 .. Len(m.Payload) : Serialized(m)[120 + i] = m.Payload[i]
<1> DEFINE Put(i) == {k \in DOMAIN Fields : i \in Span(Fields[k])}
           Last(i) == Fields[Max(Put(i))]
           At(i) == IF i > 120 THEN m.Payload[i - 120]
                    ELSE IF Put(i) = {} THEN 0
                    ELSE Encoded(m, Last(i))[i - Offset[Last(i)]]
<1>1. Serialized(m) = [i \in 1 .. 120 + Len(m.Payload) |-> At(i)]
  BY Offsets DEF Serialized
<1>2. ASSUME NEW k \in DOMAIN Fields, NEW i \in Span(Fields[k])
      PROVE  /\ i \in 1 .. 120 /\ At(i) = Encoded(m, Fields[k])[i - Offset[Fields[k]]]
             /\ At(i) \in Bytes
  <2>1. Put(i) = {k}
    BY <1>2, WrittenOnce
  <2>2. Max(Put(i)) = k
    BY <2>1, MaxOfOne, EachField
  <2>3. i \in 1 .. 120 /\ i - Offset[Fields[k]] \in 1 .. Size[Fields[k]]
    BY SpanInHeader DEF Span
  <2>4. At(i) = Encoded(m, Fields[k])[i - Offset[Fields[k]]]
    <3> HIDE DEF Put
    <3> QED
      BY <2>1, <2>2, <2>3
  <2>5. Encoded(m, Fields[k]) \in [1 .. Size[Fields[k]] -> Bytes]
    BY EachField, EncodedFits
  <2> HIDE DEF At
  <2> QED
    BY <2>3, <2>4, <2>5
<1>3. ASSUME NEW i \in 1 .. 120 + Len(m.Payload)
      PROVE  At(i) \in Bytes
  <2>1. m.Payload \in Seq(Bytes)
    BY MessageTypes
  <2>2. CASE i > 120
    <3>1. i - 120 \in 1 .. Len(m.Payload)
      BY <2>1, <2>2
    <3>2. m.Payload[i - 120] \in Bytes
      BY <2>1, <3>1, ElementOfSeq
    <3> QED
      BY <2>2, <3>2
  <2>3. CASE ~(i > 120) /\ Put(i) = {}
    BY <2>3, LayoutAssumption DEF Bytes
  <2>4. CASE Put(i) # {}
    <3>1. PICK k \in DOMAIN Fields : i \in Span(Fields[k])
      BY <2>4
    <3> HIDE DEF At
    <3> QED
      BY <1>2, <3>1
  <2> HIDE DEF At, Put
  <2> QED
    BY <2>2, <2>3, <2>4
<1> HIDE DEF At
<1>4. Serialized(m) \in [1 .. 120 + Len(m.Payload) -> Bytes]
  BY <1>1, <1>3
<1>5. ASSUME NEW f \in FieldNames, NEW i \in 1 .. Size[f]
      PROVE  Serialized(m)[Offset[f] + i] = Encoded(m, f)[i]
  <2>1. PICK k \in DOMAIN Fields : f = Fields[k]
    BY EachField
  <2>2. Offset[f] \in Nat /\ Size[f] \in Nat
    BY <2>1, SpanInHeader
  <2>3. Offset[f] + i \in Span(Fields[k]) /\ (Offset[f] + i) - Offset[f] = i
    BY <2>1, <2>2 DEF Span
  <2>4. Offset[f] + i \in 1 .. 120 /\ At(Offset[f] + i) = Encoded(m, f)[i]
    BY <1>2, <2>1, <2>3
  <2>5. Offset[f] + i \in 1 .. 120 + Len(m.Payload)
    <3> DEFINE x == Offset[f] + i
               l == Len(m.Payload)
    <3>1. l \in Nat /\ x \in 1 .. 120
      BY <2>4, MessageNumbers
    <3> HIDE DEF x, l
    <3>2. x \in 1 .. 120 + l
      BY <3>1
    <3> QED
      BY <3>2 DEF x, l
  <2> QED
    BY <1>1, <2>4, <2>5
<1>6. ASSUME NEW i \in 1 .. Len(m.Payload)
      PROVE  Serialized(m)[120 + i] = m.Payload[i]
  <2>1. 120 + i \in 1 .. 120 + Len(m.Payload) /\ 120 + i > 120 /\ (120 + i) - 120 = i
    BY MessageNumbers
  <2>2. At(120 + i) = m.Payload[i]
    BY <2>1 DEF At
  <2> QED
    BY <1>1, <2>1, <2>2
<1> QED
  BY <1>4, <1>5, <1>6

-----------------------------------------------------------------------------
(* What is read. *)

\* Of numbers of which one is the least, Min is that one; and Max likewise.
LEMMA LeastIsMin ==
  ASSUME NEW K, K \subseteq Int, NEW x \in K, \A y \in K : x <= y
  PROVE  Min(K) = x
<1>1. Min(K) = CHOOSE z \in K : \A y \in K : z <= y
  BY DEF Min
<1>2. Min(K) \in K /\ \A y \in K : Min(K) <= y
  BY <1>1, Zenon
<1> DEFINE z == Min(K)
<1> HIDE DEF z
<1>3. z \in Int /\ x \in Int /\ z <= x /\ x <= z
  BY <1>2 DEF z
<1> QED
  BY <1>3 DEF z

\* As above.
LEMMA GreatestIsMax ==
  ASSUME NEW K, K \subseteq Int, NEW x \in K, \A y \in K : x >= y
  PROVE  Max(K) = x
<1>1. Max(K) = CHOOSE z \in K : \A y \in K : z >= y
  BY DEF Max
<1>2. Max(K) \in K /\ \A y \in K : Max(K) >= y
  BY <1>1, Zenon
<1> DEFINE z == Max(K)
<1> HIDE DEF z
<1>3. z \in Int /\ x \in Int /\ z >= x /\ x >= z
  BY <1>2 DEF z
<1> QED
  BY <1>3 DEF z

\* A tuple that begins with an element to keep and ends, from some position on, in
\* elements to cut.
EndsAt(p, cut, k) ==
    /\ DOMAIN p = 1 .. 32
    /\ p[1] \notin cut /\ p[k] \notin cut /\ \A i \in k + 1 .. 32 : p[i] \in cut

Prefix(p, k) == [i \in 1 .. k |-> p[i]]

\* What is left of it.
LEMMA TrimmedTo ==
  ASSUME NEW p, NEW cut, NEW k \in 1 .. 32, EndsAt(p, cut, k)
  PROVE  Trim(p, cut) = Prefix(p, k)
<1>0. DOMAIN p = 1 .. 32 /\ p[1] \notin cut /\ p[k] \notin cut
      /\ \A i \in k + 1 .. 32 : p[i] \in cut
  BY DEF EndsAt
<1> DEFINE K == {i \in DOMAIN p : p[i] \notin cut}
<1>1. 1 \in K /\ k \in K /\ K \subseteq 1 .. k
  BY <1>0
<1>2. Trim(p, cut) = SubSeq(p, Min(K), Max(K))
  BY <1>1 DEF Trim
<1> HIDE DEF K
<1>3. Min(K) = 1
  <2>1. K \subseteq Int /\ \A y \in K : 1 <= y
    BY <1>1
  <2> QED
    BY <1>1, <2>1, LeastIsMin
<1>4. Max(K) = k
  <2>1. K \subseteq Int /\ \A y \in K : k >= y
    BY <1>1
  <2> QED
    BY <1>1, <2>1, GreatestIsMax
<1>5. SubSeq(p, 1, k) = [i \in 1 .. k |-> p[i]]
  OBVIOUS
<1> QED
  BY <1>2, <1>3, <1>4, <1>5 DEF Prefix

IsTuple(t, k) == t \in [1 .. k -> Bytes]

\* A string without white space or zeros at its ends, filled up with spaces, is read
\* as it was.
LEMMA PaddedRoundTrip ==
  ASSUME NEW k \in 1 .. 32, NEW t, IsTuple(t, k),
         t[1] \notin Whitespace, t[1] # 0, t[k] \notin Whitespace, t[k] # 0
  PROVE  Trim(Trim(Padded(t, 32), {0}), Whitespace) = t
<1> DEFINE p == Padded(t, 32)
<1>1. Space \in Whitespace /\ Space # 0
  BY LayoutAssumption
<1>2. p = [i \in 1 .. 32 |-> IF i \in 1 .. k THEN t[i] ELSE Space]
  BY DEF Padded, IsTuple
<1>3. DOMAIN p = 1 .. 32
  BY <1>2
<1>4. Prefix(p, 32) = p
  BY <1>2 DEF Prefix
<1>5. \A i \in 1 .. k : p[i] = t[i]
  BY <1>2
<1>6. \A i \in k + 1 .. 32 : p[i] = Space
  BY <1>2
<1> HIDE DEF p
<1>7. p[1] = t[1]
  BY <1>5
<1>8. p[k] = t[k]
  BY <1>5
<1>9. p[32] # 0
  <2>1. CASE k = 32
    BY <1>8, <2>1
  <2>2. CASE k # 32
    BY <1>1, <1>6, <2>2
  <2> QED
    BY <2>1, <2>2
<1>10. Trim(p, {0}) = p
  <2>1. EndsAt(p, {0}, 32)
    <3>1. \A i \in 32 + 1 .. 32 : p[i] \in {0}
      OBVIOUS
    <3> QED
      BY <1>3, <1>7, <1>9, <3>1 DEF EndsAt
  <2>2. 32 \in 1 .. 32
    OBVIOUS
  <2>3. Trim(p, {0}) = Prefix(p, 32)
    BY <2>1, <2>2, TrimmedTo
  <2> QED
    BY <1>4, <2>3, Zenon
<1>11. Trim(p, Whitespace) = Prefix(p, k)
  <2>1. \A i \in k + 1 .. 32 : p[i] \in Whitespace
    BY <1>1, <1>6, Zenon
  <2>2. EndsAt(p, Whitespace, k)
    BY <1>3, <1>7, <1>8, <2>1 DEF EndsAt
  <2> QED
    BY <2>2, TrimmedTo
<1>12. Prefix(p, k) = t
  BY <1>5 DEF IsTuple, Prefix
<1> QED
  BY <1>10, <1>11, <1>12 DEF p

\* So is the type of a message.
LEMMA TypeRoundTrip ==
  ASSUME NEW m \in Messages, Fits(m)
  PROVE  Trim(Trim(Padded(m.MessageType, 32), {0}), Whitespace) = m.MessageType
<1> DEFINE t == m.MessageType
           k == Len(t)
<1>1. t \in Seq(Bytes) /\ t # <<>> /\ \A i \in {1, k} : t[i] \notin Whitespace \cup {0}
  BY MessageTypes
<1>2. k \in Nat /\ DOMAIN t = 1 .. k /\ k # 0 /\ t \in [1 .. k -> Bytes]
  BY <1>1, LenProperties, EmptySeq
<1>3. k <= 32
  BY Sizes DEF Fits
<1>4. t[1] \notin Whitespace /\ t[1] # 0 /\ t[k] \notin Whitespace /\ t[k] # 0
  BY <1>1
<1> HIDE DEF k, t
<1>5. k \in 1 .. 32
  BY <1>2, <1>3
<1>6. Trim(Trim(Padded(t, 32), {0}), Whitespace) = t
  BY <1>2, <1>4, <1>5, PaddedRoundTrip DEF IsTuple
<1> QED
  BY <1>6 DEF t

\* A field that arrived as it was written is read as it was sent.
LEMMA DecodedAsSent ==
  ASSUME message \in Messages, Fits(message), NEW b, NEW f \in FieldNames,
         Field(b, f) = Encoded(message, f)
  PROVE  Decoded(b, f) = Sent(f)
<1>1. CASE f = "HeaderLength"
  <2>1. BytesToInteger(IntegerToBytes(116)) = 116
    <3>1. 116 \in 0 .. Word - 1
      <4>1. 120 + Len(message.Payload) < Word
        BY MessageTypes
      <4> QED
        BY <4>1, MessageNumbers
    <3> QED
      BY <3>1, IntegerRoundTrip
  <2>2. Offset.PayloadLength = 116
    BY Offsets
  <2> QED
    BY <1>1, <2>1, <2>2, EncodedAs DEF Decoded, Sent
<1>2. CASE f = "PayloadLength"
  <2>1. Len(message.Payload) \in 0 .. Word - 1
    <3>1. 120 + Len(message.Payload) < Word
      BY MessageTypes
    <3> QED
      BY <3>1, MessageNumbers
  <2>2. BytesToInteger(IntegerToBytes(Len(message.Payload))) = Len(message.Payload)
    BY <2>1, IntegerRoundTrip
  <2> QED
    BY <1>2, <2>2, EncodedAs DEF Decoded, Sent
<1>3. CASE f = "PayloadDigest"
  BY <1>3, EncodedAs DEF Decoded, Sent
<1>4. CASE f = "MessageType"
  BY <1>4, EncodedAs, TypeRoundTrip DEF Decoded, Sent
<1>5. CASE f = "MessageId"
  <2>1. SwapHalves(SwapHalves(message.MessageId)) = message.MessageId
    BY MessageTypes, SwapTwice
  <2> QED
    BY <1>5, <2>1, EncodedAs DEF Decoded, Sent
<1>6. CASE f = "SchemaVersion"
  <2>1. BytesToInteger(IntegerToBytes(message.SchemaVersion)) = message.SchemaVersion
    BY MessageTypes, IntegerRoundTrip
  <2> QED
    BY <1>6, <2>1, EncodedAs DEF Decoded, Sent
<1>7. CASE f = "PayloadType"
  <2>1. BytesToInteger(IntegerToBytes(message.PayloadType)) = message.PayloadType
    BY MessageTypes, IntegerRoundTrip
  <2> QED
    BY <1>7, <2>1, EncodedAs DEF Decoded, Sent
<1>8. CASE f = "CreatedDate"
  <2>1. message.CreatedDate \in 0 .. LongWord - 1
    <3>1. message.CreatedDate \in 1 .. LongWord - 1
      BY MessageTypes
    <3> QED
      BY <3>1, MessageNumbers
  <2>2. BytesToULong(LongToBytes(message.CreatedDate)) = message.CreatedDate
    BY <2>1, ULongRoundTrip
  <2> QED
    BY <1>8, <2>2, EncodedAs DEF Decoded, Sent
<1>9. CASE f = "Flags"
  <2>1. BytesToULong(LongToBytes(message.Flags)) = message.Flags
    BY MessageTypes, ULongRoundTrip
  <2> QED
    BY <1>9, <2>1, EncodedAs DEF Decoded, Sent
<1>10. CASE f = "SequenceNumber"
  <2>1. BytesToLong(LongToBytes(message.SequenceNumber)) = message.SequenceNumber
    BY MessageTypes, LongRoundTrip
  <2> QED
    BY <1>10, <2>1, EncodedAs DEF Decoded, Sent
<1> QED
  BY <1>1, <1>2, <1>3, <1>4, <1>5, <1>6, <1>7, <1>8, <1>9, <1>10, Sizes

-----------------------------------------------------------------------------
(* The inductive invariant. *)

SentLength == 120 + Len(message.Payload)

\* What arrives: the bytes that were sent, except those that were touched.  Either one
\* of them was changed, or those behind some position are missing.
Delivered ==
    /\ Fits(message)
    /\ bytes \in Seq(Bytes) /\ Len(bytes) <= SentLength
    /\ \A i \in 1 .. SentLength :
           i \notin touched => i <= Len(bytes) /\ bytes[i] = Serialized(message)[i]
    /\ touched \subseteq 1 .. SentLength
    /\ (\A i, j \in touched : i = j) \/ (\A i \in touched : i > Len(bytes))

\* The two errors of DeserializeClientMessage, and its success.
IsShort == HeaderFits(bytes) => /\ PayloadStart(bytes) <= Len(bytes)
                               /\ ~HasField(bytes, "PayloadLength")
IsOutOfRange == HeaderFits(bytes) /\ PayloadStart(bytes) > Len(bytes)
IsWhole == /\ HeaderFits(bytes) /\ HasField(bytes, "PayloadLength")
           /\ PayloadStart(bytes) <= Len(bytes)
           /\ received = Deserialized(bytes)

Stages == {"composed", "unserializable", "sent", "arrived", "failed", "panicked", "read",
           "accepted", "rejected"}

IInv ==
    /\ message \in Messages /\ stage \in Stages
    /\ stage \in {"composed", "sent"} => touched = {}
    /\ stage = "sent" => Fits(message) /\ bytes = Serialized(message)
    /\ stage \in {"arrived", "failed", "panicked", "read", "accepted", "rejected"} => Delivered
    /\ stage = "failed" => IsShort
    /\ stage = "panicked" => IsOutOfRange
    /\ IsRead => IsWhole
    /\ stage = "accepted" => IsValid(received)
    /\ stage = "rejected" => ~IsValid(received)

\* A field that no damage touched is there, with what was put into it.
LEMMA UntouchedField ==
  ASSUME message \in Messages, Delivered, NEW f \in FieldNames, ~Touched(f)
  PROVE  HasField(bytes, f) /\ Field(bytes, f) = Encoded(message, f)
<1> DEFINE o == Offset[f]
           n == Size[f]
           l == Len(bytes)
<1>1. PICK k \in DOMAIN Fields : f = Fields[k]
  BY EachField
<1>2. o \in Nat /\ n \in Nat \ {0} /\ o + n <= 120
  BY <1>1, SpanInHeader
<1>3. SentLength \in Nat /\ SentLength >= 120 /\ l \in Nat
  <2>1. Len(message.Payload) \in Nat
    BY MessageNumbers
  <2> QED
    BY <2>1 DEF SentLength, Delivered
<1>4. \A i \in 1 .. n : o + i \in 1 .. SentLength /\ o + i \in o + 1 .. o + n
  BY <1>2, <1>3
<1>5. ASSUME NEW i \in 1 .. n
      PROVE  o + i <= l /\ bytes[o + i] = Encoded(message, f)[i]
  <2>1. o + i \notin touched
    BY <1>4 DEF Touched, Span
  <2>2. o + i <= l /\ bytes[o + i] = Serialized(message)[o + i]
    BY <1>4, <2>1 DEF Delivered
  <2>3. Serialized(message)[o + i] = Encoded(message, f)[i]
    BY SerializedAs DEF Delivered
  <2> QED
    BY <2>2, <2>3
<1>6. Encoded(message, f) \in [1 .. n -> Bytes]
  BY EncodedFits DEF Delivered
<1> HIDE DEF o, n, l
<1>7. o + n <= l
  <2>1. n \in 1 .. n
    BY <1>2
  <2> QED
    BY <1>5, <2>1
<1>8. SubSeq(bytes, o + 1, o + n) = [i \in 1 .. n |-> bytes[o + i]]
  <2>1. SubSeq(bytes, o + 1, o + n) = [i \in 1 .. (o + n) - (o + 1) + 1 |-> bytes[(o + 1) + i - 1]]
    BY <1>2
  <2>2. (o + n) - (o + 1) + 1 = n /\ \A i \in 1 .. n : (o + 1) + i - 1 = o + i
    BY <1>2
  <2> QED
    BY <2>1, <2>2
<1>9. SubSeq(bytes, o + 1, o + n) = Encoded(message, f)
  BY <1>5, <1>6, <1>8
<1> QED
  BY <1>7, <1>9 DEF o, n, l, HasField, Field

\* So it is read as it was sent.
LEMMA UntouchedAsSent ==
  ASSUME message \in Messages, Delivered, NEW f \in FieldNames, ~Touched(f)
  PROVE  Decoded(bytes, f) = Sent(f)
BY UntouchedField, DecodedAsSent DEF Delivered

\* The payload starts behind the header, unless HeaderLength was damaged.
LEMMA UntouchedStart ==
  ASSUME message \in Messages, Delivered, ~Touched("HeaderLength")
  PROVE  PayloadStart(bytes) = 120
<1>1. Decoded(bytes, "HeaderLength") = 116
  <2>1. "HeaderLength" \in FieldNames
    BY Sizes
  <2>2. Decoded(bytes, "HeaderLength") = Sent("HeaderLength")
    BY <2>1, UntouchedAsSent
  <2> QED
    BY <2>2, Offsets DEF Sent
<1>2. Word \in Nat /\ 120 < Word
  <2>1. 120 + Len(message.Payload) < Word
    BY MessageTypes
  <2> QED
    BY <2>1, MessageNumbers
<1>3. 120 % Word = 120
  BY <1>2
<1>4. Size.PayloadLength = 4
  BY DEF Size
<1> QED
  BY <1>1, <1>3, <1>4 DEF PayloadStart

\* And it is the payload that was sent, unless the payload was damaged as well.
LEMMA UntouchedPayload ==
  ASSUME message \in Messages, Delivered, ~Touched("HeaderLength"),
         \A i \in touched : ~(i > PayloadOffset)
  PROVE  SubSeq(bytes, PayloadStart(bytes) + 1, Len(bytes)) = message.Payload
<1> DEFINE p == message.Payload
           n == Len(p)
           l == Len(bytes)
<1>1. p \in Seq(Bytes) /\ p # <<>>
  BY MessageTypes DEF Delivered, Fits
<1>2. n \in Nat /\ n # 0 /\ p \in [1 .. n -> Bytes]
  BY <1>1, LenProperties, EmptySeq
<1>3. l \in Nat /\ l <= 120 + n
  BY DEF Delivered, SentLength
<1>4. ASSUME NEW i \in 1 .. n
      PROVE  120 + i <= l /\ bytes[120 + i] = p[i]
  <2>1. 120 + i \in 1 .. SentLength /\ 120 + i > 120
    BY <1>2 DEF SentLength
  <2>2. 120 + i \notin touched
    BY <2>1, Offsets
  <2>3. 120 + i <= l /\ bytes[120 + i] = Serialized(message)[120 + i]
    BY <2>1, <2>2 DEF Delivered
  <2>4. Serialized(message)[120 + i] = p[i]
    BY SerializedAs DEF Delivered
  <2> QED
    BY <2>3, <2>4
<1> HIDE DEF p, n, l
<1>5. l = 120 + n
  <2>1. n \in 1 .. n
    BY <1>2
  <2> QED
    BY <1>2, <1>3, <1>4, <2>1
<1>6. SubSeq(bytes, 120 + 1, 120 + n) = [i \in 1 .. n |-> bytes[120 + i]]
  <2>1. SubSeq(bytes, 120 + 1, 120 + n)
          = [i \in 1 .. (120 + n) - (120 + 1) + 1 |-> bytes[(120 + 1) + i - 1]]
    BY <1>2
  <2>2. (120 + n) - (120 + 1) + 1 = n /\ \A i \in 1 .. n : (120 + 1) + i - 1 = 120 + i
    BY <1>2
  <2> QED
    BY <2>1, <2>2
<1>7. SubSeq(bytes, 120 + 1, 120 + n) = p
  BY <1>2, <1>4, <1>6
<1>8. PayloadStart(bytes) = 120
  BY UntouchedStart
<1> QED
  BY <1>5, <1>7, <1>8 DEF p, l

\* What the receiver has made of the bytes.
LEMMA ReceivedAs ==
  ASSUME IsWhole
  PROVE  /\ \A f \in FieldNames : received[f] = Decoded(bytes, f)
         /\ received.Payload = SubSeq(bytes, PayloadStart(bytes) + 1, Len(bytes))
<1>1. "Payload" \notin FieldNames
  BY Sizes
<1> QED
  BY <1>1 DEF IsWhole, Deserialized

\* A message that nothing touched was well formed for Validate.
LEMMA UntouchedIsValid ==
  ASSUME message \in Messages, Delivered, IsWhole, touched = {}
  PROVE  IsValid(received)
<1>1. \A f \in FieldNames : received[f] = Sent(f)
  <2>1. \A f \in FieldNames : ~Touched(f)
    BY DEF Touched
  <2> QED
    BY <2>1, UntouchedAsSent, ReceivedAs
<1>2. received.Payload = message.Payload
  <2>1. ~Touched("HeaderLength") /\ \A i \in touched : ~(i > PayloadOffset)
    BY DEF Touched
  <2> QED
    BY <2>1, UntouchedPayload, ReceivedAs
<1>3. received.HeaderLength = 116 /\ received.MessageType = message.MessageType
      /\ received.CreatedDate = message.CreatedDate
      /\ received.PayloadDigest = Digest(message.Payload)
  BY <1>1, Sizes, Offsets DEF Sent
<1>4. message.MessageType # <<>>
  BY MessageTypes
<1>5. message.CreatedDate # 0
  <2>1. message.CreatedDate \in 1 .. LongWord - 1
    BY MessageTypes
  <2> QED
    BY <2>1, MessageNumbers
<1> QED
  BY <1>2, <1>3, <1>4, <1>5 DEF IsValid

\* A message that nothing touched is whole.
LEMMA UntouchedIsWhole ==
  ASSUME message \in Messages, Delivered, touched = {}
  PROVE  /\ HeaderFits(bytes) /\ HasField(bytes, "PayloadLength")
         /\ PayloadStart(bytes) <= Len(bytes)
<1>1. \A f \in FieldNames : HasField(bytes, f)
  BY UntouchedField DEF Touched
<1>2. PayloadStart(bytes) = 120
  BY UntouchedStart DEF Touched
<1>3. Offset["PayloadLength"] + Size["PayloadLength"] <= Len(bytes)
  BY <1>1, Sizes DEF HasField
<1> QED
  BY <1>1, <1>2, <1>3, Sizes, Offsets DEF HeaderFits

\* The damage that shows in a message is where it was done.
LEMMA InvariantIsLocal == IInv => DamageStaysLocal
<1> SUFFICES ASSUME IInv PROVE DamageStaysLocal
  OBVIOUS
<1>1. message \in Messages
  BY DEF IInv
<1>2. ASSUME IsRead
      PROVE  /\ \A f \in FieldNames : received[f] # Sent(f) => Touched(f)
             /\ received.Payload # message.Payload =>
                   Touched("HeaderLength") \/ \E i \in touched : i > PayloadOffset
  <2>1. Delivered /\ IsWhole
    BY <1>2 DEF IInv, IsRead
  <2>2. \A f \in FieldNames : ~Touched(f) => received[f] = Sent(f)
    BY <1>1, <2>1, UntouchedAsSent, ReceivedAs
  <2>3. ~Touched("HeaderLength") /\ (\A i \in touched : ~(i > PayloadOffset)) =>
          received.Payload = message.Payload
    BY <1>1, <2>1, UntouchedPayload, ReceivedAs
  <2> QED
    BY <2>2, <2>3
<1>3. ASSUME stage = "panicked"
      PROVE  Touched("HeaderLength") \/ Touched("PayloadLength")
  <2>1. Delivered /\ IsOutOfRange
    BY <1>3 DEF IInv
  <2>2. SUFFICES ASSUME ~Touched("HeaderLength"), ~Touched("PayloadLength") PROVE FALSE
    OBVIOUS
  <2>3. PayloadStart(bytes) = 120
    BY <1>1, <2>1, <2>2, UntouchedStart
  <2>4. HasField(bytes, "PayloadLength")
    BY <1>1, <2>1, <2>2, UntouchedField, Sizes
  <2>5. 116 + 4 <= Len(bytes) /\ Len(bytes) \in Nat
    BY <2>1, <2>4, Offsets, Sizes DEF HasField, Delivered
  <2> QED
    BY <2>1, <2>3, <2>5 DEF IsOutOfRange
<1>4. ASSUME stage \in {"failed", "rejected"}
      PROVE  touched # {}
  <2>1. Delivered
    BY <1>4 DEF IInv
  <2>2. SUFFICES ASSUME touched = {} PROVE FALSE
    OBVIOUS
  <2>3. CASE stage = "failed"
    BY <1>1, <2>1, <2>2, <2>3, UntouchedIsWhole DEF IInv, IsShort
  <2>4. CASE stage = "rejected"
    <3>1. IsWhole /\ ~IsValid(received)
      BY <2>4 DEF IInv, IsRead
    <3> QED
      BY <1>1, <2>1, <2>2, <3>1, UntouchedIsValid
  <2> QED
    BY <1>4, <2>3, <2>4
<1> QED
  BY <1>2, <1>3, <1>4 DEF DamageStaysLocal

\* Damage that may move the payload or change it has touched no other field of a
\* message that could be read.
LEMMA OtherFieldsUntouched ==
  ASSUME message \in Messages, Delivered, IsWhole,
         Touched("HeaderLength") \/ \E i \in touched : i > PayloadOffset,
         NEW f \in FieldNames, f # "HeaderLength"
  PROVE  ~Touched(f)
<1> SUFFICES ASSUME NEW j \in touched, j \in Span(f) PROVE FALSE
  BY DEF Touched
<1>1. PICK k \in DOMAIN Fields : f = Fields[k]
  BY EachField
<1>2. j \in Int /\ j <= 120
  BY <1>1, SpanInHeader DEF Span
<1>3. CASE \A i \in touched : i > Len(bytes)
  <2>1. 120 <= Len(bytes) /\ Len(bytes) \in Nat
    BY Offsets, Sizes DEF IsWhole, HasField, Delivered
  <2> QED
    BY <1>2, <1>3, <2>1
<1>4. CASE \A i, i2 \in touched : i = i2
  <2>1. CASE \E i \in touched : i > PayloadOffset
    BY <1>2, <1>4, <2>1, Offsets
  <2>2. CASE Touched("HeaderLength")
    <3>1. j \in Span("HeaderLength")
      BY <1>4, <2>2 DEF Touched
    <3>2. PICK h \in DOMAIN Fields : Fields[h] = "HeaderLength"
      BY EachField, Sizes
    <3>3. k \in {i \in DOMAIN Fields : j \in Span(Fields[i])}
      BY <1>1
    <3>4. {i \in DOMAIN Fields : j \in Span(Fields[i])} = {h}
      BY <3>1, <3>2, WrittenOnce
    <3> QED
      BY <1>1, <3>2, <3>3, <3>4
  <2> QED
    BY <2>1, <2>2
<1> QED
  BY <1>3, <1>4 DEF Delivered

\* No other payload has the digest of one that is composed.
NoCollision ==
    \A m \in Messages : \A q \in Seq(Bytes) : Digest(q) = Digest(m.Payload) => q = m.Payload

\* The receiver's slice of the message is a sequence of bytes, wherever it begins.
LEMMA SliceOfBytes ==
  ASSUME message \in Messages, Delivered, IsWhole
  PROVE  received.Payload \in Seq(Bytes)
<1> DEFINE b == Field(bytes, "HeaderLength")
           s == PayloadStart(bytes)
           l == Len(bytes)
<1>1. bytes \in Seq(Bytes) /\ l \in Nat /\ 120 <= l
  BY Offsets, Sizes DEF IsWhole, HasField, Delivered
<1>2. b = SubSeq(bytes, 0 + 1, 0 + 4)
  BY Offsets, Sizes DEF Field
<1>3. \A i \in 1 .. 4 : b[i] \in Bytes
  <2>1. \A i \in 1 .. 4 : b[i] = bytes[i] /\ i \in 1 .. l
    BY <1>1, <1>2
  <2> QED
    BY <1>1, <2>1, ElementOfSeq
<1>4. Decoded(bytes, "HeaderLength") = BytesToInteger(b)
  BY DEF Decoded
<1> HIDE DEF b
<1>5. BytesToInteger(b) \in Int
  <2>1. b[1] \in Int /\ b[2] \in Int /\ b[3] \in Int /\ b[4] \in Int
    BY <1>3, LayoutAssumption DEF Bytes
  <2> QED
    BY <2>1, LayoutAssumption DEF BytesToInteger
<1>6. s = (BytesToInteger(b) + 4) % Word
  BY <1>4 DEF PayloadStart, Size
<1>7. s \in Nat
  BY <1>5, <1>6, WordDivMod
<1> HIDE DEF s
<1>8. \A i \in s + 1 .. l : bytes[i] \in Bytes
  BY <1>1, <1>7, ElementOfSeq
<1>9. SubSeq(bytes, s + 1, l) \in Seq(Bytes)
  BY <1>1, <1>7, <1>8, SubSeqProperties
<1> QED
  BY <1>9, ReceivedAs DEF s

\* Under the invariant an accepted payload is the one that was sent, unless two payloads
\* have one digest.
LEMMA InvariantIsIntact ==
  ASSUME NoCollision
  PROVE  IInv => AcceptedPayloadIsIntact
<1> SUFFICES ASSUME IInv, stage = "accepted", message.MessageType \notin PublicationTypes
             PROVE  received.Payload = message.Payload
  BY DEF AcceptedPayloadIsIntact
<1>1. message \in Messages /\ Delivered /\ IsWhole /\ IsValid(received)
  BY DEF IInv, IsRead
<1>2. CASE ~Touched("HeaderLength") /\ \A i \in touched : ~(i > PayloadOffset)
  BY <1>1, <1>2, UntouchedPayload, ReceivedAs
<1>3. CASE Touched("HeaderLength") \/ \E i \in touched : i > PayloadOffset
  <2>1. \A f \in FieldNames \ {"HeaderLength"} : received[f] = Sent(f)
    BY <1>1, <1>3, OtherFieldsUntouched, UntouchedAsSent, ReceivedAs
  <2>2. received.MessageType = message.MessageType
        /\ received.PayloadLength = Len(message.Payload)
        /\ received.PayloadDigest = Digest(message.Payload)
    BY <2>1, Sizes DEF Sent
  <2>3. Len(message.Payload) # 0
    <3>1. message.Payload \in Seq(Bytes) /\ message.Payload # <<>>
      BY <1>1, MessageTypes DEF Delivered, Fits
    <3> QED
      BY <3>1, EmptySeq
  <2>4. Digest(received.Payload) = Digest(message.Payload)
    BY <1>1, <2>2, <2>3 DEF IsValid
  <2>5. received.Payload \in Seq(Bytes)
    BY <1>1, SliceOfBytes
  <2> QED
    BY <1>1, <2>4, <2>5 DEF NoCollision
<1> QED
  BY <1>2, <1>3

-----------------------------------------------------------------------------
(* The steps. *)

\* The damage that Arrive does is in one place, or at the end.
LEMMA ArriveDelivers ==
  ASSUME IInv, Arrive
  PROVE  Delivered'
<1> DEFINE S == Serialized(message)
           N == 120 + Len(message.Payload)
<1>1. message \in Messages /\ Fits(message) /\ bytes = S /\ touched = {} /\ message' = message
  BY DEF IInv, Arrive
<1>2. S \in [1 .. N -> Bytes] /\ N \in Nat
  BY <1>1, SerializedAs, MessageNumbers
<1>3. S \in Seq(Bytes) /\ Len(S) = N
  BY <1>2, FixedSeq
<1>4. Delivered' <=>
        /\ Fits(message)
        /\ bytes' \in Seq(Bytes) /\ Len(bytes') <= N
        /\ \A i \in 1 .. N : i \notin touched' => i <= Len(bytes') /\ bytes'[i] = S[i]
        /\ touched' \subseteq 1 .. N
        /\ (\A i, j \in touched' : i = j) \/ (\A i \in touched' : i > Len(bytes'))
  BY <1>1 DEF Delivered, SentLength
<1> HIDE DEF S, N
<1>5. CASE UNCHANGED <<bytes, touched>>
  BY <1>1, <1>2, <1>3, <1>4, <1>5
<1>6. ASSUME NEW i \in DOMAIN bytes, NEW b \in Bytes,
             bytes' = [bytes EXCEPT ![i] = b], touched' = {i}
      PROVE  Delivered'
  <2>1. i \in 1 .. N
    BY <1>1, <1>2, <1>6
  <2>2. bytes' \in [1 .. N -> Bytes] /\ \A j \in 1 .. N : j # i => bytes'[j] = S[j]
    BY <1>1, <1>2, <1>6
  <2>3. bytes' \in Seq(Bytes) /\ Len(bytes') = N
    BY <1>2, <2>2, FixedSeq
  <2> QED
    BY <1>1, <1>2, <1>4, <1>6, <2>1, <2>2, <2>3
<1>7. ASSUME NEW n \in 0 .. Len(bytes) - 1,
             bytes' = SubSeq(bytes, 1, n), touched' = n + 1 .. Len(bytes)
      PROVE  Delivered'
  <2>1. n \in Nat /\ n < N /\ touched' = n + 1 .. N
    BY <1>1, <1>2, <1>3, <1>7
  <2>2. bytes' = [i \in 1 .. n |-> S[i]]
    BY <1>1, <1>7, <2>1
  <2>3. bytes' \in [1 .. n -> Bytes] /\ \A i \in 1 .. n : bytes'[i] = S[i]
    BY <1>2, <2>1, <2>2
  <2>4. bytes' \in Seq(Bytes) /\ Len(bytes') = n
    BY <2>1, <2>3, FixedSeq
  <2>5. \A i \in 1 .. N : i \notin touched' => i \in 1 .. n
    BY <1>2, <2>1
  <2>6. touched' \subseteq 1 .. N /\ \A i \in touched' : i > n
    BY <1>2, <2>1
  <2> QED
    BY <1>1, <1>2, <1>4, <2>1, <2>3, <2>4, <2>5, <2>6
<1> QED
  BY <1>5, <1>6, <1>7 DEF Arrive

\* The invariant holds at the beginning.
LEMMA InitInvariant == Init => IInv
BY DEF Init, IInv, Stages, IsRead

\* Every step keeps it.
LEMMA NextInvariant == IInv /\ [Next]_vars => IInv'
<1> SUFFICES ASSUME IInv, [Next]_vars PROVE IInv'
  OBVIOUS
<1>1. CASE SerializeClientMessage
  BY <1>1 DEF SerializeClientMessage, IInv, Stages, IsRead
<1>2. CASE Arrive
  <2>1. Delivered'
    BY <1>2, ArriveDelivers
  <2>2. stage' = "arrived" /\ message' = message
    BY <1>2 DEF Arrive
  <2> QED
    BY <2>1, <2>2 DEF IInv, Stages, IsRead
<1>3. CASE DeserializeClientMessage
  <2>1. stage = "arrived" /\ Delivered /\ UNCHANGED <<message, bytes, touched>>
    BY <1>3 DEF DeserializeClientMessage, IInv
  <2>2. Delivered'
    BY <2>1 DEF Delivered, SentLength
  <2>3. CASE stage' = "failed" /\ IsShort
    <3>1. IsShort'
      BY <2>1, <2>3 DEF IsShort
    <3> QED
      BY <2>1, <2>2, <2>3, <3>1 DEF IInv, Stages, IsRead
  <2>4. CASE stage' = "panicked" /\ IsOutOfRange
    <3>1. IsOutOfRange'
      BY <2>1, <2>4 DEF IsOutOfRange
    <3> QED
      BY <2>1, <2>2, <2>4, <3>1 DEF IInv, Stages, IsRead
  <2>5. CASE stage' = "read" /\ IsWhole'
    BY <2>1, <2>2, <2>5 DEF IInv, Stages, IsRead
  <2>6. \/ stage' = "failed" /\ IsShort
        \/ stage' = "panicked" /\ IsOutOfRange
        \/ stage' = "read" /\ IsWhole'
    BY <1>3, <2>1 DEF DeserializeClientMessage, IsShort, IsOutOfRange, IsWhole
  <2> QED
    BY <2>3, <2>4, <2>5, <2>6
<1>4. CASE Validate
  <2>1. stage = "read" /\ Delivered /\ IsWhole
        /\ UNCHANGED <<message, bytes, touched, received>>
        /\ stage' = IF IsValid(received) THEN "accepted" ELSE "rejected"
    BY <1>4 DEF Validate, IInv, IsRead
  <2>2. Delivered' /\ IsWhole'
    BY <2>1 DEF Delivered, SentLength, IsWhole
  <2>3. (IsValid(received))' <=> IsValid(received)
    BY <2>1 DEF IsValid
  <2> QED
    BY <2>1, <2>2, <2>3 DEF IInv, Stages, IsRead
<1>5. CASE UNCHANGED vars
  <2>1. UNCHANGED <<message, bytes, touched, received, stage>>
    BY <1>5 DEF vars
  <2> QED
    BY <2>1 DEF IInv, IsRead, Delivered, SentLength, IsShort, IsOutOfRange, IsWhole, IsValid
<1> QED
  BY <1>1, <1>2, <1>3, <1>4, <1>5 DEF Next

\* The invariant holds always.
THEOREM Invariant == Spec => []IInv
BY InitInvariant, NextInvariant, PTL DEF Spec

\* Each field is read as it was written, for every message and every number of values
\* of a byte: damage stays in its field, an intact message is accepted, and the
\* receiver panics only when a length is damaged (SerializeClientMessage,
\* DeserializeClientMessage, Validate).
THEOREM DamageIsLocal == Spec => []DamageStaysLocal
BY Invariant, InvariantIsLocal, PTL

\* If no other payload has the digest of one that is sent, no damaged payload is
\* accepted, though PayloadLength is never compared with the payload and the digest
\* only when PayloadLength is not zero (Validate).
THEOREM AcceptedIsIntact ==
  ASSUME NoCollision
  PROVE  Spec => []AcceptedPayloadIsIntact
BY Invariant, InvariantIsIntact, PTL

=============================================================================
