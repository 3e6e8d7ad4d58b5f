----------------------------- MODULE ClientMessage -----------------------------
(***************************************************************************)
(* The layout of a client message (message/): one side serializes it, on   *)
(* its way it may be cut or have a byte changed, and the other side        *)
(* deserializes and validates it.  Offsets and sizes are the code's; a     *)
(* byte has Radix values, so that TLC can compute with eight of them.      *)
(***************************************************************************)
EXTENDS Integers, Sequences, FiniteSetsExt

CONSTANTS
    Radix,               \* the number of values of a byte, 256 in the code
    Space,               \* the byte ' ', which putString fills up with
    Whitespace,          \* the bytes that strings.TrimSpace takes off
    Digest(_),           \* the SHA-256 digest of a payload
    Messages,            \* messages that are composed
    PublicationTypes     \* start_publication, pause_publication

VARIABLES
    message,             \* what the sender composed
    bytes,               \* its serialization, as it is under way
    touched,             \* the positions that were changed or cut off
    received,            \* what the receiver made of it
    stage                \* how far it has come

vars == <<message, bytes, touched, received, stage>>

-----------------------------------------------------------------------------
(* The layout. *)

\* In the order in which they are written.
Fields == <<"HeaderLength", "MessageType", "SchemaVersion", "CreatedDate", "SequenceNumber",
            "Flags", "MessageId", "PayloadDigest", "PayloadType", "PayloadLength">>

Size == [HeaderLength |-> 4, MessageType |-> 32, SchemaVersion |-> 4, CreatedDate |-> 8,
         SequenceNumber |-> 8, Flags |-> 8, MessageId |-> 16, PayloadDigest |-> 32,
         PayloadType |-> 4, PayloadLength |-> 4]

FieldNames == DOMAIN Size

\* Each field begins where the one before it ends.
Offset ==
    LET type    == Size.HeaderLength
        version == type    + Size.MessageType
        date    == version + Size.SchemaVersion
        number  == date    + Size.CreatedDate
        flags   == number  + Size.SequenceNumber
        id      == flags   + Size.Flags
        digest  == id      + Size.MessageId
        kind    == digest  + Size.PayloadDigest
    IN  [HeaderLength |-> 0, MessageType |-> type, SchemaVersion |-> version,
         CreatedDate |-> date, SequenceNumber |-> number, Flags |-> flags,
         MessageId |-> id, PayloadDigest |-> digest, PayloadType |-> kind,
         PayloadLength |-> kind + Size.PayloadType]
PayloadOffset == Offset.PayloadLength + Size.PayloadLength

Span(f) == Offset[f] + 1 .. Offset[f] + Size[f]

-----------------------------------------------------------------------------
(* Messages. *)

Bytes == 0 .. Radix - 1
Word == Radix * Radix * Radix * Radix      \* the numbers of four bytes
LongWord == Word * Word                    \* of eight

\* The types of the struct.  No type of a message begins or ends with white space,
\* and no payload is so long that the sum of 32 bits wraps.
IsMessage(m) ==
    /\ m.MessageType \in Seq(Bytes) \ {<<>>}
    /\ \A i \in {1, Len(m.MessageType)} : m.MessageType[i] \notin Whitespace \cup {0}
    /\ m.SchemaVersion \in 0 .. Word - 1 /\ m.PayloadType \in 0 .. Word - 1
    /\ m.CreatedDate \in 1 .. LongWord - 1 /\ m.Flags \in 0 .. LongWord - 1
    /\ m.SequenceNumber \in -(LongWord \div 2) .. (LongWord \div 2) - 1
    /\ m.MessageId \in [1 .. 16 -> Bytes]
    /\ m.Payload \in Seq(Bytes) /\ PayloadOffset + Len(m.Payload) < Word
    /\ Digest(m.Payload) \in [1 .. 32 -> Bytes]

ASSUME LayoutAssumption ==
    /\ Radix \in Nat \ {0, 1}
    /\ Space \in Whitespace /\ Whitespace \subseteq Bytes \ {0}
    /\ \A m \in Messages : IsMessage(m)

Init ==
    /\ message \in Messages
    /\ bytes = <<>> /\ touched = {} /\ received = <<>>
    /\ stage = "composed"

-----------------------------------------------------------------------------
(* Conversions. *)

High(n) == n \div Radix

\* The low four bytes of an integer, the highest first; and the low eight.
IntegerToBytes(n) ==
    <<High(High(High(n))) % Radix, High(High(n)) % Radix, High(n) % Radix, n % Radix>>
LongToBytes(n) == IntegerToBytes(n \div Word) \o IntegerToBytes(n % Word)

BytesToInteger(b) == ((b[1] * Radix + b[2]) * Radix + b[3]) * Radix + b[4]
BytesToULong(b) ==
    BytesToInteger(SubSeq(b, 1, 4)) * Word + BytesToInteger(SubSeq(b, 5, 8))
BytesToLong(b) ==
    IF BytesToULong(b) < LongWord \div 2 THEN BytesToULong(b) ELSE BytesToULong(b) - LongWord

Trim(b, cut) ==
    LET kept == {i \in DOMAIN b : b[i] \notin cut}
    IN  IF kept = {} THEN <<>> ELSE SubSeq(b, Min(kept), Max(kept))

\* Mutant of SwapHalves: a half is repeated.
RepeatHalf(id) == SubSeq(id, 9, 16) \o SubSeq(id, 9, 16)

\* A UUID travels with its second half first.
SwapHalves(id) == SubSeq(id, 9, 16) \o SubSeq(id, 1, 8)

-----------------------------------------------------------------------------
(* SerializeClientMessage. *)

\* putString fills up with spaces.
Padded(b, size) == [i \in 1 .. size |-> IF i \in DOMAIN b THEN b[i] ELSE Space]

\* What is put where each field is.
Encoded(m, f) ==
    CASE f = "HeaderLength"  -> IntegerToBytes(Offset.PayloadLength)
      [] f = "PayloadLength" -> IntegerToBytes(Len(m.Payload))
      [] f = "PayloadDigest" -> Digest(m.Payload)
      [] f = "MessageType"   -> Padded(m[f], Size[f])
      [] f = "MessageId"     -> SwapHalves(m[f])
      [] f \in {"SchemaVersion", "PayloadType"} -> IntegerToBytes(m[f])
      [] OTHER               -> LongToBytes(m[f])

\* putString needs a type that fits, and putBytes a payload that is not empty.
Fits(m) == Len(m.MessageType) <= Size.MessageType /\ m.Payload # <<>>

\* At each position is what was put there last, or the zero of the new slice.
Serialized(m) ==
    LET Put(i) == {k \in DOMAIN Fields : i \in Span(Fields[k])}
        Last(i) == Fields[Max(Put(i))]
    IN  [i \in 1 .. PayloadOffset + Len(m.Payload) |->
            IF i > PayloadOffset THEN m.Payload[i - PayloadOffset]
            ELSE IF Put(i) = {} THEN 0
            ELSE Encoded(m, Last(i))[i - Offset[Last(i)]]]

SerializeClientMessage ==
    /\ stage = "composed"
    /\ IF Fits(message)
       THEN bytes' = Serialized(message) /\ stage' = "sent"
       ELSE stage' = "unserializable" /\ UNCHANGED bytes
    /\ UNCHANGED <<message, touched, received>>

-----------------------------------------------------------------------------
(* On its way. *)

Arrive ==
    /\ stage = "sent"
    /\ stage' = "arrived"
    /\ \/ UNCHANGED <<bytes, touched>>
       \/ \E i \in DOMAIN bytes, b \in Bytes :
             /\ b # bytes[i]
             /\ bytes' = [bytes EXCEPT ![i] = b]
             /\ touched' = {i}
       \/ \E n \in 0 .. Len(bytes) - 1 :
             /\ bytes' = SubSeq(bytes, 1, n)
             /\ touched' = n + 1 .. Len(bytes)
    /\ UNCHANGED <<message, received>>

-----------------------------------------------------------------------------
(* DeserializeClientMessage and Validate. *)

\* Is the whole field there?
HasField(b, f) == Offset[f] + Size[f] <= Len(b)

Field(b, f) == SubSeq(b, Offset[f] + 1, Offset[f] + Size[f])

Decoded(b, f) ==
    CASE f = "MessageType"    -> Trim(Trim(Field(b, f), {0}), Whitespace)
      [] f = "MessageId"      -> SwapHalves(Field(b, f))
      [] f = "PayloadDigest"  -> Field(b, f)
      [] f = "SequenceNumber" -> BytesToLong(Field(b, f))
      [] f \in {"CreatedDate", "Flags"} -> BytesToULong(Field(b, f))
      [] OTHER                -> BytesToInteger(Field(b, f))

\* Where the payload is taken from: a sum of 32 bits.
PayloadStart(b) == (Decoded(b, "HeaderLength") + Size.PayloadLength) % Word

HeaderFits(b) == \A f \in FieldNames \ {"PayloadLength"} : HasField(b, f)

Deserialized(b) ==
    [f \in FieldNames \cup {"Payload"} |->
        IF f = "Payload" THEN SubSeq(b, PayloadStart(b) + 1, Len(b)) ELSE Decoded(b, f)]

\* The payload is sliced before the error of a missing PayloadLength is returned,
\* and out of range if the header is said to end behind the message.
DeserializeClientMessage ==
    /\ stage = "arrived"
    /\ \/ /\ HeaderFits(bytes) => /\ PayloadStart(bytes) <= Len(bytes)
                                  /\ ~HasField(bytes, "PayloadLength")
          /\ stage' = "failed"
          /\ UNCHANGED received
       \/ /\ HeaderFits(bytes)
          /\ PayloadStart(bytes) > Len(bytes)
          /\ stage' = "panicked"
          /\ UNCHANGED received
       \/ /\ HeaderFits(bytes) /\ HasField(bytes, "PayloadLength")
          /\ PayloadStart(bytes) <= Len(bytes)
          /\ stage' = "read"
          /\ received' = Deserialized(bytes)
    /\ UNCHANGED <<message, bytes, touched>>

\* Mutant of IsValid: lengths are compared, not digests.
HasValidLength(m) ==
    \/ m.MessageType \in PublicationTypes
    \/ /\ m.HeaderLength # 0 /\ m.MessageType # <<>> /\ m.CreatedDate # 0
       /\ m.PayloadLength = Len(m.Payload)

IsValid(m) ==
    \/ m.MessageType \in PublicationTypes
    \/ /\ m.HeaderLength # 0 /\ m.MessageType # <<>> /\ m.CreatedDate # 0
       /\ m.PayloadLength # 0 => Digest(m.Payload) = m.PayloadDigest

Validate ==
    /\ stage = "read"
    /\ stage' = IF IsValid(received) THEN "accepted" ELSE "rejected"
    /\ UNCHANGED <<message, bytes, touched, received>>

Next == SerializeClientMessage \/ Arrive \/ DeserializeClientMessage \/ Validate

Spec == Init /\ [][Next]_vars

-----------------------------------------------------------------------------
(* Correctness. *)

IsRead == stage \in {"read", "accepted", "rejected"}

\* What was composed, as the receiver should see it.
Sent(f) ==
    CASE f = "HeaderLength"  -> Offset.PayloadLength
      [] f = "PayloadLength" -> Len(message.Payload)
      [] f = "PayloadDigest" -> Digest(message.Payload)
      [] OTHER               -> message[f]

Touched(f) == touched \cap Span(f) # {}

\* The fields do not overlap, and each is read as it was written: a message that
\* arrives whole is accepted with what was sent in it; damage to one field changes
\* no other, except that HeaderLength finds the payload; and only damage to the two
\* lengths makes the receiver panic (SerializeClientMessage,
\* DeserializeClientMessage).
DamageStaysLocal ==
    /\ IsRead =>
          /\ \A f \in FieldNames : received[f] # Sent(f) => Touched(f)
          /\ received.Payload # message.Payload =>
                \/ Touched("HeaderLength")
                \/ \E i \in touched : i > PayloadOffset
    /\ stage = "panicked" => Touched("HeaderLength") \/ Touched("PayloadLength")
    /\ stage \in {"failed", "rejected"} => touched # {}

\* A payload that was cut, changed or taken from the wrong place is not accepted,
\* except in publication messages, whose payload nobody looks at (Validate).
AcceptedPayloadIsIntact ==
    stage = "accepted" /\ message.MessageType \notin PublicationTypes =>
        received.Payload = message.Payload
=============================================================================
