---------------------------- MODULE MCClientMessage ----------------------------
(***************************************************************************)
(* Messages with the least and the greatest numbers, with an empty         *)
(* payload, and one that pauses the publication.  The halves of the        *)
(* identifier differ.                                                      *)
(***************************************************************************)
EXTENDS ClientMessage

Pause == <<3, 3, 2>>
Publications == {Pause, <<3, 2, 2>>}

MessageOf(type, date, number, payloadType, payload) ==
    [MessageType |-> type, SchemaVersion |-> 1, CreatedDate |-> date,
     SequenceNumber |-> number, Flags |-> 3,
     MessageId |-> [i \in 1 .. 16 |-> (i + i \div 4) % Radix],
     PayloadType |-> payloadType, Payload |-> payload]

\* No two payloads have the same digest, short ones at least.
ShortDigest(payload) ==
    IF Len(payload) < Radix
    THEN [i \in 1 .. 32 |-> IF i = 1 THEN Len(payload)
                            ELSE IF i - 1 \in DOMAIN payload THEN payload[i - 1] ELSE 0]
    ELSE [i \in 1 .. 32 |-> Radix - 1]

SomeMessages ==
    {MessageOf(<<2>>, 1, 0, 1, <<>>),
     MessageOf(<<2>>, 1, 0, 12, <<2>>),
     MessageOf(<<2, 1, 3>>, Radix ^ 8 - 1, Radix ^ 8 \div 2 - 1, 1, <<0, 3>>),
     MessageOf(Pause, 300, 7, 3, <<1, 0, 1>>)}
=============================================================================
