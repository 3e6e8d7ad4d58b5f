--------------------------- MODULE MCIncomingStream ---------------------------
(***************************************************************************)
(* Streams small enough for TLC: an agent that handshakes, one that also   *)
(* sets up encryption, and one too old to handshake.                       *)
(***************************************************************************)
EXTENDS IncomingStream

\* The kinds of the messages 0, 1, 2, ...
KindsOf(kinds) == [k \in SeqNos |-> kinds[k + 1]]

HandshakeKinds == KindsOf(<<"HandshakeRequest", "HandshakeComplete", "Output", "Output">>)

EncryptedKinds ==
    KindsOf(<<"HandshakeRequest", "EncChallengeRequest", "HandshakeComplete", "Output",
              "Output", "Output">>)

LegacyKinds == KindsOf(<<"Output", "Output", "Other", "Output">>)
=============================================================================
