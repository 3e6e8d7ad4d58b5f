------------------------------ MODULE Handshake ------------------------------
(***************************************************************************)
(* The handshake of the data channel: the agent requests actions, the      *)
(* plugin answers them one by one, proves that it holds the key, and       *)
(* learns that the session may start.  The data key comes from KMS; its    *)
(* two halves encrypt one direction each (Encrypter).                      *)
(*                                                                         *)
(* The data channel acknowledges a message of the handshake first, then    *)
(* processes it, then answers; only when the answer was sent does it move  *)
(* on.  So the agent may send a request again that was processed before,   *)
(* and one whose answer failed may never come again.                       *)
(***************************************************************************)
EXTENDS Integers, Sequences

CONSTANTS
    Requests,            \* the sequences of actions that agents request
    KmsOutcomes,         \* what KMS may do: "key", "noService", "noKey"
    MaxFailures          \* bound: how many acknowledgements and answers fail

ActionTypes == {"KMSEncryption", "ShellType", "PortType", "UnknownType", "UnknownAction"}

\* An agent asks for encryption once.
ASSUME HandshakeAssumption ==
    /\ Requests \subseteq Seq(ActionTypes)
    /\ \A r \in Requests : \A i, j \in DOMAIN r :
           r[i] = "KMSEncryption" /\ r[j] = "KMSEncryption" => i = j
    /\ KmsOutcomes \subseteq {"key", "noService", "noKey"}
    /\ MaxFailures \in Nat

VARIABLES
    IsAwsCliUpgradeNeeded,
    encryption,          \* NoEncrypter, Keyless, or the number of its data key
    encryptionEnabled,
    sessionType,         \* "" is "unset"
    isSessionTypeSet,    \* the channel of capacity 1
    processed,           \* the statuses of the processed actions, while processing
    keys,                \* how many data keys KMS has generated
    failures,            \* acknowledgements and answers that could not be sent
    request,             \* the actions this agent requests
    agent,               \* where the agent is
    coming,              \* will its message come (again)?
    answer,              \* the plugin's answer, on its way
    agentKey             \* the number of the agent's data key, 0 for none

pluginVars    == <<encryption, encryptionEnabled, sessionType, isSessionTypeSet, processed>>
agentVars     == <<request, agent, coming, answer, agentKey>>
handshakeVars == <<pluginVars, keys, failures, agentVars>>

NoEncrypter == -1
Keyless     == 0
HasKey(encrypter) == encrypter > 0

\* No request is being processed.
Idle     == <<"idle">>
NoAnswer == [to |-> "nothing"]

HandshakeInit ==
    /\ encryption = NoEncrypter /\ encryptionEnabled = FALSE
    /\ sessionType = "unset" /\ isSessionTypeSet = <<>>
    /\ processed = Idle
    /\ keys = 0 /\ failures = 0
    /\ \/ agent = "requesting" /\ request \in Requests
       \/ agent = "legacy" /\ request = <<>>
    /\ coming = TRUE /\ answer = NoAnswer /\ agentKey = 0

-----------------------------------------------------------------------------
(* Encrypter: what it seals opens with the other side's half of the key. *)

\* Mutant of EncryptionKey: both directions use the first half.
FirstHalf(key) == <<key, "first">>

\* generateEncryptionKey splits the data key; the agent swaps the halves.
DecryptionKey(key) == <<key, "first">>
EncryptionKey(key) == <<key, "second">>
AgentEncryptionKey(key) == <<key, "first">>
AgentDecryptionKey(key) == <<key, "second">>

\* What is not encrypted; and the half a payload of type Output is sealed with.
Clear == <<0, "none">>
Sealed == IF encryptionEnabled THEN EncryptionKey(encryption) ELSE Clear

\* Encrypt fails without a key, and Decrypt also with another key.
CanSend == encryptionEnabled => HasKey(encryption)
CanRead(seal) ==
    encryptionEnabled => HasKey(encryption) /\ seal = DecryptionKey(encryption)

-----------------------------------------------------------------------------
(* The agent and the network under it are external. *)

\* What the agent sends: sealed, if it has a key.
AgentSeal == IF agentKey = 0 THEN Clear ELSE AgentEncryptionKey(agentKey)
AgentCanRead(seal) ==
    seal = IF agentKey = 0 THEN Clear ELSE AgentDecryptionKey(agentKey)

StatusOf(action) ==
    {answer.statuses[i] : i \in {j \in DOMAIN request : request[j] = action}}

\* The response arrives.  An agent that asked for encryption goes on only with it.
AgentTakesResponse ==
    /\ agent = "requesting" /\ answer.to = "HandshakeRequest"
    /\ answer' = NoAnswer
    /\ \/ /\ StatusOf("KMSEncryption") = {"Success"}
          /\ agent' = "challenging" /\ agentKey' = answer.key /\ coming' = TRUE
       \/ /\ StatusOf("KMSEncryption") = {}
          /\ agent' = "completing" /\ coming' = TRUE /\ UNCHANGED agentKey
       \/ /\ "Success" \notin StatusOf("KMSEncryption")
          /\ agent' = "closing" /\ UNCHANGED <<agentKey, coming>>
    /\ UNCHANGED <<pluginVars, keys, failures, request>>

\* The answer to the challenge arrives: the agent compares it with its challenge.
AgentTakesChallenge ==
    /\ agent = "challenging" /\ answer.to = "EncChallengeRequest"
    /\ answer' = NoAnswer
    /\ agent' = IF AgentCanRead(answer.seal) THEN "completing" ELSE "closing"
    /\ coming' = TRUE
    /\ UNCHANGED <<pluginVars, keys, failures, request, agentKey>>

-----------------------------------------------------------------------------
(* HandleOutputMessage's cases for the messages of the handshake. *)

\* The agent's message arrives in its turn.
Arrives(from) == agent = from /\ coming /\ processed = Idle

\* A send fails; the acknowledgement of the message may have been lost with it.
SendFails == failures < MaxFailures /\ failures' = failures + 1

\* The acknowledgement fails: the message comes again.
AcknowledgeFails ==
    /\ \E from \in {"requesting", "challenging", "completing"} : Arrives(from)
    /\ SendFails
    /\ UNCHANGED <<pluginVars, keys, agentVars>>

\* Mutant of Answered: the agent's message is processed again when it comes again.
AnsweredAgain(reply) ==
    \/ /\ answer' = reply
       /\ coming' \in BOOLEAN
       /\ UNCHANGED failures
    \/ /\ SendFails
       /\ coming' \in BOOLEAN
       /\ UNCHANGED answer

\* The answer is sent and the channel moves on; or the send fails, the channel
\* waits for the message, and the agent repeats it unless it was acknowledged.
Answered(reply) ==
    \/ /\ answer' = reply
       /\ coming' = FALSE
       /\ UNCHANGED failures
    \/ /\ SendFails
       /\ coming' \in BOOLEAN
       /\ UNCHANGED answer

\* handleHandshakeRequest, up to the loop.
BeginRequest ==
    /\ Arrives("requesting")
    /\ processed' = <<>>
    /\ UNCHANGED <<encryption, encryptionEnabled, sessionType, isSessionTypeSet, keys,
                   failures, agentVars>>

Current(action) ==
    /\ processed # Idle /\ Len(processed) < Len(request)
    /\ request[Len(processed) + 1] = action

Report(status) == processed' = Append(processed, status)

\* NewEncrypter: GenerateDataKey gives a new key, or leaves an encrypter without.
NewEncrypter(outcome) ==
    IF outcome = "key" THEN keys' = keys + 1 /\ encryption' = keys'
                       ELSE encryption' = Keyless /\ UNCHANGED keys

\* The KMS action: refused for an old CLI, and without a KMS service; else the
\* encrypter is replaced, whether or not KMS gave it a key.
ProcessKMSEncryptionHandshakeAction ==
    /\ Current("KMSEncryption")
    /\ \/ /\ IsAwsCliUpgradeNeeded \/ "noService" \in KmsOutcomes
          /\ Report("Failed")
          /\ UNCHANGED <<encryption, encryptionEnabled, keys>>
       \/ /\ ~IsAwsCliUpgradeNeeded
          /\ \E outcome \in KmsOutcomes \ {"noService"} :
                /\ NewEncrypter(outcome)
                /\ Report(IF outcome = "key" THEN "Success" ELSE "Failed")
                /\ encryptionEnabled' = (encryptionEnabled \/ outcome = "key")
    /\ UNCHANGED <<sessionType, isSessionTypeSet, failures, agentVars>>

\* Mutant of ProcessSessionTypeHandshakeAction: a type is announced at once.
AnnounceAtOnce ==
    /\ \E name \in {"ShellType", "PortType", "UnknownType"} :
          /\ Current(name)
          /\ IF name = "UnknownType"
             THEN Report("Failed") /\ UNCHANGED <<sessionType, isSessionTypeSet>>
             ELSE /\ sessionType' = IF name = "PortType" THEN "Port" ELSE "Standard_Stream"
                  /\ isSessionTypeSet' = <<TRUE>>
                  /\ Report("Success")
    /\ UNCHANGED <<encryption, encryptionEnabled, keys, failures, agentVars>>

\* The session type: a shell's names are one type, an unknown one is refused.
TypeNamed == [ShellType |-> "Standard_Stream", PortType |-> "Port"]
ProcessSessionTypeHandshakeAction ==
    /\ \E name \in {"ShellType", "PortType", "UnknownType"} :
          /\ Current(name)
          /\ IF name \in DOMAIN TypeNamed
             THEN sessionType' = TypeNamed[name] /\ Report("Success")
             ELSE Report("Failed") /\ UNCHANGED sessionType
    /\ UNCHANGED <<encryption, encryptionEnabled, isSessionTypeSet, keys, failures, agentVars>>

\* An action nobody knows: ActionResult says so, ActionStatus keeps its zero.
RejectAction ==
    /\ Current("UnknownAction")
    /\ Report("zero")
    /\ UNCHANGED <<encryption, encryptionEnabled, sessionType, isSessionTypeSet, keys,
                   failures, agentVars>>

\* sendHandshakeResponse, with the key that KMS encrypted for the agent.
SendHandshakeResponse ==
    /\ processed # Idle /\ Len(processed) = Len(request)
    /\ processed' = Idle
    /\ Answered([to |-> "HandshakeRequest", statuses |-> processed, key |-> encryption])
    /\ UNCHANGED <<encryption, encryptionEnabled, sessionType, isSessionTypeSet, keys,
                   request, agent, agentKey>>

\* handleEncryptionChallengeRequest: the challenge is decrypted, encrypted with the
\* other half, and sent back.  What cannot be decrypted stops the stream.
HandleEncryptionChallengeRequest ==
    /\ Arrives("challenging")
    /\ HasKey(encryption) /\ AgentSeal = DecryptionKey(encryption)
    /\ Answered([to |-> "EncChallengeRequest", seal |-> EncryptionKey(encryption)])
    /\ UNCHANGED <<pluginVars, keys, request, agent, agentKey>>

\* Mutant of HandleHandshakeComplete: only a known type is announced.
AnnounceKnownType ==
    /\ Arrives("completing")
    /\ isSessionTypeSet = <<>>
    /\ isSessionTypeSet' = IF sessionType # "unset" THEN <<TRUE>> ELSE <<>>
    /\ agent' = "serving" /\ coming' = FALSE
    /\ UNCHANGED <<encryption, encryptionEnabled, sessionType, processed, keys, failures,
                   request, answer, agentKey>>

\* handleHandshakeComplete: Execute is told whether there is a session type.
HandleHandshakeComplete ==
    /\ Arrives("completing")
    /\ isSessionTypeSet = <<>>
    /\ isSessionTypeSet' = <<sessionType # "unset">>
    /\ agent' = "serving" /\ coming' = FALSE
    /\ UNCHANGED <<encryption, encryptionEnabled, sessionType, processed, keys, failures,
                   request, answer, agentKey>>

\* An agent too old for a handshake sends output first: ProcessFirstMessage takes
\* that for a shell's.
ProcessFirstMessage ==
    /\ Arrives("legacy")
    /\ isSessionTypeSet = <<>>
    /\ sessionType' = "Standard_Stream"
    /\ isSessionTypeSet' = <<TRUE>>
    /\ agent' = "serving" /\ coming' = FALSE
    /\ UNCHANGED <<encryption, encryptionEnabled, processed, keys, failures, request, answer,
                   agentKey>>

\* The listener's statements.
HandleHandshake ==
    \/ AcknowledgeFails \/ BeginRequest
    \/ ProcessKMSEncryptionHandshakeAction \/ ProcessSessionTypeHandshakeAction
    \/ RejectAction \/ SendHandshakeResponse
    \/ HandleEncryptionChallengeRequest \/ HandleHandshakeComplete \/ ProcessFirstMessage

AgentStep == AgentTakesResponse \/ AgentTakesChallenge

-----------------------------------------------------------------------------
(* Properties. *)

\* Every variable has its type.
HandshakeTypeOK ==
    /\ encryptionEnabled \in BOOLEAN /\ coming \in BOOLEAN
    /\ IsAwsCliUpgradeNeeded \in BOOLEAN
    /\ keys \in Nat /\ failures \in 0 .. MaxFailures
    /\ encryption \in {NoEncrypter, Keyless} \cup 1 .. keys
    /\ agentKey \in 0 .. keys
    /\ sessionType \in {"unset", "Standard_Stream", "Port"}
    /\ isSessionTypeSet \in {<<>>, <<TRUE>>, <<FALSE>>}
    /\ request \in Requests \cup {<<>>}
    /\ processed \in {Idle} \cup Seq({"Success", "Failed", "zero"})
    /\ agent \in {"requesting", "legacy", "challenging", "completing", "serving", "closing"}

\* Once the agent has a key, the plugin uses the same key until the session ends,
\* however often the handshake was repeated, KMS failed, or an answer was lost on
\* the way (ProcessKMSEncryptionHandshakeAction replaces the encrypter).
KeysAgree ==
    agentKey > 0 => encryptionEnabled /\ encryption = agentKey

\* Each side can decrypt what the other encrypts from then on, and before it
\* neither encrypts ("Agent must be able to decrypt this", handshakemessage.go:76).
SidesUnderstandEachOther ==
    agent \in {"challenging", "completing", "serving"} =>
        CanSend /\ AgentCanRead(Sealed) /\ CanRead(AgentSeal)
=============================================================================
