--------------------------- MODULE HandshakeProofs ---------------------------
(***************************************************************************)
(* What every step of the handshake preserves, for every set of requests,  *)
(* every behaviour of KMS and any number of failing answers.               *)
(*                                                                         *)
(* The two sides agree on a key because a status of Success stands for the *)
(* encrypter of this very moment: once processed, a request that asks for  *)
(* encryption is answered before anything replaces the encrypter, and an   *)
(* agent that took the answer asks for no other.                           *)
(***************************************************************************)
EXTENDS Handshake, TLAPS

\* Where the statuses report a key, the encrypter has it and is in use.
Honest(statuses) ==
    \A i \in 1 .. Len(statuses) :
        request[i] = "KMSEncryption" /\ statuses[i] = "Success" =>
            encryptionEnabled /\ HasKey(encryption)

\* The key, and who knows about it.
KeyInv ==
    /\ encryptionEnabled => \E i \in 1 .. Len(request) : request[i] = "KMSEncryption"
    /\ agent \in {"requesting", "legacy"} => agentKey = 0
    /\ agent = "legacy" => ~encryptionEnabled
    /\ agentKey > 0 => encryptionEnabled /\ encryption = agentKey
    /\ agent = "challenging" => agentKey > 0
    /\ agent \in {"completing", "serving"} /\ agentKey = 0 => ~encryptionEnabled

\* The request while it is processed, and its answer on the way.
AnswerInv ==
    /\ processed # Idle =>
          /\ agent = "requesting" /\ coming
          /\ Len(processed) <= Len(request) /\ Honest(processed)
    /\ coming => answer = NoAnswer
    /\ answer.to = "HandshakeRequest" =>
          /\ agent = "requesting"
          /\ answer.statuses \in Seq({"Success", "Failed", "zero"})
          /\ Len(answer.statuses) = Len(request) /\ Honest(answer.statuses)
          /\ answer.key = encryption

\* HandshakeTypeOK in two parts.
Flags ==
    /\ encryptionEnabled \in BOOLEAN /\ coming \in BOOLEAN
    /\ IsAwsCliUpgradeNeeded \in BOOLEAN

Data ==
    /\ keys \in Nat /\ failures \in 0 .. MaxFailures
    /\ encryption \in {NoEncrypter, Keyless} \cup 1 .. keys
    /\ agentKey \in 0 .. keys
    /\ sessionType \in {"unset", "Standard_Stream", "Port"}
    /\ isSessionTypeSet \in {<<>>, <<TRUE>>, <<FALSE>>}
    /\ request \in Requests \cup {<<>>}
    /\ processed \in {Idle} \cup Seq({"Success", "Failed", "zero"})
    /\ agent \in {"requesting", "legacy", "challenging", "completing", "serving", "closing"}

LEMMA TypeParts == HandshakeTypeOK <=> Flags /\ Data
  BY DEF HandshakeTypeOK, Flags, Data

HandshakeInv == Flags /\ Data /\ KeyInv /\ AnswerInv

\* A request is a sequence of actions, of which one at most is KMSEncryption.
LEMMA RequestFacts ==
  ASSUME Data
  PROVE  /\ request \in Seq(ActionTypes)
         /\ DOMAIN request = 1 .. Len(request)
         /\ \A i, j \in 1 .. Len(request) :
                request[i] = "KMSEncryption" /\ request[j] = "KMSEncryption" => i = j
<1>1. CASE request = <<>>
  BY <1>1
<1>2. CASE request \in Requests
  BY <1>2, HandshakeAssumption
<1> QED
  BY <1>1, <1>2 DEF Data

LEMMA HandshakeInitially ==
  ASSUME HandshakeInit, IsAwsCliUpgradeNeeded \in BOOLEAN
  PROVE  HandshakeInv
<1>1. /\ keys = 0 /\ failures = 0 /\ agentKey = 0 /\ encryption = NoEncrypter
      /\ sessionType = "unset" /\ isSessionTypeSet = <<>> /\ processed = Idle
      /\ answer = NoAnswer /\ ~encryptionEnabled
      /\ request \in Requests \cup {<<>>} /\ agent \in {"requesting", "legacy"}
  BY Zenon DEF HandshakeInit
<1>2. Flags
  BY Zenon DEF HandshakeInit, Flags
<1>3. Data
  BY <1>1, HandshakeAssumption DEF Data
<1>4. KeyInv
  BY <1>1 DEF KeyInv
<1>5. AnswerInv
  BY <1>1 DEF AnswerInv, NoAnswer
<1> QED
  BY <1>2, <1>3, <1>4, <1>5 DEF HandshakeInv

-----------------------------------------------------------------------------
\* The agent's steps.
LEMMA AgentPreserves ==
  ASSUME HandshakeInv, AgentStep, UNCHANGED IsAwsCliUpgradeNeeded
  PROVE  HandshakeInv'
<1> USE DEF HandshakeInv, pluginVars
<1>0. DOMAIN request = 1 .. Len(request)
  BY RequestFacts
<1>1. CASE AgentTakesResponse
  <2>1. /\ agent = "requesting" /\ Len(answer.statuses) = Len(request)
        /\ agentKey = 0 /\ processed = Idle /\ ~coming
        /\ Honest(answer.statuses) /\ answer.key = encryption
    <3>1. answer # NoAnswer /\ answer.to = "HandshakeRequest"
      BY <1>1 DEF AgentTakesResponse, NoAnswer
    <3> QED
      BY <3>1 DEF AnswerInv, KeyInv
  <2>2. /\ UNCHANGED <<encryption, encryptionEnabled, sessionType, isSessionTypeSet,
                       processed, keys, failures, request>>
        /\ answer' = NoAnswer
    BY <1>1 DEF AgentTakesResponse
  <2>3. Flags'
    <3>1. coming' \in BOOLEAN
      BY <1>1 DEF AgentTakesResponse, Flags
    <3> QED
      BY <2>2, <3>1 DEF Flags
  <2>4. CASE StatusOf("KMSEncryption") = {"Success"} /\ agent' = "challenging"
              /\ agentKey' = answer.key
    <3>1. PICK i \in DOMAIN request : request[i] = "KMSEncryption"
                                      /\ answer.statuses[i] = "Success"
      BY <2>4 DEF StatusOf
    <3>2. encryptionEnabled /\ HasKey(encryption)
      BY <1>0, <2>1, <3>1 DEF Honest
    <3>3. encryption \in {-1, 0} \cup 1 .. keys /\ keys \in Nat
      BY DEF Data, NoEncrypter, Keyless
    <3>4. encryption \in 1 .. keys
      BY <3>2, <3>3 DEF HasKey
    <3>5. Data'
      <4>1. agentKey' \in 1 .. keys /\ UNCHANGED keys
        BY <2>1, <2>2, <2>4, <3>4
      <4>2. agentKey' \in 0 .. keys'
        BY <4>1, <3>3
      <4>3. agent' = "challenging"
        BY <2>4
      <4> QED
        BY <2>2, <4>2, <4>3 DEF Data
    <3>6. KeyInv'
      BY <1>0, <2>1, <2>2, <2>4, <3>1, <3>2, <3>4 DEF KeyInv
    <3>7. AnswerInv'
      BY <2>1, <2>2, <2>4 DEF AnswerInv, NoAnswer
    <3> QED
      BY <2>3, <3>5, <3>6, <3>7
  <2>5. CASE StatusOf("KMSEncryption") = {} /\ agent' = "completing" /\ UNCHANGED agentKey
    <3>1. ~\E i \in 1 .. Len(request) : request[i] = "KMSEncryption"
      BY <1>0, <2>5 DEF StatusOf
    <3>2. ~encryptionEnabled
      BY <3>1 DEF KeyInv
    <3>3. Data'
      BY <2>1, <2>2, <2>5 DEF Data
    <3>4. KeyInv'
      BY <2>1, <2>2, <2>5, <3>2 DEF KeyInv
    <3>5. AnswerInv'
      BY <2>1, <2>2, <2>5 DEF AnswerInv, NoAnswer
    <3> QED
      BY <2>3, <3>3, <3>4, <3>5
  <2>6. CASE agent' = "closing" /\ UNCHANGED agentKey
    <3>1. Data'
      BY <2>1, <2>2, <2>6 DEF Data
    <3>2. KeyInv'
      BY <2>1, <2>2, <2>6 DEF KeyInv
    <3>3. AnswerInv'
      BY <2>1, <2>2, <2>6 DEF AnswerInv, NoAnswer
    <3> QED
      BY <2>3, <3>1, <3>2, <3>3
  <2> QED
    BY <1>1, <2>4, <2>5, <2>6 DEF AgentTakesResponse
<1>2. CASE AgentTakesChallenge
  <2>1. agent' \in {"completing", "closing"} /\ agent = "challenging" /\ agentKey > 0
    BY <1>2 DEF AgentTakesChallenge, KeyInv
  <2>2. processed = Idle
    BY <2>1 DEF AnswerInv
  <2>3. /\ UNCHANGED <<encryption, encryptionEnabled, sessionType, isSessionTypeSet,
                       processed, keys, failures, request, agentKey>>
        /\ answer' = NoAnswer
    BY <1>2 DEF AgentTakesChallenge
  <2>4. Flags'
    <3>1. coming' \in BOOLEAN
      BY <1>2 DEF AgentTakesChallenge
    <3> QED
      BY <2>3, <3>1 DEF Flags
  <2>5. Data'
    BY <2>1, <2>3 DEF Data
  <2>6. KeyInv'
    BY <2>1, <2>3 DEF KeyInv
  <2>7. AnswerInv'
    BY <2>2, <2>3 DEF AnswerInv, NoAnswer
  <2> QED
    BY <2>4, <2>5, <2>6, <2>7
<1> QED
  BY <1>1, <1>2 DEF AgentStep

-----------------------------------------------------------------------------
\* A new encrypter, while its action is processed: no status reports the old one.
LEMMA KMSPreserves ==
  ASSUME HandshakeInv, ProcessKMSEncryptionHandshakeAction, UNCHANGED IsAwsCliUpgradeNeeded
  PROVE  HandshakeInv'
<1> USE DEF HandshakeInv
<1>1. /\ UNCHANGED <<sessionType, isSessionTypeSet, failures, request, agent, coming,
                     answer, agentKey>>
      /\ processed # Idle /\ Len(processed) < Len(request)
      /\ request[Len(processed) + 1] = "KMSEncryption"
  BY DEF ProcessKMSEncryptionHandshakeAction, Current, agentVars
<1>2. /\ agent = "requesting" /\ coming /\ answer = NoAnswer /\ agentKey = 0
      /\ Honest(processed) /\ processed \in Seq({"Success", "Failed", "zero"})
  BY <1>1 DEF AnswerInv, KeyInv, Data
<1>3. CASE UNCHANGED <<encryption, encryptionEnabled, keys>> /\ Report("Failed")
  <2>1. UNCHANGED <<encryption, encryptionEnabled, keys>>
        /\ processed' = Append(processed, "Failed")
    BY <1>3 DEF Report
  <2>2. processed' \in Seq({"Success", "Failed", "zero"})
    BY <1>2, <2>1
  <2>3. Flags'
    BY Zenon, <1>1, <2>1 DEF Flags
  <2>4. Data'
    BY <1>1, <2>1, <2>2 DEF Data
  <2>5. KeyInv'
    BY <1>1, <2>1 DEF KeyInv
  <2>6. AnswerInv'
    BY <1>1, <1>2, <2>1, <2>2 DEF AnswerInv, Honest, Idle, NoAnswer
  <2> QED
    BY <2>3, <2>4, <2>5, <2>6
<1>4. \A i \in 1 .. Len(processed) : request[i] # "KMSEncryption"
  <2>1. Len(processed) + 1 \in 1 .. Len(request) /\ Len(processed) \in Nat
    BY <1>1, <1>2, RequestFacts
  <2> QED
    BY <1>1, <2>1, RequestFacts
<1>5. encryptionEnabled' => \E i \in 1 .. Len(request) : request[i] = "KMSEncryption"
  BY <1>1, <1>2, RequestFacts
<1>6. CASE /\ encryption' = Keyless /\ UNCHANGED keys /\ Report("Failed")
           /\ UNCHANGED encryptionEnabled
  <2>1. encryption' = 0 /\ UNCHANGED <<encryptionEnabled, keys>>
        /\ processed' = Append(processed, "Failed")
    BY <1>6 DEF Report, Keyless
  <2>2. processed' \in Seq({"Success", "Failed", "zero"})
    BY <1>2, <2>1
  <2>3. Flags'
    BY Zenon, <1>1, <2>1 DEF Flags
  <2>4. Data'
    BY <1>1, <2>1, <2>2 DEF Data, Keyless
  <2>5. KeyInv'
    BY <1>1, <1>2, <2>1 DEF KeyInv
  <2>6. Honest(processed)'
    BY <1>1, <1>2, <1>4, <2>1 DEF Honest
  <2>7. AnswerInv'
    BY <1>1, <1>2, <2>1, <2>2, <2>6 DEF AnswerInv, Idle, NoAnswer
  <2> QED
    BY <2>3, <2>4, <2>5, <2>7
<1>7. CASE keys' = keys + 1 /\ encryption' = keys' /\ Report("Success") /\ encryptionEnabled' = TRUE
  <2>1. /\ keys \in Nat /\ keys' = keys + 1 /\ encryption' = keys + 1
        /\ processed' = Append(processed, "Success")
    BY <1>7 DEF Report, Data
  <2>2. processed' \in Seq({"Success", "Failed", "zero"})
    BY <1>2, <2>1
  <2>3. Flags' /\ encryptionEnabled'
    BY Zenon, <1>1, <1>7 DEF Flags
  <2>4. Data'
    <3>1. keys' \in Nat /\ encryption' \in 1 .. keys' /\ agentKey' \in 0 .. keys'
      BY <1>1, <1>2, <2>1
    <3> QED
      BY <1>1, <2>2, <3>1 DEF Data
  <2>5. KeyInv'
    BY <1>1, <1>2, <1>5 DEF KeyInv
  <2>6. Honest(processed)'
    BY <2>1, <2>3 DEF Honest, HasKey
  <2>7. AnswerInv'
    BY <1>1, <1>2, <2>1, <2>2, <2>6 DEF AnswerInv, Idle, NoAnswer
  <2> QED
    BY <2>3, <2>4, <2>5, <2>7
<1>8. ASSUME NEW outcome, NewEncrypter(outcome),
             Report(IF outcome = "key" THEN "Success" ELSE "Failed"),
             encryptionEnabled' = (encryptionEnabled \/ outcome = "key")
      PROVE  HandshakeInv'
  <2>1. CASE outcome = "key"
    BY Zenon, <1>7, <1>8, <2>1 DEF NewEncrypter
  <2>2. CASE outcome # "key"
    <3>1. UNCHANGED encryptionEnabled
      BY Zenon, <1>8, <2>2 DEF Flags
    <3> QED
      BY Zenon, <1>6, <1>8, <2>2, <3>1 DEF NewEncrypter
  <2> QED
    BY Zenon, <2>1, <2>2
<1> QED
  BY Zenon, <1>3, <1>8 DEF ProcessKMSEncryptionHandshakeAction

-----------------------------------------------------------------------------
\* The steps that leave the encrypter alone.
LEMMA AnswersPreserve ==
  ASSUME HandshakeInv, UNCHANGED IsAwsCliUpgradeNeeded,
         AcknowledgeFails \/ BeginRequest \/ SendHandshakeResponse
             \/ HandleEncryptionChallengeRequest
  PROVE  HandshakeInv'
<1> USE DEF HandshakeInv
<1>1. CASE AcknowledgeFails
  <2>1. /\ UNCHANGED <<encryption, encryptionEnabled, sessionType, isSessionTypeSet,
                       processed, keys, request, agent, coming, answer, agentKey>>
        /\ failures' \in 0 .. MaxFailures
    BY <1>1, HandshakeAssumption DEF AcknowledgeFails, SendFails, pluginVars, agentVars, Data
  <2>2. Flags'
    BY Zenon, <2>1 DEF Flags
  <2>3. Data'
    BY <2>1 DEF Data
  <2>4. KeyInv' /\ AnswerInv'
    BY <2>1 DEF KeyInv, AnswerInv, Honest
  <2> QED
    BY <2>2, <2>3, <2>4
<1>2. CASE BeginRequest
  <2>1. /\ UNCHANGED <<encryption, encryptionEnabled, sessionType, isSessionTypeSet,
                       keys, failures, request, agent, coming, answer, agentKey>>
        /\ processed' = <<>> /\ agent = "requesting" /\ coming
    BY <1>2 DEF BeginRequest, Arrives, agentVars
  <2>2. Flags'
    BY Zenon, <2>1 DEF Flags
  <2>3. Data'
    <3>1. processed' \in Seq({"Success", "Failed", "zero"})
      BY <2>1
    <3> QED
      BY <2>1, <3>1 DEF Data
  <2>4. KeyInv'
    BY <2>1 DEF KeyInv
  <2>5. Honest(processed)' /\ Len(processed') <= Len(request)
    BY <2>1, RequestFacts DEF Honest
  <2>6. AnswerInv'
    BY <2>1, <2>5 DEF AnswerInv, Idle, NoAnswer
  <2> QED
    BY <2>2, <2>3, <2>4, <2>6
<1>3. CASE SendHandshakeResponse
  <2>1. /\ UNCHANGED <<encryption, encryptionEnabled, sessionType, isSessionTypeSet,
                       keys, request, agent, agentKey>>
        /\ processed' = Idle /\ processed # Idle /\ Len(processed) = Len(request)
        /\ Answered([to |-> "HandshakeRequest", statuses |-> processed, key |-> encryption])
    BY <1>3 DEF SendHandshakeResponse
  <2>2. /\ agent = "requesting" /\ coming /\ answer = NoAnswer
        /\ Honest(processed) /\ processed \in Seq({"Success", "Failed", "zero"})
    BY <2>1 DEF AnswerInv, Data
  <2>3. /\ failures' \in 0 .. MaxFailures
        /\ \/ answer' = [to |-> "HandshakeRequest", statuses |-> processed, key |-> encryption]
              /\ ~coming'
           \/ answer' = NoAnswer
    <3>1. failures' = failures \/ (failures < MaxFailures /\ failures' = failures + 1)
      BY Zenon, <2>1 DEF Answered, SendFails
    <3>2. failures' \in 0 .. MaxFailures
      BY <3>1, HandshakeAssumption DEF Data
    <3> QED
      BY Zenon, <2>1, <2>2, <3>2 DEF Answered
  <2>4. Flags'
    <3>1. coming' \in BOOLEAN
      BY Zenon, <2>1 DEF Answered
    <3> QED
      BY Zenon, <2>1, <3>1 DEF Flags
  <2>5. Data'
    BY <2>1, <2>3 DEF Data
  <2>6. KeyInv'
    BY <2>1 DEF KeyInv
  <2>7. answer'.to = "HandshakeRequest" =>
           /\ answer'.statuses = processed /\ answer'.key = encryption /\ ~coming'
    BY <2>3 DEF NoAnswer
  <2>8. ASSUME answer'.to = "HandshakeRequest"
        PROVE  Honest(answer.statuses)'
    <3>1. /\ UNCHANGED <<request, encryption, encryptionEnabled>>
          /\ answer'.statuses = processed
      BY <2>1, <2>7, <2>8
    <3> QED
      BY <2>2, <3>1 DEF Honest
  <2>9. coming' => answer' = NoAnswer
    BY <2>3
  <2>10. AnswerInv'
    BY <2>1, <2>2, <2>7, <2>8, <2>9 DEF AnswerInv
  <2> QED
    BY <2>4, <2>5, <2>6, <2>10
<1>4. CASE HandleEncryptionChallengeRequest
  <2>1. /\ UNCHANGED <<encryption, encryptionEnabled, sessionType, isSessionTypeSet,
                       processed, keys, request, agent, agentKey>>
        /\ agent = "challenging" /\ coming /\ processed = Idle
        /\ Answered([to |-> "EncChallengeRequest", seal |-> EncryptionKey(encryption)])
    BY <1>4 DEF HandleEncryptionChallengeRequest, Arrives, pluginVars
  <2>2. answer = NoAnswer
    BY <2>1 DEF AnswerInv
  <2>3. /\ failures' \in 0 .. MaxFailures
        /\ answer'.to # "HandshakeRequest"
        /\ coming' => answer' = NoAnswer
    <3>1. failures' = failures \/ (failures < MaxFailures /\ failures' = failures + 1)
      BY Zenon, <2>1 DEF Answered, SendFails
    <3>2. failures' \in 0 .. MaxFailures
      BY <3>1, HandshakeAssumption DEF Data
    <3>3. \/ answer' = [to |-> "EncChallengeRequest", seal |-> EncryptionKey(encryption)]
             /\ ~coming'
          \/ answer' = NoAnswer
      BY Zenon, <2>1, <2>2 DEF Answered
    <3> QED
      BY <3>2, <3>3 DEF NoAnswer
  <2>4. Flags'
    <3>1. coming' \in BOOLEAN
      BY Zenon, <2>1 DEF Answered
    <3> QED
      BY Zenon, <2>1, <3>1 DEF Flags
  <2>5. Data'
    BY <2>1, <2>3 DEF Data
  <2>6. KeyInv'
    BY <2>1 DEF KeyInv
  <2>7. AnswerInv'
    BY <2>1, <2>3 DEF AnswerInv
  <2> QED
    BY <2>4, <2>5, <2>6, <2>7
<1> QED
  BY <1>1, <1>2, <1>3, <1>4

LEMMA ActionsPreserve ==
  ASSUME HandshakeInv, UNCHANGED IsAwsCliUpgradeNeeded,
         ProcessSessionTypeHandshakeAction \/ RejectAction
  PROVE  HandshakeInv'
<1> USE DEF HandshakeInv
<1>1. PICK name \in {"ShellType", "PortType", "UnknownType", "UnknownAction"},
           status \in {"Success", "Failed", "zero"} :
        /\ Current(name) /\ processed' = Append(processed, status)
        /\ UNCHANGED <<encryption, encryptionEnabled, isSessionTypeSet, keys, failures,
                       request, agent, coming, answer, agentKey>>
        /\ sessionType' \in {"Standard_Stream", "Port", sessionType}
  <2>1. CASE ProcessSessionTypeHandshakeAction
    BY <2>1 DEF ProcessSessionTypeHandshakeAction, Report, TypeNamed, agentVars
  <2>2. CASE RejectAction
    BY <2>2 DEF RejectAction, Report, agentVars
  <2> QED
    BY <2>1, <2>2
<1>2. /\ processed # Idle /\ Len(processed) < Len(request)
      /\ request[Len(processed) + 1] # "KMSEncryption"
  BY <1>1 DEF Current
<1>3. /\ agent = "requesting" /\ coming /\ answer = NoAnswer
      /\ Honest(processed) /\ processed \in Seq({"Success", "Failed", "zero"})
  BY <1>2 DEF AnswerInv, Data
<1>4. processed' \in Seq({"Success", "Failed", "zero"})
  BY <1>1, <1>3
<1>5. Flags'
  BY Zenon, <1>1 DEF Flags
<1>6. Data'
  BY <1>1, <1>4 DEF Data
<1>7. KeyInv'
  BY <1>1 DEF KeyInv
<1>8. Honest(processed)'
  BY <1>1, <1>2, <1>3 DEF Honest
<1>9. Len(processed') <= Len(request)
  BY <1>1, <1>2, <1>3, RequestFacts
<1>10. AnswerInv'
  BY <1>1, <1>3, <1>8, <1>9 DEF AnswerInv, NoAnswer
<1> QED
  BY <1>5, <1>6, <1>7, <1>10

\* The end of the handshake: the agent was told a key, or never asked for one.
LEMMA CompletionPreserves ==
  ASSUME HandshakeInv, UNCHANGED IsAwsCliUpgradeNeeded,
         HandleHandshakeComplete \/ ProcessFirstMessage
  PROVE  HandshakeInv'
<1> USE DEF HandshakeInv
<1>1. /\ UNCHANGED <<encryption, encryptionEnabled, processed, keys, failures, request,
                     answer, agentKey>>
      /\ agent \in {"completing", "legacy"} /\ agent' = "serving"
      /\ processed = Idle /\ coming /\ coming' = FALSE
  BY DEF HandleHandshakeComplete, ProcessFirstMessage, Arrives
<1>2. /\ sessionType' \in {"Standard_Stream", sessionType}
      /\ isSessionTypeSet' \in {<<>>, <<TRUE>>, <<FALSE>>}
  <2>1. CASE HandleHandshakeComplete
    BY Zenon, <2>1 DEF HandleHandshakeComplete
  <2>2. CASE ProcessFirstMessage
    BY <2>2 DEF ProcessFirstMessage
  <2> QED
    BY <2>1, <2>2
<1>3. Flags'
  BY Zenon, <1>1 DEF Flags
<1>4. Data'
  BY <1>1, <1>2 DEF Data
<1>5. KeyInv'
  BY <1>1 DEF KeyInv
<1>6. AnswerInv'
  BY <1>1 DEF AnswerInv, NoAnswer
<1> QED
  BY <1>3, <1>4, <1>5, <1>6

LEMMA HandlePreserves ==
  ASSUME HandshakeInv, HandleHandshake, UNCHANGED IsAwsCliUpgradeNeeded
  PROVE  HandshakeInv'
BY KMSPreserves, AnswersPreserve, ActionsPreserve, CompletionPreserves DEF HandleHandshake

\* Steps that are no part of the handshake: the session type is taken, or nothing.
LEMMA OthersPreserve ==
  ASSUME HandshakeInv, IsAwsCliUpgradeNeeded' \in BOOLEAN,
         UNCHANGED <<encryption, encryptionEnabled, sessionType, processed, keys, failures,
                     agentVars>>,
         isSessionTypeSet' \in {<<>>, isSessionTypeSet}
  PROVE  HandshakeInv'
<1> USE DEF HandshakeInv
<1>1. UNCHANGED <<request, agent, coming, answer, agentKey>>
  BY DEF agentVars
<1>2. Flags'
  BY Zenon, <1>1 DEF Flags
<1>3. Data'
  BY <1>1 DEF Data
<1>4. KeyInv' /\ AnswerInv'
  BY <1>1 DEF KeyInv, AnswerInv, Honest
<1> QED
  BY <1>2, <1>3, <1>4

-----------------------------------------------------------------------------
\* A handshake that is complete is over.
LEMMA ServingIsFinal ==
  ASSUME HandshakeInv, agent = "serving"
  PROVE  ~HandleHandshake /\ ~AgentStep
<1>1. processed = Idle
  BY DEF HandshakeInv, AnswerInv
<1> QED
  BY <1>1 DEF HandleHandshake, AcknowledgeFails, BeginRequest, Arrives, Current,
     ProcessKMSEncryptionHandshakeAction, ProcessSessionTypeHandshakeAction, RejectAction,
     SendHandshakeResponse, HandleEncryptionChallengeRequest, HandleHandshakeComplete,
     ProcessFirstMessage, AgentStep, AgentTakesResponse, AgentTakesChallenge

\* The session type is announced at its end.
LEMMA AnnouncedAtTheEnd ==
  ASSUME HandleHandshake \/ AgentStep
  PROVE  isSessionTypeSet' = isSessionTypeSet \/ agent' = "serving"
BY Zenon DEF HandleHandshake, AcknowledgeFails, BeginRequest,
     ProcessKMSEncryptionHandshakeAction, ProcessSessionTypeHandshakeAction, RejectAction,
     SendHandshakeResponse, HandleEncryptionChallengeRequest, HandleHandshakeComplete,
     ProcessFirstMessage, AgentStep, AgentTakesResponse, AgentTakesChallenge, pluginVars

\* What the invariant is for.
LEMMA Agreement ==
  ASSUME HandshakeInv
  PROVE  KeysAgree /\ SidesUnderstandEachOther
<1> USE DEF HandshakeInv
<1>1. KeysAgree
  BY DEF KeyInv, KeysAgree
<1>2. SidesUnderstandEachOther
  <2> SUFFICES ASSUME agent \in {"challenging", "completing", "serving"}
               PROVE  CanSend /\ AgentCanRead(Sealed) /\ CanRead(AgentSeal)
    BY DEF SidesUnderstandEachOther
  <2>1. CASE agentKey = 0
    BY <2>1 DEF KeyInv, CanSend, AgentCanRead, Sealed, CanRead, AgentSeal, Clear
  <2>2. CASE agentKey > 0
    BY <2>2 DEF KeyInv, CanSend, AgentCanRead, Sealed, CanRead, AgentSeal, Clear, HasKey,
                DecryptionKey, EncryptionKey, AgentEncryptionKey, AgentDecryptionKey
  <2> QED
    BY <2>1, <2>2 DEF Data
<1> QED
  BY <1>1, <1>2
=============================================================================
