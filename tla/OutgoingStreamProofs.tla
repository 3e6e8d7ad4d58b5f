------------------------- MODULE OutgoingStreamProofs -------------------------
(***************************************************************************)
(* The safety properties of OutgoingStream.                                *)
(*                                                                         *)
(* Types and the bound of the resends hold for any goroutines that send.   *)
(* That the list is sorted, that only the oldest is forgotten and that the *)
(* agent takes the inputs in order hold for one goroutine, whatever the    *)
(* capacity, the number of inputs and of failing sends; for two they are   *)
(* wrong, as the run of OutgoingSharedNumber.cfg shows.                    *)
(***************************************************************************)
EXTENDS OutgoingStream, Integers, FiniteSetTheorems, SequenceTheorems,
        WellFoundedInduction, TLAPS

\* The senders between taking an input and being done with it.
InFlight == {s \in Senders : pc[s] \notin {"idle", "stopped"}}

\* Each input in flight increments the number once at most, so the number stays
\* behind the inputs.
NumberInv ==
    /\ StreamDataSequenceNumber + Cardinality(InFlight) <= nextInput - 1
    /\ \A s \in Senders :
           pc[s] = "incrementing" => number[s] + Cardinality(InFlight) <= nextInput - 1

\* Whatever is sent, kept or resent carries an input.
InputInv ==
    /\ \A s \in InFlight : message[s].input \in Inputs
    /\ \A m \in sent : m.input \in Inputs
    /\ \A j \in DOMAIN OutgoingMessageBuffer : OutgoingMessageBuffer[j].input \in Inputs
    /\ scheduler # "sleeping" => streamMessage.input \in Inputs

\* A sender that pushes has room, if it is alone: when it found the list full, either an
\* acknowledgement has made room since, or its victim is still the first.
RoomInv ==
    \A s \in Senders : Senders = {s} =>
        /\ Len(OutgoingMessageBuffer) <= OutgoingMessageBufferCapacity
        /\ pc[s] = "pushing" => Len(OutgoingMessageBuffer) < OutgoingMessageBufferCapacity
        /\ pc[s] = "evicting" /\ BufferIsFull => victim[s] = Oldest

TInv == TypeOK /\ NumberInv /\ InputInv /\ RoomInv

\* The scheduler passes the limit once for every value it puts in the channel, and the
\* channel takes two in all: one that is read, and one that fills it.
Signals == isStreamMessageResendTimeout + (IF terminator = "listening" THEN 0 ELSE 1)

ResendInv ==
    /\ \A i \in Inputs : resendAttempt[i] <= ResendMaxAttempt + Signals
    /\ Signals > 0 => \E i \in Inputs : resendAttempt[i] >= ResendMaxAttempt
    /\ scheduler = "resending" =>
           resendAttempt[streamMessage.input] < ResendMaxAttempt + Signals
    /\ scheduler = "signalling" => resendAttempt[streamMessage.input] >= ResendMaxAttempt

-----------------------------------------------------------------------------
(* A sender s that is alone. *)

AfterSend == {"sent", "labelled", "full", "evicting", "pushing", "pushed", "incrementing",
              "panicked"}

\* How many messages were sent, and how many of them were put in the list.
SentCount(s) == StreamDataSequenceNumber + (IF pc[s] \in AfterSend THEN 1 ELSE 0)
KeptCount(s) ==
    StreamDataSequenceNumber + (IF pc[s] \in {"pushed", "incrementing"} THEN 1 ELSE 0)

\* A streaming message as it was when it was sent.
AsSent(m) == [serialized |-> m.serialized, key |-> 0, input |-> m.input]

\* The messages are numbered from 0 in the order of their inputs.
SentInv(s) ==
    /\ IsFiniteSet(sent) /\ Cardinality(sent) = SentCount(s)
    /\ \A m \in sent : m.key = 0 /\ m.serialized < SentCount(s) /\ m.input < nextInput
    /\ \A k \in 0 .. SentCount(s) - 1 : \E m \in sent : m.serialized = k
    /\ \A m, n \in sent : /\ m.serialized < n.serialized => m.input < n.input
                          /\ m.serialized = n.serialized => m = n

\* The message the sender has in hand.
HandInv(s) ==
    /\ s \in InFlight => message[s].serialized = StreamDataSequenceNumber
    /\ s \in InFlight => message[s].input < nextInput
    /\ pc[s] = "composed" =>
           message[s].key = 0 /\ \A m \in sent : m.input < message[s].input
    /\ pc[s] \in AfterSend => AsSent(message[s]) \in sent
    /\ pc[s] \in AfterSend \ {"sent"} => message[s].key = StreamDataSequenceNumber
    /\ pc[s] = "incrementing" => number[s] = StreamDataSequenceNumber

\* The list, sorted without repetition.
ListInv(s) ==
    /\ \A j \in DOMAIN OutgoingMessageBuffer :
           /\ OutgoingMessageBuffer[j].key = OutgoingMessageBuffer[j].serialized
           /\ AsSent(OutgoingMessageBuffer[j]) \in sent
           /\ OutgoingMessageBuffer[j].key < KeptCount(s)
    /\ \A i, j \in DOMAIN OutgoingMessageBuffer : i <= j =>
           OutgoingMessageBuffer[i].key + (j - i) <= OutgoingMessageBuffer[j].key

\* What is about to be evicted is as old as all that is in the list.
VictimInv(s) ==
    pc[s] = "evicting" =>
        \A j \in DOMAIN OutgoingMessageBuffer : victim[s].key <= OutgoingMessageBuffer[j].key

\* What the agent has was sent.
AgentInv ==
    \A n \in DOMAIN agentGot :
        \E m \in sent : m.serialized = n /\ m.input = agentGot[n]

\* The messages that neither the agent, the list nor the sender has.
Forgotten == {m \in sent : ~IsRetained(m)}

\* What is forgotten is older than all that is in the list, and it leaves a list of
\* messages; when the list was found full, one message more may be forgotten.
ForgetInv(s) ==
    /\ \A m \in Forgotten, j \in DOMAIN OutgoingMessageBuffer :
           m.serialized < OutgoingMessageBuffer[j].key
    /\ Forgotten # {} =>
           Cardinality(Forgotten) + OutgoingMessageBufferCapacity <= SentCount(s)
    /\ pc[s] \in {"full", "evicting"} =>
           Cardinality(Forgotten) + OutgoingMessageBufferCapacity < SentCount(s)

\* The listener looks only for what the agent has.
WalkInv == listener = "walking" => acknowledged \in DOMAIN agentGot

LoneInv(s) ==
    /\ TInv
    /\ SentInv(s)
    /\ HandInv(s)
    /\ ListInv(s)
    /\ VictimInv(s)
    /\ AgentInv
    /\ ForgetInv(s)

-----------------------------------------------------------------------------
(* Removing an element from a sequence. *)

\* The rest of a sequence without one element.
LEMMA RemoveAtProperties ==
  ASSUME NEW S, NEW q \in Seq(S), NEW i \in 1 .. Len(q)
  PROVE  /\ RemoveAt(q, i) \in Seq(S)
         /\ Len(RemoveAt(q, i)) = Len(q) - 1
         /\ \A j \in 1 .. Len(q) - 1 :
                RemoveAt(q, i)[j] = IF j < i THEN q[j] ELSE q[j + 1]
<1> DEFINE a == SubSeq(q, 1, i - 1)
           b == SubSeq(q, i + 1, Len(q))
<1>0. Len(q) \in Nat /\ i \in Int /\ \A j \in 1 .. Len(q) : q[j] \in S
  BY LenProperties
<1>1. a \in Seq(S) /\ Len(a) = i - 1 /\ \A j \in 1 .. i - 1 : a[j] = q[j]
  BY <1>0
<1>2. b \in Seq(S) /\ Len(b) = Len(q) - i /\ \A j \in 1 .. Len(q) - i : b[j] = q[i + j]
  BY <1>0
<1> HIDE DEF a, b
<1>3. a \o b \in Seq(S) /\ Len(a \o b) = Len(q) - 1
  <2>1. a \o b \in Seq(S) /\ Len(a \o b) = Len(a) + Len(b)
    BY <1>1, <1>2, ConcatProperties, Zenon
  <2> QED
    BY <1>0, <1>1, <1>2, <2>1
<1>4. ASSUME NEW j \in 1 .. Len(q) - 1
      PROVE  (a \o b)[j] = IF j < i THEN q[j] ELSE q[j + 1]
  <2>1. (a \o b)[j] = IF j <= Len(a) THEN a[j] ELSE b[j - Len(a)]
    BY <1>0, <1>1, <1>2
  <2>2. CASE j < i
    BY <1>0, <1>1, <2>1, <2>2
  <2>3. CASE j >= i
    BY <1>0, <1>1, <1>2, <2>1, <2>3
  <2>4. j < i \/ j >= i
    BY <1>0
  <2> QED
    BY <2>2, <2>3, <2>4, Zenon
<1>5. RemoveAt(q, i) = a \o b
  BY DEF RemoveAt, a, b
<1> QED
  BY <1>3, <1>4, <1>5

\* A nonempty set of positions has a smallest one.
LEMMA MinPosition ==
  ASSUME NEW I \in SUBSET Nat, I # {}
  PROVE  Min(I) \in I /\ \A j \in I : Min(I) <= j
<1> DEFINE R == {p \in Nat \X Nat : p[1] < p[2]}
<1>0. IsWellFoundedOn(R, Nat)
  BY NatLessThanWellFounded DEF OpToRel
<1>1. PICK m \in I : \A j \in I : <<j, m>> \notin R
  <2> HIDE DEF R
  <2> QED
    BY <1>0, WFMin
<1>2. \A j \in I : m <= j
  <2>1. SUFFICES ASSUME NEW j \in I PROVE m <= j
    OBVIOUS
  <2>2. <<j, m>> \notin R
    BY <1>1
  <2>3. m \in Nat /\ j \in Nat
    OBVIOUS
  <2> QED
    BY <2>2, <2>3
<1> QED
  BY <1>2 DEF Min

\* RemoveFirst takes away the first element that is e, or nothing when there is none.
LEMMA RemoveFirstOutcome ==
  ASSUME NEW S, NEW q \in Seq(S), NEW e
  PROVE  \/ RemoveFirst(q, e) = q /\ \A i \in 1 .. Len(q) : q[i] # e
         \/ \E i \in 1 .. Len(q) : /\ q[i] = e /\ RemoveFirst(q, e) = RemoveAt(q, i)
                                   /\ \A j \in 1 .. i - 1 : q[j] # e
<1> DEFINE I == {i \in 1 .. Len(q) : q[i] = e}
<1>1. CASE \E i \in 1 .. Len(q) : q[i] = e
  <2>1. I \in SUBSET Nat /\ I # {} /\ Len(q) \in Nat
    BY <1>1
  <2>2. Min(I) \in I /\ \A j \in I : Min(I) <= j
    BY <2>1, MinPosition
  <2>3. SelectInSeq(q, LAMBDA v : v = e) = Min(I)
    BY <2>1 DEF SelectInSeq
  <2>4. RemoveFirst(q, e) = RemoveAt(q, Min(I))
    BY <1>1, <2>3 DEF RemoveFirst
  <2>5. Min(I) \in 1 .. Len(q) /\ q[Min(I)] = e
    BY <2>2
  <2>6. \A j \in 1 .. Min(I) - 1 : q[j] # e
    BY <2>1, <2>2
  <2> HIDE DEF I
  <2> QED
    BY <2>4, <2>5, <2>6
<1>2. CASE \A i \in 1 .. Len(q) : q[i] # e
  BY <1>2 DEF RemoveFirst
<1> QED
  BY <1>1, <1>2

\* The list without its element at i.
Shortened(i) ==
    /\ Len(OutgoingMessageBuffer') = Len(OutgoingMessageBuffer) - 1
    /\ \A j \in 1 .. Len(OutgoingMessageBuffer) - 1 :
           OutgoingMessageBuffer'[j] = IF j < i THEN OutgoingMessageBuffer[j]
                                       ELSE OutgoingMessageBuffer[j + 1]

\* What RemoveDataFromOutgoingMessageBuffer does to the list.
LEMMA EvictShortens ==
  ASSUME OutgoingMessageBuffer \in Seq(Messages), NEW s \in Senders, Evict(s)
  PROVE  /\ OutgoingMessageBuffer' \in Seq(Messages)
         /\ \/ /\ OutgoingMessageBuffer' = OutgoingMessageBuffer
               /\ \A i \in 1 .. Len(OutgoingMessageBuffer) : OutgoingMessageBuffer[i] # victim[s]
            \/ \E i \in 1 .. Len(OutgoingMessageBuffer) :
                   OutgoingMessageBuffer[i] = victim[s] /\ Shortened(i)
<1>1. OutgoingMessageBuffer' = RemoveFirst(OutgoingMessageBuffer, victim[s])
  BY DEF Evict
<1>2. CASE \A i \in 1 .. Len(OutgoingMessageBuffer) : OutgoingMessageBuffer[i] # victim[s]
  BY <1>1, <1>2, RemoveFirstOutcome
<1>3. ASSUME NEW i \in 1 .. Len(OutgoingMessageBuffer), OutgoingMessageBuffer[i] = victim[s],
             OutgoingMessageBuffer' = RemoveAt(OutgoingMessageBuffer, i)
      PROVE  OutgoingMessageBuffer' \in Seq(Messages) /\ Shortened(i)
  BY <1>3, RemoveAtProperties DEF Shortened
<1> QED
  BY <1>1, <1>2, <1>3, RemoveFirstOutcome

\* What an acknowledgement does to it.
LEMMA AcknowledgementShortens ==
  ASSUME OutgoingMessageBuffer \in Seq(Messages), RemoveAcknowledged
  PROVE  /\ OutgoingMessageBuffer' \in Seq(Messages)
         /\ \/ OutgoingMessageBuffer' = OutgoingMessageBuffer
            \/ \E i \in 1 .. Len(OutgoingMessageBuffer) :
                   OutgoingMessageBuffer[i].key = acknowledged /\ Shortened(i)
<1>1. OutgoingMessageBuffer' = RemoveFirst(OutgoingMessageBuffer, element)
      /\ element.key = acknowledged
  BY DEF RemoveAcknowledged
<1>2. CASE OutgoingMessageBuffer' = OutgoingMessageBuffer
  BY <1>2
<1>3. ASSUME NEW i \in 1 .. Len(OutgoingMessageBuffer), OutgoingMessageBuffer[i] = element,
             OutgoingMessageBuffer' = RemoveAt(OutgoingMessageBuffer, i)
      PROVE  OutgoingMessageBuffer' \in Seq(Messages) /\ Shortened(i)
  BY <1>3, RemoveAtProperties DEF Shortened
<1>4. \/ OutgoingMessageBuffer' = OutgoingMessageBuffer
      \/ \E i \in 1 .. Len(OutgoingMessageBuffer) :
             /\ OutgoingMessageBuffer[i] = element
             /\ OutgoingMessageBuffer' = RemoveAt(OutgoingMessageBuffer, i)
  BY <1>1, RemoveFirstOutcome
<1> QED
  BY <1>1, <1>2, <1>3, <1>4

-----------------------------------------------------------------------------
(* The types, in the parts that the actions change separately. *)

SenderType ==
    /\ background \subseteq Senders
    /\ StreamDataSequenceNumber \in Numbers
    /\ pc \in [Senders -> {"idle", "composed", "sent", "labelled", "full", "evicting",
                          "pushing", "pushed", "incrementing", "stopped", "panicked"}]
    /\ message \in [Senders -> Messages]
    /\ victim \in [Senders -> Messages]
    /\ number \in [Senders -> Numbers]
    /\ nextInput \in 1 .. MaxInputs + 1
    /\ failures \in 0 .. MaxSendFailures

ListType == OutgoingMessageBuffer \in Seq(Messages)

SchedulerType ==
    /\ scheduler \in {"sleeping", "signalling", "resending"}
    /\ streamMessage \in Messages
    /\ resendAttempt \in [Inputs -> Nat]
    /\ overdue \subseteq Inputs
    /\ isStreamMessageResendTimeout \in 0 .. 1
    /\ terminator \in {"listening", "terminated", "failed"}

AgentType ==
    /\ sent \subseteq Messages
    /\ DOMAIN agentGot \subseteq Numbers /\ \A n \in DOMAIN agentGot : agentGot[n] \in Inputs
    /\ listener \in {"reading", "walking"}
    /\ acknowledged \in Numbers
    /\ element \in Messages

\* A single sender is one that has a name.
LEMMA OneSender == Cardinality(Senders) = 1 <=> \E s \in Senders : Senders = {s}
BY OutgoingAssumption, FS_Singleton

\* The type invariant is these parts, given that a single sender has room.
LEMMA TypeParts == /\ TypeOK => SenderType /\ ListType /\ SchedulerType /\ AgentType
                   /\ SenderType /\ ListType /\ SchedulerType /\ AgentType /\ RoomInv => TypeOK
BY OneSender DEF TypeOK, SenderType, ListType, SchedulerType, AgentType, RoomInv

\* The same for the next state.
LEMMA TypePartsPrime ==
  /\ SenderType' /\ ListType' /\ SchedulerType' /\ AgentType' /\ RoomInv' => TypeOK'
BY OneSender DEF TypeOK, SenderType, ListType, SchedulerType, AgentType, RoomInv

\* The list as a sequence of messages.
LEMMA ListAsSequence ==
  ASSUME ListType
  PROVE  /\ Len(OutgoingMessageBuffer) \in Nat
         /\ DOMAIN OutgoingMessageBuffer = 1 .. Len(OutgoingMessageBuffer)
         /\ \A j \in 1 .. Len(OutgoingMessageBuffer) : OutgoingMessageBuffer[j] \in Messages
BY LenProperties DEF ListType

\* What is left in the list was in it, elsewhere than at i, and in the same order.
LEMMA ShortenedList ==
  ASSUME ListType, ListType', NEW i \in 1 .. Len(OutgoingMessageBuffer), Shortened(i)
  PROVE  /\ DOMAIN OutgoingMessageBuffer' = 1 .. Len(OutgoingMessageBuffer) - 1
         /\ \A j \in DOMAIN OutgoingMessageBuffer' :
                /\ j < i => /\ j \in DOMAIN OutgoingMessageBuffer
                            /\ OutgoingMessageBuffer'[j] = OutgoingMessageBuffer[j]
                /\ j >= i => /\ j + 1 \in DOMAIN OutgoingMessageBuffer
                             /\ OutgoingMessageBuffer'[j] = OutgoingMessageBuffer[j + 1]
         /\ \A j \in DOMAIN OutgoingMessageBuffer' :
                \E k \in DOMAIN OutgoingMessageBuffer :
                    k # i /\ OutgoingMessageBuffer'[j] = OutgoingMessageBuffer[k]
         /\ \A k \in DOMAIN OutgoingMessageBuffer : k # i =>
                \E j \in DOMAIN OutgoingMessageBuffer' :
                    OutgoingMessageBuffer'[j] = OutgoingMessageBuffer[k]
<1> DEFINE n == Len(OutgoingMessageBuffer)
<1>1. n \in Nat /\ DOMAIN OutgoingMessageBuffer = 1 .. n
  BY ListAsSequence
<1>2. DOMAIN OutgoingMessageBuffer' = 1 .. n - 1
  BY DEF ListType, Shortened
<1>3. \A j \in 1 .. n - 1 : OutgoingMessageBuffer'[j] = IF j < i THEN OutgoingMessageBuffer[j]
                                                       ELSE OutgoingMessageBuffer[j + 1]
  BY DEF Shortened
<1> HIDE DEF n
<1>4. i \in 1 .. n
  BY DEF n
<1>5. \A j \in 1 .. n - 1 :
          /\ j < i => j \in 1 .. n /\ OutgoingMessageBuffer'[j] = OutgoingMessageBuffer[j]
          /\ j >= i => j + 1 \in 1 .. n /\ OutgoingMessageBuffer'[j] = OutgoingMessageBuffer[j + 1]
  BY <1>1, <1>3, <1>4
<1>6. \A k \in 1 .. n : k # i =>
          \E j \in 1 .. n - 1 : OutgoingMessageBuffer'[j] = OutgoingMessageBuffer[k]
  <2>1. SUFFICES ASSUME NEW k \in 1 .. n, k # i
                 PROVE  \E j \in 1 .. n - 1 : OutgoingMessageBuffer'[j] = OutgoingMessageBuffer[k]
    OBVIOUS
  <2>2. CASE k < i
    BY <1>1, <1>4, <1>5, <2>2
  <2>3. CASE k > i
    <3>1. k - 1 \in 1 .. n - 1 /\ k - 1 >= i /\ (k - 1) + 1 = k
      BY <1>1, <1>4, <2>3
    <3> QED
      BY <1>5, <3>1
  <2> QED
    BY <1>1, <1>4, <2>1, <2>2, <2>3
<1>7. \A j \in 1 .. n - 1 : \E k \in 1 .. n :
          k # i /\ OutgoingMessageBuffer'[j] = OutgoingMessageBuffer[k]
  <2>1. SUFFICES ASSUME NEW j \in 1 .. n - 1
                 PROVE  \E k \in 1 .. n :
                            k # i /\ OutgoingMessageBuffer'[j] = OutgoingMessageBuffer[k]
    OBVIOUS
  <2>2. CASE j < i
    BY <1>1, <1>4, <1>5, <2>2
  <2>3. CASE j >= i
    <3>1. j + 1 # i
      BY <1>1, <1>4, <2>3
    <3> QED
      BY <1>5, <2>3, <3>1
  <2> QED
    BY <1>1, <1>4, <2>2, <2>3
<1> QED
  BY <1>1, <1>2, <1>5, <1>6, <1>7 DEF n

\* How a sender's step changes the number of those in flight.
LEMMA InFlightChanges ==
  ASSUME SenderType, NEW s \in Senders, NEW at, pc' = [pc EXCEPT ![s] = at]
  PROVE  /\ Cardinality(InFlight) \in Nat /\ Cardinality(InFlight') \in Nat
         /\ s \in InFlight /\ at \notin {"idle", "stopped"} => InFlight' = InFlight
         /\ s \in InFlight /\ at \in {"idle", "stopped"} =>
                Cardinality(InFlight') = Cardinality(InFlight) - 1
         /\ s \notin InFlight /\ at \notin {"idle", "stopped"} =>
                Cardinality(InFlight') = Cardinality(InFlight) + 1
         /\ s \notin InFlight /\ at \in {"idle", "stopped"} => InFlight' = InFlight
<1>1. InFlight \subseteq Senders /\ InFlight' \subseteq Senders
  BY DEF InFlight
<1>2. IsFiniteSet(InFlight) /\ IsFiniteSet(InFlight')
  BY <1>1, OutgoingAssumption, FS_Subset
<1>3. Cardinality(InFlight) \in Nat /\ Cardinality(InFlight') \in Nat
  BY <1>2, FS_CardinalityType
<1>4. InFlight' = IF at \in {"idle", "stopped"} THEN InFlight \ {s} ELSE InFlight \cup {s}
  BY DEF SenderType, InFlight
<1>5. /\ Cardinality(InFlight \ {s}) =
             IF s \in InFlight THEN Cardinality(InFlight) - 1 ELSE Cardinality(InFlight)
      /\ Cardinality(InFlight \cup {s}) =
             IF s \in InFlight THEN Cardinality(InFlight) ELSE Cardinality(InFlight) + 1
  BY <1>2, FS_AddElement, FS_RemoveElement
<1> QED
  BY <1>3, <1>4, <1>5

-----------------------------------------------------------------------------
(* Types, for any senders: one step per action. *)

\* An empty list and idle senders.
LEMMA InitTInv == Init => TInv
<1> SUFFICES ASSUME Init PROVE TInv
  OBVIOUS
<1> USE OutgoingAssumption DEF Init
<1>1. SenderType /\ SchedulerType /\ AgentType
  BY DEF SenderType, SchedulerType, AgentType, Messages, Numbers, NoMessage, Inputs
<1>2. ListType /\ OutgoingMessageBuffer = <<>> /\ Len(OutgoingMessageBuffer) = 0
  BY DEF ListType
<1>3. InFlight = {}
  BY DEF InFlight
<1>4. NumberInv
  BY <1>3, FS_EmptySet DEF NumberInv
<1>5. InputInv
  BY <1>2, <1>3 DEF InputInv
<1>6. RoomInv
  BY <1>2 DEF RoomInv
<1> QED
  BY <1>1, <1>2, <1>4, <1>5, <1>6, TypeParts DEF TInv

\* A sender's step moves it, and reads and writes what it may.
LEMMA SenderKeepsTInv ==
  ASSUME TInv, NEW s \in Senders, SendInputDataMessage(s) \/ EndOfInput(s)
  PROVE  TInv'
<1> USE OutgoingAssumption
<1>0. SenderType /\ ListType /\ SchedulerType /\ AgentType
  BY TypeParts DEF TInv
<1>1. PICK at \in {"idle", "composed", "sent", "labelled", "full", "evicting", "pushing",
                   "pushed", "incrementing", "stopped", "panicked"} : pc' = [pc EXCEPT ![s] = at]
  BY DEF SendInputDataMessage, EndOfInput, Compose, Transmit, Label, CheckCapacity, ReadOldest,
         Evict, Push, ReadNumber, Increment, AfterError
<1>2. \A t \in Senders : pc'[t] = IF t = s THEN at ELSE pc[t]
  BY <1>0, <1>1 DEF SenderType
<1>3. Cardinality(InFlight) \in Nat /\ Cardinality(InFlight') \in Nat
  BY <1>0, <1>1, InFlightChanges
<1>4. UNCHANGED <<scheduler, streamMessage, resendAttempt, isStreamMessageResendTimeout, overdue,
                  terminator, agentGot, listener, acknowledged, element, background>>
  BY DEF SendInputDataMessage, EndOfInput, Compose, Transmit, Label, CheckCapacity, ReadOldest,
         Evict, Push, ReadNumber, Increment, schedulerVars, listenerVars
<1>5. SchedulerType'
  BY <1>0, <1>4 DEF SchedulerType
<1>6. s \in InFlight => message[s].input \in Inputs
  BY DEF TInv, InputInv
<1>7. CASE EndOfInput(s)
  <2>1. /\ pc[s] = "idle" /\ at = "stopped"
        /\ UNCHANGED <<StreamDataSequenceNumber, message, victim, number, nextInput, failures,
                       OutgoingMessageBuffer, sent>>
    BY <1>0, <1>1, <1>7 DEF EndOfInput, SenderType
  <2>2. InFlight' = InFlight
    BY <1>0, <1>1, <2>1, InFlightChanges DEF InFlight
  <2>3. SenderType' /\ ListType' /\ AgentType'
    BY <1>0, <1>1, <1>4, <2>1 DEF SenderType, ListType, AgentType
  <2>4. NumberInv' /\ InputInv' /\ RoomInv'
    BY <1>2, <1>4, <2>1, <2>2 DEF TInv, NumberInv, InputInv, RoomInv, BufferIsFull, Oldest
  <2> QED
    BY <1>5, <2>3, <2>4, TypePartsPrime DEF TInv
<1>8. CASE Compose(s)
  <2>1. /\ pc[s] = "idle" /\ at = "composed" /\ nextInput \in Inputs
        /\ nextInput' = nextInput + 1
        /\ message' = [message EXCEPT ![s] =
               [serialized |-> StreamDataSequenceNumber, key |-> 0, input |-> nextInput]]
        /\ UNCHANGED <<StreamDataSequenceNumber, victim, number, failures,
                       OutgoingMessageBuffer, sent>>
    BY <1>0, <1>1, <1>8 DEF Compose, SenderType
  <2>2. Cardinality(InFlight') = Cardinality(InFlight) + 1
    BY <1>0, <1>1, <2>1, InFlightChanges DEF InFlight
  <2>3. SenderType'
    BY <1>0, <1>1, <1>4, <2>1 DEF SenderType, Messages, Numbers, Inputs
  <2>4. ListType' /\ AgentType'
    BY <1>0, <1>4, <2>1 DEF ListType, AgentType
  <2>5. NumberInv'
    BY <1>0, <1>2, <1>3, <2>1, <2>2 DEF TInv, NumberInv, SenderType, Numbers
  <2>6. InputInv'
    <3>1. \A t \in InFlight' : message'[t].input \in Inputs
      BY <1>0, <1>2, <2>1 DEF TInv, InputInv, InFlight, SenderType
    <3> QED
      BY <1>4, <2>1, <3>1 DEF TInv, InputInv
  <2>7. RoomInv'
    BY <1>2, <2>1 DEF TInv, RoomInv, BufferIsFull, Oldest
  <2> QED
    BY <1>5, <2>3, <2>4, <2>5, <2>6, <2>7, TypePartsPrime DEF TInv
<1>9. CASE Transmit(s)
  <2>1. /\ pc[s] = "composed" /\ at \in {"sent", "idle", "stopped"}
        /\ sent' \in {sent, sent \cup {message[s]}}
        /\ failures' \in 0 .. MaxSendFailures
        /\ UNCHANGED <<StreamDataSequenceNumber, message, victim, number, nextInput,
                       OutgoingMessageBuffer>>
    BY <1>0, <1>1, <1>9 DEF Transmit, SenderType, AfterError
  <2>2. Cardinality(InFlight') <= Cardinality(InFlight) /\ InFlight' \subseteq InFlight
    <3>1. InFlight' \subseteq InFlight /\ s \in InFlight
      BY <1>2, <2>1 DEF InFlight
    <3>2. \/ InFlight' = InFlight
          \/ Cardinality(InFlight') = Cardinality(InFlight) - 1
      BY <1>0, <1>1, <2>1, <3>1, InFlightChanges
    <3> QED
      BY <1>3, <3>1, <3>2
  <2>3. SenderType' /\ ListType'
    BY <1>0, <1>1, <1>4, <2>1 DEF SenderType, ListType
  <2>4. message[s] \in Messages /\ s \in InFlight
    BY <1>0, <2>1 DEF SenderType, InFlight
  <2>5. AgentType'
    BY <1>0, <1>4, <2>1, <2>4 DEF AgentType
  <2>6. NumberInv'
    BY <1>0, <1>2, <1>3, <2>1, <2>2 DEF TInv, NumberInv, SenderType, Numbers
  <2>7. InputInv'
    BY <1>4, <1>6, <2>1, <2>2, <2>4 DEF TInv, InputInv
  <2>8. RoomInv'
    BY <1>2, <2>1 DEF TInv, RoomInv, BufferIsFull, Oldest
  <2> QED
    BY <1>5, <2>3, <2>5, <2>6, <2>7, <2>8, TypePartsPrime DEF TInv
<1>10. CASE Label(s)
  <2>1. /\ pc[s] = "sent" /\ at = "labelled"
        /\ message' = [message EXCEPT ![s].key = StreamDataSequenceNumber]
        /\ UNCHANGED <<StreamDataSequenceNumber, victim, number, nextInput, failures,
                       OutgoingMessageBuffer, sent>>
    BY <1>0, <1>1, <1>10 DEF Label, SenderType
  <2>2. InFlight' = InFlight /\ s \in InFlight
    BY <1>0, <1>1, <2>1, InFlightChanges DEF InFlight
  <2>3. message' \in [Senders -> Messages]
    BY <1>0, <2>1 DEF SenderType, Messages
  <2>4. SenderType' /\ ListType' /\ AgentType'
    BY <1>0, <1>1, <1>4, <2>1, <2>3 DEF SenderType, ListType, AgentType
  <2>5. \A t \in Senders : message'[t].input = message[t].input
    BY <1>0, <2>1 DEF SenderType, Messages
  <2>6. NumberInv' /\ RoomInv'
    BY <1>2, <2>1, <2>2 DEF TInv, NumberInv, RoomInv, BufferIsFull, Oldest
  <2>7. InputInv'
    BY <1>4, <2>1, <2>2, <2>5 DEF TInv, InputInv, InFlight
  <2> QED
    BY <1>5, <2>4, <2>6, <2>7, TypePartsPrime DEF TInv
<1>11. CASE CheckCapacity(s)
  <2>1. /\ pc[s] = "labelled"
        /\ at = IF BufferIsFull THEN "full" ELSE "pushing"
        /\ UNCHANGED <<StreamDataSequenceNumber, message, victim, number, nextInput, failures,
                       OutgoingMessageBuffer, sent>>
    BY <1>0, <1>1, <1>11 DEF CheckCapacity, SenderType
  <2>2. InFlight' = InFlight
    BY <1>0, <1>1, <2>1, InFlightChanges DEF InFlight
  <2>3. SenderType' /\ ListType' /\ AgentType'
    BY <1>0, <1>1, <1>4, <2>1 DEF SenderType, ListType, AgentType
  <2>4. NumberInv' /\ InputInv'
    BY <1>2, <1>4, <2>1, <2>2 DEF TInv, NumberInv, InputInv
  <2>5. RoomInv'
    <3>1. Len(OutgoingMessageBuffer) \in Nat
      BY <1>0, ListAsSequence
    <3> QED
      BY <1>2, <2>1, <3>1 DEF TInv, RoomInv, BufferIsFull, Oldest
  <2> QED
    BY <1>5, <2>3, <2>4, <2>5, TypePartsPrime DEF TInv
<1>16. CASE ReadOldest(s)
  <2>1. /\ pc[s] = "full"
        /\ \/ /\ OutgoingMessageBuffer # <<>> /\ at = "evicting"
              /\ victim' = [victim EXCEPT ![s] = Oldest]
           \/ at = "panicked" /\ victim' = victim
        /\ UNCHANGED <<StreamDataSequenceNumber, message, number, nextInput, failures,
                       OutgoingMessageBuffer, sent>>
    BY <1>0, <1>1, <1>16 DEF ReadOldest, SenderType
  <2>2. InFlight' = InFlight
    BY <1>0, <1>1, <2>1, InFlightChanges DEF InFlight
  <2>3. OutgoingMessageBuffer # <<>> => Oldest \in Messages
    BY <1>0 DEF Oldest, ListType
  <2>4. SenderType' /\ ListType' /\ AgentType'
    BY <1>0, <1>1, <1>4, <2>1, <2>3 DEF SenderType, ListType, AgentType
  <2>5. NumberInv' /\ InputInv'
    BY <1>2, <1>4, <2>1, <2>2 DEF TInv, NumberInv, InputInv
  <2>6. RoomInv'
    BY <1>0, <1>2, <2>1 DEF TInv, RoomInv, BufferIsFull, Oldest, SenderType
  <2> QED
    BY <1>5, <2>4, <2>5, <2>6, TypePartsPrime DEF TInv
<1>12. CASE Evict(s)
  <2>1. /\ pc[s] = "evicting" /\ at = "pushing"
        /\ victim' = [victim EXCEPT ![s] = NoMessage]
        /\ UNCHANGED <<StreamDataSequenceNumber, message, number, nextInput, failures, sent>>
    BY <1>0, <1>1, <1>12 DEF Evict, SenderType
  <2>2. InFlight' = InFlight
    BY <1>0, <1>1, <2>1, InFlightChanges DEF InFlight
  <2>3. /\ ListType'
        /\ \/ /\ OutgoingMessageBuffer' = OutgoingMessageBuffer
              /\ \A i \in 1 .. Len(OutgoingMessageBuffer) : OutgoingMessageBuffer[i] # victim[s]
           \/ \E i \in 1 .. Len(OutgoingMessageBuffer) :
                  OutgoingMessageBuffer[i] = victim[s] /\ Shortened(i)
    BY <1>0, <1>12, EvictShortens DEF ListType
  <2>4. SenderType' /\ AgentType'
    BY <1>0, <1>1, <1>4, <2>1 DEF SenderType, AgentType, NoMessage, Messages, Numbers
  <2>5. NumberInv'
    BY <1>2, <2>1, <2>2 DEF TInv, NumberInv
  <2>6. \A j \in DOMAIN OutgoingMessageBuffer' : OutgoingMessageBuffer'[j].input \in Inputs
    BY <1>0, <2>3, ShortenedList DEF TInv, InputInv
  <2>7. InputInv'
    BY <1>4, <2>1, <2>2, <2>6 DEF TInv, InputInv
  <2>8. RoomInv'
    <3>1. SUFFICES ASSUME Senders = {s}
                   PROVE  Len(OutgoingMessageBuffer') < OutgoingMessageBufferCapacity
      <4>1. Len(OutgoingMessageBuffer') \in Nat
        BY <2>3 DEF ListType
      <4> QED
        BY <1>2, <2>1, <3>1, <4>1 DEF RoomInv
    <3>2. Len(OutgoingMessageBuffer) \in Nat
      BY <1>0, ListAsSequence
    <3>3. CASE BufferIsFull
      <4>1. OutgoingMessageBuffer[1] = victim[s] /\ 1 \in 1 .. Len(OutgoingMessageBuffer)
        BY <1>0, <2>1, <3>1, <3>2, <3>3 DEF TInv, RoomInv, BufferIsFull, Oldest, ListType
      <4>2. Len(OutgoingMessageBuffer') = Len(OutgoingMessageBuffer) - 1
        BY <2>3, <4>1 DEF Shortened
      <4> QED
        BY <3>2, <3>3, <4>2 DEF BufferIsFull
    <3>4. CASE ~BufferIsFull
      <4>1. Len(OutgoingMessageBuffer) < OutgoingMessageBufferCapacity
        BY <3>1, <3>2, <3>4 DEF TInv, RoomInv, BufferIsFull
      <4>2. Len(OutgoingMessageBuffer') <= Len(OutgoingMessageBuffer)
        BY <2>3, <3>2 DEF Shortened
      <4>3. Len(OutgoingMessageBuffer') \in Nat
        BY <2>3 DEF ListType
      <4> QED
        BY <3>2, <4>1, <4>2, <4>3
    <3> QED
      BY <3>3, <3>4
  <2> QED
    BY <1>5, <2>3, <2>4, <2>5, <2>7, <2>8, TypePartsPrime DEF TInv
<1>13. CASE Push(s)
  <2>1. /\ pc[s] = "pushing" /\ at = "pushed"
        /\ OutgoingMessageBuffer' = Append(OutgoingMessageBuffer, message[s])
        /\ UNCHANGED <<StreamDataSequenceNumber, message, victim, number, nextInput, failures,
                       sent>>
    BY <1>0, <1>1, <1>13 DEF Push, SenderType
  <2>2. InFlight' = InFlight /\ s \in InFlight
    BY <1>0, <1>1, <2>1, InFlightChanges DEF InFlight
  <2>3. message[s] \in Messages
    BY <1>0 DEF SenderType
  <2>4. /\ ListType'
        /\ Len(OutgoingMessageBuffer') = Len(OutgoingMessageBuffer) + 1
        /\ \A j \in 1 .. Len(OutgoingMessageBuffer) :
               OutgoingMessageBuffer'[j] = OutgoingMessageBuffer[j]
        /\ OutgoingMessageBuffer'[Len(OutgoingMessageBuffer) + 1] = message[s]
    BY <1>0, <2>1, <2>3, AppendProperties DEF ListType
  <2>5. SenderType' /\ AgentType'
    BY <1>0, <1>1, <1>4, <2>1 DEF SenderType, AgentType
  <2>6. NumberInv'
    BY <1>2, <2>1, <2>2 DEF TInv, NumberInv
  <2>7. \A j \in DOMAIN OutgoingMessageBuffer' : OutgoingMessageBuffer'[j].input \in Inputs
    <3>1. DOMAIN OutgoingMessageBuffer' = 1 .. Len(OutgoingMessageBuffer) + 1
      BY <2>4 DEF ListType
    <3> QED
      BY <1>0, <1>6, <2>2, <2>4, <3>1, ListAsSequence DEF TInv, InputInv
  <2>8. InputInv'
    BY <1>4, <2>1, <2>2, <2>7 DEF TInv, InputInv
  <2>9. RoomInv'
    <3>1. SUFFICES ASSUME Senders = {s}
                   PROVE  Len(OutgoingMessageBuffer') <= OutgoingMessageBufferCapacity
      BY <1>2, <2>1, <3>1 DEF RoomInv
    <3>2. Len(OutgoingMessageBuffer) \in Nat
      BY <1>0, ListAsSequence
    <3> QED
      BY <2>1, <2>4, <3>1, <3>2 DEF TInv, RoomInv
  <2> QED
    BY <1>5, <2>4, <2>5, <2>6, <2>8, <2>9, TypePartsPrime DEF TInv
<1>14. CASE ReadNumber(s)
  <2>1. /\ pc[s] = "pushed" /\ at = "incrementing"
        /\ number' = [number EXCEPT ![s] = StreamDataSequenceNumber]
        /\ UNCHANGED <<StreamDataSequenceNumber, message, victim, nextInput, failures,
                       OutgoingMessageBuffer, sent>>
    BY <1>0, <1>1, <1>14 DEF ReadNumber, SenderType
  <2>2. InFlight' = InFlight
    BY <1>0, <1>1, <2>1, InFlightChanges DEF InFlight
  <2>3. SenderType' /\ ListType' /\ AgentType'
    BY <1>0, <1>1, <1>4, <2>1 DEF SenderType, ListType, AgentType
  <2>4. NumberInv'
    BY <1>0, <1>2, <2>1, <2>2 DEF TInv, NumberInv, SenderType
  <2>5. InputInv' /\ RoomInv'
    BY <1>2, <1>4, <2>1, <2>2 DEF TInv, InputInv, RoomInv, BufferIsFull, Oldest
  <2> QED
    BY <1>5, <2>3, <2>4, <2>5, TypePartsPrime DEF TInv
<1>15. CASE Increment(s)
  <2>1. /\ pc[s] = "incrementing" /\ at = "idle"
        /\ StreamDataSequenceNumber' = number[s] + 1
        /\ number' = [number EXCEPT ![s] = 0]
        /\ message' = [message EXCEPT ![s] = NoMessage]
        /\ UNCHANGED <<victim, nextInput, failures, OutgoingMessageBuffer, sent>>
    BY <1>0, <1>1, <1>15 DEF Increment, Incremented, SenderType
  <2>2. Cardinality(InFlight') = Cardinality(InFlight) - 1 /\ InFlight' = InFlight \ {s}
    BY <1>0, <1>1, <1>2, <2>1, InFlightChanges DEF InFlight
  <2>3. number[s] + Cardinality(InFlight) <= nextInput - 1 /\ number[s] \in Nat
    BY <1>0, <2>1 DEF TInv, NumberInv, SenderType, Numbers
  <2>4. number[s] + 1 \in Numbers
    BY <1>0, <1>3, <2>2, <2>3 DEF SenderType, Numbers
  <2>5. SenderType'
    BY <1>0, <1>1, <1>4, <2>1, <2>4 DEF SenderType, NoMessage, Messages, Numbers
  <2>6. ListType' /\ AgentType'
    BY <1>0, <1>4, <2>1 DEF ListType, AgentType
  <2>7. NumberInv'
    BY <1>0, <1>2, <1>3, <2>1, <2>2, <2>3 DEF TInv, NumberInv, SenderType, Numbers
  <2>8. InputInv' /\ RoomInv'
    BY <1>0, <1>2, <1>4, <2>1, <2>2
       DEF TInv, InputInv, RoomInv, BufferIsFull, Oldest, SenderType, InFlight
  <2> QED
    BY <1>5, <2>5, <2>6, <2>7, <2>8, TypePartsPrime DEF TInv
<1> QED
  BY <1>7, <1>8, <1>9, <1>10, <1>11, <1>12, <1>13, <1>14, <1>15, <1>16 DEF SendInputDataMessage

\* The other goroutines, and the agent, leave the senders alone.
LEMMA OthersKeepTInv ==
  ASSUME TInv,
         \/ \E i \in Inputs : TimePasses(i)
         \/ ResendScheduler
         \/ HandleResendTimeout
         \/ \E n \in Numbers : HandleAcknowledgeMessage(n)
         \/ ProcessAcknowledgedMessage
         \/ \E m \in sent : AgentReceive(m)
         \/ UNCHANGED vars
  PROVE  TInv'
<1> USE OutgoingAssumption
<1>0. SenderType /\ ListType /\ SchedulerType /\ AgentType
  BY TypeParts DEF TInv
<1>1. UNCHANGED <<background, StreamDataSequenceNumber, pc, message, victim, number, nextInput,
                  failures, sent>>
  BY DEF TimePasses, ResendScheduler, PickFirst, Signal, Resend, HandleResendTimeout,
         HandleAcknowledgeMessage, ProcessAcknowledgedMessage, NextElement, RemoveAcknowledged,
         AgentReceive, senderVars, vars
<1>2. SenderType' /\ NumberInv' /\ InFlight' = InFlight
  BY <1>0, <1>1 DEF SenderType, TInv, NumberInv, InFlight
<1>3. CASE RemoveAcknowledged
  <2>1. NoMessage \in Messages /\ 0 \in Numbers
    BY DEF NoMessage, Messages, Numbers
  <2>2. /\ listener' = "reading" /\ acknowledged' = 0 /\ element' = NoMessage
        /\ agentGot' = agentGot
        /\ UNCHANGED <<schedulerVars, overdue, terminator>>
    BY <1>3 DEF RemoveAcknowledged
  <2>3. SchedulerType' /\ AgentType'
    BY <1>0, <1>1, <2>1, <2>2 DEF SchedulerType, AgentType, schedulerVars
  <2>4. /\ ListType'
        /\ \/ OutgoingMessageBuffer' = OutgoingMessageBuffer
           \/ \E i \in 1 .. Len(OutgoingMessageBuffer) : Shortened(i)
    BY <1>0, <1>3, AcknowledgementShortens DEF ListType
  <2>5. \A j \in DOMAIN OutgoingMessageBuffer' : OutgoingMessageBuffer'[j].input \in Inputs
    BY <1>0, <2>4, ShortenedList DEF TInv, InputInv
  <2>6. InputInv'
    BY <1>1, <1>2, <2>2, <2>5 DEF TInv, InputInv, schedulerVars
  <2>7. RoomInv'
    <3>1. CASE OutgoingMessageBuffer' = OutgoingMessageBuffer
      BY <1>1, <3>1 DEF TInv, RoomInv, BufferIsFull, Oldest
    <3>2. CASE Len(OutgoingMessageBuffer') = Len(OutgoingMessageBuffer) - 1
      <4>1. Len(OutgoingMessageBuffer) \in Nat
        BY <1>0, ListAsSequence
      <4> QED
        BY <1>1, <3>2, <4>1 DEF TInv, RoomInv, BufferIsFull
    <3> QED
      BY <2>4, <3>1, <3>2 DEF Shortened
  <2> QED
    BY <1>2, <2>3, <2>4, <2>6, <2>7, TypePartsPrime DEF TInv
<1>4. CASE OutgoingMessageBuffer' = OutgoingMessageBuffer /\ ~RemoveAcknowledged
  <2>1. ListType' /\ RoomInv'
    BY <1>0, <1>1, <1>4 DEF ListType, TInv, RoomInv, BufferIsFull, Oldest
  <2>2. (AgentType /\ SchedulerType)' /\ InputInv'
    <3>1. CASE \E i \in Inputs : TimePasses(i)
      BY <1>0, <1>1, <1>2, <1>4, <3>1
         DEF TimePasses, AgentType, SchedulerType, TInv, InputInv, schedulerVars, listenerVars
    <3>2. CASE PickFirst
      <4>1. Head(OutgoingMessageBuffer) \in Messages /\ Head(OutgoingMessageBuffer).input \in Inputs
        BY <1>0, <3>2 DEF PickFirst, ListType, SchedulerType
      <4>2. streamMessage' = Head(OutgoingMessageBuffer)
            /\ scheduler' \in {"signalling", "resending"}
            /\ UNCHANGED <<resendAttempt, isStreamMessageResendTimeout, overdue, terminator,
                           agentGot, listener, acknowledged, element>>
        BY <3>2 DEF PickFirst, listenerVars
      <4> QED
        BY <1>0, <1>1, <1>2, <1>4, <4>1, <4>2 DEF AgentType, SchedulerType, TInv, InputInv
    <3>3. CASE Signal
      BY <1>0, <1>1, <1>2, <1>4, <3>3
         DEF Signal, AgentType, SchedulerType, TInv, InputInv, listenerVars
    <3>4. CASE Resend
      <4>1. resendAttempt' \in [Inputs -> Nat]
        <5>1. streamMessage.input \in Inputs
          BY <3>4 DEF Resend, TInv, InputInv
        <5> QED
          BY <1>0, <3>4, <5>1 DEF Resend, SchedulerType
      <4>2. NoMessage \in Messages
        BY DEF NoMessage, Messages, Numbers
      <4> QED
        BY <1>0, <1>1, <1>2, <1>4, <3>4, <4>1, <4>2
           DEF Resend, AgentType, SchedulerType, TInv, InputInv, listenerVars
    <3>5. CASE HandleResendTimeout
      BY <1>0, <1>1, <1>2, <1>4, <3>5
         DEF HandleResendTimeout, TerminateSession, AgentType, SchedulerType, TInv, InputInv,
             listenerVars
    <3>6. CASE \E m \in sent : AgentReceive(m)
      <4>1. PICK m \in sent : AgentReceive(m)
        BY <3>6
      <4>2. m.serialized \in Numbers /\ m.input \in Inputs
        BY <1>0 DEF AgentType, Messages, TInv, InputInv
      <4>3. UNCHANGED <<schedulerVars, overdue, terminator, listenerVars>>
        BY <4>1 DEF AgentReceive
      <4> QED
        BY <1>0, <1>1, <1>2, <1>4, <4>1, <4>2, <4>3
           DEF AgentReceive, AgentType, SchedulerType, TInv, InputInv, schedulerVars,
               listenerVars
    <3>7. CASE UNCHANGED vars
      BY <1>0, <1>1, <1>2, <3>7
         DEF AgentType, SchedulerType, TInv, InputInv, vars, schedulerVars, listenerVars
    <3>8. CASE \E n \in Numbers : HandleAcknowledgeMessage(n)
      <4>1. PICK n \in Numbers : HandleAcknowledgeMessage(n)
        BY <3>8
      <4>2. Head(OutgoingMessageBuffer) \in Messages
        BY <1>0, <4>1 DEF HandleAcknowledgeMessage, ListType
      <4>3. /\ listener' = "walking" /\ acknowledged' = n
            /\ element' = Head(OutgoingMessageBuffer)
            /\ UNCHANGED <<schedulerVars, overdue, terminator, agentGot>>
        BY <4>1 DEF HandleAcknowledgeMessage
      <4> QED
        BY <1>0, <1>1, <1>2, <1>4, <4>2, <4>3
           DEF AgentType, SchedulerType, TInv, InputInv, schedulerVars
    <3>9. CASE NextElement
      <4>1. \A j \in DOMAIN OutgoingMessageBuffer : OutgoingMessageBuffer[j] \in Messages
        BY <1>0, ListAsSequence
      <4>2. NoMessage \in Messages /\ 0 \in Numbers
        BY DEF NoMessage, Messages, Numbers
      <4>3. /\ listener' \in {"reading", "walking"}
            /\ acknowledged' \in Numbers
            /\ element' \in Messages
        BY <1>0, <3>9, <4>1, <4>2 DEF NextElement, AgentType
      <4>4. UNCHANGED <<schedulerVars, overdue, terminator, agentGot>>
        BY <3>9 DEF NextElement
      <4> QED
        BY <1>0, <1>1, <1>2, <1>4, <4>3, <4>4
           DEF AgentType, SchedulerType, TInv, InputInv, schedulerVars
    <3> QED
      BY <1>4, <3>1, <3>2, <3>3, <3>4, <3>5, <3>6, <3>7, <3>8, <3>9
         DEF ResendScheduler, ProcessAcknowledgedMessage
  <2> QED
    BY <1>2, <2>1, <2>2, TypePartsPrime DEF TInv
<1> QED
  BY <1>3, <1>4
     DEF TimePasses, ResendScheduler, PickFirst, Signal, Resend, HandleResendTimeout, AgentReceive,
         HandleAcknowledgeMessage, ProcessAcknowledgedMessage, NextElement, vars

\* Every step keeps the types.
LEMMA StepTInv ==
  ASSUME TInv, [Next]_vars
  PROVE  TInv'
BY SenderKeepsTInv, OthersKeepTInv DEF Next, Process

\* Every variable keeps its type, for any number of senders: no number and no index
\* leaves its range, and the list of a single sender never outgrows its capacity.
THEOREM TypeCorrect == Spec => []TypeOK
<1>1. Init => TInv
  BY InitTInv
<1>2. TInv /\ [Next]_vars => TInv'
  BY StepTInv
<1>3. TInv => TypeOK
  BY DEF TInv
<1> QED
  BY <1>1, <1>2, <1>3, PTL DEF Spec

-----------------------------------------------------------------------------
(* The bound of the resends. *)

\* The scheduler resends what has attempts left, or else puts one more value in the
\* channel first, for which there must be room.
LEMMA StepResendInv ==
  ASSUME TInv, ResendInv, [Next]_vars
  PROVE  ResendInv'
<1> USE OutgoingAssumption
<1>0. SchedulerType
  BY TypeParts DEF TInv
<1>1. Signals \in Nat
  BY <1>0 DEF SchedulerType, Signals
<1>2. CASE PickFirst
  <2>1. Head(OutgoingMessageBuffer).input \in Inputs
    <3>1. 1 \in DOMAIN OutgoingMessageBuffer
                /\ OutgoingMessageBuffer[1] = Head(OutgoingMessageBuffer)
      BY <1>2, TypeParts DEF PickFirst, TInv, ListType
    <3> QED
      BY <3>1 DEF TInv, InputInv
  <2> DEFINE i == Head(OutgoingMessageBuffer).input
  <2>2. /\ streamMessage'.input = i /\ i \in Inputs
        /\ scheduler' = IF resendAttempt[i] >= ResendMaxAttempt THEN "signalling" ELSE "resending"
        /\ UNCHANGED <<resendAttempt, isStreamMessageResendTimeout, terminator>>
    BY <1>2, <2>1 DEF PickFirst, OutOfAttempts
  <2>3. resendAttempt[i] \in Nat
    BY <1>0, <2>2 DEF SchedulerType
  <2> HIDE DEF i
  <2> QED
    BY <1>0, <1>1, <2>2, <2>3 DEF ResendInv, Signals, SchedulerType
<1>3. CASE Signal
  <2>1. /\ Signals' = Signals + 1 /\ scheduler' = "resending"
        /\ scheduler = "signalling" /\ UNCHANGED <<streamMessage, resendAttempt>>
    BY <1>0, <1>3 DEF Signal, Signals, SchedulerType
  <2>2. streamMessage.input \in Inputs
    BY <2>1 DEF TInv, InputInv
  <2>3. \A i \in Inputs : resendAttempt[i] \in Nat
    BY <1>0 DEF SchedulerType
  <2> QED
    BY <1>1, <2>1, <2>2, <2>3 DEF ResendInv
<1>4. CASE Resend
  <2>1. /\ Signals' = Signals /\ scheduler' = "sleeping" /\ scheduler = "resending"
        /\ resendAttempt' = [resendAttempt EXCEPT ![streamMessage.input] = @ + 1]
    BY <1>4 DEF Resend, Signals
  <2>2. streamMessage.input \in Inputs
    BY <2>1 DEF TInv, InputInv
  <2>3. \A i \in Inputs : resendAttempt'[i] = IF i = streamMessage.input THEN resendAttempt[i] + 1
                                              ELSE resendAttempt[i]
    BY <1>0, <2>1 DEF SchedulerType
  <2>4. \A i \in Inputs : resendAttempt[i] \in Nat
    BY <1>0 DEF SchedulerType
  <2> QED
    BY <1>1, <2>1, <2>2, <2>3, <2>4 DEF ResendInv
<1>5. CASE HandleResendTimeout
  <2>1. Signals' = Signals /\ UNCHANGED <<scheduler, streamMessage, resendAttempt>>
    BY <1>5 DEF HandleResendTimeout, TerminateSession, Signals
  <2> QED
    BY <2>1 DEF ResendInv
<1>6. CASE UNCHANGED <<schedulerVars, terminator>>
  BY <1>6 DEF ResendInv, Signals, schedulerVars
<1> QED
  BY <1>2, <1>3, <1>4, <1>5, <1>6
     DEF Next, Process, SendInputDataMessage, EndOfInput, Compose, Transmit, Label, CheckCapacity,
         ReadOldest, Evict, Push, ReadNumber, Increment, TimePasses, ResendScheduler,
         HandleAcknowledgeMessage, ProcessAcknowledgedMessage, NextElement, RemoveAcknowledged,
         AgentReceive, vars

\* However many goroutines send: no message is resent more often than the limit and twice
\* more, and the session is terminated only when one has reached the limit.
THEOREM ResendsBounded == Spec => []ResendsAreBounded
<1>1. Init => ResendInv
  BY OutgoingAssumption DEF Init, ResendInv, Signals, Inputs
<1>2. TInv /\ ResendInv /\ [Next]_vars => ResendInv'
  BY StepResendInv
<1>3. TInv /\ ResendInv => ResendsAreBounded
  <2>1. SUFFICES ASSUME TInv, ResendInv PROVE ResendsAreBounded
    OBVIOUS
  <2>2. SchedulerType
    BY TypeParts, <2>1 DEF TInv
  <2>3. Signals \in 0 .. 2 /\ (terminator # "listening" => Signals > 0)
    BY <2>2 DEF SchedulerType, Signals
  <2>4. \A i \in Inputs : resendAttempt[i] \in Nat
    BY <2>2 DEF SchedulerType
  <2> QED
    BY <2>1, <2>3, <2>4, OutgoingAssumption DEF ResendInv, ResendsAreBounded
<1>4. Spec => []TInv
  BY InitTInv, StepTInv, PTL DEF Spec
<1> QED
  BY <1>1, <1>2, <1>3, <1>4, PTL DEF Spec

-----------------------------------------------------------------------------
(* A single sender: one lemma per action that disturbs the invariant. *)

\* The types of what the invariant is about.
LEMMA LoneTypes ==
  ASSUME TInv, NEW s \in Senders
  PROVE  /\ StreamDataSequenceNumber \in Nat /\ nextInput \in Nat
         /\ message[s] \in Messages /\ victim[s] \in Messages /\ number[s] \in Nat
         /\ \A m \in Messages : m.serialized \in Nat /\ m.key \in Nat /\ m.input \in Nat
         /\ sent \subseteq Messages
         /\ ListType /\ Len(OutgoingMessageBuffer) \in Nat
         /\ DOMAIN OutgoingMessageBuffer = 1 .. Len(OutgoingMessageBuffer)
         /\ \A j \in DOMAIN OutgoingMessageBuffer : OutgoingMessageBuffer[j] \in Messages
         /\ SentCount(s) \in Nat /\ KeptCount(s) \in Nat
         /\ OutgoingMessageBufferCapacity \in Nat /\ OutgoingMessageBufferCapacity >= 1
<1>1. SenderType /\ ListType /\ AgentType
  BY TypeParts DEF TInv
<1>2. StreamDataSequenceNumber \in Nat /\ nextInput \in Nat
      /\ message[s] \in Messages /\ victim[s] \in Messages /\ number[s] \in Nat
  BY <1>1 DEF SenderType, Numbers
<1>3. \A m \in Messages : m.serialized \in Nat /\ m.key \in Nat /\ m.input \in Nat
  BY DEF Messages, Numbers
<1> QED
  BY <1>1, <1>2, <1>3, ListAsSequence, OutgoingAssumption DEF AgentType, SentCount, KeptCount

\* Nothing is sent, and the sender is idle.
LEMMA InitLoneInv ==
  ASSUME NEW s \in Senders, Init
  PROVE  LoneInv(s)
<1>0. TInv
  BY InitTInv
<1>1. SentCount(s) = 0 /\ s \notin InFlight
  BY DEF Init, SentCount, InFlight, AfterSend
<1>2. SentInv(s)
  BY <1>1, FS_EmptySet DEF Init, SentInv
<1>3. HandInv(s) /\ VictimInv(s)
  BY <1>1 DEF Init, HandInv, VictimInv, AfterSend
<1>4. ListInv(s)
  BY DEF Init, ListInv
<1>5. Forgotten = {}
  BY DEF Init, Forgotten
<1>6. AgentInv /\ ForgetInv(s)
  BY <1>5 DEF Init, AgentInv, ForgetInv
<1> QED
  BY <1>0, <1>2, <1>3, <1>4, <1>6 DEF LoneInv

\* The forgotten messages can be counted.
LEMMA ForgottenFinite ==
  ASSUME NEW s \in Senders, SentInv(s)
  PROVE  IsFiniteSet(Forgotten) /\ Cardinality(Forgotten) \in Nat
BY FS_Subset, FS_CardinalityType DEF SentInv, Forgotten

\* A step that forgets nothing, and adds nothing to the list that precedes what is
\* forgotten.
LEMMA NothingForgotten ==
  ASSUME NEW s \in Senders, TInv, TInv', SentInv(s), ForgetInv(s), Forgotten' \subseteq Forgotten,
         SentCount(s) <= SentCount(s)',
         pc'[s] \in {"full", "evicting"} => pc[s] \in {"full", "evicting"},
         \A m \in Forgotten, j \in DOMAIN OutgoingMessageBuffer' :
             m.serialized < OutgoingMessageBuffer'[j].key
  PROVE  ForgetInv(s)'
<1>1. IsFiniteSet(Forgotten) /\ Cardinality(Forgotten) \in Nat
  BY ForgottenFinite
<1>2. Cardinality(Forgotten') <= Cardinality(Forgotten) /\ Cardinality(Forgotten') \in Nat
  BY <1>1, FS_Subset, FS_CardinalityType
<1>3. /\ SentCount(s) \in Nat /\ SentCount(s)' \in Nat
      /\ OutgoingMessageBufferCapacity \in Nat
  <2>1. (TInv => SentCount(s) \in Nat)'
    BY LoneTypes, PTL
  <2> QED
    BY <2>1, LoneTypes
<1>4. \A m \in Forgotten', j \in DOMAIN OutgoingMessageBuffer' :
          m.serialized < OutgoingMessageBuffer'[j].key
  OBVIOUS
<1>5. Forgotten' # {} =>
          Cardinality(Forgotten') + OutgoingMessageBufferCapacity <= SentCount(s)'
  BY <1>1, <1>2, <1>3 DEF ForgetInv
<1>6. pc'[s] \in {"full", "evicting"} =>
          Cardinality(Forgotten') + OutgoingMessageBufferCapacity < SentCount(s)'
  BY <1>1, <1>2, <1>3 DEF ForgetInv
<1> QED
  BY <1>4, <1>5, <1>6 DEF ForgetInv

\* Steps that leave alone all that the invariant is about, but for where the sender is
\* between two sends.
LEMMA IdleKeepsLoneInv ==
  ASSUME NEW s \in Senders, Senders = {s}, LoneInv(s), TInv',
         UNCHANGED <<StreamDataSequenceNumber, message, victim, number, nextInput,
                     OutgoingMessageBuffer, sent, agentGot>>,
         \/ pc' = pc
         \/ pc[s] \in {"idle", "composed"} /\ pc'[s] \in {"idle", "stopped"}
  PROVE  LoneInv(s)'
<1>1. /\ SentCount(s)' = SentCount(s) /\ KeptCount(s)' = KeptCount(s)
      /\ s \in InFlight' => s \in InFlight
      /\ pc'[s] \in AfterSend => pc[s] = pc'[s]
      /\ pc'[s] \in {"composed", "evicting", "incrementing"} => pc[s] = pc'[s]
  BY DEF SentCount, KeptCount, InFlight, AfterSend
<1>2. SentInv(s)' /\ AgentInv'
  BY <1>1 DEF LoneInv, SentInv, AgentInv
<1>3. HandInv(s)'
  BY <1>1 DEF LoneInv, HandInv
<1>4. ListInv(s)'
  BY <1>1 DEF LoneInv, ListInv
<1>5. VictimInv(s)'
  BY <1>1 DEF LoneInv, VictimInv
<1>6. ForgetInv(s)'
  <2>1. \A m \in sent : IsRetained(m) => IsRetained(m)'
    BY DEF IsRetained, InBuffer
  <2>2. Forgotten' \subseteq Forgotten /\ SentCount(s) <= SentCount(s)'
    BY <1>1, <2>1, LoneTypes DEF LoneInv, Forgotten
  <2>3. pc'[s] \in {"full", "evicting"} => pc[s] \in {"full", "evicting"}
    OBVIOUS
  <2>4. \A m \in Forgotten, j \in DOMAIN OutgoingMessageBuffer' :
            m.serialized < OutgoingMessageBuffer'[j].key
    BY DEF LoneInv, ForgetInv
  <2> QED
    BY <2>2, <2>3, <2>4, NothingForgotten DEF LoneInv
<1> QED
  BY <1>2, <1>3, <1>4, <1>5, <1>6 DEF LoneInv

\* An input taken gets the number that follows those of all messages sent.
LEMMA ComposeKeepsLoneInv ==
  ASSUME NEW s \in Senders, Senders = {s}, LoneInv(s), TInv', Compose(s)
  PROVE  LoneInv(s)'
<1>0. TInv /\ TInv'
  BY DEF LoneInv
<1>1. /\ pc[s] = "idle" /\ pc'[s] = "composed"
      /\ message'[s] = [serialized |-> StreamDataSequenceNumber, key |-> 0, input |-> nextInput]
      /\ nextInput' = nextInput + 1
      /\ UNCHANGED <<StreamDataSequenceNumber, victim, OutgoingMessageBuffer, sent, agentGot>>
  BY <1>0, TypeParts DEF Compose, TInv, SenderType
<1>2. /\ SentCount(s)' = SentCount(s) /\ KeptCount(s)' = KeptCount(s)
      /\ pc'[s] \notin AfterSend
  BY <1>1 DEF SentCount, KeptCount, AfterSend
<1>3. SentInv(s)' /\ AgentInv'
  BY <1>0, <1>1, <1>2, LoneTypes DEF LoneInv, SentInv, AgentInv
<1>4. HandInv(s)'
  BY <1>0, <1>1, <1>2, LoneTypes DEF LoneInv, SentInv, HandInv
<1>5. ListInv(s)' /\ VictimInv(s)'
  BY <1>1, <1>2 DEF LoneInv, ListInv, VictimInv
<1>6. ForgetInv(s)'
  <2>1. \A m \in sent : IsRetained(m) => IsRetained(m)'
    BY <1>1 DEF IsRetained, InBuffer
  <2>2. Forgotten' \subseteq Forgotten /\ SentCount(s) <= SentCount(s)'
    BY <1>0, <1>1, <1>2, <2>1, LoneTypes DEF Forgotten
  <2>3. \A m \in Forgotten, j \in DOMAIN OutgoingMessageBuffer' :
            m.serialized < OutgoingMessageBuffer'[j].key
    BY <1>1 DEF LoneInv, ForgetInv
  <2> QED
    BY <1>0, <1>1, <2>2, <2>3, NothingForgotten DEF LoneInv
<1> QED
  BY <1>0, <1>3, <1>4, <1>5, <1>6 DEF LoneInv

\* A message sent is one more, with the next number and a later input.
LEMMA TransmitKeepsLoneInv ==
  ASSUME NEW s \in Senders, Senders = {s}, LoneInv(s), TInv', Transmit(s)
  PROVE  LoneInv(s)'
<1>0. TInv /\ TInv'
  BY DEF LoneInv
<1>1. /\ pc[s] = "composed"
      /\ UNCHANGED <<StreamDataSequenceNumber, message, victim, number, nextInput,
                     OutgoingMessageBuffer, agentGot>>
  BY DEF Transmit
<1>2. CASE sent' = sent
  <2>1. pc'[s] \in {"idle", "stopped"}
    <3>1. message[s] \notin sent
      BY <1>0, <1>1, LoneTypes DEF LoneInv, HandInv
    <3> QED
      BY <1>0, <1>2, <3>1, TypeParts DEF Transmit, AfterError, TInv, SenderType
  <2> QED
    BY <1>1, <1>2, <2>1, IdleKeepsLoneInv
<1>3. CASE sent' = sent \cup {message[s]} /\ sent' # sent
  <2>1. pc'[s] = "sent"
    BY <1>0, <1>3, TypeParts DEF Transmit, TInv, SenderType
  <2>2. /\ SentCount(s) = StreamDataSequenceNumber
        /\ SentCount(s)' = StreamDataSequenceNumber + 1 /\ KeptCount(s)' = KeptCount(s)
    BY <1>0, <1>1, <2>1, LoneTypes DEF SentCount, KeptCount, AfterSend
  <2>3. /\ s \in InFlight
        /\ message[s].serialized = StreamDataSequenceNumber /\ message[s].key = 0
        /\ message[s].input < nextInput
        /\ \A m \in sent : m.input < message[s].input
    BY <1>1 DEF LoneInv, HandInv, InFlight
  <2>4. \A m \in sent : m.serialized < StreamDataSequenceNumber
    BY <2>2 DEF LoneInv, SentInv
  <2>5. message[s] = AsSent(message[s])
    BY <1>0, <2>3, LoneTypes DEF AsSent, Messages
  <2>6. SentInv(s)'
    <3>1. message[s] \notin sent
      BY <1>3
    <3>2. IsFiniteSet(sent') /\ Cardinality(sent') = StreamDataSequenceNumber + 1
      BY <1>3, <2>2, <3>1, FS_AddElement DEF LoneInv, SentInv
    <3>3. \A m \in sent' : m.key = 0 /\ m.serialized < StreamDataSequenceNumber + 1
                               /\ m.input < nextInput
      BY <1>0, <1>3, <2>2, <2>3, LoneTypes DEF LoneInv, SentInv
    <3>4. \A k \in 0 .. StreamDataSequenceNumber : \E m \in sent' : m.serialized = k
      <4>1. SUFFICES ASSUME NEW k \in 0 .. StreamDataSequenceNumber
                     PROVE  \E m \in sent' : m.serialized = k
        OBVIOUS
      <4>2. CASE k = StreamDataSequenceNumber
        BY <1>3, <2>3, <4>2
      <4>3. CASE k # StreamDataSequenceNumber
        <5>1. k \in 0 .. SentCount(s) - 1
          BY <1>0, <2>2, <4>3, LoneTypes
        <5> QED
          BY <1>3, <5>1 DEF LoneInv, SentInv
      <4> QED
        BY <4>2, <4>3
    <3>5. \A m, n \in sent' : /\ m.serialized < n.serialized => m.input < n.input
                              /\ m.serialized = n.serialized => m = n
      BY <1>0, <1>3, <2>2, <2>3, <2>4, LoneTypes DEF LoneInv, SentInv
    <3> QED
      BY <1>0, <1>1, <2>2, <3>2, <3>3, <3>4, <3>5, LoneTypes DEF SentInv
  <2>7. HandInv(s)'
    BY <1>1, <1>3, <2>1, <2>3, <2>5 DEF HandInv, AfterSend
  <2>8. ListInv(s)' /\ VictimInv(s)' /\ AgentInv'
    BY <1>1, <1>3, <2>1, <2>2 DEF LoneInv, ListInv, VictimInv, AgentInv
  <2>9. ForgetInv(s)'
    <3>1. \A m \in sent : IsRetained(m) => IsRetained(m)'
      BY <1>1, <2>1 DEF IsRetained, InBuffer
    <3>2. IsRetained(message[s])'
      BY <1>1, <2>1 DEF IsRetained
    <3>3. Forgotten' \subseteq Forgotten
      <4>1. SUFFICES ASSUME NEW m \in sent', m \notin Forgotten
                     PROVE  IsRetained(m)'
        BY DEF Forgotten
      <4>2. CASE m \in sent
        BY <3>1, <4>1, <4>2 DEF Forgotten
      <4>3. CASE m = message[s]
        BY <1>1, <3>2, <4>3
      <4> QED
        BY <1>3, <4>2, <4>3
    <3>5. SentCount(s) <= SentCount(s)'
      <4>1. StreamDataSequenceNumber \in Nat
        BY <1>0, LoneTypes
      <4>2. StreamDataSequenceNumber <= StreamDataSequenceNumber + 1
        BY <4>1
      <4> QED
        BY <2>2, <4>2
    <3>4. \A m \in Forgotten, j \in DOMAIN OutgoingMessageBuffer' :
              m.serialized < OutgoingMessageBuffer'[j].key
      BY <1>1 DEF LoneInv, ForgetInv
    <3> QED
      BY <1>0, <2>1, <3>3, <3>4, <3>5, NothingForgotten DEF LoneInv
  <2> QED
    BY <1>0, <2>6, <2>7, <2>8, <2>9 DEF LoneInv
<1> QED
  BY <1>2, <1>3 DEF Transmit

\* Label, CheckCapacity and ReadOldest keep the message in hand under its own number, and
\* choose the first of the list.  A full list is older than the message, and what was
\* forgotten is older than the list.
LEMMA LabelKeepsLoneInv ==
  ASSUME NEW s \in Senders, Senders = {s}, LoneInv(s), TInv',
         Label(s) \/ CheckCapacity(s) \/ ReadOldest(s)
  PROVE  LoneInv(s)'
<1>0. TInv /\ TInv'
  BY DEF LoneInv
<1>1. /\ \/ pc[s] = "sent" /\ pc'[s] = "labelled" /\ victim' = victim
            /\ message'[s] = [message[s] EXCEPT !.key = StreamDataSequenceNumber]
         \/ pc[s] = "labelled" /\ ~BufferIsFull /\ pc'[s] = "pushing" /\ message' = message
         \/ pc[s] = "labelled" /\ BufferIsFull /\ pc'[s] = "full" /\ message' = message
         \/ /\ pc[s] = "full" /\ pc'[s] = "evicting" /\ message' = message
            /\ victim'[s] = Oldest /\ OutgoingMessageBuffer # <<>>
         \/ pc[s] = "full" /\ pc'[s] = "panicked" /\ message' = message
      /\ UNCHANGED <<StreamDataSequenceNumber, number, nextInput, OutgoingMessageBuffer, sent,
                     agentGot>>
  <2>1. /\ DOMAIN pc = Senders /\ DOMAIN message = Senders /\ DOMAIN victim = Senders
    BY <1>0, TypeParts DEF TInv, SenderType
  <2>2. CASE Label(s)
    BY <2>1, <2>2 DEF Label
  <2>3. CASE CheckCapacity(s)
    BY <2>1, <2>3 DEF CheckCapacity
  <2>4. CASE ReadOldest(s)
    BY <2>1, <2>4 DEF ReadOldest
  <2> QED
    BY <2>2, <2>3, <2>4
<1>2. /\ SentCount(s)' = SentCount(s) /\ KeptCount(s)' = KeptCount(s)
      /\ s \in InFlight /\ s \in InFlight'
      /\ pc[s] \in AfterSend /\ pc'[s] \in AfterSend \ {"sent"}
  BY <1>1 DEF SentCount, KeptCount, InFlight, AfterSend
<1>3. /\ message'[s].serialized = message[s].serialized
      /\ message'[s].input = message[s].input
      /\ AsSent(message'[s]) = AsSent(message[s])
      /\ message'[s].key = StreamDataSequenceNumber
  <2>1. message[s] \in Messages
    BY <1>0, LoneTypes
  <2>2. pc[s] # "sent" => message[s].key = StreamDataSequenceNumber
    BY <1>2 DEF LoneInv, HandInv
  <2>3. CASE message'[s] = [message[s] EXCEPT !.key = StreamDataSequenceNumber]
    BY <2>1, <2>3 DEF AsSent, Messages
  <2>4. CASE pc[s] # "sent" /\ message' = message
    BY <2>2, <2>4
  <2> QED
    BY <1>1, <2>3, <2>4
<1>4. SentInv(s)' /\ AgentInv' /\ ListInv(s)'
  BY <1>1, <1>2 DEF LoneInv, SentInv, AgentInv, ListInv
<1>5. HandInv(s)'
  BY <1>1, <1>2, <1>3 DEF LoneInv, HandInv
<1>6. \A j \in DOMAIN OutgoingMessageBuffer :
          /\ 1 \in DOMAIN OutgoingMessageBuffer
          /\ OutgoingMessageBuffer[1].key + (j - 1) <= OutgoingMessageBuffer[j].key
          /\ OutgoingMessageBuffer[1].key \in Nat /\ OutgoingMessageBuffer[j].key \in Nat
          /\ j \in Nat /\ j >= 1
  <2>1. SUFFICES ASSUME NEW j \in DOMAIN OutgoingMessageBuffer
                 PROVE  /\ 1 \in DOMAIN OutgoingMessageBuffer
                        /\ OutgoingMessageBuffer[1].key + (j - 1) <= OutgoingMessageBuffer[j].key
                        /\ OutgoingMessageBuffer[1].key \in Nat
                        /\ OutgoingMessageBuffer[j].key \in Nat
                        /\ j \in Nat /\ j >= 1
    OBVIOUS
  <2>2. j \in Nat /\ j >= 1 /\ 1 \in DOMAIN OutgoingMessageBuffer
    BY <1>0, LoneTypes
  <2>3. OutgoingMessageBuffer[1].key + (j - 1) <= OutgoingMessageBuffer[j].key
    BY <2>2 DEF LoneInv, ListInv
  <2>4. OutgoingMessageBuffer[1].key \in Nat /\ OutgoingMessageBuffer[j].key \in Nat
    BY <1>0, <2>2, LoneTypes
  <2> QED
    BY <2>2, <2>3, <2>4
<1>7. VictimInv(s)'
  <2>1. SUFFICES ASSUME pc'[s] = "evicting", NEW j \in DOMAIN OutgoingMessageBuffer
                 PROVE  victim'[s].key <= OutgoingMessageBuffer[j].key
    BY <1>1 DEF VictimInv
  <2>2. victim'[s] = OutgoingMessageBuffer[1]
    BY <1>0, <1>1, <2>1, LoneTypes DEF Oldest, ListType
  <2> DEFINE first == OutgoingMessageBuffer[1].key
             other == OutgoingMessageBuffer[j].key
  <2>3. first + (j - 1) <= other /\ first \in Nat /\ other \in Nat /\ j \in Nat /\ j >= 1
    BY <1>6
  <2> HIDE DEF first, other
  <2>4. first <= other
    BY <2>3
  <2> QED
    BY <2>2, <2>4 DEF first, other
<1>8. ForgetInv(s)'
  <2>1. \A m \in sent : IsRetained(m) => IsRetained(m)'
    BY <1>1, <1>3 DEF IsRetained, InBuffer
  <2>2. Forgotten' \subseteq Forgotten /\ SentCount(s) <= SentCount(s)'
    BY <1>0, <1>1, <1>2, <2>1, LoneTypes DEF Forgotten
  <2>3. \A m \in Forgotten, j \in DOMAIN OutgoingMessageBuffer :
            m.serialized < OutgoingMessageBuffer[j].key
    BY DEF LoneInv, ForgetInv
  <2>4. CASE pc'[s] \in {"full", "evicting"} => pc[s] \in {"full", "evicting"}
    <3>1. \A m \in Forgotten, j \in DOMAIN OutgoingMessageBuffer' :
              m.serialized < OutgoingMessageBuffer'[j].key
      BY <1>1, <2>3
    <3> QED
      BY <1>0, <2>2, <2>4, <3>1, NothingForgotten DEF LoneInv
  <2>5. CASE pc[s] = "labelled" /\ BufferIsFull /\ pc'[s] = "full"
    <3> DEFINE first == OutgoingMessageBuffer[1].key
               last == OutgoingMessageBuffer[OutgoingMessageBufferCapacity].key
               numberOf == [m \in Forgotten |-> m.serialized]
    <3>1. OutgoingMessageBufferCapacity \in DOMAIN OutgoingMessageBuffer
      BY <1>0, <2>5, LoneTypes DEF BufferIsFull
    <3>2. last < StreamDataSequenceNumber
      <4>1. KeptCount(s) = StreamDataSequenceNumber + 0
        BY <2>5 DEF KeptCount
      <4>2. StreamDataSequenceNumber + 0 = StreamDataSequenceNumber
        BY <1>0, LoneTypes
      <4> QED
        BY <3>1, <4>1, <4>2 DEF LoneInv, ListInv
    <3>3. first + (OutgoingMessageBufferCapacity - 1) <= last /\ first \in Nat /\ last \in Nat
          /\ 1 \in DOMAIN OutgoingMessageBuffer
      BY <1>6, <3>1
    <3>4. \A m \in Forgotten : m.serialized < first /\ m.serialized \in Nat
      BY <1>0, <2>3, <3>3, LoneTypes DEF Forgotten
    <3>5. \A m, n \in Forgotten : m.serialized = n.serialized => m = n
      BY DEF LoneInv, SentInv, Forgotten
    <3>6. SentCount(s) = StreamDataSequenceNumber + 1
      BY <2>5 DEF SentCount, AfterSend
    <3>7. /\ StreamDataSequenceNumber \in Nat /\ OutgoingMessageBufferCapacity \in Nat
          /\ OutgoingMessageBufferCapacity >= 1
      BY <1>0, LoneTypes
    <3> HIDE DEF first, last
    <3>8. Cardinality(Forgotten) <= first /\ Cardinality(Forgotten) \in Nat
      <4>1. CASE Forgotten = {}
        BY <3>3, <4>1, FS_EmptySet
      <4>2. CASE Forgotten # {}
        <5>1. PICK m \in Forgotten : TRUE
          BY <4>2
        <5>2. first - 1 \in Nat
          BY <3>3, <3>4, <5>1
        <5>3. IsFiniteSet(0 .. first - 1) /\ Cardinality(0 .. first - 1) = first
          BY <3>3, <5>2, FS_Interval
        <5>4. numberOf \in Injection(Forgotten, 0 .. first - 1)
          <6>1. \A n \in Forgotten : n.serialized \in 0 .. first - 1
            BY <3>3, <3>4
          <6> QED
            BY <3>5, <6>1 DEF Injection, IsInjective
        <5> QED
          BY <5>3, <5>4, FS_Injection, FS_CardinalityType
      <4> QED
        BY <4>1, <4>2
    <3>9. Cardinality(Forgotten) + OutgoingMessageBufferCapacity < SentCount(s)
      BY <3>2, <3>3, <3>6, <3>7, <3>8
    <3>10. Cardinality(Forgotten') <= Cardinality(Forgotten) /\ Cardinality(Forgotten') \in Nat
      BY <2>2, ForgottenFinite, FS_Subset, FS_CardinalityType DEF LoneInv
    <3>11. Cardinality(Forgotten') + OutgoingMessageBufferCapacity < SentCount(s)'
      BY <1>2, <3>6, <3>7, <3>8, <3>9, <3>10
    <3>12. Cardinality(Forgotten') + OutgoingMessageBufferCapacity <= SentCount(s)'
      BY <1>2, <3>6, <3>7, <3>10, <3>11
    <3>13. \A m \in Forgotten', j \in DOMAIN OutgoingMessageBuffer' :
               m.serialized < OutgoingMessageBuffer'[j].key
      BY <1>1, <2>2, <2>3
    <3> QED
      BY <3>11, <3>12, <3>13 DEF ForgetInv
  <2> QED
    BY <1>1, <2>4, <2>5
<1> QED
  BY <1>0, <1>4, <1>5, <1>7, <1>8 DEF LoneInv

\* A shorter list is still sorted.
LEMMA ShorterIsSorted ==
  ASSUME NEW s \in Senders, TInv, TInv', ListInv(s),
         NEW i \in 1 .. Len(OutgoingMessageBuffer), Shortened(i),
         sent' = sent, KeptCount(s)' = KeptCount(s)
  PROVE  ListInv(s)'
<1>0. ListType /\ ListType'
  BY TypeParts DEF TInv, TypeOK, ListType
<1>1. \A j \in DOMAIN OutgoingMessageBuffer' :
          /\ OutgoingMessageBuffer'[j].key = OutgoingMessageBuffer'[j].serialized
          /\ AsSent(OutgoingMessageBuffer'[j]) \in sent
          /\ OutgoingMessageBuffer'[j].key < KeptCount(s)
  BY <1>0, ShortenedList DEF ListInv
<1>2. ASSUME NEW j \in DOMAIN OutgoingMessageBuffer', NEW k \in DOMAIN OutgoingMessageBuffer',
             j <= k
      PROVE  OutgoingMessageBuffer'[j].key + (k - j) <= OutgoingMessageBuffer'[k].key
  <2>0. /\ j \in Nat /\ k \in Nat /\ i \in Nat
        /\ \A l \in DOMAIN OutgoingMessageBuffer : OutgoingMessageBuffer[l].key \in Nat
    <3>1. /\ Len(OutgoingMessageBuffer) \in Nat
          /\ \A l \in DOMAIN OutgoingMessageBuffer : OutgoingMessageBuffer[l].key \in Nat
      BY LoneTypes
    <3>2. DOMAIN OutgoingMessageBuffer' = 1 .. Len(OutgoingMessageBuffer) - 1
      BY <1>0, ShortenedList
    <3> QED
      BY <3>1, <3>2
  <2>n. j \in Nat /\ k \in Nat /\ i \in Nat
    BY <2>0
  <2>1. CASE k < i
    <3>1. j < i
      BY <1>2, <2>0, <2>1
    <3>2. /\ OutgoingMessageBuffer'[j] = OutgoingMessageBuffer[j]
          /\ OutgoingMessageBuffer'[k] = OutgoingMessageBuffer[k]
          /\ j \in DOMAIN OutgoingMessageBuffer /\ k \in DOMAIN OutgoingMessageBuffer
      BY <1>0, <2>1, <3>1, ShortenedList
    <3> QED
      BY <1>2, <3>2 DEF ListInv
  <2>2. CASE j < i /\ k >= i
    <3> DEFINE a == OutgoingMessageBuffer[j].key
               b == OutgoingMessageBuffer[k + 1].key
    <3>1. /\ OutgoingMessageBuffer'[j].key = a /\ OutgoingMessageBuffer'[k].key = b
          /\ j \in DOMAIN OutgoingMessageBuffer /\ k + 1 \in DOMAIN OutgoingMessageBuffer
      BY <1>0, <2>2, ShortenedList
    <3>2. a \in Nat /\ b \in Nat
      BY <2>0, <3>1
    <3>3. j <= k + 1
      BY <1>2, <2>0
    <3>4. a + ((k + 1) - j) <= b
      BY <3>1, <3>3 DEF ListInv
    <3> HIDE DEF a, b
    <3>5. a + (k - j) <= b
      BY <2>n, <3>2, <3>4
    <3> QED
      BY <3>1, <3>5
  <2>3. CASE j >= i
    <3> DEFINE a == OutgoingMessageBuffer[j + 1].key
               b == OutgoingMessageBuffer[k + 1].key
    <3>0. k >= i
      BY <1>2, <2>n, <2>3
    <3>1. /\ OutgoingMessageBuffer'[j].key = a /\ OutgoingMessageBuffer'[k].key = b
          /\ j + 1 \in DOMAIN OutgoingMessageBuffer /\ k + 1 \in DOMAIN OutgoingMessageBuffer
      BY <1>0, <2>3, <3>0, ShortenedList
    <3>2. a \in Nat /\ b \in Nat
      BY <2>0, <3>1
    <3>3. j + 1 <= k + 1
      BY <1>2, <2>n
    <3>4. a + ((k + 1) - (j + 1)) <= b
      BY <3>1, <3>3 DEF ListInv
    <3> HIDE DEF a, b
    <3>5. a + (k - j) <= b
      BY <2>n, <3>2, <3>4
    <3> QED
      BY <3>1, <3>5
  <2>4. i <= k \/ k < i
    BY <2>n
  <2>5. i <= j \/ j < i
    BY <2>n
  <2> QED
    BY <2>1, <2>2, <2>3, <2>4, <2>5
<1> QED
  BY <1>1, <1>2 DEF ListInv

\* An element that leaves the list: the messages sent with other inputs are in it as
\* before.
LEMMA OthersStayInList ==
  ASSUME ListType, ListType', NEW i \in 1 .. Len(OutgoingMessageBuffer), Shortened(i),
         NEW input, input # OutgoingMessageBuffer[i].input, InBuffer(input)
  PROVE  InBuffer(input)'
<1>1. PICK k \in DOMAIN OutgoingMessageBuffer : OutgoingMessageBuffer[k].input = input
  BY DEF InBuffer
<1>2. k # i
  BY <1>1
<1> QED
  BY <1>1, <1>2, ShortenedList DEF InBuffer

\* Eviction forgets the oldest message of a list that was full.
LEMMA EvictKeepsLoneInv ==
  ASSUME NEW s \in Senders, Senders = {s}, LoneInv(s), TInv', Evict(s)
  PROVE  LoneInv(s)'
<1>0. TInv /\ TInv' /\ ListType /\ ListType'
  BY TypeParts DEF LoneInv, TInv, TypeOK, ListType
<1>1. /\ pc[s] = "evicting" /\ pc'[s] = "pushing"
      /\ UNCHANGED <<StreamDataSequenceNumber, message, number, nextInput, sent, agentGot>>
  BY <1>0, TypeParts DEF Evict, TInv, SenderType
<1>2. /\ SentCount(s)' = SentCount(s) /\ KeptCount(s)' = KeptCount(s)
      /\ SentCount(s) = StreamDataSequenceNumber + 1
      /\ s \in InFlight /\ s \in InFlight'
      /\ pc[s] \in AfterSend \ {"sent"} /\ pc'[s] \in AfterSend \ {"sent"}
  BY <1>1 DEF SentCount, KeptCount, InFlight, AfterSend
<1>3. SentInv(s)' /\ AgentInv' /\ VictimInv(s)'
  BY <1>1, <1>2 DEF LoneInv, SentInv, AgentInv, VictimInv
<1>4. HandInv(s)'
  BY <1>1, <1>2 DEF LoneInv, HandInv
<1>5. CASE OutgoingMessageBuffer' = OutgoingMessageBuffer
  <2>1. ListInv(s)'
    BY <1>1, <1>2, <1>5 DEF LoneInv, ListInv
  <2>2. \A m \in sent : IsRetained(m) => IsRetained(m)'
    BY <1>1, <1>5 DEF IsRetained, InBuffer
  <2>3. ForgetInv(s)'
    <3>1. Forgotten' \subseteq Forgotten /\ SentCount(s) <= SentCount(s)'
      BY <1>0, <1>1, <1>2, <2>2, LoneTypes DEF Forgotten
    <3>2. \A m \in Forgotten, j \in DOMAIN OutgoingMessageBuffer' :
              m.serialized < OutgoingMessageBuffer'[j].key
      BY <1>5 DEF LoneInv, ForgetInv
    <3> QED
      BY <1>0, <1>1, <3>1, <3>2, NothingForgotten DEF LoneInv
  <2> QED
    BY <1>0, <1>3, <1>4, <2>1, <2>3 DEF LoneInv
<1>6. ASSUME NEW i \in 1 .. Len(OutgoingMessageBuffer), OutgoingMessageBuffer[i] = victim[s],
             Shortened(i)
      PROVE  LoneInv(s)'
  <2>1. ListInv(s)'
    BY <1>0, <1>1, <1>2, <1>6, ShorterIsSorted DEF LoneInv
  <2>2. /\ i \in DOMAIN OutgoingMessageBuffer
        /\ victim[s].key = victim[s].serialized /\ AsSent(victim[s]) \in sent
    BY <1>0, <1>1, <1>6, LoneTypes DEF LoneInv, ListInv, VictimInv
  <2>3. \A k \in DOMAIN OutgoingMessageBuffer :
            k # i => victim[s].key < OutgoingMessageBuffer[k].key
    <3>1. SUFFICES ASSUME NEW k \in DOMAIN OutgoingMessageBuffer, k # i
                   PROVE  victim[s].key < OutgoingMessageBuffer[k].key
      OBVIOUS
    <3>2. victim[s].key <= OutgoingMessageBuffer[k].key
      BY <1>1 DEF LoneInv, VictimInv
    <3>3. /\ i <= k => OutgoingMessageBuffer[i].key + (k - i) <= OutgoingMessageBuffer[k].key
          /\ k <= i => OutgoingMessageBuffer[k].key + (i - k) <= OutgoingMessageBuffer[i].key
      BY <2>2 DEF LoneInv, ListInv
    <3>4. /\ i \in Nat /\ k \in Nat
          /\ OutgoingMessageBuffer[i].key \in Nat /\ OutgoingMessageBuffer[k].key \in Nat
      BY <1>0, <2>2, LoneTypes
    <3> QED
      BY <1>6, <3>1, <3>2, <3>3, <3>4
  <2>4. \A j \in DOMAIN OutgoingMessageBuffer' : victim[s].key < OutgoingMessageBuffer'[j].key
    BY <1>0, <1>6, <2>3, ShortenedList
  <2>5. \A m \in sent : m.input = victim[s].input => m.serialized = victim[s].key
    <3>1. SUFFICES ASSUME NEW m \in sent, m.input = victim[s].input
                   PROVE  m.serialized = victim[s].key
      OBVIOUS
    <3>2. /\ AsSent(victim[s]).input = victim[s].input
          /\ AsSent(victim[s]).serialized = victim[s].serialized
      BY DEF AsSent
    <3>3. m.serialized \in Nat /\ victim[s].serialized \in Nat /\ m.input \in Nat
      BY <1>0, LoneTypes
    <3>4. ~(m.serialized < victim[s].serialized) /\ ~(victim[s].serialized < m.serialized)
      BY <2>2, <3>1, <3>2, <3>3 DEF LoneInv, SentInv
    <3> QED
      BY <2>2, <3>3, <3>4
  <2>6. \A m \in sent : IsRetained(m) /\ m.input # victim[s].input => IsRetained(m)'
    <3>1. SUFFICES ASSUME NEW m \in sent, IsRetained(m), m.input # victim[s].input
                   PROVE  IsRetained(m)'
      OBVIOUS
    <3>2. InBuffer(m.input) => InBuffer(m.input)'
      BY <1>0, <1>6, <3>1, OthersStayInList
    <3>3. CASE InBuffer(m.input)
      BY <1>1, <3>2, <3>3 DEF IsRetained, InBuffer
    <3>4. CASE ~InBuffer(m.input)
      BY <1>1, <3>1, <3>4 DEF IsRetained
    <3> QED
      BY <3>3, <3>4
  <2>7. Forgotten' \subseteq Forgotten \cup {AsSent(victim[s])}
    <3>1. SUFFICES ASSUME NEW m \in sent, ~IsRetained(m)', m # AsSent(victim[s])
                   PROVE  ~IsRetained(m)
      BY <1>1 DEF Forgotten
    <3>2. m.input # victim[s].input
      <4>1. AsSent(victim[s]).serialized = victim[s].key
        BY <2>2 DEF AsSent
      <4> QED
        BY <2>2, <2>5, <3>1, <4>1 DEF LoneInv, SentInv
    <3> QED
      BY <2>6, <3>1, <3>2
  <2>8. ForgetInv(s)'
    <3>1. IsFiniteSet(Forgotten) /\ Cardinality(Forgotten) \in Nat
      BY ForgottenFinite DEF LoneInv
    <3>2. Cardinality(Forgotten \cup {AsSent(victim[s])}) <= Cardinality(Forgotten) + 1
          /\ IsFiniteSet(Forgotten \cup {AsSent(victim[s])})
      <4> DEFINE F == Forgotten
                 e == AsSent(victim[s])
      <4> HIDE DEF F, e
      <4>1. /\ IsFiniteSet(F \cup {e})
            /\ Cardinality(F \cup {e}) = IF e \in F THEN Cardinality(F) ELSE Cardinality(F) + 1
        BY <3>1, FS_AddElement DEF F
      <4>2. Cardinality(F) \in Nat
        BY <3>1 DEF F
      <4>3. IsFiniteSet(F \cup {e}) /\ Cardinality(F \cup {e}) <= Cardinality(F) + 1
        BY <4>1, <4>2
      <4> QED
        BY <4>3 DEF F, e
    <3>3. Cardinality(Forgotten') <= Cardinality(Forgotten) + 1
          /\ Cardinality(Forgotten') \in Nat
      <4>1. /\ IsFiniteSet(Forgotten')
            /\ Cardinality(Forgotten') <= Cardinality(Forgotten \cup {AsSent(victim[s])})
        BY <2>7, <3>2, FS_Subset
      <4>2. /\ Cardinality(Forgotten') \in Nat
            /\ Cardinality(Forgotten \cup {AsSent(victim[s])}) \in Nat
        BY <3>2, <4>1, FS_CardinalityType
      <4> QED
        BY <3>1, <3>2, <4>1, <4>2
    <3>4. Cardinality(Forgotten) + OutgoingMessageBufferCapacity < SentCount(s)
          /\ SentCount(s) \in Nat /\ OutgoingMessageBufferCapacity \in Nat
      BY <1>0, <1>1, LoneTypes DEF LoneInv, ForgetInv
    <3>5. Cardinality(Forgotten') + OutgoingMessageBufferCapacity <= SentCount(s)'
      BY <1>2, <3>1, <3>3, <3>4
    <3>6. ASSUME NEW m \in Forgotten', NEW j \in DOMAIN OutgoingMessageBuffer'
          PROVE  m.serialized < OutgoingMessageBuffer'[j].key
      <4>1. CASE m = AsSent(victim[s])
        BY <2>2, <2>4, <4>1 DEF AsSent
      <4>2. CASE m \in Forgotten
        <5>1. PICK k \in DOMAIN OutgoingMessageBuffer :
                  OutgoingMessageBuffer'[j] = OutgoingMessageBuffer[k]
          BY <1>0, <1>6, ShortenedList
        <5> QED
          BY <4>2, <5>1 DEF LoneInv, ForgetInv
      <4> QED
        BY <2>7, <4>1, <4>2
    <3> QED
      BY <1>1, <3>5, <3>6 DEF ForgetInv
  <2> QED
    BY <1>0, <1>3, <1>4, <2>1, <2>8 DEF LoneInv
<1> QED
  BY <1>0, <1>5, <1>6, EvictShortens DEF ListType

\* Pushing keeps the message, the latest, at the end.
LEMMA PushKeepsLoneInv ==
  ASSUME NEW s \in Senders, Senders = {s}, LoneInv(s), TInv', Push(s)
  PROVE  LoneInv(s)'
<1>0. TInv /\ TInv' /\ ListType /\ ListType'
  BY TypeParts DEF LoneInv, TInv, TypeOK, ListType
<1>1. /\ pc[s] = "pushing" /\ pc'[s] = "pushed"
      /\ OutgoingMessageBuffer' = Append(OutgoingMessageBuffer, message[s])
      /\ UNCHANGED <<StreamDataSequenceNumber, message, victim, number, nextInput, sent, agentGot>>
  BY <1>0, TypeParts DEF Push, TInv, SenderType
<1>2. /\ SentCount(s)' = SentCount(s)
      /\ SentCount(s) = StreamDataSequenceNumber + 1
      /\ KeptCount(s) = StreamDataSequenceNumber
      /\ KeptCount(s)' = StreamDataSequenceNumber + 1
      /\ s \in InFlight /\ s \in InFlight'
      /\ pc[s] \in AfterSend \ {"sent"} /\ pc'[s] \in AfterSend \ {"sent"}
  BY <1>0, <1>1, LoneTypes DEF SentCount, KeptCount, InFlight, AfterSend
<1>3. /\ message[s].serialized = StreamDataSequenceNumber
      /\ message[s].key = StreamDataSequenceNumber
      /\ AsSent(message[s]) \in sent
  BY <1>2 DEF LoneInv, HandInv
<1> DEFINE n == Len(OutgoingMessageBuffer)
<1>4. /\ n \in Nat /\ DOMAIN OutgoingMessageBuffer = 1 .. n
      /\ DOMAIN OutgoingMessageBuffer' = 1 .. n + 1
      /\ \A j \in 1 .. n : OutgoingMessageBuffer'[j] = OutgoingMessageBuffer[j]
      /\ OutgoingMessageBuffer'[n + 1] = message[s]
  <2>1. message[s] \in Messages
    BY <1>0, LoneTypes
  <2>2. /\ Len(OutgoingMessageBuffer') = n + 1
        /\ \A j \in 1 .. n : OutgoingMessageBuffer'[j] = OutgoingMessageBuffer[j]
        /\ OutgoingMessageBuffer'[n + 1] = message[s]
    BY <1>0, <1>1, <2>1, AppendProperties DEF ListType
  <2>3. DOMAIN OutgoingMessageBuffer' = 1 .. Len(OutgoingMessageBuffer')
    BY <1>0 DEF ListType
  <2> QED
    BY <1>0, <2>2, <2>3, ListAsSequence
<1> HIDE DEF n
<1>5. \A j \in 1 .. n : /\ OutgoingMessageBuffer[j].key < StreamDataSequenceNumber
                        /\ OutgoingMessageBuffer[j].key \in Nat
  BY <1>0, <1>2, <1>4, LoneTypes DEF LoneInv, ListInv
<1>n. StreamDataSequenceNumber \in Nat
  BY <1>0, LoneTypes
<1>6. SentInv(s)' /\ AgentInv' /\ VictimInv(s)'
  BY <1>1, <1>2 DEF LoneInv, SentInv, AgentInv, VictimInv
<1>7. HandInv(s)'
  BY <1>1, <1>2 DEF LoneInv, HandInv
<1>8. ListInv(s)'
  <2>1. \A j \in 1 .. n + 1 :
            /\ OutgoingMessageBuffer'[j].key = OutgoingMessageBuffer'[j].serialized
            /\ AsSent(OutgoingMessageBuffer'[j]) \in sent
            /\ OutgoingMessageBuffer'[j].key < StreamDataSequenceNumber + 1
    <3>1. SUFFICES ASSUME NEW j \in 1 .. n + 1
                   PROVE  /\ OutgoingMessageBuffer'[j].key = OutgoingMessageBuffer'[j].serialized
                          /\ AsSent(OutgoingMessageBuffer'[j]) \in sent
                          /\ OutgoingMessageBuffer'[j].key < StreamDataSequenceNumber + 1
      OBVIOUS
    <3>2. CASE j = n + 1
      BY <1>0, <1>3, <1>4, <3>2, LoneTypes
    <3>3. CASE j \in 1 .. n
      <4>1. /\ OutgoingMessageBuffer'[j] = OutgoingMessageBuffer[j]
            /\ j \in DOMAIN OutgoingMessageBuffer
        BY <1>4, <3>3
      <4>2. /\ OutgoingMessageBuffer[j].key = OutgoingMessageBuffer[j].serialized
            /\ AsSent(OutgoingMessageBuffer[j]) \in sent
        BY <4>1 DEF LoneInv, ListInv
      <4>3. /\ OutgoingMessageBuffer[j].key < StreamDataSequenceNumber
            /\ OutgoingMessageBuffer[j].key \in Nat
        BY <1>5, <3>3
      <4>4. OutgoingMessageBuffer[j].key < StreamDataSequenceNumber + 1
        BY <1>n, <4>3
      <4> QED
        BY <4>1, <4>2, <4>4
    <3> QED
      BY <1>4, <3>2, <3>3
  <2>2. ASSUME NEW i \in 1 .. n + 1, NEW j \in 1 .. n + 1, i <= j
        PROVE  OutgoingMessageBuffer'[i].key + (j - i) <= OutgoingMessageBuffer'[j].key
    <3>1. CASE j \in 1 .. n
      <4>1. i \in 1 .. n
        BY <1>4, <2>2, <3>1
      <4> QED
        BY <1>4, <2>2, <3>1, <4>1 DEF LoneInv, ListInv
    <3>2. CASE i \in 1 .. n /\ j = n + 1
      <4>1. n \in 1 .. n
        BY <1>4, <3>2
      <4>2. OutgoingMessageBuffer[i].key + (n - i) <= OutgoingMessageBuffer[n].key
        BY <1>4, <3>2, <4>1 DEF LoneInv, ListInv
      <4>3. /\ OutgoingMessageBuffer[n].key < StreamDataSequenceNumber
            /\ OutgoingMessageBuffer[n].key \in Nat /\ OutgoingMessageBuffer[i].key \in Nat
        BY <1>5, <3>2, <4>1
      <4>4. /\ OutgoingMessageBuffer'[i] = OutgoingMessageBuffer[i]
            /\ OutgoingMessageBuffer'[j].key = StreamDataSequenceNumber
        BY <1>3, <1>4, <3>2
      <4>5. StreamDataSequenceNumber \in Nat /\ n \in Nat /\ i \in Nat /\ j = n + 1
        BY <1>4, <1>n, <3>2
      <4> QED
        BY <4>2, <4>3, <4>4, <4>5
    <3>3. CASE i = n + 1 /\ j = n + 1
      <4>1. OutgoingMessageBuffer'[j].key = StreamDataSequenceNumber
        BY <1>3, <1>4, <3>3
      <4> QED
        BY <1>4, <1>n, <3>3, <4>1
    <3> QED
      BY <1>4, <2>2, <3>1, <3>2, <3>3
  <2> QED
    BY <1>1, <1>2, <1>4, <2>1, <2>2 DEF ListInv
<1>9. ForgetInv(s)'
  <2>1. \A m \in sent : IsRetained(m) => IsRetained(m)'
    <3>1. SUFFICES ASSUME NEW m \in sent, IsRetained(m) PROVE IsRetained(m)'
      OBVIOUS
    <3>2. CASE InBuffer(m.input)
      <4>1. PICK j \in 1 .. n : OutgoingMessageBuffer[j].input = m.input
        BY <1>4, <3>2 DEF InBuffer
      <4>2. j \in 1 .. n + 1 /\ OutgoingMessageBuffer'[j].input = m.input
        BY <1>4, <4>1
      <4> QED
        BY <1>4, <4>2 DEF IsRetained, InBuffer
    <3>3. CASE message[s].input = m.input
      <4>1. n + 1 \in 1 .. n + 1 /\ OutgoingMessageBuffer'[n + 1].input = m.input
        BY <1>4, <3>3
      <4> QED
        BY <1>4, <4>1 DEF IsRetained, InBuffer
    <3>4. CASE m.serialized \in DOMAIN agentGot /\ agentGot[m.serialized] = m.input
      BY <1>1, <3>4 DEF IsRetained
    <3> QED
      BY <3>1, <3>2, <3>3, <3>4 DEF IsRetained
  <2>2. Forgotten' \subseteq Forgotten /\ SentCount(s) <= SentCount(s)'
    BY <1>0, <1>1, <1>2, <2>1, LoneTypes DEF Forgotten
  <2>3. ASSUME NEW m \in Forgotten, NEW j \in 1 .. n + 1
        PROVE  m.serialized < OutgoingMessageBuffer'[j].key
    <3>1. CASE j \in 1 .. n
      BY <1>4, <2>3, <3>1 DEF LoneInv, ForgetInv
    <3>2. CASE j = n + 1
      <4>1. m \in sent /\ ~IsRetained(m)
        BY <2>3 DEF Forgotten
      <4>2. m.serialized < StreamDataSequenceNumber + 1 /\ m.serialized \in Nat
        BY <1>0, <1>2, <4>1, LoneTypes DEF LoneInv, SentInv
      <4>3. m.serialized # StreamDataSequenceNumber
        <5>1. SUFFICES ASSUME m.serialized = StreamDataSequenceNumber PROVE FALSE
          OBVIOUS
        <5>2. m = AsSent(message[s])
          BY <1>3, <4>1, <5>1 DEF LoneInv, SentInv, AsSent
        <5>3. m.input = message[s].input
          BY <5>2 DEF AsSent
        <5> QED
          BY <1>1, <4>1, <5>3 DEF IsRetained
      <4>4. OutgoingMessageBuffer'[j].key = StreamDataSequenceNumber
        BY <1>3, <1>4, <3>2
      <4> QED
        BY <1>n, <4>2, <4>3, <4>4
    <3> QED
      BY <1>4, <2>3, <3>1, <3>2
  <2> QED
    BY <1>0, <1>1, <1>4, <2>2, <2>3, NothingForgotten DEF LoneInv
<1> QED
  BY <1>0, <1>6, <1>7, <1>8, <1>9 DEF LoneInv

\* The number goes up by one when its message has been kept.
LEMMA IncrementKeepsLoneInv ==
  ASSUME NEW s \in Senders, Senders = {s}, LoneInv(s), TInv', ReadNumber(s) \/ Increment(s)
  PROVE  LoneInv(s)'
<1>0. TInv /\ TInv'
  BY DEF LoneInv
<1>1. UNCHANGED <<victim, nextInput, OutgoingMessageBuffer, sent, agentGot>>
  BY DEF ReadNumber, Increment
<1>2. /\ pc[s] \in {"pushed", "incrementing"}
      /\ SentCount(s) = StreamDataSequenceNumber + 1
      /\ KeptCount(s) = StreamDataSequenceNumber + 1
      /\ pc[s] = "incrementing" => number[s] = StreamDataSequenceNumber
  BY DEF ReadNumber, Increment, SentCount, KeptCount, AfterSend, LoneInv, HandInv
<1>3. \/ /\ pc[s] = "pushed" /\ pc'[s] = "incrementing"
         /\ number'[s] = StreamDataSequenceNumber
         /\ UNCHANGED <<StreamDataSequenceNumber, message>>
      \/ /\ pc[s] = "incrementing" /\ pc'[s] = "idle"
         /\ StreamDataSequenceNumber' = number[s] + 1
  BY <1>0, TypeParts DEF ReadNumber, Increment, Incremented, TInv, SenderType
<1>4. SentCount(s)' = SentCount(s) /\ KeptCount(s)' = KeptCount(s)
  BY <1>0, <1>2, <1>3, LoneTypes DEF SentCount, KeptCount, AfterSend
<1>5. SentInv(s)' /\ AgentInv' /\ ListInv(s)'
  BY <1>1, <1>4 DEF LoneInv, SentInv, AgentInv, ListInv
<1>6. HandInv(s)'
  BY <1>1, <1>3 DEF LoneInv, HandInv, InFlight, AfterSend
<1>7. VictimInv(s)'
  BY <1>3 DEF VictimInv
<1>8. ForgetInv(s)'
  <2>1. \A m \in sent : IsRetained(m) => IsRetained(m)'
    BY <1>1, <1>2 DEF IsRetained, InBuffer
  <2>2. Forgotten' \subseteq Forgotten /\ SentCount(s) <= SentCount(s)'
    BY <1>0, <1>1, <1>4, <2>1, LoneTypes DEF Forgotten
  <2>3. \A m \in Forgotten, j \in DOMAIN OutgoingMessageBuffer' :
            m.serialized < OutgoingMessageBuffer'[j].key
    BY <1>1 DEF LoneInv, ForgetInv
  <2> QED
    BY <1>0, <1>3, <2>2, <2>3, NothingForgotten DEF LoneInv
<1> QED
  BY <1>0, <1>5, <1>6, <1>7, <1>8 DEF LoneInv

\* The agent gets a message: it is retained there.
LEMMA AgentKeepsLoneInv ==
  ASSUME NEW s \in Senders, Senders = {s}, LoneInv(s), TInv', NEW m \in sent, AgentReceive(m)
  PROVE  LoneInv(s)'
<1>1. /\ UNCHANGED <<StreamDataSequenceNumber, pc, message, victim, number, nextInput,
                     OutgoingMessageBuffer, sent>>
      /\ agentGot' = [n \in DOMAIN agentGot \cup {m.serialized} |->
                         IF n = m.serialized THEN m.input ELSE agentGot[n]]
      /\ m.serialized \notin DOMAIN agentGot
  BY DEF AgentReceive, senderVars
<1>2. SentCount(s)' = SentCount(s) /\ KeptCount(s)' = KeptCount(s) /\ InFlight' = InFlight
  BY <1>1 DEF SentCount, KeptCount, InFlight
<1>3. SentInv(s)' /\ HandInv(s)' /\ ListInv(s)' /\ VictimInv(s)'
  BY <1>1, <1>2 DEF LoneInv, SentInv, HandInv, ListInv, VictimInv
<1>4. AgentInv'
  BY <1>1 DEF LoneInv, AgentInv
<1>5. ForgetInv(s)'
  <2>1. \A k \in sent : IsRetained(k) => IsRetained(k)'
    BY <1>1 DEF IsRetained, InBuffer
  <2>2. Forgotten' \subseteq Forgotten /\ SentCount(s) <= SentCount(s)'
    BY <1>1, <1>2, <2>1, LoneTypes DEF LoneInv, Forgotten
  <2>3. \A k \in Forgotten, j \in DOMAIN OutgoingMessageBuffer' :
            k.serialized < OutgoingMessageBuffer'[j].key
    BY <1>1 DEF LoneInv, ForgetInv
  <2> QED
    BY <1>1, <2>2, <2>3, NothingForgotten DEF LoneInv
<1> QED
  BY <1>3, <1>4, <1>5 DEF LoneInv

\* An acknowledgement takes only what the agent has from the list.
LEMMA AckKeepsLoneInv ==
  ASSUME NEW s \in Senders, Senders = {s}, LoneInv(s), WalkInv, TInv', RemoveAcknowledged
  PROVE  LoneInv(s)'
<1> DEFINE n == acknowledged
<1>0. TInv /\ TInv' /\ ListType /\ ListType'
  BY TypeParts DEF LoneInv, TInv, TypeOK, ListType
<1>1. /\ UNCHANGED <<StreamDataSequenceNumber, pc, message, victim, number, nextInput, sent,
                     agentGot>>
      /\ n \in DOMAIN agentGot
  BY DEF RemoveAcknowledged, WalkInv, senderVars
<1>2. CASE OutgoingMessageBuffer' = OutgoingMessageBuffer
  BY <1>1, <1>2, IdleKeepsLoneInv
<1>3. ASSUME NEW i \in 1 .. Len(OutgoingMessageBuffer), OutgoingMessageBuffer[i].key = n,
             Shortened(i)
      PROVE  LoneInv(s)'
  <2>1. SentCount(s)' = SentCount(s) /\ KeptCount(s)' = KeptCount(s) /\ InFlight' = InFlight
    BY <1>1 DEF SentCount, KeptCount, InFlight
  <2>2. SentInv(s)' /\ HandInv(s)' /\ AgentInv'
    BY <1>1, <2>1 DEF LoneInv, SentInv, HandInv, AgentInv
  <2>3. ListInv(s)'
    BY <1>0, <1>1, <1>3, <2>1, ShorterIsSorted DEF LoneInv
  <2>4. VictimInv(s)'
    BY <1>0, <1>1, <1>3, ShortenedList DEF LoneInv, VictimInv
  <2>5. \A m \in sent : m.input = OutgoingMessageBuffer[i].input =>
            m.serialized \in DOMAIN agentGot /\ agentGot[m.serialized] = m.input
    <3>1. SUFFICES ASSUME NEW m \in sent, m.input = OutgoingMessageBuffer[i].input
                   PROVE  m.serialized \in DOMAIN agentGot /\ agentGot[m.serialized] = m.input
      OBVIOUS
    <3> DEFINE b == AsSent(OutgoingMessageBuffer[i])
    <3>2. b \in sent /\ b.serialized = n /\ b.input = m.input
      BY <1>0, <1>3, <3>1, LoneTypes DEF LoneInv, ListInv, AsSent
    <3> HIDE DEF b
    <3>3. PICK a \in sent : a.serialized = n /\ a.input = agentGot[n]
      BY <1>1 DEF LoneInv, AgentInv
    <3>4. a = b
      BY <3>2, <3>3 DEF LoneInv, SentInv
    <3>5. m.serialized \in Nat /\ b.serialized \in Nat /\ m.input \in Nat
      BY <1>0, <3>2, LoneTypes
    <3>6. m.serialized = b.serialized
      BY <3>2, <3>5 DEF LoneInv, SentInv
    <3> QED
      BY <1>1, <3>2, <3>3, <3>4, <3>6
  <2>6. \A m \in sent : IsRetained(m) => IsRetained(m)'
    <3>1. SUFFICES ASSUME NEW m \in sent, IsRetained(m) PROVE IsRetained(m)'
      OBVIOUS
    <3>2. CASE m.input = OutgoingMessageBuffer[i].input
      BY <1>1, <2>5, <3>2 DEF IsRetained
    <3>3. CASE m.input # OutgoingMessageBuffer[i].input /\ InBuffer(m.input)
      <4>1. InBuffer(m.input)'
        BY <1>0, <1>3, <3>3, OthersStayInList
      <4> QED
        BY <1>1, <4>1 DEF IsRetained, InBuffer
    <3>4. CASE ~InBuffer(m.input)
      BY <1>1, <3>1, <3>4 DEF IsRetained
    <3> QED
      BY <3>2, <3>3, <3>4
  <2>7. ForgetInv(s)'
    <3>1. Forgotten' \subseteq Forgotten /\ SentCount(s) <= SentCount(s)'
      BY <1>0, <1>1, <2>1, <2>6, LoneTypes DEF Forgotten
    <3>2. ASSUME NEW m \in Forgotten, NEW j \in DOMAIN OutgoingMessageBuffer'
          PROVE  m.serialized < OutgoingMessageBuffer'[j].key
      <4>1. PICK k \in DOMAIN OutgoingMessageBuffer :
                OutgoingMessageBuffer'[j] = OutgoingMessageBuffer[k]
        BY <1>0, <1>3, ShortenedList
      <4> QED
        BY <3>2, <4>1 DEF LoneInv, ForgetInv
    <3> QED
      BY <1>0, <1>1, <3>1, <3>2, NothingForgotten DEF LoneInv
  <2> QED
    BY <1>0, <2>2, <2>3, <2>4, <2>7 DEF LoneInv
<1> QED
  BY <1>0, <1>2, <1>3, AcknowledgementShortens DEF ListType

\* The agent keeps what it has, and the listener takes up only what the agent has.
LEMMA StepWalkInv ==
  ASSUME WalkInv, [Next]_vars
  PROVE  WalkInv'
<1>1. CASE \E n \in Numbers : HandleAcknowledgeMessage(n)
  BY <1>1 DEF HandleAcknowledgeMessage, WalkInv
<1>2. CASE ProcessAcknowledgedMessage
  BY <1>2 DEF ProcessAcknowledgedMessage, NextElement, RemoveAcknowledged, WalkInv
<1>3. CASE \E m \in sent : AgentReceive(m)
  <2>1. PICK m \in sent : AgentReceive(m)
    BY <1>3
  <2>2. DOMAIN agentGot' = DOMAIN agentGot \cup {m.serialized} /\ UNCHANGED listenerVars
    BY <2>1 DEF AgentReceive
  <2> QED
    BY <2>2 DEF WalkInv, listenerVars
<1>4. CASE UNCHANGED <<agentGot, listenerVars>>
  BY <1>4 DEF WalkInv, listenerVars
<1> QED
  BY <1>1, <1>2, <1>3, <1>4
     DEF Next, Process, SendInputDataMessage, EndOfInput, Compose, Transmit, Label, CheckCapacity,
         ReadOldest, Evict, Push, ReadNumber, Increment, TimePasses, ResendScheduler, PickFirst,
         Signal, Resend, HandleResendTimeout, vars

\* Every step keeps the invariant of a single sender.
LEMMA StepLoneInv ==
  ASSUME NEW s \in Senders, Senders = {s}, LoneInv(s), WalkInv, [Next]_vars
  PROVE  LoneInv(s)'
<1>1. TInv'
  BY StepTInv DEF LoneInv
<1>2. CASE SendInputDataMessage(s)
  BY <1>1, <1>2, ComposeKeepsLoneInv, TransmitKeepsLoneInv, LabelKeepsLoneInv, EvictKeepsLoneInv,
     PushKeepsLoneInv, IncrementKeepsLoneInv DEF SendInputDataMessage
<1>3. CASE EndOfInput(s)
  <2>1. SenderType
    BY TypeParts DEF LoneInv, TInv
  <2>2. pc[s] = "idle" /\ pc'[s] = "stopped"
    BY <1>3, <2>1 DEF EndOfInput, SenderType
  <2> QED
    BY <1>1, <1>3, <2>2, IdleKeepsLoneInv DEF EndOfInput
<1>4. CASE \/ \E i \in Inputs : TimePasses(i)
           \/ ResendScheduler
           \/ HandleResendTimeout
           \/ \E n \in Numbers : HandleAcknowledgeMessage(n)
           \/ NextElement
           \/ UNCHANGED vars
  <2>1. UNCHANGED <<StreamDataSequenceNumber, message, victim, number, nextInput,
                    OutgoingMessageBuffer, sent, agentGot, pc>>
    BY <1>4 DEF TimePasses, ResendScheduler, PickFirst, Signal, Resend, HandleResendTimeout,
                HandleAcknowledgeMessage, NextElement, senderVars, vars
  <2> QED
    BY <1>1, <2>1, IdleKeepsLoneInv
<1>5. CASE RemoveAcknowledged
  BY <1>1, <1>5, AckKeepsLoneInv
<1>6. CASE \E m \in sent : AgentReceive(m)
  BY <1>1, <1>6, AgentKeepsLoneInv
<1> QED
  BY <1>2, <1>3, <1>4, <1>5, <1>6 DEF Next, Process, ProcessAcknowledgedMessage

\* The invariant of a single sender holds throughout.
LEMMA LoneCorrect ==
  ASSUME NEW s \in Senders, Senders = {s}
  PROVE  Spec => []LoneInv(s)
<1>1. Init => LoneInv(s) /\ WalkInv
  BY InitLoneInv DEF Init, WalkInv
<1>2. LoneInv(s) /\ WalkInv /\ [Next]_vars => (LoneInv(s) /\ WalkInv)'
  BY StepLoneInv, StepWalkInv
<1> QED
  BY <1>1, <1>2, PTL DEF Spec

-----------------------------------------------------------------------------
(* What a single sender promises. *)

\* The list of a single sender is sorted by number without repetition, and each message is
\* kept under the number it was sent with, whatever the order of the acknowledgements.
THEOREM ListSorted ==
  ASSUME NEW s \in Senders, Senders = {s}
  PROVE  Spec => []BufferIsSorted
<1>1. LoneInv(s) => BufferIsSorted
  <2>1. SUFFICES ASSUME LoneInv(s) PROVE BufferIsSorted
    OBVIOUS
  <2>2. ASSUME NEW i \in DOMAIN OutgoingMessageBuffer, NEW j \in DOMAIN OutgoingMessageBuffer,
               i < j
        PROVE  OutgoingMessageBuffer[i].key < OutgoingMessageBuffer[j].key
    <3>1. /\ i \in Int /\ j \in Int
          /\ OutgoingMessageBuffer[i].key \in Nat /\ OutgoingMessageBuffer[j].key \in Nat
      BY <2>1, LoneTypes DEF LoneInv
    <3>2. OutgoingMessageBuffer[i].key + (j - i) <= OutgoingMessageBuffer[j].key
      BY <2>1, <2>2, <3>1 DEF LoneInv, ListInv
    <3> QED
      BY <2>2, <3>1, <3>2
  <2> QED
    BY <2>1, <2>2 DEF BufferIsSorted, LoneInv, ListInv
<1> QED
  BY <1>1, LoneCorrect, PTL

\* No two messages of a single sender have the same number, as clientmessage.go:133 says;
\* a first send that fails leaves its number to the next input.
THEOREM NumbersUnique ==
  ASSUME NEW s \in Senders, Senders = {s}
  PROVE  Spec => []NumbersAreUnique
<1>1. LoneInv(s) => NumbersAreUnique
  BY DEF LoneInv, SentInv, NumbersAreUnique
<1> QED
  BY <1>1, LoneCorrect, PTL

\* What a single sender can no longer resend, though the agent does not have it, was pushed
\* out by as many later messages as the list holds, and is older than all that it holds.
THEOREM OldestForgotten ==
  ASSUME NEW s \in Senders, Senders = {s}
  PROVE  Spec => []ForgetsOldestWhenFull
<1>1. LoneInv(s) => ForgetsOldestWhenFull
  BY DEF LoneInv, ForgetInv, SentInv, Forgotten, ForgetsOldestWhenFull
<1> QED
  BY <1>1, LoneCorrect, PTL

-----------------------------------------------------------------------------
(* A single sender implements OrderedInput: what the agent takes is a prefix of what was   *)
(* sent, by number, and by number is in the order of the inputs.                           *)

\* The input of the message sent under a number, and what the agent has taken in.
InputNumbered(k) == (CHOOSE m \in sent : m.serialized = k).input
Taken == [n \in 1 .. TakenTo |-> agentGot[n - 1]]

\* Each number below the count of the messages is that of exactly one.
LEMMA NumberedMessage ==
  ASSUME NEW s \in Senders, LoneInv(s), NEW m \in sent
  PROVE  /\ m.serialized \in 0 .. SentCount(s) - 1
         /\ InputNumbered(m.serialized) = m.input
         /\ m.input \in Nat
<1>1. m.serialized \in Nat /\ m.input \in Nat /\ SentCount(s) \in Nat
  BY LoneTypes DEF LoneInv
<1>2. m.serialized \in 0 .. SentCount(s) - 1
  BY <1>1 DEF LoneInv, SentInv
<1>3. \A n \in sent : n.serialized = m.serialized => n = m
  BY DEF LoneInv, SentInv
<1> QED
  BY <1>1, <1>2, <1>3 DEF InputNumbered

\* There is one for each number.
LEMMA MessageNumbered ==
  ASSUME NEW s \in Senders, LoneInv(s), NEW k \in 0 .. SentCount(s) - 1
  PROVE  \E m \in sent : m.serialized = k /\ m.input = InputNumbered(k)
<1>1. PICK m \in sent : m.serialized = k
  BY DEF LoneInv, SentInv
<1> QED
  BY <1>1, NumberedMessage

\* The inputs sent are as many as the messages.
LEMMA AcceptedCount ==
  ASSUME NEW s \in Senders, LoneInv(s)
  PROVE  Cardinality(AcceptedInputs) = SentCount(s)
<1> DEFINE inputOf == [m \in sent |-> m.input]
<1>1. inputOf \in Bijection(sent, AcceptedInputs)
  <2>1. \A m, n \in sent : m.input = n.input => m = n
    <3>1. SUFFICES ASSUME NEW m \in sent, NEW n \in sent, m.input = n.input PROVE m = n
      OBVIOUS
    <3>2. m.serialized \in Int /\ n.serialized \in Int /\ m.input \in Nat
      BY NumberedMessage
    <3> QED
      BY <3>1, <3>2 DEF LoneInv, SentInv
  <2> QED
    BY <2>1 DEF AcceptedInputs, Bijection, Injection, IsInjective, Surjection
<1>2. IsFiniteSet(sent) /\ Cardinality(sent) = SentCount(s)
  BY DEF LoneInv, SentInv
<1> QED
  BY <1>1, <1>2, FS_Bijection DEF ExistsBijection

\* Before the input of a message come those of the messages with smaller numbers.
LEMMA InputsBefore ==
  ASSUME NEW s \in Senders, LoneInv(s), NEW m \in sent
  PROVE  Cardinality({j \in AcceptedInputs : j < m.input}) = m.serialized
<1> DEFINE earlier == {j \in AcceptedInputs : j < m.input}
           below == 0 .. m.serialized - 1
           inputOf == [k \in below |-> InputNumbered(k)]
<1>1. m.serialized \in Nat /\ m.input \in Nat
  BY NumberedMessage
<1>2. \A n \in sent : /\ n.serialized \in Nat /\ n.input \in Nat
                      /\ InputNumbered(n.serialized) = n.input
                      /\ n.input < m.input <=> n.serialized < m.serialized
  <2>1. SUFFICES ASSUME NEW n \in sent
                 PROVE  /\ n.serialized \in Nat /\ n.input \in Nat
                        /\ InputNumbered(n.serialized) = n.input
                        /\ n.input < m.input <=> n.serialized < m.serialized
    OBVIOUS
  <2>2. /\ n.serialized \in Nat /\ n.input \in Nat
        /\ InputNumbered(n.serialized) = n.input
    BY NumberedMessage
  <2>3. /\ n.serialized < m.serialized => n.input < m.input
        /\ m.serialized < n.serialized => m.input < n.input
        /\ n.serialized = m.serialized => n = m
    BY DEF LoneInv, SentInv
  <2> QED
    BY <1>1, <2>2, <2>3
<1>3. \A k \in below : \E n \in sent : n.serialized = k /\ n.input = InputNumbered(k)
  <2>1. SUFFICES ASSUME NEW k \in below
                 PROVE  \E n \in sent : n.serialized = k /\ n.input = InputNumbered(k)
    OBVIOUS
  <2>2. SentCount(s) \in Nat
    BY LoneTypes DEF LoneInv
  <2>3. k \in 0 .. SentCount(s) - 1
    BY <2>2, NumberedMessage
  <2> QED
    BY <2>3, MessageNumbered
<1>4. \A k \in below : InputNumbered(k) \in earlier
  BY <1>1, <1>2, <1>3 DEF AcceptedInputs
<1>5. \A j, k \in below : InputNumbered(j) = InputNumbered(k) => j = k
  <2>1. SUFFICES ASSUME NEW j \in below, NEW k \in below, InputNumbered(j) = InputNumbered(k)
                 PROVE  j = k
    OBVIOUS
  <2>2. PICK a \in sent : a.serialized = j /\ a.input = InputNumbered(j)
    BY <1>3
  <2>3. PICK b \in sent : b.serialized = k /\ b.input = InputNumbered(k)
    BY <1>3
  <2>4. /\ a.serialized < b.serialized => a.input < b.input
        /\ b.serialized < a.serialized => b.input < a.input
    BY DEF LoneInv, SentInv
  <2> QED
    BY <1>2, <2>1, <2>2, <2>3, <2>4
<1>6. \A i \in earlier : \E k \in below : InputNumbered(k) = i
  <2>1. SUFFICES ASSUME NEW i \in earlier PROVE \E k \in below : InputNumbered(k) = i
    OBVIOUS
  <2>2. PICK n \in sent : n.input = i
    BY DEF AcceptedInputs
  <2>3. n.serialized \in below
    BY <1>1, <1>2, <2>1, <2>2
  <2> QED
    BY <1>2, <2>2, <2>3
<1>7. inputOf \in Bijection(below, earlier)
  <2> HIDE DEF below, earlier
  <2> QED
    BY <1>4, <1>5, <1>6 DEF Bijection, Injection, IsInjective, Surjection
<1>8. IsFiniteSet(below) /\ Cardinality(below) = m.serialized
  <2>1. 0 \in Int /\ m.serialized - 1 \in Int
    BY <1>1
  <2>2. /\ IsFiniteSet(below)
        /\ Cardinality(below) =
               IF 0 > m.serialized - 1 THEN 0 ELSE (m.serialized - 1) - 0 + 1
    BY <2>1, FS_Interval
  <2> QED
    BY <1>1, <2>2
<1> QED
  BY <1>7, <1>8, FS_Bijection DEF ExistsBijection

\* The accepted inputs, in order, are those of the messages in the order of their numbers.
LEMMA AcceptedByNumber ==
  ASSUME NEW s \in Senders, LoneInv(s)
  PROVE  Accepted = [n \in 1 .. SentCount(s) |-> InputNumbered(n - 1)]
<1>1. ASSUME NEW n \in 1 .. SentCount(s)
      PROVE  (CHOOSE i \in AcceptedInputs :
                  Cardinality({j \in AcceptedInputs : j < i}) = n - 1) = InputNumbered(n - 1)
  <2> DEFINE Rank(i) == Cardinality({j \in AcceptedInputs : j < i})
  <2>1. PICK m \in sent : m.serialized = n - 1 /\ m.input = InputNumbered(n - 1)
    <3>1. SentCount(s) \in Nat
      BY LoneTypes DEF LoneInv
    <3>2. n - 1 \in 0 .. SentCount(s) - 1
      BY <3>1
    <3> QED
      BY <3>2, MessageNumbered
  <2>2. m.input \in AcceptedInputs /\ Rank(m.input) = n - 1
    BY <2>1, InputsBefore DEF AcceptedInputs
  <2>3. \A i \in AcceptedInputs : Rank(i) = n - 1 => i = m.input
    <3>1. SUFFICES ASSUME NEW i \in AcceptedInputs, Rank(i) = n - 1 PROVE i = m.input
      OBVIOUS
    <3>2. PICK k \in sent : k.input = i
      BY DEF AcceptedInputs
    <3>3. Rank(k.input) = k.serialized
      BY InputsBefore
    <3>4. k.serialized = m.serialized
      BY <2>1, <3>1, <3>2, <3>3
    <3> QED
      BY <3>2, <3>4 DEF LoneInv, SentInv
  <2> HIDE DEF Rank
  <2>4. (CHOOSE i \in AcceptedInputs : Rank(i) = n - 1) = m.input
    BY <2>2, <2>3
  <2> QED
    BY <2>1, <2>4 DEF Rank
<1> QED
  BY <1>1, AcceptedCount DEF Accepted

\* The number up to which the agent has everything exists, and is no larger than the count.
LEMMA TakenToNumber ==
  ASSUME NEW s \in Senders, LoneInv(s)
  PROVE  /\ TakenTo \in 0 .. SentCount(s)
         /\ 0 .. TakenTo - 1 \subseteq DOMAIN agentGot
         /\ TakenTo \notin DOMAIN agentGot
<1>1. SentCount(s) \in Nat /\ StreamDataSequenceNumber \in Nat
  BY LoneTypes DEF LoneInv
<1>2. DOMAIN agentGot \subseteq 0 .. SentCount(s) - 1
  BY NumberedMessage DEF LoneInv, AgentInv
<1>3. SentCount(s) <= MaxInputs
  <2>1. /\ StreamDataSequenceNumber + Cardinality(InFlight) <= nextInput - 1
        /\ nextInput \in Nat /\ nextInput - 1 <= MaxInputs
    BY OutgoingAssumption, TypeParts DEF LoneInv, TInv, NumberInv, SenderType
  <2>2. IsFiniteSet(InFlight) /\ Cardinality(InFlight) \in Nat
    BY OutgoingAssumption, FS_Subset, FS_CardinalityType DEF InFlight
  <2>3. CASE pc[s] \in AfterSend
    <3>1. InFlight # {}
      BY <2>3 DEF InFlight, AfterSend
    <3>2. Cardinality(InFlight) >= 1
      BY <2>2, <3>1, FS_EmptySet
    <3> QED
      BY <1>1, <2>1, <2>2, <2>3, <3>2, OutgoingAssumption DEF SentCount
  <2>4. CASE pc[s] \notin AfterSend
    BY <1>1, <2>1, <2>2, <2>4, OutgoingAssumption DEF SentCount
  <2> QED
    BY <2>3, <2>4
<1> DEFINE Missing == {k \in Nat : k \notin DOMAIN agentGot}
<1>4. SentCount(s) \in Missing
  BY <1>1, <1>2
<1>5. /\ Min(Missing) \in Missing
      /\ \A k \in Missing : Min(Missing) <= k
  BY <1>4, MinPosition
<1> DEFINE least == Min(Missing)
<1>6. least \in Nat /\ least <= SentCount(s) /\ least \notin DOMAIN agentGot
  BY <1>4, <1>5
<1>7. \A k \in 0 .. least - 1 : k \in DOMAIN agentGot
  BY <1>5, <1>6
<1> HIDE DEF least, Missing
<1>8. least \in 0 .. MaxInputs /\ 0 .. least - 1 \subseteq DOMAIN agentGot
  BY <1>1, <1>3, <1>6, <1>7, OutgoingAssumption
<1>9. /\ TakenTo \in 0 .. MaxInputs
      /\ 0 .. TakenTo - 1 \subseteq DOMAIN agentGot
      /\ TakenTo \notin DOMAIN agentGot
  BY <1>6, <1>8 DEF TakenTo
<1>10. TakenTo <= SentCount(s)
  BY <1>1, <1>2, <1>9
<1> QED
  BY <1>1, <1>9, <1>10

\* What the agent has taken in is the beginning of what was accepted.
LEMMA TakenIsPrefix ==
  ASSUME NEW s \in Senders, LoneInv(s)
  PROVE  /\ Accepted \in Seq(Nat) /\ Len(Accepted) = SentCount(s)
         /\ Taken = SubSeq(Accepted, 1, TakenTo) /\ Len(Taken) = TakenTo
         /\ TakenTo \in 0 .. SentCount(s)
<1>1. SentCount(s) \in Nat /\ TakenTo \in 0 .. SentCount(s)
  BY TakenToNumber, LoneTypes DEF LoneInv
<1>2. Accepted = [n \in 1 .. SentCount(s) |-> InputNumbered(n - 1)]
  BY AcceptedByNumber
<1>3. \A n \in 1 .. SentCount(s) : InputNumbered(n - 1) \in Nat
  <2>1. \A k \in 0 .. SentCount(s) - 1 : InputNumbered(k) \in Nat
    BY MessageNumbered, NumberedMessage
  <2> QED
    BY <1>1, <2>1
<1>4. Accepted \in Seq(Nat) /\ Len(Accepted) = SentCount(s)
  BY <1>1, <1>2, <1>3, IsASeq, LenProperties
<1>5. \A n \in 1 .. TakenTo : agentGot[n - 1] = Accepted[n]
  <2>1. SUFFICES ASSUME NEW n \in 1 .. TakenTo PROVE agentGot[n - 1] = Accepted[n]
    OBVIOUS
  <2>2. n \in 1 .. SentCount(s) /\ n - 1 \in 0 .. TakenTo - 1
    BY <1>1
  <2>3. PICK m \in sent : m.serialized = n - 1 /\ m.input = agentGot[n - 1]
    BY <2>2, TakenToNumber DEF LoneInv, AgentInv
  <2>4. InputNumbered(n - 1) = agentGot[n - 1]
    BY <2>3, NumberedMessage
  <2> QED
    BY <1>2, <2>2, <2>4
<1>6. Taken = SubSeq(Accepted, 1, TakenTo)
  <2>1. SubSeq(Accepted, 1, TakenTo) = [n \in 1 .. TakenTo |-> Accepted[n]]
    BY <1>1, <1>4
  <2> QED
    BY <1>5, <2>1 DEF Taken
<1>7. Len(Taken) = TakenTo
  BY <1>1 DEF Taken
<1> QED
  BY <1>1, <1>4, <1>6, <1>7

\* Nothing is sent or taken in at first.
LEMMA InitIsOrdered ==
  ASSUME NEW s \in Senders, Senders = {s}, Init
  PROVE  Channel!Init
<1>1. LoneInv(s)
  BY InitLoneInv
<1>2. SentCount(s) = 0
  BY DEF Init, SentCount, AfterSend
<1>3. TakenTo = 0
  BY <1>1, <1>2, TakenIsPrefix
<1>4. Accepted = <<>> /\ Taken = <<>>
  BY <1>1, <1>2, <1>3, AcceptedByNumber DEF Taken
<1> QED
  BY <1>4 DEF Channel!Init, Taken

\* A send that succeeds accepts one more input, the last.
LEMMA TransmitAccepts ==
  ASSUME NEW s \in Senders, Senders = {s}, LoneInv(s), LoneInv(s)', Transmit(s)
  PROVE  [Channel!Next]_(Channel!vars)
<1>0. TInv /\ SenderType
  BY TypeParts DEF LoneInv, TInv
<1>1. UNCHANGED agentGot /\ UNCHANGED Taken
  BY DEF Transmit, Taken, TakenTo
<1>2. CASE UNCHANGED sent
  <2>1. UNCHANGED Accepted
    BY <1>2 DEF Accepted, AcceptedInputs
  <2> QED
    BY <1>1, <2>1 DEF Channel!vars, Taken
<1>3. CASE /\ pc[s] = "composed" /\ pc'[s] = "sent"
           /\ sent' = sent \cup {message[s]}
           /\ UNCHANGED StreamDataSequenceNumber
  <2> DEFINE count == SentCount(s)
             new == message[s]
  <2>1. /\ count = StreamDataSequenceNumber /\ SentCount(s)' = count + 1 /\ count \in Nat
        /\ new.serialized = count /\ new.input \in Inputs /\ new.input \in Nat
    BY <1>0, <1>3, LoneTypes
       DEF SentCount, AfterSend, LoneInv, HandInv, InFlight, TInv, InputInv
  <2>2. \A k \in 0 .. count - 1 : InputNumbered(k)' = InputNumbered(k)
    <3>1. SUFFICES ASSUME NEW k \in 0 .. count - 1 PROVE InputNumbered(k)' = InputNumbered(k)
      OBVIOUS
    <3>2. PICK m \in sent : m.serialized = k /\ m.input = InputNumbered(k)
      BY MessageNumbered
    <3>3. m \in sent'
      BY <1>3
    <3>4. \A n \in sent' : n.serialized = k => n = m
      BY <3>2, <3>3 DEF LoneInv, SentInv
    <3> QED
      BY <3>2, <3>3, <3>4 DEF InputNumbered
  <2>3. ASSUME NEW k, k = count PROVE InputNumbered(k)' = new.input
    <3>1. new \in sent' /\ new.serialized = k
      BY <1>3, <2>1, <2>3
    <3>2. \A n \in sent' : n.serialized = k => n = new
      BY <3>1 DEF LoneInv, SentInv
    <3> QED
      BY <3>1, <3>2 DEF InputNumbered
  <2>4. Accepted = [n \in 1 .. count |-> InputNumbered(n - 1)]
    BY AcceptedByNumber
  <2>5. Accepted' = [n \in 1 .. count + 1 |-> InputNumbered(n - 1)']
    <3>1. (LoneInv(s) => Accepted = [n \in 1 .. SentCount(s) |-> InputNumbered(n - 1)])'
      BY AcceptedByNumber, PTL
    <3>2. Accepted' = [n \in 1 .. SentCount(s)' |-> InputNumbered(n - 1)']
      BY <3>1
    <3> QED
      BY <2>1, <3>2
  <2>6. Accepted \in Seq(Nat) /\ Len(Accepted) = count
    BY TakenIsPrefix
  <2> HIDE DEF count, new
  <2>7. Append(Accepted, new.input) =
            [n \in 1 .. count + 1 |-> IF n = count + 1 THEN new.input ELSE Accepted[n]]
    BY <2>1, <2>6
  <2>8. \A n \in 1 .. count + 1 :
            InputNumbered(n - 1)' = IF n = count + 1 THEN new.input ELSE Accepted[n]
    <3>1. SUFFICES ASSUME NEW n \in 1 .. count + 1
                   PROVE  InputNumbered(n - 1)' =
                              IF n = count + 1 THEN new.input ELSE Accepted[n]
      OBVIOUS
    <3>2. CASE n = count + 1
      <4>1. n - 1 = count
        BY <2>1, <3>2
      <4> QED
        BY <2>3, <3>2, <4>1
    <3>3. CASE n \in 1 .. count
      <4>1. n - 1 \in 0 .. count - 1 /\ n # count + 1
        BY <2>1, <3>3
      <4>2. Accepted[n] = InputNumbered(n - 1)
        BY <2>4, <3>3
      <4> QED
        BY <2>2, <4>1, <4>2
    <3> QED
      BY <2>1, <3>2, <3>3
  <2>9. Accepted' = Append(Accepted, new.input)
    BY <2>5, <2>7, <2>8
  <2> QED
    BY <1>1, <2>1, <2>9 DEF Channel!Next, Channel!Accept, Taken
<1> QED
  BY <1>0, <1>2, <1>3 DEF Transmit, SenderType

\* When the agent gets a message, it takes in what it can.
LEMMA AgentTakes ==
  ASSUME NEW s \in Senders, Senders = {s}, LoneInv(s), LoneInv(s)', NEW m \in sent,
         AgentReceive(m)
  PROVE  Channel!Next
<1>1. UNCHANGED sent /\ DOMAIN agentGot \subseteq DOMAIN agentGot'
  BY DEF AgentReceive
<1>2. UNCHANGED Accepted
  BY <1>1 DEF Accepted, AcceptedInputs
<1>3. /\ Taken = SubSeq(Accepted, 1, TakenTo) /\ Len(Taken) = TakenTo
      /\ Len(Accepted) = SentCount(s) /\ TakenTo \in 0 .. SentCount(s) /\ SentCount(s) \in Nat
  BY TakenIsPrefix, LoneTypes DEF LoneInv
<1>4. /\ 0 .. TakenTo - 1 \subseteq DOMAIN agentGot
      /\ TakenTo \notin DOMAIN agentGot
  BY TakenToNumber
<1>5. /\ Taken' = SubSeq(Accepted', 1, TakenTo') /\ Len(Accepted') = SentCount(s)'
      /\ TakenTo' \in 0 .. SentCount(s)' /\ TakenTo' \notin DOMAIN agentGot'
  <2>1. (LoneInv(s) => /\ Accepted \in Seq(Nat) /\ Len(Accepted) = SentCount(s)
                       /\ Taken = SubSeq(Accepted, 1, TakenTo) /\ Len(Taken) = TakenTo
                       /\ TakenTo \in 0 .. SentCount(s))'
    BY TakenIsPrefix, PTL
  <2>2. (LoneInv(s) => /\ TakenTo \in 0 .. SentCount(s)
                       /\ 0 .. TakenTo - 1 \subseteq DOMAIN agentGot
                       /\ TakenTo \notin DOMAIN agentGot)'
    BY TakenToNumber, PTL
  <2> QED
    BY <2>1, <2>2
<1>6. SentCount(s)' = SentCount(s)
  BY DEF AgentReceive, SentCount, senderVars
<1>7. TakenTo' \in TakenTo .. SentCount(s)
  BY <1>1, <1>3, <1>4, <1>5, <1>6
<1> QED
  BY <1>2, <1>3, <1>5, <1>7 DEF Channel!Next, Channel!Take, Taken

\* Every step is one of OrderedInput, or leaves what was accepted and taken as it is.
LEMMA StepIsOrdered ==
  ASSUME NEW s \in Senders, Senders = {s}, LoneInv(s), LoneInv(s)', [Next]_vars
  PROVE  [Channel!Next]_(Channel!vars)
<1>1. CASE Transmit(s)
  BY <1>1, TransmitAccepts
<1>2. CASE \E m \in sent : AgentReceive(m)
  BY <1>2, AgentTakes
<1>3. CASE UNCHANGED <<sent, agentGot>>
  <2>1. UNCHANGED Accepted
    BY <1>3 DEF Accepted, AcceptedInputs
  <2>2. UNCHANGED Taken
    BY <1>3 DEF Taken, TakenTo
  <2> QED
    BY <2>1, <2>2 DEF Channel!vars, Taken
<1> QED
  BY <1>1, <1>2, <1>3
     DEF Next, Process, SendInputDataMessage, EndOfInput, Compose, Label, CheckCapacity,
         ReadOldest, Evict, Push, ReadNumber, Increment, TimePasses, ResendScheduler, PickFirst,
         Signal, Resend, HandleResendTimeout, HandleAcknowledgeMessage,
         ProcessAcknowledgedMessage, NextElement, RemoveAcknowledged, vars

\* The sending half, with a single sender, implements OrderedInput: whatever is lost,
\* duplicated, reordered, evicted or resent, the agent takes the inputs that were sent in
\* the order in which they were sent, each once and none in another's place.
THEOREM InputsOrdered ==
  ASSUME NEW s \in Senders, Senders = {s}
  PROVE  Spec => InputsInOrder
<1>1. Init => Channel!Init
  BY InitIsOrdered
<1>2. LoneInv(s) /\ LoneInv(s)' /\ [Next]_vars => [Channel!Next]_(Channel!vars)
  BY StepIsOrdered
<1> QED
  BY <1>1, <1>2, LoneCorrect, PTL DEF Spec, InputsInOrder, Channel!Spec

=============================================================================
