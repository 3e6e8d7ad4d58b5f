---------------------------- MODULE OutgoingStream ----------------------------
(***************************************************************************)
(* The sending half of the data channel: SendInputDataMessage, which the   *)
(* keyboard, the terminal size, the control signals and the listener call  *)
(* from goroutines of their own; the resend scheduler; the listener's      *)
(* processing of acknowledgements; and the goroutine that ends the session *)
(* when a message has been resent too often.                               *)
(*                                                                         *)
(* SendInputDataMessage holds no lock: between its statements other        *)
(* goroutines run.  The agent is external: it keeps the first message it   *)
(* gets under each number, in any order, acknowledges every copy, and      *)
(* takes the messages in the order of their numbers.                       *)
(***************************************************************************)
EXTENDS Naturals, Sequences, FiniteSets, SequencesExt

CONSTANTS
    Senders,                       \* the goroutines that send input
    MaxInputs,                     \* bound: how many inputs are sent in all
    OutgoingMessageBufferCapacity, \* config.OutgoingMessageBufferCapacity
    ResendMaxAttempt,              \* config.ResendMaxAttempt
    MaxSendFailures,               \* bound: how many first sends fail
    TerminateOutcomes              \* may the TerminateSession call succeed, fail?

Inputs == 1 .. MaxInputs
Numbers == 0 .. MaxInputs

ASSUME OutgoingAssumption ==
    /\ IsFiniteSet(Senders)
    /\ MaxInputs \in Nat
    /\ OutgoingMessageBufferCapacity \in Nat \ {0}
    /\ ResendMaxAttempt \in Nat
    /\ MaxSendFailures \in Nat
    /\ TerminateOutcomes \subseteq BOOLEAN

VARIABLES
    StreamDataSequenceNumber,
    OutgoingMessageBuffer,         \* a list of streaming messages
    background,                    \* the senders that only log an error
    pc,                            \* where each sender is
    message,                       \* the message each sender works on
    victim,                        \* the message it is about to evict
    number,                        \* the number it has read to increment
    nextInput,                     \* the next input to be sent
    failures,                      \* first sends that returned an error
    scheduler,                     \* where the resend scheduler is
    streamMessage,                 \* the list element it works on
    resendAttempt,                 \* ResendAttempt of each input's message
    overdue,                       \* LastSentTime in the list is older than the timeout
    isStreamMessageResendTimeout,  \* how full the channel of capacity 1 is
    terminator,                    \* the goroutine that reads that channel
    sent,                          \* every message put on the websocket
    agentGot,                      \* the input the agent keeps under each number
    listener,                      \* is the listener in the loop over the list?
    acknowledged,                  \* the acknowledged number it looks for
    element                        \* the list element it has come to

senderVars    == <<background, StreamDataSequenceNumber, pc, message, victim, number,
                   nextInput, failures>>
listenerVars  == <<listener, acknowledged, element>>
schedulerVars == <<scheduler, streamMessage, resendAttempt, isStreamMessageResendTimeout>>
vars == <<senderVars, OutgoingMessageBuffer, schedulerVars, overdue, terminator, sent,
          agentGot, listenerVars>>

\* A streaming message: the number serialized in its content, the number kept
\* beside the content, and the input it carries.
NoMessage == [serialized |-> 0, key |-> 0, input |-> 0]

Init ==
    /\ background \in SUBSET Senders
    /\ StreamDataSequenceNumber = 0
    /\ OutgoingMessageBuffer = <<>>
    /\ pc = [s \in Senders |-> "idle"]
    /\ message = [s \in Senders |-> NoMessage]
    /\ victim = [s \in Senders |-> NoMessage]
    /\ number = [s \in Senders |-> 0]
    /\ nextInput = 1 /\ failures = 0
    /\ scheduler = "sleeping" /\ streamMessage = NoMessage
    /\ resendAttempt = [i \in Inputs |-> 0]
    /\ overdue = {}
    /\ isStreamMessageResendTimeout = 0
    /\ terminator = "listening"
    /\ sent = {} /\ agentGot = <<>>
    /\ listener = "reading" /\ acknowledged = 0 /\ element = NoMessage

-----------------------------------------------------------------------------
(* SendInputDataMessage, one action per access to shared state. *)

\* When the goroutine that reads the keyboard, or a port's data, returns, the
\* process ends, and with it all other goroutines; so it does when one panics.
Alive == \A s \in Senders : pc[s] \notin {"stopped", "panicked"}

\* There is nothing more to read.
EndOfInput(s) ==
    /\ pc[s] = "idle" /\ s \notin background
    /\ pc' = [pc EXCEPT ![s] = "stopped"]
    /\ UNCHANGED <<background, StreamDataSequenceNumber, message, victim, number, nextInput,
                   failures, OutgoingMessageBuffer, schedulerVars, overdue, terminator,
                   sent, agentGot, listenerVars>>

\* The goroutines for control signals and the terminal size log the error.
AfterError(s) == IF s \in background THEN "idle" ELSE "stopped"

\* The client message is built and serialized with the number read here.
Compose(s) ==
    /\ pc[s] = "idle"
    /\ nextInput \in Inputs
    /\ message' = [message EXCEPT ![s] =
           [serialized |-> StreamDataSequenceNumber, key |-> 0, input |-> nextInput]]
    /\ nextInput' = nextInput + 1
    /\ pc' = [pc EXCEPT ![s] = "composed"]
    /\ UNCHANGED <<background, StreamDataSequenceNumber, victim, number, failures,
                   OutgoingMessageBuffer, schedulerVars, overdue, terminator, sent,
                   agentGot, listenerVars>>

\* The content goes to the websocket, or the send fails and the caller gets the
\* error: the message is not kept and its number is not used up.
Transmit(s) ==
    /\ pc[s] = "composed"
    /\ \/ /\ sent' = sent \cup {message[s]}
          /\ pc' = [pc EXCEPT ![s] = "sent"]
          /\ UNCHANGED failures
       \/ /\ failures < MaxSendFailures
          /\ failures' = failures + 1
          /\ pc' = [pc EXCEPT ![s] = AfterError(s)]
          /\ UNCHANGED sent
    /\ UNCHANGED <<background, StreamDataSequenceNumber, message, victim, number, nextInput,
                   OutgoingMessageBuffer, schedulerVars, overdue, terminator, agentGot,
                   listenerVars>>

\* Mutant of Label: the number is incremented before the message is kept.
LabelNext(s) ==
    /\ pc[s] = "sent"
    /\ message' = [message EXCEPT ![s].key = StreamDataSequenceNumber + 1]
    /\ pc' = [pc EXCEPT ![s] = "labelled"]
    /\ UNCHANGED <<background, StreamDataSequenceNumber, victim, number, nextInput,
                   failures, OutgoingMessageBuffer, schedulerVars, overdue, terminator,
                   sent, agentGot, listenerVars>>

\* The streaming message is built, with the number as it is by now.
Label(s) ==
    /\ pc[s] = "sent"
    /\ message' = [message EXCEPT ![s].key = StreamDataSequenceNumber]
    /\ pc' = [pc EXCEPT ![s] = "labelled"]
    /\ UNCHANGED <<background, StreamDataSequenceNumber, victim, number, nextInput,
                   failures, OutgoingMessageBuffer, schedulerVars, overdue, terminator,
                   sent, agentGot, listenerVars>>

\* AddDataToOutgoingMessageBuffer looks at the length before it takes the mutex.
BufferIsFull == Len(OutgoingMessageBuffer) = OutgoingMessageBufferCapacity

CheckCapacity(s) ==
    /\ pc[s] = "labelled"
    /\ pc' = [pc EXCEPT ![s] = IF BufferIsFull THEN "full" ELSE "pushing"]
    /\ UNCHANGED <<background, StreamDataSequenceNumber, message, victim, number, nextInput,
                   failures, OutgoingMessageBuffer, schedulerVars, overdue, terminator,
                   sent, agentGot, listenerVars>>

Oldest == Head(OutgoingMessageBuffer)

\* It looks at the first message, also before it takes the mutex.  Acknowledgements may
\* have emptied the list by now: then it removes nil, and panics.
ReadOldest(s) ==
    /\ pc[s] = "full"
    /\ \/ /\ OutgoingMessageBuffer # <<>>
          /\ victim' = [victim EXCEPT ![s] = Oldest]
          /\ pc' = [pc EXCEPT ![s] = "evicting"]
       \/ /\ OutgoingMessageBuffer = <<>>
          /\ pc' = [pc EXCEPT ![s] = "panicked"]
          /\ UNCHANGED victim
    /\ UNCHANGED <<background, StreamDataSequenceNumber, message, number, nextInput,
                   failures, OutgoingMessageBuffer, schedulerVars, overdue, terminator,
                   sent, agentGot, listenerVars>>

\* RemoveDataFromOutgoingMessageBuffer: an element that is no longer in the list
\* is left alone.
Evict(s) ==
    /\ pc[s] = "evicting"
    /\ OutgoingMessageBuffer' = RemoveFirst(OutgoingMessageBuffer, victim[s])
    /\ victim' = [victim EXCEPT ![s] = NoMessage]
    /\ pc' = [pc EXCEPT ![s] = "pushing"]
    /\ UNCHANGED <<background, StreamDataSequenceNumber, message, number, nextInput,
                   failures, schedulerVars, overdue, terminator, sent, agentGot, listenerVars>>

Push(s) ==
    /\ pc[s] = "pushing"
    /\ OutgoingMessageBuffer' = Append(OutgoingMessageBuffer, message[s])
    /\ pc' = [pc EXCEPT ![s] = "pushed"]
    /\ UNCHANGED <<background, StreamDataSequenceNumber, message, victim, number, nextInput,
                   failures, schedulerVars, overdue, terminator, sent, agentGot, listenerVars>>

\* StreamDataSequenceNumber = StreamDataSequenceNumber + 1, a read and a write.
ReadNumber(s) ==
    /\ pc[s] = "pushed"
    /\ number' = [number EXCEPT ![s] = StreamDataSequenceNumber]
    /\ pc' = [pc EXCEPT ![s] = "incrementing"]
    /\ UNCHANGED <<background, StreamDataSequenceNumber, message, victim, nextInput,
                   failures, OutgoingMessageBuffer, schedulerVars, overdue, terminator,
                   sent, agentGot, listenerVars>>

\* Mutant of Incremented: the counter is left alone.
NotIncremented(n) == n

\* Mutant of Incremented: the caller increments too.
IncrementedTwice(n) == n + 2

Incremented(n) == n + 1

Increment(s) ==
    /\ pc[s] = "incrementing"
    /\ StreamDataSequenceNumber' = Incremented(number[s])
    /\ number' = [number EXCEPT ![s] = 0]
    /\ message' = [message EXCEPT ![s] = NoMessage]
    /\ pc' = [pc EXCEPT ![s] = "idle"]
    /\ UNCHANGED <<background, victim, nextInput, failures, OutgoingMessageBuffer,
                   schedulerVars, overdue, terminator, sent, agentGot, listenerVars>>

-----------------------------------------------------------------------------
(* Time, and the resend scheduler. *)

\* The retransmission timeout passes since the LastSentTime of a message in the
\* list.  No later step makes it younger: Resend changes a copy.
TimePasses(i) ==
    /\ \E j \in DOMAIN OutgoingMessageBuffer : OutgoingMessageBuffer[j].input = i
    /\ overdue' = overdue \cup {i}
    /\ UNCHANGED <<senderVars, OutgoingMessageBuffer, schedulerVars, terminator, sent,
                   agentGot, listenerVars>>

\* Mutant of OutOfAttempts: off by one.
OnLastAttempt(i) == resendAttempt[i] + 1 >= ResendMaxAttempt

OutOfAttempts(i) == resendAttempt[i] >= ResendMaxAttempt

\* The scheduler wakes up and takes the first message, if it is overdue.
PickFirst ==
    /\ scheduler = "sleeping"
    /\ OutgoingMessageBuffer # <<>>
    /\ Head(OutgoingMessageBuffer).input \in overdue
    /\ streamMessage' = Head(OutgoingMessageBuffer)
    /\ scheduler' = IF OutOfAttempts(Head(OutgoingMessageBuffer).input)
                    THEN "signalling" ELSE "resending"
    /\ UNCHANGED <<senderVars, OutgoingMessageBuffer, resendAttempt,
                   isStreamMessageResendTimeout, overdue, terminator, sent, agentGot,
                   listenerVars>>

\* The send on the channel blocks while the channel is full.
Signal ==
    /\ scheduler = "signalling"
    /\ isStreamMessageResendTimeout = 0
    /\ isStreamMessageResendTimeout' = 1
    /\ scheduler' = "resending"
    /\ UNCHANGED <<senderVars, OutgoingMessageBuffer, streamMessage, resendAttempt, overdue,
                   terminator, sent, agentGot, listenerVars>>

\* Mutant of Resend: ResendAttempt, too, is incremented in the copy.
ResendUncounted ==
    /\ scheduler = "resending"
    /\ streamMessage' = NoMessage
    /\ scheduler' = "sleeping"
    /\ UNCHANGED <<senderVars, OutgoingMessageBuffer, resendAttempt,
                   isStreamMessageResendTimeout, overdue, terminator, sent, agentGot,
                   listenerVars>>

\* The message is sent again, whether it is still in the list or not; an error
\* is only logged.  LastSentTime is set in a copy of the list's element.
Resend ==
    /\ scheduler = "resending"
    /\ resendAttempt' = [resendAttempt EXCEPT ![streamMessage.input] = @ + 1]
    /\ streamMessage' = NoMessage
    /\ scheduler' = "sleeping"
    /\ UNCHANGED <<senderVars, OutgoingMessageBuffer, isStreamMessageResendTimeout, overdue,
                   terminator, sent, agentGot, listenerVars>>

TerminateSession ==
    \E ok \in TerminateOutcomes : terminator' = IF ok THEN "terminated" ELSE "failed"

\* handleStreamMessageResendTimeout: the goroutine takes one value, calls
\* TerminateSession and returns, whether the call succeeded or not.
HandleResendTimeout ==
    /\ terminator = "listening"
    /\ isStreamMessageResendTimeout = 1
    /\ isStreamMessageResendTimeout' = 0
    /\ TerminateSession
    /\ UNCHANGED <<senderVars, OutgoingMessageBuffer, scheduler, streamMessage,
                   resendAttempt, overdue, sent, agentGot, listenerVars>>

-----------------------------------------------------------------------------
(* The agent, and the acknowledgements that come back. *)

\* A copy of a message arrives, in any order and as often as it was sent.
AgentReceive(m) ==
    /\ m \in sent
    /\ m.serialized \notin DOMAIN agentGot
    /\ agentGot' = [n \in DOMAIN agentGot \cup {m.serialized} |->
                       IF n = m.serialized THEN m.input ELSE agentGot[n]]
    /\ UNCHANGED <<senderVars, OutgoingMessageBuffer, schedulerVars, overdue, terminator,
                   sent, listenerVars>>

\* The acknowledgement of a message that the agent has got arrives.
\* ProcessAcknowledgedMessage starts with the first element of the list, if any.
HandleAcknowledgeMessage(n) ==
    /\ listener = "reading"
    /\ n \in DOMAIN agentGot
    /\ OutgoingMessageBuffer # <<>>
    /\ listener' = "walking"
    /\ acknowledged' = n
    /\ element' = Head(OutgoingMessageBuffer)
    /\ UNCHANGED <<senderVars, OutgoingMessageBuffer, schedulerVars, overdue, terminator,
                   sent, agentGot>>

\* It moves on from an element with another number, without the mutex: the loop ends
\* at the last one, and also at one that has been evicted meanwhile, whose Next is nil.
NextElement ==
    /\ listener = "walking" /\ element.key # acknowledged
    /\ \/ \E j \in DOMAIN OutgoingMessageBuffer :
             /\ OutgoingMessageBuffer[j] = element
             /\ j + 1 \in DOMAIN OutgoingMessageBuffer
             /\ element' = OutgoingMessageBuffer[j + 1]
             /\ UNCHANGED <<listener, acknowledged>>
       \/ /\ \A j \in DOMAIN OutgoingMessageBuffer :
                OutgoingMessageBuffer[j] = element => j + 1 \notin DOMAIN OutgoingMessageBuffer
          /\ listener' = "reading" /\ acknowledged' = 0 /\ element' = NoMessage
    /\ UNCHANGED <<senderVars, OutgoingMessageBuffer, schedulerVars, overdue, terminator,
                   sent, agentGot>>

\* Mutant of RemoveAcknowledged: acknowledgements are taken to come in the order of
\* the list.
RemoveOldest ==
    /\ listener = "walking" /\ OutgoingMessageBuffer # <<>>
    /\ OutgoingMessageBuffer' = Tail(OutgoingMessageBuffer)
    /\ listener' = "reading" /\ acknowledged' = 0 /\ element' = NoMessage
    /\ UNCHANGED <<senderVars, schedulerVars, overdue, terminator, sent, agentGot>>

\* The element kept under the number is removed, if it is still in the list.
RemoveAcknowledged ==
    /\ listener = "walking" /\ element.key = acknowledged
    /\ OutgoingMessageBuffer' = RemoveFirst(OutgoingMessageBuffer, element)
    /\ listener' = "reading" /\ acknowledged' = 0 /\ element' = NoMessage
    /\ UNCHANGED <<senderVars, schedulerVars, overdue, terminator, sent, agentGot>>

ProcessAcknowledgedMessage == NextElement \/ RemoveAcknowledged

-----------------------------------------------------------------------------
SendInputDataMessage(s) ==
    \/ Compose(s)
    \/ Transmit(s)
    \/ Label(s)
    \/ CheckCapacity(s)
    \/ ReadOldest(s)
    \/ Evict(s)
    \/ Push(s)
    \/ ReadNumber(s)
    \/ Increment(s)

ResendScheduler == PickFirst \/ Signal \/ Resend

Process ==
    \/ \E s \in Senders : SendInputDataMessage(s) \/ EndOfInput(s)
    \/ \E i \in Inputs : TimePasses(i)
    \/ ResendScheduler
    \/ HandleResendTimeout
    \/ \E n \in Numbers : HandleAcknowledgeMessage(n)
    \/ ProcessAcknowledgedMessage

Next ==
    \/ Alive /\ Process
    \/ \E m \in sent : AgentReceive(m)

Spec == Init /\ [][Next]_vars

\* Time passes and the Go scheduler runs every goroutine.  Of the agent nothing
\* is assumed: it may have become inactive.
FairSpec ==
    /\ Spec
    /\ \A s \in Senders : WF_vars(Alive /\ SendInputDataMessage(s))
    /\ \A i \in Inputs : WF_vars(Alive /\ TimePasses(i))
    /\ WF_vars(Alive /\ ResendScheduler)
    /\ WF_vars(Alive /\ HandleResendTimeout)

-----------------------------------------------------------------------------
(* Correctness. *)

Messages == [serialized : Numbers, key : Numbers, input : 0 .. MaxInputs]

\* Every variable has its type, and the list of a single sender never outgrows its
\* capacity (AddDataToOutgoingMessageBuffer).
TypeOK ==
    /\ background \subseteq Senders
    /\ StreamDataSequenceNumber \in Numbers
    /\ OutgoingMessageBuffer \in Seq(Messages)
    /\ Cardinality(Senders) = 1 =>
           Len(OutgoingMessageBuffer) <= OutgoingMessageBufferCapacity
    /\ pc \in [Senders -> {"idle", "composed", "sent", "labelled", "full", "evicting",
                          "pushing", "pushed", "incrementing", "stopped", "panicked"}]
    /\ message \in [Senders -> Messages]
    /\ victim \in [Senders -> Messages]
    /\ number \in [Senders -> Numbers]
    /\ nextInput \in 1 .. MaxInputs + 1
    /\ failures \in 0 .. MaxSendFailures
    /\ scheduler \in {"sleeping", "signalling", "resending"}
    /\ streamMessage \in Messages
    /\ resendAttempt \in [Inputs -> Nat]
    /\ overdue \subseteq Inputs
    /\ isStreamMessageResendTimeout \in 0 .. 1
    /\ terminator \in {"listening", "terminated", "failed"}
    /\ sent \subseteq Messages
    /\ DOMAIN agentGot \subseteq Numbers /\ \A n \in DOMAIN agentGot : agentGot[n] \in Inputs
    /\ listener \in {"reading", "walking"}
    /\ acknowledged \in Numbers
    /\ element \in Messages

InBuffer(i) == \E j \in DOMAIN OutgoingMessageBuffer : OutgoingMessageBuffer[j].input = i

\* The list is sorted by number without repetition, so the resend scheduler, which
\* looks only at the first message, resends what the agent misses first; and each
\* message is kept under the number it was sent with, so that its acknowledgement
\* finds it (SendInputDataMessage).
BufferIsSorted ==
    /\ \A i, j \in DOMAIN OutgoingMessageBuffer :
           i < j => OutgoingMessageBuffer[i].key < OutgoingMessageBuffer[j].key
    /\ \A i \in DOMAIN OutgoingMessageBuffer :
           OutgoingMessageBuffer[i].key = OutgoingMessageBuffer[i].serialized

\* Is the message with the agent, in the list or still (at the end) in the sender's hands?
IsRetained(m) ==
    \/ m.serialized \in DOMAIN agentGot /\ agentGot[m.serialized] = m.input
    \/ InBuffer(m.input)
    \/ \E s \in Senders :
          /\ message[s].input = m.input
          /\ pc[s] \in {"sent", "labelled", "full", "evicting", "pushing", "panicked"}

\* A message that was put on the websocket can be resent until the agent has it,
\* except that each message that finds the list full pushes one out, the oldest:
\* what is forgotten is older than all that is kept (SendInputDataMessage,
\* AddDataToOutgoingMessageBuffer, ProcessAcknowledgedMessage).
ForgetsOldestWhenFull ==
    LET forgotten == {m \in sent : ~IsRetained(m)}
    IN  /\ forgotten # {} =>
               Cardinality(forgotten) + OutgoingMessageBufferCapacity <= Cardinality(sent)
        /\ \A m \in forgotten, j \in DOMAIN OutgoingMessageBuffer :
               m.serialized < OutgoingMessageBuffer[j].key

\* An inactive agent is given neither too few resends nor too many: the session is
\* terminated only if some message was resent ResendMaxAttempt times, and each is
\* resent at most that often and twice more, until the scheduler blocks
\* (ResendStreamDataMessageScheduler, handleStreamMessageResendTimeout).
ResendsAreBounded ==
    /\ \A i \in Inputs : resendAttempt[i] <= ResendMaxAttempt + 2
    /\ terminator # "listening" => \E i \in Inputs : resendAttempt[i] >= ResendMaxAttempt

\* The agent's view: how far the numbers go without a gap, and the inputs taken.
TakenTo == CHOOSE n \in 0 .. MaxInputs :
               /\ 0 .. n - 1 \subseteq DOMAIN agentGot
               /\ n \notin DOMAIN agentGot

\* The inputs that went out, the earliest first.
AcceptedInputs == {m.input : m \in sent}
Accepted ==
    [n \in 1 .. Cardinality(AcceptedInputs) |->
        CHOOSE i \in AcceptedInputs : Cardinality({j \in AcceptedInputs : j < i}) = n - 1]

Channel == INSTANCE OrderedInput WITH
    accepted <- Accepted,
    taken <- [n \in 1 .. TakenTo |-> agentGot[n - 1]]

\* With a single sender the agent takes the accepted inputs in order: the sending
\* half implements OrderedInput.
InputsInOrder == Channel!Spec

\* A message in the list is acknowledged or evicted, or else the plugin tries to
\* terminate the session, unless the process ends (ResendStreamDataMessageScheduler,
\* handleStreamMessageResendTimeout).
UnacknowledgedIsNoticed ==
    \A i \in Inputs : InBuffer(i) ~> ~InBuffer(i) \/ terminator # "listening" \/ ~Alive

-----------------------------------------------------------------------------
(* What comments say, and the code does not do. *)

\* clientmessage.go:133: "SequenceNumber is an 8 byte integer containing the
\* message sequence number": two messages of a stream do not share one.
NumbersAreUnique ==
    \A m, n \in sent : m.serialized = n.serialized => m.input = n.input
=============================================================================
