---------------------------- MODULE IncomingStream ----------------------------
(***************************************************************************)
(* The receiving half of the data channel: the websocket listener          *)
(* goroutine in HandleOutputMessage, and the main goroutine in             *)
(* Session.Execute, which waits for the session type and then registers    *)
(* the session's output handler while the listener keeps running.          *)
(*                                                                         *)
(* The agent and the network between it and the plugin are external.  The  *)
(* agent numbers its messages, resends each one until it gets an           *)
(* acknowledgement, and waits for the answer to a handshake request or an  *)
(* encryption challenge before it sends more.  The network loses, delays,  *)
(* repeats and reorders.                                                   *)
(***************************************************************************)
EXTENDS Naturals, Sequences, FiniteSets

CONSTANTS
    LastSequenceNumber,            \* the stream is 0 .. LastSequenceNumber
    Kind,                          \* what each message carries
    IncomingMessageBufferCapacity, \* config.IncomingMessageBufferCapacity
    SessionOutcomes,               \* what the session's handler may return
    TypeOutcomes,                  \* does the request name a known session type?
    Undecryptable,                 \* data the plugin's key does not decrypt
    SendFailures,                  \* which sends may fail: "ack", "reply"
    MaxSendFailures                \* bound: how many sends fail

SeqNos == 0 .. LastSequenceNumber

Asking  == {"HandshakeRequest", "EncChallengeRequest"}
Control == Asking \cup {"HandshakeComplete"}
Data    == {"Output", "Other"}

ASSUME StreamAssumption ==
    /\ LastSequenceNumber \in Nat
    /\ Kind \in [SeqNos -> Control \cup Data]

\* The handshake opens the stream: nothing but requests precede a control
\* message.
ASSUME HandshakeFirstAssumption ==
    \A k \in SeqNos : Kind[k] \in Control =>
        \A j \in SeqNos : j < k => Kind[j] \in Asking

ASSUME LimitAssumption ==
    /\ IncomingMessageBufferCapacity \in Nat
    /\ MaxSendFailures \in Nat
    /\ SendFailures \subseteq {"ack", "reply"}
    /\ SessionOutcomes \subseteq {"ready", "notReady", "error"}
    /\ TypeOutcomes \subseteq BOOLEAN
    /\ Undecryptable \subseteq {k \in SeqNos : Kind[k] \in Data}

VARIABLES
    agentNext,               \* the agent's next new sequence number
    wire,                    \* messages on their way to the plugin
    agentAcked,              \* acknowledgements the agent has received
    replied,                 \* requests the plugin has answered
    acked,                   \* acknowledgements the plugin has sent
    ExpectedSequenceNumber,
    IncomingMessageBuffer,   \* the sequence numbers that are its keys
    sessionType,             \* "" is "unset"
    isSessionTypeSet,        \* the channel of capacity 1
    isSessionSpecificHandlerSet,
    outputStreamHandlers,    \* "first" is ProcessFirstMessage
    listener,                \* where the listener goroutine is
    ranged,                  \* the handlers slice the listener's loop ranges over
    found,                   \* the slice it found ProcessFirstMessage in
    execute,                 \* where Session.Execute is
    copied,                  \* the handlers slice Execute is appending to
    displayed,               \* sequence numbers in the order they were shown
    failures                 \* sends that have failed

agentVars    == <<agentNext, wire, agentAcked>>
typeVars     == <<sessionType, isSessionTypeSet>>
handlerVars  == <<isSessionSpecificHandlerSet, outputStreamHandlers>>
streamVars   == <<ExpectedSequenceNumber, IncomingMessageBuffer, acked, replied,
                  displayed, failures>>
listenerVars == <<listener, ranged, found>>
executeVars  == <<execute, copied>>
vars == <<agentVars, typeVars, handlerVars, streamVars, listenerVars, executeVars>>

Handlers == {"first", "session"}

\* DataChannel.Initialize, and OpenDataChannel's registration of
\* ProcessFirstMessage, before the websocket is opened.
Init ==
    /\ agentNext = 0 /\ wire = {} /\ agentAcked = {}
    /\ sessionType = "unset" /\ isSessionTypeSet = <<>>
    /\ isSessionSpecificHandlerSet = FALSE /\ outputStreamHandlers = {"first"}
    /\ ExpectedSequenceNumber = 0 /\ IncomingMessageBuffer = {}
    /\ acked = {} /\ replied = {} /\ displayed = <<>> /\ failures = 0
    /\ listener = "reading" /\ ranged = {} /\ found = {}
    /\ execute = "waiting" /\ copied = {}

-----------------------------------------------------------------------------
(* The agent and the network. *)

AgentSend ==
    /\ agentNext \in SeqNos
    /\ \A k \in SeqNos : k < agentNext /\ Kind[k] \in Asking => k \in replied
    /\ agentNext' = agentNext + 1
    /\ wire' = wire \cup {agentNext}
    /\ UNCHANGED <<agentAcked, typeVars, handlerVars, streamVars, listenerVars, executeVars>>

AgentResend(k) ==
    /\ k < agentNext
    /\ k \notin agentAcked \cup wire
    /\ wire' = wire \cup {k}
    /\ UNCHANGED <<agentNext, agentAcked, typeVars, handlerVars, streamVars,
                   listenerVars, executeVars>>

\* An acknowledgement that is lost is one that never arrives.
AckArrives(k) ==
    /\ k \in acked \ agentAcked
    /\ agentAcked' = agentAcked \cup {k}
    /\ UNCHANGED <<agentNext, wire, typeVars, handlerVars, streamVars, listenerVars,
                   executeVars>>

Lose(k) ==
    /\ k \in wire
    /\ wire' = wire \ {k}
    /\ UNCHANGED <<agentNext, agentAcked, typeVars, handlerVars, streamVars,
                   listenerVars, executeVars>>

-----------------------------------------------------------------------------
(* The listener goroutine: OutputMessageHandler, HandleOutputMessage. *)

\* The listener takes a message off the websocket; the process is still alive.
Read(k) ==
    /\ execute # "exited"
    /\ listener = "reading"
    /\ k \in wire
    /\ wire' = wire \ {k}
    /\ UNCHANGED <<agentNext, agentAcked>>

\* A send of this sort returns an error.
SendFails(sort) ==
    /\ sort \in SendFailures
    /\ failures < MaxSendFailures
    /\ failures' = failures + 1

\* Mutant of MoveOn: the buffer is never looked at.
ForgetBuffer ==
    /\ ExpectedSequenceNumber' = ExpectedSequenceNumber + 1
    /\ listener' = "reading"

\* The expected message is done with; ProcessIncomingMessageBufferItems looks
\* for its successor.
MoveOn ==
    /\ ExpectedSequenceNumber' = ExpectedSequenceNumber + 1
    /\ listener' = IF ExpectedSequenceNumber + 1 \in IncomingMessageBuffer
                   THEN "draining" ELSE "reading"

\* Mutant of ReceiveOld: old messages go to the handlers again.
ShowOldAgain(k) ==
    /\ Read(k)
    /\ k < ExpectedSequenceNumber
    /\ displayed' = Append(displayed, k)
    /\ UNCHANGED <<ExpectedSequenceNumber, IncomingMessageBuffer, acked, replied, failures>>
    /\ UNCHANGED <<typeVars, handlerVars, listenerVars, executeVars>>

\* A message that was already passed: no branch applies, and it is not
\* acknowledged again.
ReceiveOld(k) ==
    /\ Read(k)
    /\ k < ExpectedSequenceNumber
    /\ UNCHANGED <<typeVars, handlerVars, streamVars, listenerVars, executeVars>>

HasCapacity == Cardinality(IncomingMessageBuffer) < IncomingMessageBufferCapacity

\* Mutant of ReceiveAhead: the capacity is checked after the acknowledgement.
AckEvenWhenFull(k) ==
    /\ Read(k)
    /\ k > ExpectedSequenceNumber
    /\ acked' = acked \cup {k}
    /\ IncomingMessageBuffer' =
           IncomingMessageBuffer \cup (IF HasCapacity THEN {k} ELSE {})
    /\ UNCHANGED <<ExpectedSequenceNumber, replied, displayed, failures, typeVars,
                   handlerVars, listenerVars, executeVars>>

\* Mutant of AddDataToIncomingMessageBuffer: kept under the number after its own.
AddUnderNext(k) == IncomingMessageBuffer' = IncomingMessageBuffer \cup {k + 1}

AddDataToIncomingMessageBuffer(k) == IncomingMessageBuffer' = IncomingMessageBuffer \cup {k}
RemoveDataFromIncomingMessageBuffer(k) == IncomingMessageBuffer' = IncomingMessageBuffer \ {k}

\* A message ahead of its turn is acknowledged and kept, unless the buffer is
\* full or the acknowledgement cannot be sent.
ReceiveAhead(k) ==
    /\ Read(k)
    /\ k > ExpectedSequenceNumber
    /\ \/ /\ HasCapacity
          /\ acked' = acked \cup {k}
          /\ AddDataToIncomingMessageBuffer(k)
          /\ UNCHANGED failures
       \/ /\ HasCapacity => SendFails("ack")
          /\ ~HasCapacity => UNCHANGED failures
          /\ UNCHANGED <<acked, IncomingMessageBuffer>>
    /\ UNCHANGED <<ExpectedSequenceNumber, replied, displayed, typeVars, handlerVars,
                   listenerVars, executeVars>>

\* The expected message is of this kind and its acknowledgement fails: the
\* handler returns and the message is not processed.
AckFails(k) ==
    /\ SendFails("ack")
    /\ UNCHANGED <<ExpectedSequenceNumber, IncomingMessageBuffer, acked, replied,
                   displayed, typeVars, listener>>

\* Mutant of Answer: the request is answered before it is acknowledged.
AnswerBeforeAck(k) ==
    /\ replied' = replied \cup {k}
    /\ \/ acked' = acked \cup {k} /\ MoveOn /\ UNCHANGED failures
       \/ SendFails("ack") /\ UNCHANGED <<acked, ExpectedSequenceNumber, listener>>
    /\ UNCHANGED <<IncomingMessageBuffer, displayed>>

\* Answer a request that has been acknowledged.  If the answer cannot be sent
\* the handler returns before the expected sequence number moves.
Answer(k) ==
    /\ acked' = acked \cup {k}
    /\ \/ /\ replied' = replied \cup {k}
          /\ MoveOn
          /\ UNCHANGED failures
       \/ /\ SendFails("reply")
          /\ UNCHANGED <<replied, ExpectedSequenceNumber, listener>>
    /\ UNCHANGED <<IncomingMessageBuffer, displayed>>

\* The request names a session type that the plugin knows, or not.
ProcessSessionTypeHandshakeAction ==
    \E known \in TypeOutcomes : sessionType' = IF known THEN "set" ELSE sessionType

ReceiveHandshakeRequest(k) ==
    /\ Read(k)
    /\ k = ExpectedSequenceNumber
    /\ Kind[k] = "HandshakeRequest"
    /\ \/ AckFails(k)
       \/ /\ ProcessSessionTypeHandshakeAction
          /\ Answer(k)
          /\ UNCHANGED isSessionTypeSet
    /\ UNCHANGED <<handlerVars, ranged, found, executeVars>>

ReceiveEncChallengeRequest(k) ==
    /\ Read(k)
    /\ k = ExpectedSequenceNumber
    /\ Kind[k] = "EncChallengeRequest"
    /\ AckFails(k) \/ (Answer(k) /\ UNCHANGED typeVars)
    /\ UNCHANGED <<handlerVars, ranged, found, executeVars>>

\* What handleHandshakeComplete tells the main goroutine.
SessionTypeKnown == sessionType # "unset"

\* Mutant of ReceiveHandshakeComplete: processed before it is acknowledged.
AnnounceBeforeAck(k) ==
    /\ Read(k)
    /\ k = ExpectedSequenceNumber
    /\ Kind[k] = "HandshakeComplete"
    /\ isSessionTypeSet = <<>>
    /\ isSessionTypeSet' = <<SessionTypeKnown>>
    /\ \/ acked' = acked \cup {k} /\ MoveOn /\ UNCHANGED failures
       \/ SendFails("ack") /\ UNCHANGED <<acked, ExpectedSequenceNumber, listener>>
    /\ UNCHANGED <<IncomingMessageBuffer, replied, displayed, sessionType, handlerVars,
                   ranged, found, executeVars>>

\* The send on isSessionTypeSet blocks while the channel is full.
ReceiveHandshakeComplete(k) ==
    /\ Read(k)
    /\ k = ExpectedSequenceNumber
    /\ Kind[k] = "HandshakeComplete"
    /\ \/ AckFails(k)
       \/ /\ isSessionTypeSet = <<>>
          /\ isSessionTypeSet' = <<SessionTypeKnown>>
          /\ acked' = acked \cup {k}
          /\ MoveOn
          /\ UNCHANGED <<IncomingMessageBuffer, replied, displayed, failures, sessionType>>
    /\ UNCHANGED <<handlerVars, ranged, found, executeVars>>

-----------------------------------------------------------------------------
(* Data in its turn, from the websocket or from the buffer. *)

\* From the buffer: passed, whatever the handlers returned.
PassBuffered ==
    /\ ExpectedSequenceNumber \in IncomingMessageBuffer
    /\ MoveOn
    /\ RemoveDataFromIncomingMessageBuffer(ExpectedSequenceNumber)
    /\ UNCHANGED <<acked, failures>>

\* Mutant of PassReceived: the acknowledgement is forgotten.
PassUnacked(result) ==
    /\ ExpectedSequenceNumber \notin IncomingMessageBuffer
    /\ result = "ready"
    /\ MoveOn
    /\ UNCHANGED <<IncomingMessageBuffer, acked, failures>>

\* From the websocket, and the handlers were ready: acknowledged and passed.
PassReceived(result) ==
    /\ ExpectedSequenceNumber \notin IncomingMessageBuffer
    /\ result = "ready"
    /\ acked' = acked \cup {ExpectedSequenceNumber}
    /\ MoveOn
    /\ UNCHANGED <<IncomingMessageBuffer, failures>>

\* From the websocket, and the handlers or the acknowledgement failed.
LeaveForResend(result) ==
    /\ ExpectedSequenceNumber \notin IncomingMessageBuffer
    /\ IF result = "ready" THEN SendFails("ack") ELSE UNCHANGED failures
    /\ listener' = "reading"
    /\ UNCHANGED <<ExpectedSequenceNumber, IncomingMessageBuffer, acked>>

\* The handlers returned; "shows" says whether one of them showed the message.
Finish(result, shows) ==
    /\ displayed' = IF shows THEN Append(displayed, ExpectedSequenceNumber) ELSE displayed
    /\ PassBuffered \/ PassReceived(result) \/ LeaveForResend(result)
    /\ UNCHANGED replied

\* Is the message held back from every handler?
NoHandler ==
    \/ sessionType # "unset" /\ ~isSessionSpecificHandlerSet
    \/ outputStreamHandlers = {}

\* processOutputMessageWithHandlers, up to the call of ProcessFirstMessage if it is
\* there: the loop ranges over the slice as it is now.
PassToHandlers ==
    \/ /\ NoHandler
       /\ Finish("notReady", FALSE)
       /\ UNCHANGED <<ranged, found>>
    \/ /\ ~NoHandler
       /\ "first" \in outputStreamHandlers
       /\ listener' = "calling"
       /\ ranged' = outputStreamHandlers
       /\ UNCHANGED <<streamVars, found>>
    \/ /\ ~NoHandler
       /\ "first" \notin outputStreamHandlers
       /\ \E outcome \in SessionOutcomes : Finish(outcome, outcome = "ready")
       /\ UNCHANGED <<ranged, found>>

\* Decrypt returns an error, and so does the handler.  A message that came from the
\* buffer stays there, and the listener waits for the next one to arrive.
DecryptFails ==
    /\ ExpectedSequenceNumber \in Undecryptable
    /\ listener' = "reading"
    /\ UNCHANGED <<streamVars, ranged, found>>

DecryptAndPass ==
    \/ DecryptFails
    \/ ExpectedSequenceNumber \notin Undecryptable /\ PassToHandlers

ReceiveData(k) ==
    /\ Read(k)
    /\ k = ExpectedSequenceNumber
    /\ Kind[k] \notin Control
    /\ DecryptAndPass
    /\ UNCHANGED <<typeVars, handlerVars, executeVars>>

\* Deserializing cannot fail here: the same bytes were deserialized on arrival.
ProcessBufferItem ==
    /\ execute # "exited"
    /\ listener = "draining"
    /\ DecryptAndPass
    /\ UNCHANGED <<agentVars, typeVars, handlerVars, executeVars>>

\* DeregisterOutputStreamHandler looks for ProcessFirstMessage, which is always the
\* first, and reads the slice again to cut it out.
FindHandler ==
    /\ execute # "exited"
    /\ listener = "calling"
    /\ found' = outputStreamHandlers
    /\ listener' = "deregistering"
    /\ UNCHANGED <<agentVars, typeVars, handlerVars, streamVars, ranged, executeVars>>

DeregisterOutputStreamHandler(handlers) == outputStreamHandlers' = handlers \ {"first"}

\* The send blocks while the channel is full.
SetSessionType ==
    /\ isSessionTypeSet = <<>>
    /\ isSessionTypeSet' = <<TRUE>>
    /\ sessionType' = "set"

\* ProcessFirstMessage stores the shortened slice, starts a shell session if no
\* type is known yet, and the loop goes on to the session's handler.
ProcessFirstMessage ==
    LET starts == execute = "waiting" /\ Kind[ExpectedSequenceNumber] = "Output"
    IN  /\ execute # "exited"
        /\ listener = "deregistering"
        /\ DeregisterOutputStreamHandler(found)
        /\ IF starts THEN SetSessionType ELSE UNCHANGED typeVars
        /\ IF "session" \in ranged
           THEN \E outcome \in SessionOutcomes :
                    Finish(outcome, starts \/ outcome = "ready")
           ELSE Finish("ready", starts)
        /\ ranged' = {} /\ found' = {}
        /\ UNCHANGED <<agentVars, isSessionSpecificHandlerSet, executeVars>>

-----------------------------------------------------------------------------
(* The main goroutine: Session.Execute and the session's Initialize. *)

TakeSessionType ==
    /\ execute = "waiting"
    /\ isSessionTypeSet # <<>>
    /\ execute' = IF Head(isSessionTypeSet) THEN "typed" ELSE "exited"
    /\ isSessionTypeSet' = <<>>
    /\ UNCHANGED <<agentVars, sessionType, handlerVars, streamVars, listenerVars, copied>>

\* Mutant of SetSessionSpecificHandler: registered with FALSE.
RegisterAsNotSpecific ==
    /\ execute = "typed"
    /\ execute' = "flagged"
    /\ UNCHANGED <<agentVars, typeVars, handlerVars, streamVars, listenerVars, copied>>

\* RegisterOutputStreamHandler(handler, TRUE): its first statement, then the read
\* and the write of the slice it appends to.
SetSessionSpecificHandler ==
    /\ execute = "typed"
    /\ isSessionSpecificHandlerSet' = TRUE
    /\ execute' = "flagged"
    /\ UNCHANGED <<agentVars, typeVars, outputStreamHandlers, streamVars, listenerVars,
                   copied>>

ReadHandlers ==
    /\ execute = "flagged"
    /\ copied' = outputStreamHandlers
    /\ execute' = "appending"
    /\ UNCHANGED <<agentVars, typeVars, handlerVars, streamVars, listenerVars>>

AppendHandler ==
    /\ execute = "appending"
    /\ outputStreamHandlers' = copied \cup {"session"}
    /\ copied' = {}
    /\ execute' = "running"
    /\ UNCHANGED <<agentVars, typeVars, isSessionSpecificHandlerSet, streamVars,
                   listenerVars>>

-----------------------------------------------------------------------------
Receive(k) ==
    \/ ReceiveOld(k)
    \/ ReceiveAhead(k)
    \/ ReceiveHandshakeRequest(k)
    \/ ReceiveEncChallengeRequest(k)
    \/ ReceiveHandshakeComplete(k)
    \/ ReceiveData(k)

Listener == ProcessBufferItem \/ FindHandler \/ ProcessFirstMessage

Execute == TakeSessionType \/ SetSessionSpecificHandler \/ ReadHandlers \/ AppendHandler

Next ==
    \/ AgentSend
    \/ \E k \in SeqNos : AgentResend(k)
    \/ \E k \in SeqNos : AckArrives(k)
    \/ \E k \in SeqNos : Lose(k)
    \/ \E k \in SeqNos : Receive(k)
    \/ Listener
    \/ Execute

Spec == Init /\ [][Next]_vars

\* The agent keeps sending and resending, a message that is sent again and
\* again is received in the end, and the Go scheduler runs every goroutine.
FairSpec ==
    /\ Spec
    /\ WF_vars(AgentSend)
    /\ \A k \in SeqNos : WF_vars(AgentResend(k)) /\ SF_vars(Receive(k))
    /\ WF_vars(Listener)
    /\ WF_vars(Execute)

-----------------------------------------------------------------------------
(* Correctness. *)

\* The listener is in ProcessFirstMessage.
CallsFirst == listener \in {"calling", "deregistering"}

\* Every variable has its type.
TypeOK ==
    /\ agentNext \in 0 .. LastSequenceNumber + 1
    /\ wire \subseteq SeqNos /\ agentAcked \subseteq SeqNos
    /\ acked \subseteq SeqNos /\ replied \subseteq SeqNos
    /\ ExpectedSequenceNumber \in 0 .. LastSequenceNumber + 1
    /\ IncomingMessageBuffer \subseteq SeqNos
    /\ sessionType \in {"unset", "set"}
    /\ isSessionTypeSet \in {<<>>, <<TRUE>>, <<FALSE>>}
    /\ isSessionSpecificHandlerSet \in BOOLEAN
    /\ outputStreamHandlers \subseteq Handlers
    /\ listener \in {"reading", "draining", "calling", "deregistering"}
    /\ ranged \subseteq Handlers /\ found \subseteq Handlers
    /\ execute \in {"waiting", "typed", "flagged", "appending", "running", "exited"}
    /\ copied \subseteq Handlers
    /\ displayed \in Seq(SeqNos)
    /\ failures \in 0 .. MaxSendFailures

\* The user never sees a message after one that the agent sent later, whatever
\* the network reorders and however often a message is sent again
\* (HandleOutputMessage, ProcessIncomingMessageBufferItems).
DisplayedInOrder ==
    \A i, j \in DOMAIN displayed : i < j => displayed[i] <= displayed[j]

\* No message is passed before the agent has been told that it arrived, so the
\* agent keeps nothing that the plugin will refuse (HandleOutputMessage).
PassedIsAcked ==
    \A k \in SeqNos : k < ExpectedSequenceNumber => k \in acked

\* Data the agent has been told it may forget is either passed or kept in the
\* buffer until its turn: it is not lost because the buffer was full or a send
\* failed (HandleOutputMessage acknowledges after the capacity check).
AckedDataIsKept ==
    \A k \in acked : Kind[k] \in Data =>
        k < ExpectedSequenceNumber \/ k \in IncomingMessageBuffer

\* Only data waits in the buffer, because the agent waits for the plugin's
\* answers.  ProcessIncomingMessageBufferItems gives what it takes from the
\* buffer to the output handlers, never to the handshake's handlers.
BufferHoldsOnlyData ==
    \A k \in IncomingMessageBuffer : k > ExpectedSequenceNumber => Kind[k] \in Data

\* The buffer never outgrows its capacity and is empty of what has been passed
\* (HandleOutputMessage, RemoveDataFromIncomingMessageBuffer).
BufferIsBounded ==
    /\ Cardinality(IncomingMessageBuffer) <= IncomingMessageBufferCapacity
    /\ \A k \in IncomingMessageBuffer : k >= ExpectedSequenceNumber

\* The main goroutine looks up SessionRegistry only with a type that is known
\* (session.go:109 calls Initialize on what it finds there).
StartsWithKnownType ==
    execute \in {"typed", "flagged", "appending", "running"} => sessionType = "set"

\* With an agent that names a known session type, the listener never blocks on
\* the channel of capacity one: it announces the type once, however often the
\* messages that announce it are sent again (handleHandshakeComplete,
\* SetSessionType).
TypeIsAnnouncedOnce ==
    \/ isSessionTypeSet # <<TRUE>>
    \/ /\ execute = "waiting"
       /\ \A k \in SeqNos : Kind[k] = "HandshakeComplete" => k < ExpectedSequenceNumber
       /\ ~CallsFirst

\* The stream as its user sees it.  The handlers that matter are those the
\* message in hand is passed to.
HandlersInUse == IF CallsFirst THEN ranged ELSE outputStreamHandlers

Output == INSTANCE OrderedOutput WITH
    Silent <- {k \in SeqNos : Kind[k] \in Control},
    next <- ExpectedSequenceNumber,
    attached <- "session" \in HandlersInUse,
    shown <- displayed

\* With a handler that is always ready (a shell's), every message is taken in
\* order and none that carries data is skipped while the handler is in use: the
\* listener implements OrderedOutput.
DeliversInOrder == Output!Spec

\* Every message the agent sends is passed in the end, unless the session ended,
\* the session's handler was lost while it was registered, or a message cannot be
\* decrypted, behind which everything waits (HandleOutputMessage leaves what it
\* cannot process unacknowledged, so that it comes again).
StreamProgresses ==
    \A k \in SeqNos :
        k < agentNext ~>
            \/ k < ExpectedSequenceNumber
            \/ execute = "exited"
            \/ execute = "running" /\ "session" \notin outputStreamHandlers
            \/ ExpectedSequenceNumber \in Undecryptable

-----------------------------------------------------------------------------
(* What comments say, and the code does not do. *)

\* streaming.go:694: "Acknowledge outputMessage only if session specific handler
\* is ready": data that is passed, and so acknowledged, has been shown, whether it
\* came in its turn or waited in the buffer.
PassedDataIsShown ==
    [][ ExpectedSequenceNumber' > ExpectedSequenceNumber
        /\ Kind[ExpectedSequenceNumber] \in Data
        => \E i \in DOMAIN displayed' : displayed'[i] = ExpectedSequenceNumber ]_vars

\* streaming.go:587: "RegisterOutputStreamHandler register a handler for messages
\* of type OutputStream": once it has returned, the handler is registered.
HandlerStaysRegistered ==
    execute = "running" => "session" \in outputStreamHandlers
=============================================================================
