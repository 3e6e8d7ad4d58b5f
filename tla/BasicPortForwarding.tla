-------------------------- MODULE BasicPortForwarding --------------------------
(***************************************************************************)
(* A port session with an agent that does not multiplex: PortSession over  *)
(* BasicPortForwarding.  The main goroutine waits for a local client,      *)
(* sends what it reads from it, and when the client hangs up waits for the *)
(* next.  The websocket listener writes the server's output to whatever    *)
(* client the field "stream" holds, or held when it looked.                *)
(*                                                                         *)
(* Clients are external: they come one after the other (or an interceptor  *)
(* brings them), and hang up when they like.  So are the agent and the     *)
(* server.  The data channel is taken at its word: inputs arrive in order  *)
(* (OrderedInput), and of the receiving side only what the handler's       *)
(* answer decides is kept here: keeping, passing and leaving alone.        *)
(***************************************************************************)
EXTENDS Naturals, Sequences, FiniteSets

CONSTANTS
    MaxClients,          \* bound: how many clients come
    MaxInputs,           \* bound: how much each of them sends
    MaxOutputs,          \* bound: how much the server sends
    AcquireOutcomes,     \* what the interceptor may answer; none is "declines"
    CanTerminate         \* does the agent know the TerminateSession flag?

Clients == 1 .. MaxClients
Outputs == 0 .. MaxOutputs

ASSUME PortAssumption ==
    /\ MaxClients \in Nat /\ MaxInputs \in Nat /\ MaxOutputs \in Nat
    /\ AcquireOutcomes \subseteq {"provides", "declines", "fails"}
    /\ CanTerminate \subseteq BOOLEAN

VARIABLES
    main,                \* where the main goroutine is
    listener,            \* is there a local listener?
    stream,              \* the client whose connection it holds, 0 is nil
    closed,              \* connections the plugin has closed
    signals,             \* where the goroutine of handleControlSignals is
    arrived,             \* clients 1 .. arrived have connected
    gone,                \* clients that have hung up
    inputs,              \* what went to the agent: clients' data and flags
    sent,                \* outputs 0 .. sent - 1 have left the agent
    ExpectedSequenceNumber,
    kept,                \* outputs that came ahead of their turn and were kept
    early,               \* those of them that overtook HandshakeComplete
    writer,              \* the connection the websocket listener writes to, or 0
    written              \* <<c, k>>: the connection of client c took output k

clientVars == <<arrived, gone>>
mainVars   == <<main, listener, stream, closed>>
outputVars == <<sent, ExpectedSequenceNumber, kept, early, writer, written>>
vars == <<mainVars, signals, clientVars, inputs, outputVars>>

\* An input is the number of the client whose data it is, or a flag.
Disconnect == 0
Terminate  == MaxClients + 1

\* HandshakeComplete is handled: what overtook it is kept, for the websocket listener
\* to drain now, and setSessionHandlersWithSessionType has looked the plugin up, whose
\* Initialize is about to register its handlers.
Init ==
    /\ main = "initializing" /\ listener = FALSE /\ stream = 0 /\ closed = {}
    /\ signals = "unhandled"
    /\ arrived = 0 /\ gone = {}
    /\ inputs = <<>>
    /\ sent \in Outputs /\ early \in SUBSET (0 .. sent - 1) /\ kept = early
    /\ ExpectedSequenceNumber = 0 /\ writer = 0 /\ written = {}

Alive == main # "exited"

-----------------------------------------------------------------------------
(* Clients and the agent. *)

Arrive ==
    /\ Alive
    /\ listener
    /\ arrived < MaxClients
    /\ arrived' = arrived + 1
    /\ UNCHANGED <<mainVars, signals, gone, inputs, outputVars>>

HangUp(c) ==
    /\ Alive
    /\ c <= arrived /\ c \notin gone
    /\ gone' = gone \cup {c}
    /\ UNCHANGED <<mainVars, signals, arrived, inputs, outputVars>>

\* The server answers on the connection the agent has opened to it.
AgentSends ==
    /\ Alive
    /\ sent < MaxOutputs
    /\ sent' = sent + 1
    /\ UNCHANGED <<mainVars, signals, clientVars, inputs, ExpectedSequenceNumber, kept,
                   early, writer, written>>

-----------------------------------------------------------------------------
(* The main goroutine. *)

\* PortSession.Initialize: from now on OnMessage asks IsStreamNotSet first.
SetOnMessage ==
    /\ main = "initializing"
    /\ main' = "starting"
    /\ UNCHANGED <<listener, stream, closed, signals, clientVars, inputs, outputVars>>

\* The interceptor brings a client.
Provide ==
    /\ "provides" \in AcquireOutcomes
    /\ arrived = stream /\ arrived < MaxClients
    /\ arrived' = stream + 1
    /\ stream' = stream + 1
    /\ main' = "reading"
    /\ UNCHANGED <<listener, gone>>

\* InitializeStreams: control signals are handled, and the interceptor brings the
\* first client, or a local listener is opened; an error ends the session.
InitializeStreams ==
    /\ main = "starting"
    /\ signals' = "waiting"
    /\ \/ Provide
       \/ /\ "declines" \in AcquireOutcomes
          /\ listener' = TRUE
          /\ main' = "accepting"
          /\ UNCHANGED <<stream, clientVars>>
       \/ /\ main' = "exited"
          /\ UNCHANGED <<listener, stream, clientVars>>
    /\ UNCHANGED <<closed, inputs, outputVars>>

\* Mutant of Accept: an error of the listener is taken for a client.
AcceptAnything ==
    /\ main = "accepting"
    /\ listener
    /\ stream' = stream + 1
    /\ main' = "reading"
    /\ UNCHANGED <<listener, closed, signals, clientVars, inputs, outputVars>>

\* Mutant of Accept: the listener is closed once it has handed out a client.
AcceptFirst ==
    /\ main = "accepting"
    /\ listener
    /\ stream = 0 /\ stream < arrived
    /\ stream' = stream + 1
    /\ main' = "reading"
    /\ UNCHANGED <<listener, closed, signals, clientVars, inputs, outputVars>>

\* The listener hands out the clients in the order they came, also those that
\* have hung up meanwhile.
Accept ==
    /\ main = "accepting"
    /\ listener
    /\ \/ stream < arrived /\ stream' = stream + 1 /\ main' = "reading"
       \/ UNCHANGED stream /\ main' = "exited"
    /\ UNCHANGED <<listener, closed, signals, clientVars, inputs, outputVars>>

\* Without a listener the interceptor has to bring the next client.
Acquire ==
    /\ main = "accepting"
    /\ ~listener
    /\ Provide \/ (main' = "exited" /\ UNCHANGED <<listener, stream, clientVars>>)
    /\ UNCHANGED <<closed, signals, inputs, outputVars>>

\* The data channel takes the input, or refuses it and the session ends.
Send(input, next) ==
    \/ inputs' = Append(inputs, input) /\ main' = next
    \/ UNCHANGED inputs /\ main' = "exited"

\* What the client has sent, perhaps before it hung up, is read and sent on.
ReadStream ==
    /\ main = "reading"
    /\ Cardinality({i \in DOMAIN inputs : inputs[i] = stream}) < MaxInputs
    /\ Send(stream, "reading")
    /\ UNCHANGED <<listener, stream, closed, signals, clientVars, outputVars>>

\* Mutant of ReadFails: the agent is not told.
ReconnectSilently ==
    /\ main = "reading"
    /\ stream \in gone
    /\ main' = "closing"
    /\ UNCHANGED <<listener, stream, closed, signals, clientVars, inputs, outputVars>>

\* The client has hung up, and what it sent last may be lost.  The agent is told,
\* unless an interceptor looks after the clients.
ReadFails ==
    /\ main = "reading"
    /\ stream \in gone
    /\ IF listener THEN Send(Disconnect, "closing")
       ELSE main' = "closing" /\ UNCHANGED inputs
    /\ UNCHANGED <<listener, stream, closed, signals, clientVars, outputVars>>

\* The first statement of reconnect; the field keeps the closed connection.
CloseStream ==
    /\ main = "closing"
    /\ closed' = closed \cup {stream}
    /\ main' = "accepting"
    /\ UNCHANGED <<listener, stream, signals, clientVars, inputs, outputVars>>

-----------------------------------------------------------------------------
(* The end of the session. *)

\* Stop closes the stream and ends the process.
Stop ==
    /\ closed' = IF stream = 0 THEN closed ELSE closed \cup {stream}
    /\ main' = "exited"

\* A control signal: the flag is sent, whether that fails or not, or an old
\* agent's session is terminated by a call, which sends channel_closed.
HandleSignal ==
    /\ Alive
    /\ signals = "waiting"
    /\ \/ /\ TRUE \in CanTerminate
          /\ signals' = "stopping"
          /\ inputs' \in {inputs, Append(inputs, Terminate)}
       \/ /\ FALSE \in CanTerminate
          /\ signals' = "done"
          /\ UNCHANGED inputs
    /\ UNCHANGED <<mainVars, clientVars, outputVars>>

StopOnSignal ==
    /\ Alive
    /\ signals = "stopping"
    /\ Stop
    /\ signals' = "done"
    /\ UNCHANGED <<listener, stream, clientVars, inputs, outputVars>>

-----------------------------------------------------------------------------
(* The websocket listener. *)

IsStreamNotSet == stream = 0

\* The websocket listener waits for a message: it does not write, and drains
\* nothing that it kept.
Idle == Alive /\ writer = 0 /\ ExpectedSequenceNumber \notin kept

\* OnMessage drops output while the stream is not set.
PassesGate == main = "initializing" \/ ~IsStreamNotSet

\* Output ahead of its turn is acknowledged and kept (the buffer is not full).
ReceiveAhead(k) ==
    /\ Idle
    /\ k > ExpectedSequenceNumber /\ k < sent
    /\ PassesGate
    /\ kept' = kept \cup {k}
    /\ UNCHANGED <<mainVars, signals, clientVars, inputs, sent, ExpectedSequenceNumber,
                   early, writer, written>>

\* channel_closed is not output: it is handled even while there is no client.
HandleChannelClosed ==
    /\ Idle
    /\ Stop
    /\ UNCHANGED <<listener, stream, signals, clientVars, inputs, outputVars>>

\* Output in its turn, from the websocket or kept before.
InTurn ==
    /\ Alive
    /\ writer = 0
    /\ ExpectedSequenceNumber < sent
    /\ ExpectedSequenceNumber \in kept \/ PassesGate

\* Mutant of ProcessStreamMessagePayload: ready although the stream is not set.
ReadyWhenNotSet ==
    /\ InTurn
    /\ IF IsStreamNotSet
       THEN ExpectedSequenceNumber' = ExpectedSequenceNumber + 1 /\ UNCHANGED writer
       ELSE writer' = stream /\ UNCHANGED ExpectedSequenceNumber
    /\ UNCHANGED <<mainVars, signals, clientVars, inputs, sent, kept, early, written>>

\* The handler is not ready while the stream is not set, and a message from the
\* websocket is left for the agent to resend; else WriteStream reads the field.
ProcessStreamMessagePayload ==
    /\ InTurn
    /\ ~IsStreamNotSet
    /\ writer' = stream
    /\ UNCHANGED <<mainVars, signals, clientVars, inputs, sent, ExpectedSequenceNumber, kept,
                   early, written>>

\* Draining what was kept does not look at the handler's answer: while the stream is
\* not set, or the handler not registered, the message is passed and gone.
DrainUnready ==
    /\ Alive
    /\ writer = 0
    /\ ExpectedSequenceNumber \in kept
    /\ IsStreamNotSet
    /\ ExpectedSequenceNumber' = ExpectedSequenceNumber + 1
    /\ UNCHANGED <<mainVars, signals, clientVars, inputs, sent, kept, early, writer, written>>

\* The write to the connection succeeds, also if the client is gone and nobody
\* noticed yet, and the output is acknowledged and passed.
WriteStream ==
    /\ Alive
    /\ writer # 0
    /\ writer \notin closed
    /\ written' = written \cup {<<writer, ExpectedSequenceNumber>>}
    /\ ExpectedSequenceNumber' = ExpectedSequenceNumber + 1
    /\ writer' = 0
    /\ UNCHANGED <<mainVars, signals, clientVars, inputs, sent, kept, early>>

\* Mutant of WriteFails: the handler swallows the error.
PassUnwritten ==
    /\ Alive
    /\ writer \in gone \cup closed
    /\ ExpectedSequenceNumber' = ExpectedSequenceNumber + 1
    /\ writer' = 0
    /\ UNCHANGED <<mainVars, signals, clientVars, inputs, sent, kept, early, written>>

\* The write fails: output that was kept is passed all the same, other output is
\* left for the agent to resend.
WriteFails ==
    /\ Alive
    /\ writer \in gone \cup closed
    /\ ExpectedSequenceNumber' = IF ExpectedSequenceNumber \in kept
                                 THEN ExpectedSequenceNumber + 1
                                 ELSE ExpectedSequenceNumber
    /\ writer' = 0
    /\ UNCHANGED <<mainVars, signals, clientVars, inputs, sent, kept, early, written>>

-----------------------------------------------------------------------------
Main ==
    \/ SetOnMessage
    \/ InitializeStreams
    \/ Accept
    \/ Acquire
    \/ ReadStream
    \/ ReadFails
    \/ CloseStream

Signal == HandleSignal \/ StopOnSignal

Receive ==
    \/ HandleChannelClosed
    \/ \E k \in Outputs : ReceiveAhead(k)
    \/ ProcessStreamMessagePayload
    \/ DrainUnready

Write == WriteStream \/ WriteFails

Next ==
    \/ Arrive
    \/ \E c \in Clients : HangUp(c)
    \/ AgentSends
    \/ Main
    \/ Signal
    \/ Receive
    \/ Write

Spec == Init /\ [][Next]_vars

\* The Go scheduler runs both goroutines, and the agent resends what is not
\* acknowledged; clients, the agent and the server promise nothing.
FairSpec ==
    /\ Spec
    /\ WF_vars(Main)
    /\ WF_vars(Write)
    /\ WF_vars(ProcessStreamMessagePayload \/ DrainUnready)

-----------------------------------------------------------------------------
(* Correctness. *)

\* Every variable has its type.
TypeOK ==
    /\ main \in {"initializing", "starting", "accepting", "reading", "closing", "exited"}
    /\ listener \in BOOLEAN
    /\ stream \in 0 .. MaxClients /\ writer \in 0 .. stream
    /\ closed \subseteq 1 .. stream
    /\ signals \in {"unhandled", "waiting", "stopping", "done"}
    /\ arrived \in stream .. MaxClients /\ gone \subseteq 1 .. arrived
    /\ inputs \in Seq(Disconnect .. Terminate)
    /\ sent \in Outputs /\ ExpectedSequenceNumber \in 0 .. sent
    /\ early \subseteq kept /\ kept \subseteq 0 .. sent - 1
    /\ written \subseteq Clients \X Outputs

\* The agent closes its connection to the server when it gets the flag.  With a
\* local listener, no server connection ever carries the data of two clients, and
\* a flag only follows a client that was served (ReadStream).
ClientsAreSeparated ==
    listener =>
        \A i, j \in DOMAIN inputs :
            /\ i < j /\ inputs[i] \in Clients /\ inputs[j] \in Clients
            /\ inputs[i] # inputs[j]
            => \E n \in i .. j : inputs[n] = Disconnect

\* Only output that was kept ahead of its turn is ever passed without a connection
\* having taken it, and that for one of two reasons: it and all before it overtook
\* HandshakeComplete, and were drained before there was a client
\* (ProcessIncomingMessageBufferItems), or a client had hung up (WriteStream).
OnlyKeptOutputIsLost ==
    \A k \in Outputs :
        k < ExpectedSequenceNumber /\ (\A c \in Clients : <<c, k>> \notin written) =>
            /\ k \in kept
            /\ 0 .. k \subseteq early \/ gone # {}

\* A client that waits is served when those before it have hung up
\* (ReadStream, reconnect).
ClientIsServed ==
    \A c \in Clients :
        c <= arrived /\ 1 .. c - 1 \subseteq gone ~> c <= stream \/ ~Alive

\* Is the kept output k in hand for the connection of a client before c?  If that is
\* closed, k is lost.
HeldForAnother(c, k) == k = ExpectedSequenceNumber /\ k \in kept /\ writer \notin {0, c}

\* Output that was not passed when client c was accepted is written to the connection
\* of c, if c stays: also what a write to its predecessor's connection has failed for,
\* unless it was kept ahead of its turn (Initialize's gate, WriteStream).
OutputReachesClient ==
    \A c \in Clients, k \in Outputs :
        /\ stream = c
        /\ ExpectedSequenceNumber <= k /\ k < sent
        /\ ~HeldForAnother(c, k)
        ~> <<c, k>> \in written \/ c \in gone \/ ~Alive
=============================================================================
