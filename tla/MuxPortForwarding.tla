--------------------------- MODULE MuxPortForwarding ---------------------------
(***************************************************************************)
(* A port session with an agent that multiplexes: PortSession over         *)
(* MuxPortForwarding.  A pair of goroutines connects a unix socket with    *)
(* itself; one end is the data channel's (mgsConn), the other a client of  *)
(* the smux library (muxClient).  Then one goroutine takes what smux       *)
(* writes to the agent, another accepts local clients and opens a stream   *)
(* for each, and two more copy between a client and its stream.            *)
(*                                                                         *)
(* The websocket listener looks at mgsConn and muxClient from the moment   *)
(* Initialize has registered the handler, whether they are set or not.     *)
(*                                                                         *)
(* smux is external: its session may end, and it writes when a stream is   *)
(* opened, when a client sends and, unless disabled, to keep alive.  How   *)
(* much it buffers is abstracted from.                                     *)
(***************************************************************************)
EXTENDS Version, FiniteSets

CONSTANTS
    AgentVersions,       \* versions the agent may have told
    Clients              \* local clients that may come

ASSUME MuxAssumption == AgentVersions \subseteq Seq(Nat \cup {NotANumber})

VARIABLES
    agentVersion,
    portType,            \* what Initialize chose; "basic" is another module's
    keepAlive,           \* does the smux session send frames to keep alive?
    main,                \* where the main goroutine is
    acceptor, dialer,    \* the two goroutines of initialize
    mgsConn, muxClient,  \* is the field set?
    muxAlive,            \* are the smux session and its connection open?
    frames,              \* has smux written what transferDataToServer has not read?
    transfer,            \* where transferDataToServer is
    accepting,           \* where handleClientConnections is
    cancelled,           \* has one of the two returned an error?
    client,              \* what has become of each client
    ended,               \* for each client, the ends that have hung up
    signals,             \* where the goroutine of handleControlSignals is
    terminateSent,       \* has the TerminateSession flag gone to the agent?
    panicked             \* has the websocket listener ended in a panic?

setupVars  == <<agentVersion, portType, keepAlive, acceptor, dialer, mgsConn, muxClient>>
readVars   == <<transfer, accepting, cancelled>>
clientVars == <<client, ended>>
signalVars == <<signals, terminateSent>>
vars == <<setupVars, main, muxAlive, frames, readVars, clientVars, signalVars, panicked>>

Init ==
    /\ agentVersion \in AgentVersions
    /\ portType = "none" /\ keepAlive = TRUE
    /\ main = "initializing"
    /\ acceptor = "none" /\ dialer = "none" /\ mgsConn = FALSE /\ muxClient = FALSE
    /\ muxAlive = FALSE /\ frames = FALSE
    /\ transfer = "none" /\ accepting = "none" /\ cancelled = FALSE
    /\ client = [c \in Clients |-> "away"] /\ ended = [c \in Clients |-> {}]
    /\ signals = "unhandled" /\ terminateSent = FALSE
    /\ panicked = FALSE

\* The process lives, in a session that multiplexes.
Alive == main # "exited" /\ portType # "basic"

-----------------------------------------------------------------------------
(* The main goroutine: set-up. *)

\* Initialize chooses the type of the session and registers the handler.
Initialize ==
    /\ main = "initializing"
    /\ portType' = IF DoesAgentSupportTCPMultiplexing(agentVersion) THEN "mux" ELSE "basic"
    /\ main' = "registered"
    /\ UNCHANGED <<agentVersion, keepAlive, acceptor, dialer, mgsConn, muxClient, muxAlive,
                   frames, readVars, clientVars, signalVars, panicked>>

\* Initialize goes on: OnMessage asks IsStreamNotSet of every message.
SetOnMessage ==
    /\ Alive
    /\ main = "registered"
    /\ main' = "starting"
    /\ UNCHANGED <<setupVars, muxAlive, frames, readVars, clientVars, signalVars, panicked>>

\* InitializeStreams: control signals are handled, and the socket is listened on,
\* or that fails and ends the session.
InitializeStreams ==
    /\ Alive
    /\ main = "starting"
    /\ signals' = "waiting"
    /\ \/ /\ main' = "setup" /\ acceptor' = "accepting" /\ dialer' = "dialing"
       \/ /\ main' = "exited" /\ UNCHANGED <<acceptor, dialer>>
    /\ UNCHANGED <<agentVersion, portType, keepAlive, mgsConn, muxClient, muxAlive, frames,
                   readVars, clientVars, terminateSent, panicked>>

\* The dialing goroutine connects, or fails.
Dial ==
    /\ Alive
    /\ dialer = "dialing"
    /\ dialer' \in {"connected", "failed"}
    /\ UNCHANGED <<agentVersion, portType, keepAlive, acceptor, mgsConn, muxClient, main,
                   muxAlive, frames, readVars, clientVars, signalVars, panicked>>

\* It makes the smux session and sets the field.  smux.Client returns an error only
\* for a configuration it rejects, and it accepts its default one, with keep-alive or
\* without (smux/mux.go, DefaultConfig and VerifyConfig).
StartMux ==
    /\ Alive
    /\ dialer = "connected"
    /\ dialer' = "done"
    /\ muxClient' = TRUE /\ muxAlive' = TRUE
    /\ keepAlive' = ~DoesAgentSupportDisableSmuxKeepAlive(agentVersion)
    /\ UNCHANGED <<agentVersion, portType, acceptor, mgsConn, main, frames, readVars,
                   clientVars, signalVars, panicked>>

\* The accepting goroutine gets the connection and sets the field.
AcceptMux ==
    /\ Alive
    /\ acceptor = "accepting"
    /\ dialer \in {"connected", "done"}
    /\ acceptor' = "done"
    /\ mgsConn' = TRUE
    /\ UNCHANGED <<agentVersion, portType, keepAlive, dialer, muxClient, main, muxAlive,
                   frames, readVars, clientVars, signalVars, panicked>>

AcceptMuxFails ==
    /\ Alive
    /\ acceptor = "accepting"
    /\ acceptor' = "failed"
    /\ UNCHANGED <<agentVersion, portType, keepAlive, dialer, mgsConn, muxClient, main,
                   muxAlive, frames, readVars, clientVars, signalVars, panicked>>

\* Mutant of EndSetup: only success is waited for.
EndSetupWell ==
    /\ Alive
    /\ main = "setup"
    /\ acceptor = "done" /\ dialer = "done"
    /\ main' = "running" /\ transfer' = "checking" /\ accepting' = "opening"
    /\ UNCHANGED <<setupVars, muxAlive, frames, cancelled, clientVars, signalVars, panicked>>

\* Mutant of EndSetup: the goroutine that sets muxClient is not waited for.
EndSetupEarly ==
    /\ Alive
    /\ main = "setup"
    /\ acceptor \in {"done", "failed"}
    /\ IF acceptor = "failed"
       THEN main' = "exited" /\ UNCHANGED <<transfer, accepting>>
       ELSE main' = "running" /\ transfer' = "checking" /\ accepting' = "opening"
    /\ UNCHANGED <<setupVars, muxAlive, frames, cancelled, clientVars, signalVars, panicked>>

\* initialize has waited for both goroutines; then ReadStream starts two others.
EndSetup ==
    /\ Alive
    /\ main = "setup"
    /\ acceptor \in {"done", "failed"} /\ dialer \in {"done", "failed"}
    /\ IF "failed" \in {acceptor, dialer}
       THEN main' = "exited" /\ UNCHANGED <<transfer, accepting>>
       ELSE main' = "running" /\ transfer' = "checking" /\ accepting' = "opening"
    /\ UNCHANGED <<setupVars, muxAlive, frames, cancelled, clientVars, signalVars, panicked>>

\* ReadStream has waited for both goroutines, and the session ends.
EndReadStream ==
    /\ Alive
    /\ main = "running"
    /\ transfer = "returned" /\ accepting = "returned"
    /\ main' = "exited"
    /\ UNCHANGED <<setupVars, muxAlive, frames, readVars, clientVars, signalVars, panicked>>

-----------------------------------------------------------------------------
(* The two goroutines of ReadStream. *)

\* transferDataToServer looks at the context and calls Read.
CheckTransfer ==
    /\ Alive
    /\ transfer = "checking"
    /\ transfer' = IF cancelled THEN "returned" ELSE "reading"
    /\ UNCHANGED <<setupVars, main, muxAlive, frames, accepting, cancelled, clientVars,
                   signalVars, panicked>>

\* What smux wrote goes to the data channel, which takes it or not.
TransferData ==
    /\ Alive
    /\ transfer = "reading"
    /\ frames
    /\ frames' = FALSE
    /\ \/ transfer' = "checking" /\ UNCHANGED cancelled
       \/ transfer' = "returned" /\ cancelled' = TRUE
    /\ UNCHANGED <<setupVars, main, muxAlive, accepting, clientVars, signalVars, panicked>>

\* Nothing is left to read and smux has closed its end.
ReadFails ==
    /\ Alive
    /\ transfer = "reading"
    /\ ~frames /\ ~muxAlive
    /\ transfer' = "returned"
    /\ cancelled' = TRUE
    /\ UNCHANGED <<setupVars, main, muxAlive, frames, accepting, clientVars, signalVars,
                   panicked>>

TransferDataToServer == CheckTransfer \/ TransferData \/ ReadFails

\* handleClientConnections gets a listener, from the interceptor or by opening a
\* port or a socket, or fails.
OpenListener ==
    /\ Alive
    /\ accepting = "opening"
    /\ \/ accepting' = "checking" /\ UNCHANGED cancelled
       \/ accepting' = "returned" /\ cancelled' = TRUE
    /\ UNCHANGED <<setupVars, main, muxAlive, frames, transfer, clientVars, signalVars,
                   panicked>>

\* Mutant of CheckAccept: nobody looks at the context.
AcceptForEver ==
    /\ Alive
    /\ accepting = "checking"
    /\ accepting' = "accepting"
    /\ UNCHANGED <<setupVars, main, muxAlive, frames, transfer, cancelled, clientVars,
                   signalVars, panicked>>

\* It looks at the context and calls Accept.
CheckAccept ==
    /\ Alive
    /\ accepting = "checking"
    /\ accepting' = IF cancelled THEN "returned" ELSE "accepting"
    /\ UNCHANGED <<setupVars, main, muxAlive, frames, transfer, cancelled, clientVars,
                   signalVars, panicked>>

\* A client is accepted and gets a stream, whose opening smux tells the agent.
\* Without smux it keeps its connection, and nobody serves it.
AcceptClient(c) ==
    /\ Alive
    /\ accepting = "accepting"
    /\ client[c] = "waiting"
    /\ client' = [client EXCEPT ![c] = IF muxAlive THEN "open" ELSE "dropped"]
    /\ frames' = (frames \/ muxAlive)
    /\ accepting' = "checking"
    /\ UNCHANGED <<setupVars, main, muxAlive, transfer, cancelled, ended, signalVars, panicked>>

\* An error of Accept is only logged.
AcceptFails ==
    /\ Alive
    /\ accepting = "accepting"
    /\ accepting' = "checking"
    /\ UNCHANGED <<setupVars, main, muxAlive, frames, transfer, cancelled, clientVars,
                   signalVars, panicked>>

HandleClientConnections ==
    OpenListener \/ CheckAccept \/ (\E c \in Clients : AcceptClient(c)) \/ AcceptFails

-----------------------------------------------------------------------------
(* The two goroutines of handleDataTransfer, for each client. *)

\* Mutant of CopyUp: the stream is not closed when the client has hung up.
CopyUpOnly(c) == Alive /\ "client" \in ended[c] /\ UNCHANGED vars

\* The client has hung up or its connection is closed, or what it sends cannot be
\* written: the stream is closed, which smux tells the agent.
CopyUp(c) ==
    /\ Alive
    /\ \/ client[c] = "open" /\ ("client" \in ended[c] \/ ~muxAlive)
       \/ client[c] = "downDone"
    /\ client' = [client EXCEPT ![c] = IF @ = "open" THEN "upDone" ELSE "closed"]
    /\ frames' = (frames \/ muxAlive)
    /\ UNCHANGED <<setupVars, main, muxAlive, readVars, ended, signalVars, panicked>>

\* The server has hung up, or the stream or the smux session is closed: the
\* client's connection is closed.
CopyDown(c) ==
    /\ Alive
    /\ \/ client[c] = "open" /\ ("server" \in ended[c] \/ ~muxAlive)
       \/ client[c] = "upDone"
    /\ client' = [client EXCEPT ![c] = IF @ = "open" THEN "downDone" ELSE "closed"]
    /\ UNCHANGED <<setupVars, main, muxAlive, frames, readVars, ended, signalVars, panicked>>

HandleDataTransfer(c) == CopyUp(c) \/ CopyDown(c)

-----------------------------------------------------------------------------
(* Clients, their servers and smux. *)

Connect(c) ==
    /\ Alive
    /\ accepting \in {"checking", "accepting"}
    /\ client[c] = "away"
    /\ client' = [client EXCEPT ![c] = "waiting"]
    /\ UNCHANGED <<setupVars, main, muxAlive, frames, readVars, ended, signalVars, panicked>>

HangUp(c, end) ==
    /\ Alive
    /\ client[c] \in (IF end = "server" THEN {"open"} ELSE {"waiting", "open"})
    /\ ended' = [ended EXCEPT ![c] = @ \cup {end}]
    /\ UNCHANGED <<setupVars, main, muxAlive, frames, readVars, client, signalVars, panicked>>

\* A client sends something, or the keep-alive interval has passed.
MuxWrites ==
    /\ Alive
    /\ muxAlive
    /\ keepAlive \/ \E c \in Clients : client[c] = "open"
    /\ frames' = TRUE
    /\ UNCHANGED <<setupVars, main, muxAlive, readVars, clientVars, signalVars, panicked>>

\* The agent has not been heard of for the keep-alive timeout.
MuxTimesOut ==
    /\ Alive
    /\ muxAlive /\ keepAlive
    /\ muxAlive' = FALSE
    /\ UNCHANGED <<setupVars, main, frames, readVars, clientVars, signalVars, panicked>>

-----------------------------------------------------------------------------
(* The websocket listener and the end of the session. *)

\* IsStreamNotSet reads a field of muxClient, also when that is nil; the listener
\* recovers from the panic and ends.
Listening == Alive /\ ~panicked /\ main # "initializing"

\* Output: data needs both fields, a flag only muxClient.
ReceiveOutput ==
    /\ Listening
    /\ ~muxClient \/ ~mgsConn
    /\ panicked' = TRUE
    /\ UNCHANGED <<setupVars, main, muxAlive, frames, readVars, clientVars, signalVars>>

\* Acknowledgements and the like need muxClient once OnMessage is set.
ReceiveOther ==
    /\ Listening
    /\ main # "registered" /\ ~muxClient
    /\ panicked' = TRUE
    /\ UNCHANGED <<setupVars, main, muxAlive, frames, readVars, clientVars, signalVars>>

\* channel_closed: Stop closes what is set, and ends the process.
HandleChannelClosed ==
    /\ Listening
    /\ main = "registered" \/ muxClient
    /\ main' = "exited"
    /\ UNCHANGED <<setupVars, muxAlive, frames, readVars, clientVars, signalVars, panicked>>

\* A control signal: the flag is sent, whether that fails or not.
HandleSignal ==
    /\ Alive
    /\ signals = "waiting"
    /\ signals' = "stopping"
    /\ terminateSent' \in BOOLEAN
    /\ UNCHANGED <<setupVars, main, muxAlive, frames, readVars, clientVars, panicked>>

StopOnSignal ==
    /\ Alive
    /\ signals = "stopping"
    /\ main' = "exited"
    /\ signals' = "done"
    /\ UNCHANGED <<setupVars, muxAlive, frames, readVars, clientVars, terminateSent, panicked>>

-----------------------------------------------------------------------------
Main == Initialize \/ SetOnMessage \/ InitializeStreams \/ EndSetup \/ EndReadStream

Next ==
    \/ Main
    \/ Dial \/ StartMux
    \/ AcceptMux \/ AcceptMuxFails
    \/ TransferDataToServer
    \/ HandleClientConnections
    \/ \E c \in Clients :
          \/ HandleDataTransfer(c)
          \/ Connect(c)
          \/ \E end \in {"client", "server"} : HangUp(c, end)
    \/ MuxWrites \/ MuxTimesOut
    \/ ReceiveOutput \/ ReceiveOther \/ HandleChannelClosed
    \/ HandleSignal \/ StopOnSignal

Spec == Init /\ [][Next]_vars

\* Every goroutine that can go on does; Accept need not fail, and neither clients
\* nor smux nor the agent need do anything.
FairSpec ==
    /\ Spec
    /\ WF_vars(Main)
    /\ WF_vars(Dial \/ StartMux)
    /\ WF_vars(AcceptMux)
    /\ WF_vars(TransferDataToServer)
    /\ WF_vars(OpenListener \/ CheckAccept \/ \E c \in Clients : AcceptClient(c))
    /\ \A c \in Clients : WF_vars(CopyUp(c)) /\ WF_vars(CopyDown(c))

-----------------------------------------------------------------------------
(* Correctness. *)

\* Every variable has its type, and ReadStream's goroutines, which look at the two
\* fields without asking, find them set (initialize's Wait).
TypeOK ==
    /\ agentVersion \in AgentVersions
    /\ portType \in {"none", "mux", "basic"}
    /\ main \in {"initializing", "registered", "starting", "setup", "running", "exited"}
    /\ acceptor \in {"none", "accepting", "done", "failed"}
    /\ dialer \in {"none", "dialing", "connected", "done", "failed"}
    /\ keepAlive \in BOOLEAN /\ mgsConn \in BOOLEAN /\ muxClient \in BOOLEAN
    /\ muxAlive \in BOOLEAN /\ frames \in BOOLEAN /\ cancelled \in BOOLEAN
    /\ terminateSent \in BOOLEAN /\ panicked \in BOOLEAN
    /\ transfer \in {"none", "checking", "reading", "returned"}
    /\ accepting \in {"none", "opening", "checking", "accepting", "returned"}
    /\ client \in [Clients -> {"away", "waiting", "dropped", "open", "upDone", "downDone",
                               "closed"}]
    /\ ended \in [Clients -> SUBSET {"client", "server"}]
    /\ signals \in {"unhandled", "waiting", "stopping", "done"}
    /\ main = "running" => mgsConn /\ muxClient

\* The TerminateSession flag goes only to agents that know it.  Unlike the basic
\* session's, this handler of signals does not ask: that the agent multiplexes must
\* be enough (handleControlSignals, DoesAgentSupportTerminateSessionFlag).
Later(version, other) ==
    /\ Len(version) = Len(other)
    /\ \E i \in DOMAIN other :
          version[i] > other[i] /\ \A j \in 1 .. i - 1 : version[j] = other[j]
FlagsAreKnown ==
    terminateSent =>
        Later(agentVersion, TerminateSessionFlagSupportedAfterThisAgentVersion)

\* From ReadStream on no message can make the websocket listener panic, whichever
\* of the two goroutines of initialize was the last (initialize's Wait).
PanicsOnlyInSetup == [][main = "running" => panicked' = panicked]_vars

\* Setting up ends, in a session or the end of one, unless dialing failed: then
\* Accept waits for ever, and initialize for Accept.
SetupEnds == main = "setup" ~> main # "setup" \/ dialer = "failed"

\* After an error of one of ReadStream's goroutines the other returns when
\* something happens: smux writes, or a client connects.  Then the session ends
\* (transferDataToServer, handleClientConnections).
ErrorEndsSession ==
    /\ cancelled /\ frames ~> transfer = "returned" \/ main = "exited"
    /\ cancelled /\ (\E c \in Clients : client[c] = "waiting")
           ~> accepting = "returned" \/ main = "exited"
    /\ transfer = "returned" /\ accepting = "returned" ~> main = "exited"

\* When the client, the server or the smux session ends, both connections of the
\* transfer are closed (handleDataTransfer).
TransferEnds ==
    \A c \in Clients :
        /\ client[c] \in {"open", "upDone", "downDone"}
        /\ ended[c] # {} \/ ~muxAlive
        ~> client[c] = "closed" \/ main = "exited"
=============================================================================
