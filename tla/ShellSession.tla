----------------------------- MODULE ShellSession -----------------------------
(***************************************************************************)
(* A session from its start to its end: the command line, the opening of   *)
(* the data channel, Execute waiting for the session type, and then the    *)
(* plugin of a shell, on a Unix terminal, or of a port whose client is the *)
(* program's standard input and output.                                    *)
(*                                                                         *)
(* Four goroutines share the session: the main one, which becomes the      *)
(* keyboard's; the websocket's listener, which handles messages, stops the *)
(* program, and reconnects; one that watches the terminal's size; and one  *)
(* that takes the control signals.  The terminal is the fifth party: its   *)
(* settings outlive the program.                                           *)
(*                                                                         *)
(* The handshake is the module Handshake.  How the stream and the          *)
(* websocket work is left to OutgoingStream, IncomingStream, Connection.   *)
(***************************************************************************)
EXTENDS Handshake, CommandLine

CONSTANTS
    Sizes,             \* the sizes of the terminal, and DefaultSize
    DefaultSize,       \* 300 x 100, where the terminal has no size
    NoSize,            \* 0 x 0, of a new ShellSession; a terminal of this size is left
                       \* out, its size is not sent
    SttyAccepts,       \* may stty accept, refuse what "stty -g" printed, with the
                       \* newline at its end?  (GNU's refuses it, BSD's accepts it.)
    MaxAttempts,       \* config.DataChannelNumMaxRetries
    MaxLosses          \* bound: how often the connection is lost

ASSUME SessionAssumption ==
    /\ DefaultSize \in Sizes /\ NoSize \notin Sizes
    /\ SttyAccepts \subseteq BOOLEAN
    /\ MaxAttempts \in Nat
    /\ MaxLosses \in Nat

VARIABLES
    program,           \* running, or how it ended
    arguments,         \* history: the arguments that ssmcli did not serve
    main,              \* where the main goroutine is
    listener,          \* where the listener is
    stops,             \* whose Stop OnMessage calls: the session's or a plugin's
    connection,        \* "none", "up", "lost" or "closed"
    attempts,          \* failed calls of the retryer's function
    losses,
    terminal,          \* its settings
    originalSttyState, \* the buffer with the settings that were saved
    stoppedAt,         \* history: where the main goroutine was when Stop began
    sttyRefused,       \* history: has stty refused the saved settings?
    resizer,           \* does the goroutine that watches the size run?
    size,              \* the size of the terminal
    SizeData,
    agentSize,         \* the last size that was sent
    sizeFailed,        \* history: sending a size has failed
    notifier,          \* where the goroutine that takes the signals is
    signals,           \* how many signals wait in the channel of capacity 1
    sealsSent          \* history: how payloads of type Output were sealed

startVars    == <<IsAwsCliUpgradeNeeded, arguments>>
mainVars     == <<program, main>>
channelVars  == <<listener, stops, connection, attempts, losses>>
terminalVars == <<terminal, originalSttyState, stoppedAt, sttyRefused>>
sizeVars     == <<resizer, size, SizeData, agentSize, sizeFailed>>
signalVars   == <<notifier, signals>>
shellVars    == <<terminalVars, sizeVars, signalVars, sealsSent>>
vars == <<startVars, handshakeVars, mainVars, channelVars, shellVars>>

\* The settings that matter, as a shell leaves them.
Original == [setting \in {"canonical", "echo"} |-> TRUE]

Init ==
    /\ IsAwsCliUpgradeNeeded = FALSE
    /\ HandshakeInit
    /\ program = "running" /\ arguments = <<>> /\ main = "starting"
    /\ listener = "none" /\ stops = "session"
    /\ connection = "none" /\ attempts = 0 /\ losses = 0
    /\ terminal = Original /\ originalSttyState = <<>> /\ stoppedAt = "nowhere"
    /\ sttyRefused = FALSE
    /\ resizer = "none" /\ size \in Sizes
    /\ SizeData = NoSize /\ agentSize = NoSize /\ sizeFailed = FALSE
    /\ notifier = "none" /\ signals = 0
    /\ sealsSent = {}

Running == program = "running"

-----------------------------------------------------------------------------
(* Starting: ValidateInputAndStartSession and OpenDataChannel. *)

LegacyArgumentLength == 4
ArgumentLength       == 7

\* Too few arguments, another operation or a response that is no JSON end the
\* program, and so does, as a panic, a request without a target (it is the sixth
\* argument) or a response that lacks a field.  An old CLI gives four arguments.
ValidateInputAndStartSession ==
    /\ Running /\ main = "starting"
    /\ \E args \in 1 .. ArgumentLength, operation \in {"StartSession", "other"},
          response \in {"complete", "incomplete", "noJson"}, hasTarget \in BOOLEAN :
          \/ /\ args < LegacyArgumentLength
             /\ program' = "refused" /\ UNCHANGED <<main, IsAwsCliUpgradeNeeded>>
          \/ /\ args >= 6 /\ ~hasTarget
             /\ program' = "panicked" /\ UNCHANGED <<main, IsAwsCliUpgradeNeeded>>
          \/ /\ args >= LegacyArgumentLength /\ (args >= 6 => hasTarget)
             /\ IsAwsCliUpgradeNeeded' = (args = LegacyArgumentLength)
             /\ IF operation = "StartSession" /\ response = "complete"
                THEN main' = "opening" /\ UNCHANGED program
                ELSE /\ program' = IF operation = "StartSession" /\ response = "incomplete"
                                   THEN "panicked" ELSE "refused"
                     /\ UNCHANGED main
    /\ UNCHANGED <<handshakeVars, arguments, channelVars, shellVars>>

\* The start-session command of ssmcli executes a session, too.
StartSessionCommand ==
    /\ Running /\ main = "starting"
    /\ \E args \in CommandLines : \E outcome \in Outcomes(args) :
          IF outcome = "session"
          THEN main' = "opening" /\ UNCHANGED <<program, arguments>>
          ELSE program' = outcome /\ arguments' = args /\ UNCHANGED main
    /\ UNCHANGED <<IsAwsCliUpgradeNeeded, handshakeVars, channelVars, shellVars>>

\* Mutant of GivesUp: one attempt too many.
OneMore == attempts > MaxAttempts

\* RepeatableExponentialRetryer.Call: the first call and MaxAttempts more.
GivesUp == attempts = MaxAttempts

\* After the retryer's Call, whether or not a connection was opened; if one was,
\* its listener runs already.
Opened(up) ==
    /\ main' = "opened"
    /\ attempts' = 0
    /\ IF up THEN connection' = "up" /\ listener' = "reading"
             ELSE UNCHANGED <<connection, listener>>

\* The first Open and, if it fails, the retryer's calls of Reconnect.
OpenDataChannel ==
    /\ Running /\ main \in {"opening", "reopening"}
    /\ \/ Opened(TRUE)
       \/ /\ main = "reopening" /\ GivesUp
          /\ Opened(FALSE)
       \/ /\ main = "reopening" /\ ~GivesUp
          /\ attempts' = attempts + 1
          /\ UNCHANGED <<main, listener, connection>>
       \/ /\ main = "opening"
          /\ main' = "reopening"
          /\ UNCHANGED <<attempts, listener, connection>>
    /\ UNCHANGED <<startVars, handshakeVars, program, stops, losses, shellVars>>

\* Only now does OpenDataChannel set OnError; it returns nil in any case.
SetOnError ==
    /\ Running /\ main = "opened"
    /\ main' = "waiting"
    /\ UNCHANGED <<startVars, handshakeVars, program, channelVars, shellVars>>

OnErrorSet == main \notin {"starting", "opening", "reopening", "opened"}

\* Execute: the session type, or an error, or the wait goes on.  The registry has no
\* plugin without a type.
Execute ==
    /\ Running /\ main = "waiting"
    /\ isSessionTypeSet # <<>>
    /\ isSessionTypeSet' = <<>>
    /\ IF isSessionTypeSet = <<FALSE>> \/ sessionType = "unset"
       THEN /\ program' = IF isSessionTypeSet = <<FALSE>> THEN "failed" ELSE "panicked"
            /\ UNCHANGED main
       ELSE /\ main' = IF sessionType = "Port" THEN "port" ELSE "initializing"
            /\ UNCHANGED program
    /\ UNCHANGED <<startVars, encryption, encryptionEnabled, sessionType, processed,
                   keys, failures, agentVars, channelVars, shellVars>>

-----------------------------------------------------------------------------
(* The shell plugin's start, and its keyboard. *)

UnchangedButMain == UNCHANGED <<startVars, handshakeVars, program>>

\* ShellSession.Initialize: from here on OnMessage stops by the shell's Stop.
Initialize ==
    /\ Running /\ main = "initializing"
    /\ stops' = "shell"
    /\ main' = "setting"
    /\ UnchangedButMain
    /\ UNCHANGED <<listener, connection, attempts, losses, shellVars>>

\* SetSessionHandlers starts two goroutines and goes on to the keyboard.
SetSessionHandlers ==
    /\ Running /\ main = "setting"
    /\ resizer' = "running" /\ notifier' = "starting"
    /\ main' = "getState"
    /\ UnchangedButMain
    /\ UNCHANGED <<channelVars, terminalVars, size, SizeData, agentSize, sizeFailed, signals,
                   sealsSent>>

\* disableEchoAndInputBuffering, stty by stty.
GetState ==
    /\ main = "getState" /\ main' = "cbreak"
    /\ originalSttyState' = <<terminal>>
    /\ UNCHANGED terminal

SetCbreak ==
    /\ main = "cbreak" /\ main' = "noEcho"
    /\ terminal' = [terminal EXCEPT !.canonical = FALSE]
    /\ UNCHANGED originalSttyState

SetNoEcho ==
    /\ main = "noEcho" /\ main' = "keyboard"
    /\ terminal' = [terminal EXCEPT !.echo = FALSE]
    /\ UNCHANGED originalSttyState

DisableEchoAndInputBuffering ==
    /\ Running
    /\ GetState \/ SetCbreak \/ SetNoEcho
    /\ UnchangedButMain
    /\ UNCHANGED <<stoppedAt, sttyRefused, channelVars, sizeVars, signalVars, sealsSent>>

\* May a write succeed?  On a lost connection it may still be taken, and the
\* message be sent again on the next one.
MaySend == connection \in {"up", "lost"}
MayFail == connection # "up"

\* A key was pressed and sent, or sending it failed and the session ends; so it
\* does at the end of the input.
HandleKeyboardInput ==
    /\ Running /\ main = "keyboard"
    /\ \/ /\ MaySend /\ CanSend
          /\ sealsSent' = sealsSent \cup {Sealed}
          /\ UNCHANGED program
       \/ program' = "ended" /\ UNCHANGED sealsSent
    /\ UNCHANGED <<startVars, handshakeVars, main, channelVars, terminalVars,
                   sizeVars, signalVars>>

-----------------------------------------------------------------------------
(* The port plugin over StandardStreamForwarding; other ports have their modules. *)

\* PortSession.Initialize: from here on OnMessage stops by the port's Stop.
InitializePort ==
    /\ Running /\ main = "port"
    /\ stops' = "port"
    /\ main' = "streams"
    /\ UnchangedButMain
    /\ UNCHANGED <<listener, connection, attempts, losses, shellVars>>

\* The streams are set at once.
InitializeStreams ==
    /\ Running /\ main = "streams"
    /\ main' = "forwarding"
    /\ UnchangedButMain
    /\ UNCHANGED <<channelVars, shellVars>>

\* Input was read and sent; an error of either or the end of the input, also
\* because Stop has closed it, ends the session.
ReadStream ==
    /\ Running /\ main = "forwarding"
    /\ \/ /\ MaySend /\ CanSend
          /\ sealsSent' = sealsSent \cup {Sealed}
          /\ UNCHANGED program
       \/ program' = "ended" /\ UNCHANGED sealsSent
    /\ UNCHANGED <<startVars, handshakeVars, main, channelVars, terminalVars, sizeVars,
                   signalVars>>

-----------------------------------------------------------------------------
(* The goroutines of the terminal's size and of the control signals. *)

\* Mutant of MeasuredSize: a terminal without a size is not reported.
KnownSize == IF size = DefaultSize THEN SizeData ELSE size

\* GetTerminalSizeCall, or the default where it fails.
MeasuredSize == size

\* Every 500 ms: SizeData takes the new size, then it is sent, encrypted never.
HandleTerminalResize ==
    /\ Running /\ resizer = "running"
    /\ SizeData # MeasuredSize
    /\ SizeData' = MeasuredSize
    /\ \/ MaySend /\ agentSize' = MeasuredSize /\ UNCHANGED sizeFailed
       \/ MayFail /\ sizeFailed' = TRUE /\ UNCHANGED agentSize
    /\ UNCHANGED <<startVars, handshakeVars, mainVars, channelVars, terminalVars,
                   resizer, size, signalVars, sealsSent>>

\* The user resizes the terminal.
Resize ==
    /\ Running
    /\ size' \in Sizes \ {size}
    /\ UNCHANGED <<startVars, handshakeVars, mainVars, channelVars, terminalVars,
                   resizer, SizeData, agentSize, sizeFailed, signalVars, sealsSent>>

\* Notify, and then: a signal is taken and sent as a byte, or the error is logged.
HandleControlSignals ==
    /\ Running
    /\ \/ /\ notifier = "starting" /\ notifier' = "notified"
          /\ UNCHANGED <<signals, sealsSent>>
       \/ /\ notifier = "notified" /\ signals = 1
          /\ signals' = 0
          /\ \/ MaySend /\ CanSend /\ sealsSent' = sealsSent \cup {Sealed}
             \/ MayFail /\ UNCHANGED sealsSent
          /\ UNCHANGED notifier
    /\ UNCHANGED <<startVars, handshakeVars, mainVars, channelVars, terminalVars,
                   sizeVars>>

\* The user presses Control-C: before Notify it ends the program; a signal that
\* finds the channel full is dropped.
Interrupt ==
    /\ Running
    /\ IF notifier = "notified" THEN signals' = 1 /\ UNCHANGED program
                                ELSE program' = "killed" /\ UNCHANGED signals
    /\ UNCHANGED <<startVars, handshakeVars, main, channelVars, terminalVars,
                   sizeVars, notifier, sealsSent>>

-----------------------------------------------------------------------------
(* The listener: messages, the end of the session, and reconnecting. *)

Listening == Running /\ listener = "reading" /\ connection = "up"

\* A message of the handshake; the connection may be lost while it is processed.
Listen ==
    /\ Running /\ listener = "reading"
    /\ connection = "up" \/ processed # Idle
    /\ HandleHandshake
    /\ UNCHANGED <<startVars, mainVars, channelVars, shellVars>>

\* The agent gets what it was sent, as soon as there is a connection.
AgentHears ==
    /\ Running /\ connection = "up"
    /\ AgentStep
    /\ UNCHANGED <<startVars, mainVars, channelVars, shellVars>>

\* The agent closes the channel: the session's Stop exits, the shell's restores
\* the terminal first, a port's closes its streams.
HandleChannelClosed ==
    /\ Listening /\ processed = Idle
    /\ agent \in {"serving", "closing"}
    /\ \/ stops = "session" /\ program' = "stopped" /\ UNCHANGED listener
       \/ stops = "shell" /\ listener' = "restoring" /\ UNCHANGED program
       \/ stops = "port" /\ listener' = "exiting" /\ UNCHANGED program
    /\ stoppedAt' = main
    /\ UNCHANGED <<terminal, originalSttyState, sttyRefused>>

\* setState with what was saved, if anything was: stty sets it all or refuses it, and
\* its error is ignored.
Restore ==
    /\ Running /\ listener = "restoring"
    /\ listener' = "echoing"
    /\ \/ /\ originalSttyState # <<>> /\ TRUE \in SttyAccepts
          /\ terminal' = Head(originalSttyState)
          /\ UNCHANGED sttyRefused
       \/ /\ originalSttyState # <<>> /\ FALSE \in SttyAccepts
          /\ sttyRefused' = TRUE
          /\ UNCHANGED terminal
       \/ originalSttyState = <<>> /\ UNCHANGED <<terminal, sttyRefused>>
    /\ UNCHANGED <<originalSttyState, stoppedAt, program>>

\* Mutant of Echo: nothing follows the saved settings.
NoEcho ==
    /\ Running /\ listener = "echoing"
    /\ listener' = "exiting"
    /\ UNCHANGED <<terminalVars, program>>

\* setState "echo", which stty takes.
Echo ==
    /\ Running /\ listener = "echoing"
    /\ terminal' = [terminal EXCEPT !.echo = TRUE]
    /\ listener' = "exiting"
    /\ UNCHANGED <<originalSttyState, stoppedAt, sttyRefused, program>>

Exit ==
    /\ Running /\ listener = "exiting"
    /\ program' = "stopped"
    /\ UNCHANGED <<listener, terminalVars>>

Stop ==
    /\ HandleChannelClosed \/ Restore \/ Echo \/ Exit
    /\ UNCHANGED <<startVars, handshakeVars, main, stops, connection, attempts,
                   losses, sizeVars, signalVars, sealsSent>>

\* The network breaks the connection.
Lose ==
    /\ Running /\ connection = "up" /\ losses < MaxLosses
    /\ connection' = "lost"
    /\ losses' = losses + 1
    /\ UNCHANGED <<startVars, handshakeVars, mainVars, listener, stops, attempts,
                   shellVars>>

\* OnMessage panics over a damaged message: the listener recovers and ends, and
\* nobody reads from the connection, or replaces it, any more.
MessagePanics ==
    /\ Listening /\ processed = Idle
    /\ listener' = "panicked"
    /\ UNCHANGED <<startVars, handshakeVars, mainVars, stops, connection, attempts, losses,
                   shellVars>>

\* The listener has read in vain and calls OnError; where that is still nil it ends
\* in the panic, too.
CallOnError ==
    /\ Running /\ listener = "reading" /\ connection = "lost"
    /\ processed = Idle
    /\ listener' = IF OnErrorSet THEN "resuming" ELSE "panicked"
    /\ UNCHANGED <<program, connection, attempts>>

\* ResumeSessionHandler: no token ends the program; with one, the old connection
\* is closed and another opened; an error is retried, and at last only logged.
ResumeSessionHandler ==
    /\ Running /\ listener = "resuming"
    /\ \/ /\ program' = "timedOut"
          /\ UNCHANGED <<listener, connection, attempts>>
       \/ /\ connection' = "up" /\ listener' = "reading" /\ attempts' = 0
          /\ UNCHANGED program
       \/ /\ connection' \in {connection, "closed"}
          /\ IF GivesUp THEN listener' = "deaf" /\ UNCHANGED attempts
                        ELSE attempts' = attempts + 1 /\ UNCHANGED listener
          /\ UNCHANGED program

Resume ==
    /\ CallOnError \/ ResumeSessionHandler
    /\ UNCHANGED <<startVars, handshakeVars, main, stops, losses, shellVars>>

-----------------------------------------------------------------------------
Main ==
    \/ ValidateInputAndStartSession \/ StartSessionCommand
    \/ OpenDataChannel \/ SetOnError \/ Execute
    \/ Initialize \/ SetSessionHandlers \/ DisableEchoAndInputBuffering
    \/ HandleKeyboardInput
    \/ InitializePort \/ InitializeStreams \/ ReadStream

User == Resize \/ Interrupt

Next ==
    \/ Main \/ User \/ HandleTerminalResize \/ HandleControlSignals
    \/ Listen \/ AgentHears \/ MessagePanics \/ Stop \/ Lose \/ Resume

Spec == Init /\ [][Next]_vars

\* Goroutines are scheduled, calls return, and the connection delivers what is
\* sent again and again.  The user need do nothing, and no session that works
\* need be closed or lost.
FairSpec ==
    /\ Spec
    /\ WF_vars(Main /\ main \notin {"keyboard", "forwarding"})
    /\ WF_vars(HandleTerminalResize) /\ WF_vars(HandleControlSignals)
    /\ WF_vars(Listen) /\ WF_vars(AgentHears) /\ WF_vars(Resume)
    /\ WF_vars(Stop /\ (agent = "closing" \/ listener # "reading"))

-----------------------------------------------------------------------------
(* Properties. *)

\* Every variable has its type.
TypeOK ==
    /\ HandshakeTypeOK
    /\ program \in {"running", "refused", "failed", "ended", "stopped", "timedOut", "killed",
                   "panicked"}
    /\ arguments \in {<<>>} \cup CommandLines
    /\ main \in {"starting", "opening", "reopening", "opened", "waiting", "port", "streams",
                 "forwarding", "initializing", "setting", "getState", "cbreak", "noEcho",
                 "keyboard"}
    /\ listener \in {"none", "reading", "restoring", "echoing", "exiting", "resuming", "deaf",
                     "panicked"}
    /\ stops \in {"session", "shell", "port"}
    /\ connection \in {"none", "up", "lost", "closed"}
    /\ attempts \in 0 .. MaxAttempts /\ losses \in 0 .. MaxLosses
    /\ terminal \in [{"canonical", "echo"} -> BOOLEAN]
    /\ resizer \in {"none", "running"} /\ notifier \in {"none", "starting", "notified"}
    /\ size \in Sizes /\ {SizeData, agentSize} \subseteq Sizes \cup {NoSize}
    /\ {sizeFailed, sttyRefused} \subseteq BOOLEAN /\ signals \in {0, 1}

\* ssmcli panics only for a flag without a value: any other command line is refused
\* or executes a session (ParseCliCommand, validateStartSessionInput, and the values
\* that StartSessionCommand.Execute and getStartSessionParams take).
LacksValue(args) ==
    \E i \in 1 .. Len(args) : args[i].isFlag /\ (i < Len(args) => args[i + 1].isFlag)
PanicsOnlyWithoutValue == program = "panicked" /\ arguments # <<>> => LacksValue(arguments)

\* What the keyboard, a port's input and the control signals have sent can be read by the agent
\* with the key it has in the end: no plugin starts before the two sides
\* are agreed on a key, or on none (Execute, SendInputDataMessage).
InputIsReadable == \A seal \in sealsSent : AgentCanRead(seal)

\* The program leaves the terminal echoing when the agent closes the session, if that
\* was not while the shell was starting, and when there was no session; and it leaves
\* it just as it found it, unless stty refused the settings it had printed itself
\* (ShellSession.Stop: "restores the terminal settings and exits").
Starting == {"setting", "getState", "cbreak", "noEcho"}
TerminalIsRestored ==
    \/ program = "stopped" /\ stoppedAt \notin Starting
    \/ program \in {"refused", "failed"}
    => terminal.echo /\ (terminal = Original \/ sttyRefused)

\* Execute learns the session type, or the program ends, unless one of four
\* failures is only logged: the channel was not opened, or not opened again, in
\* all attempts; an answer failed whose request the agent does not repeat; or the
\* listener ended in a panic, over a message or over OnError that was still nil.
OpenIsGivenUp     == listener \in {"none", "deaf"}
AnswerIsForgotten ==
    agent \in {"requesting", "challenging"} /\ ~coming /\ answer = NoAnswer
ExecuteEnds ==
    main = "waiting" ~>
        \/ main # "waiting" \/ (~Running /\ program # "panicked")
        \/ OpenIsGivenUp \/ AnswerIsForgotten \/ listener = "panicked"

\* A size the terminal keeps is sent to the agent, unless the program ends or
\* sending a size has failed (handleTerminalResize).
SizeArrives ==
    \A s \in Sizes :
        resizer = "running" /\ size = s ~> agentSize = s \/ size # s \/ sizeFailed \/ ~Running

=============================================================================
