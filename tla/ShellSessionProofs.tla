-------------------------- MODULE ShellSessionProofs --------------------------
(***************************************************************************)
(* The safety properties of ShellSession, for every set of requests and of *)
(* command lines, every behaviour of KMS, and any number of failures.      *)
(*                                                                         *)
(* Three arguments meet here.  The handshake's is HandshakeProofs; once it *)
(* is complete nothing replaces the encrypter, and nobody sends before, so *)
(* all input is sealed alike.  The terminal's: what disableEcho... saved   *)
(* are the original settings, and the listener sets them again, or at      *)
(* least the echo, unless the main goroutine was still changing them.  The *)
(* command line's: only a flag that is followed by no word has no value.   *)
(***************************************************************************)
EXTENDS ShellSession, HandshakeProofs

ShellStates == {"setting", "getState", "cbreak", "noEcho", "keyboard"}

\* TypeOK, without the handshake.
SessionTypes ==
    /\ program \in {"running", "refused", "failed", "ended", "stopped", "timedOut", "killed",
                   "panicked"}
    /\ arguments \in {<<>>} \cup CommandLines
    /\ main \in {"starting", "opening", "reopening", "opened", "waiting", "port", "streams",
                 "forwarding", "initializing", "setting", "getState", "cbreak", "noEcho",
                 "keyboard"}
    /\ listener \in {"none", "reading", "restoring", "echoing", "exiting", "resuming", "deaf",
                     "panicked"}
    /\ stops \in {"session", "shell", "port"}
    /\ connection \in {"none", "up", "lost", "closed"}
    /\ attempts \in 0 .. MaxAttempts /\ losses \in 0 .. MaxLosses
    /\ resizer \in {"none", "running"} /\ notifier \in {"none", "starting", "notified"}
    /\ size \in Sizes /\ {SizeData, agentSize} \subseteq Sizes \cup {NoSize}
    /\ signals \in {0, 1}

\* The parts of TypeOK that hold Booleans.
SettingTypes ==
    /\ terminal \in [{"canonical", "echo"} -> BOOLEAN]
    /\ sizeFailed \in BOOLEAN /\ sttyRefused \in BOOLEAN

\* Who has started, and what was sent since.
StartInv ==
    /\ isSessionTypeSet # <<>> => agent = "serving"
    /\ main \in {"port", "streams", "forwarding", "initializing"} \cup ShellStates =>
           agent = "serving"
    /\ notifier # "none" => main \in ShellStates
    /\ sealsSent # {} => agent = "serving"

SealInv == \A seal \in sealsSent : seal = Sealed

\* The terminal, while the main goroutine changes it and the listener restores it.
TerminalInv ==
    /\ stops = "shell" <=> main \in ShellStates
    /\ stops = "port" <=> main \in {"streams", "forwarding"}
    /\ main \notin {"noEcho", "keyboard"} => terminal = Original
    /\ originalSttyState =
           IF main \in {"cbreak", "noEcho", "keyboard"} THEN <<Original>> ELSE <<>>
    /\ listener \in {"restoring", "echoing", "exiting"} => stops # "session"
    /\ listener \in {"restoring", "echoing"} => stops = "shell"
    /\ listener \in {"restoring", "echoing", "exiting"} /\ stops = "shell" =>
           /\ stoppedAt \in ShellStates
           /\ stoppedAt = "keyboard" => main = "keyboard"
    /\ listener \in {"echoing", "exiting"} /\ stoppedAt = "keyboard" =>
           terminal = Original \/ sttyRefused
    /\ listener = "exiting" /\ stoppedAt = "keyboard" => terminal.echo
    /\ TerminalIsRestored

\* The command line that was not served.
ArgumentInv == (Running => arguments = <<>>) /\ PanicsOnlyWithoutValue

IInv ==
    /\ HandshakeInv /\ SessionTypes /\ SettingTypes /\ StartInv /\ SealInv
    /\ TerminalInv /\ ArgumentInv

-----------------------------------------------------------------------------
\* A parameter without values is a flag without a word behind it.
LEMMA EmptyLacksValue ==
  ASSUME NEW args \in Seq([isFlag : BOOLEAN, text : STRING]), NEW name,
         IsEmpty(args, name)
  PROVE  LacksValue(args)
<1>1. name \in Parameters(args) /\ Values(args, name) = {}
  BY DEF IsEmpty
<1>2. \A i \in Read(args) : ~args[i].isFlag => Owner(args, i) # name
  BY <1>1 DEF Values
<1>3. PICK i \in Read(args) : args[i].isFlag /\ args[i].text = name
  BY <1>1, <1>2 DEF Parameters
<1>4. Read(args) = 3 .. Len(args) /\ i \in 3 .. Len(args) /\ Len(args) \in Nat
  BY <1>3 DEF Read
<1>5. ASSUME i < Len(args), ~args[i + 1].isFlag
      PROVE  FALSE
  <2> DEFINE flags == {j \in Read(args) : j < i + 1 /\ args[j].isFlag}
  <2>1. i \in flags /\ flags # {} /\ \A k \in flags : k <= i
    BY <1>3, <1>4
  <2>2. \A j \in flags : (\A k \in flags : k <= j) => j = i
    BY <2>1, <1>4
  <2>3. (CHOOSE j \in flags : \A k \in flags : k <= j) = i
    <3> HIDE DEF flags
    <3> QED
      BY <2>1, <2>2
  <2>4. Owner(args, i + 1) = args[i].text
    BY <2>1, <2>3 DEF Owner
  <2>5. i + 1 \in Read(args)
    BY <1>4, <1>5
  <2> QED
    BY <1>2, <1>3, <1>5, <2>4, <2>5
<1> QED
  BY <1>3, <1>4, <1>5 DEF LacksValue

\* ssmcli panics for nothing else.
LEMMA PanicLacksValue ==
  ASSUME NEW args \in CommandLines, "panicked" \in Outcomes(args)
  PROVE  LacksValue(args)
<1>1. args \in Seq([isFlag : BOOLEAN, text : STRING])
  BY CommandLineAssumption
<1>2. "instance-id" \in Parameters(args)
  BY DEF Outcomes, ValidateStartSessionInput
<1>3. \/ \E name \in {"region", "profile", "endpoint", "instance-id"} : IsEmpty(args, name)
      \/ Values(args, "instance-id") = {}
      \/ IsEmpty(args, "document-name")
  BY DEF Outcomes, GetStartSessionParams
<1>4. \E name : IsEmpty(args, name)
  BY <1>2, <1>3 DEF IsEmpty
<1> QED
  BY <1>1, <1>4, EmptyLacksValue

-----------------------------------------------------------------------------
\* The steps that leave the handshake alone, except that Execute takes the type.
LEMMA HandshakeKept ==
  ASSUME HandshakeInv, Next
  PROVE  HandshakeInv'
<1>1. CASE Listen
  BY <1>1, HandlePreserves DEF Listen, startVars
<1>2. CASE AgentHears
  BY <1>2, AgentPreserves DEF AgentHears, startVars
<1>3. CASE ValidateInputAndStartSession
  <2>1. UNCHANGED <<encryption, encryptionEnabled, sessionType, processed, keys, failures,
                    agentVars, isSessionTypeSet>>
    BY <1>3 DEF ValidateInputAndStartSession, handshakeVars, pluginVars
  <2>2. IsAwsCliUpgradeNeeded' \in BOOLEAN
    BY Zenon, <1>3 DEF ValidateInputAndStartSession, HandshakeInv, Flags
  <2> QED
    BY <2>1, <2>2, OthersPreserve
<1>4. CASE /\ IsAwsCliUpgradeNeeded' = IsAwsCliUpgradeNeeded
           /\ \/ UNCHANGED handshakeVars
              \/ Execute
  <2>1. /\ UNCHANGED <<encryption, encryptionEnabled, sessionType, processed, keys, failures,
                       agentVars>>
        /\ isSessionTypeSet' \in {<<>>, isSessionTypeSet}
    BY <1>4 DEF Execute, handshakeVars, pluginVars
  <2>2. IsAwsCliUpgradeNeeded' \in BOOLEAN
    BY Zenon, <1>4 DEF HandshakeInv, Flags
  <2> QED
    BY <2>1, <2>2, OthersPreserve
<1>5. Next => \/ Listen \/ AgentHears \/ ValidateInputAndStartSession
              \/ /\ IsAwsCliUpgradeNeeded' = IsAwsCliUpgradeNeeded
                 /\ UNCHANGED handshakeVars \/ Execute
  BY Zenon DEF Next, Main, User, StartSessionCommand, OpenDataChannel, Execute, Initialize,
     SetSessionHandlers, DisableEchoAndInputBuffering, HandleKeyboardInput, InitializePort,
     InitializeStreams, SetOnError, ReadStream, UnchangedButMain,
     Resize, Interrupt, HandleTerminalResize, HandleControlSignals, Stop, Lose, MessagePanics,
     Resume,
     startVars
<1> QED
  BY Zenon, <1>1, <1>2, <1>3, <1>4, <1>5

\* Program and command line.
LEMMA ArgumentsKept ==
  ASSUME SessionTypes, ArgumentInv, Next
  PROVE  ArgumentInv'
<1>1. CASE StartSessionCommand
  <2>1. PICK args \in CommandLines :
          \E outcome \in Outcomes(args) :
              IF outcome = "session" THEN UNCHANGED <<program, arguments>>
                                     ELSE program' = outcome /\ arguments' = args
    BY <1>1 DEF StartSessionCommand
  <2> PICK outcome \in Outcomes(args) :
          IF outcome = "session" THEN UNCHANGED <<program, arguments>>
                                 ELSE program' = outcome /\ arguments' = args
    BY <2>1
  <2>2. CASE outcome = "session"
    BY <2>2 DEF ArgumentInv, Running, PanicsOnlyWithoutValue
  <2>3. CASE outcome # "session"
    <3>1. outcome \in {"refused", "panicked"}
      BY <2>3 DEF Outcomes, GetStartSessionParams
    <3>2. outcome = "panicked" => LacksValue(args)
      BY PanicLacksValue
    <3> QED
      BY <2>3, <3>1, <3>2 DEF ArgumentInv, Running, PanicsOnlyWithoutValue
  <2> QED
    BY <2>2, <2>3
<1>2. CASE ~StartSessionCommand
  <2>1. arguments' = arguments /\ Running
    BY Zenon, <1>2 DEF Next, Main, User, ValidateInputAndStartSession, OpenDataChannel, Execute,
       Initialize, SetSessionHandlers, DisableEchoAndInputBuffering, HandleKeyboardInput,
       InitializePort, InitializeStreams, SetOnError, ReadStream, UnchangedButMain, Resize,
       Interrupt, HandleTerminalResize, HandleControlSignals, Stop,
       HandleChannelClosed, Listening, Restore, Echo, Exit, Lose, MessagePanics, Resume,
       CallOnError,
       ResumeSessionHandler, startVars, Listen, AgentHears
  <2> QED
    BY <2>1 DEF ArgumentInv, PanicsOnlyWithoutValue
<1> QED
  BY <1>1, <1>2

\* Nobody sends before the handshake is complete, and then it is over.
LEMMA StartKept ==
  ASSUME HandshakeInv, StartInv, SealInv, Next
  PROVE  StartInv' /\ SealInv'
<1>1. CASE Listen \/ AgentHears
  <2>1. UNCHANGED <<main, notifier, sealsSent>>
    BY <1>1 DEF Listen, AgentHears, mainVars, shellVars, signalVars
  <2>2. HandleHandshake \/ AgentStep
    BY <1>1 DEF Listen, AgentHears
  <2>3. agent # "serving"
    BY <2>2, ServingIsFinal
  <2> QED
    BY <2>1, <2>2, <2>3, AnnouncedAtTheEnd DEF StartInv, SealInv
<1>2. CASE Execute
  <2>1. /\ agent = "serving" /\ isSessionTypeSet' = <<>>
        /\ UNCHANGED <<agent, notifier, sealsSent, encryption, encryptionEnabled>>
        /\ main = "waiting" /\ main' \in {"waiting", "port", "initializing"}
    BY <1>2 DEF Execute, StartInv, agentVars, shellVars, signalVars
  <2>2. Sealed' = Sealed
    BY <2>1 DEF Sealed, EncryptionKey
  <2> QED
    BY <2>1, <2>2 DEF StartInv, SealInv, ShellStates
<1>3. CASE ~(Listen \/ AgentHears \/ Execute)
  <2>1. UNCHANGED <<isSessionTypeSet, agent, encryption, encryptionEnabled>>
    BY Zenon, <1>3 DEF Next, Main, User, ValidateInputAndStartSession, StartSessionCommand,
       OpenDataChannel, Initialize, SetSessionHandlers, DisableEchoAndInputBuffering,
       HandleKeyboardInput, InitializePort, InitializeStreams, SetOnError, ReadStream,
       UnchangedButMain,
       Resize, Interrupt, HandleTerminalResize,
       HandleControlSignals, Stop, Lose, MessagePanics, Resume, handshakeVars, pluginVars, agentVars
  <2>2. Sealed' = Sealed
    BY <2>1 DEF Sealed, EncryptionKey
  <2>3. /\ \/ main' = main
           \/ main' \in {"opening", "reopening", "opened", "waiting"} /\ main \notin ShellStates
           \/ main' = "setting" /\ main = "initializing"
           \/ main' = "streams" /\ main = "port"
           \/ main' = "forwarding" /\ main = "streams"
           \/ main' \in ShellStates /\ main \in ShellStates
        /\ notifier' = "none" \/ notifier # "none" \/ main' = "getState"
        /\ \/ sealsSent' = sealsSent
           \/ /\ sealsSent' = sealsSent \cup {Sealed}
              /\ main \in {"keyboard", "forwarding"} \/ notifier # "none"
    <3>1. CASE User \/ HandleTerminalResize \/ Stop \/ Lose \/ MessagePanics \/ Resume
      BY <3>1 DEF User, Resize, Interrupt, HandleTerminalResize, Stop, Lose, MessagePanics,
                  Listening, Resume, mainVars,
         shellVars, signalVars
    <3>2. CASE HandleControlSignals
      BY <3>2 DEF HandleControlSignals, mainVars
    <3>3. CASE Main
      BY <1>3, <3>3 DEF Main, ValidateInputAndStartSession, StartSessionCommand, OpenDataChannel,
         Opened, Initialize, SetSessionHandlers, DisableEchoAndInputBuffering, GetState,
         SetCbreak, SetNoEcho, HandleKeyboardInput, InitializePort, InitializeStreams,
         SetOnError, ReadStream, UnchangedButMain, shellVars, signalVars,
         ShellStates
    <3> QED
      BY <1>3, <3>1, <3>2, <3>3 DEF Next
  <2> QED
    BY <2>1, <2>2, <2>3 DEF StartInv, SealInv, ShellStates
<1> QED
  BY <1>1, <1>2, <1>3

-----------------------------------------------------------------------------
\* The types.
LEMMA TypesKept ==
  ASSUME SessionTypes, SettingTypes, TerminalInv, StartInv, Next
  PROVE  SessionTypes' /\ SettingTypes'
<1>1. CASE StartSessionCommand
  <2>1. \A args \in CommandLines : Outcomes(args) \subseteq {"session", "refused", "panicked"}
    BY DEF Outcomes, GetStartSessionParams
  <2>2. /\ program' \in {program, "refused", "panicked"}
        /\ main' \in {main, "opening"}
        /\ arguments' \in CommandLines \cup {arguments}
        /\ UNCHANGED <<channelVars, shellVars>>
    BY <1>1, <2>1 DEF StartSessionCommand
  <2>3. UNCHANGED <<listener, stops, connection, attempts, losses, terminal, sttyRefused, resizer,
                    size, SizeData, agentSize, sizeFailed, notifier, signals>>
    BY <2>2 DEF channelVars, shellVars, terminalVars, sizeVars, signalVars
  <2> QED
    BY <2>2, <2>3 DEF SessionTypes, SettingTypes
<1>2. CASE ValidateInputAndStartSession
  <2>1. /\ program' \in {program, "refused", "panicked"}
        /\ main' \in {main, "opening"}
        /\ UNCHANGED <<arguments, channelVars, shellVars>>
    BY Zenon, <1>2 DEF ValidateInputAndStartSession
  <2>2. UNCHANGED <<listener, stops, connection, attempts, losses, terminal, sttyRefused, resizer,
                    size, SizeData, agentSize, sizeFailed, notifier, signals>>
    BY <2>1 DEF channelVars, shellVars, terminalVars, sizeVars, signalVars
  <2> QED
    BY <2>1, <2>2 DEF SessionTypes, SettingTypes
<1>3. CASE OpenDataChannel
  <2>1. /\ main' \in {"reopening", "opened"}
        /\ listener' \in {listener, "reading"} /\ connection' \in {connection, "up"}
        /\ attempts' \in {0, attempts} \/ (attempts' = attempts + 1 /\ ~GivesUp)
        /\ UNCHANGED <<arguments, program, stops, losses, shellVars>>
    BY <1>3 DEF OpenDataChannel, Opened, startVars
  <2>2. attempts' \in 0 .. MaxAttempts
    BY <2>1, SessionAssumption DEF SessionTypes, GivesUp
  <2>3. UNCHANGED <<terminal, sttyRefused, resizer, size, SizeData, agentSize, sizeFailed,
                    notifier, signals>>
    BY <2>1 DEF shellVars, terminalVars, sizeVars, signalVars
  <2> QED
    BY <2>1, <2>2, <2>3 DEF SessionTypes, SettingTypes
<1>4. CASE Execute
  <2>1. /\ program' \in {program, "failed", "panicked"}
        /\ main' \in {main, "port", "initializing"}
        /\ UNCHANGED <<arguments, channelVars, shellVars>>
    BY Zenon, <1>4 DEF Execute, startVars
  <2>2. UNCHANGED <<listener, stops, connection, attempts, losses, terminal, sttyRefused, resizer,
                    size, SizeData, agentSize, sizeFailed, notifier, signals>>
    BY <2>1 DEF channelVars, shellVars, terminalVars, sizeVars, signalVars
  <2> QED
    BY <2>1, <2>2 DEF SessionTypes, SettingTypes
<1>5. CASE Initialize \/ SetSessionHandlers \/ InitializePort \/ InitializeStreams
  BY <1>5 DEF Initialize, SetSessionHandlers, InitializePort, InitializeStreams,
              UnchangedButMain, startVars, channelVars,
     shellVars, terminalVars, sizeVars, signalVars, SessionTypes, SettingTypes
<1>6. CASE DisableEchoAndInputBuffering
  <2>1. /\ UNCHANGED <<program, arguments, listener, stops, connection, attempts, losses,
                       resizer, size, SizeData, agentSize, sizeFailed, notifier, signals>>
        /\ main' \in ShellStates
    BY <1>6 DEF DisableEchoAndInputBuffering, GetState, SetCbreak, SetNoEcho, UnchangedButMain,
       startVars, channelVars, sizeVars, signalVars, ShellStates
  <2>2. terminal' \in [{"canonical", "echo"} -> BOOLEAN]
    BY <1>6 DEF DisableEchoAndInputBuffering, GetState, SetCbreak, SetNoEcho, SettingTypes
  <2>3. sttyRefused' = sttyRefused
    BY <1>6 DEF DisableEchoAndInputBuffering
  <2> QED
    BY <2>1, <2>2, <2>3 DEF SessionTypes, SettingTypes, ShellStates
<1>7. CASE HandleKeyboardInput \/ ReadStream
  BY <1>7 DEF HandleKeyboardInput, ReadStream, startVars, channelVars, terminalVars, sizeVars,
              signalVars,
     SessionTypes, SettingTypes
<1>8. CASE User \/ HandleControlSignals
  <2>1. /\ UNCHANGED <<arguments, main, listener, stops, connection, attempts, losses, terminal,
                       sttyRefused, resizer, SizeData, agentSize, sizeFailed>>
        /\ program' \in {program, "killed"}
    BY <1>8 DEF User, Resize, Interrupt, HandleControlSignals, startVars, mainVars, channelVars,
       terminalVars, sizeVars
  <2>2. /\ size' \in Sizes /\ signals' \in {0, 1}
        /\ notifier' \in {"none", "starting", "notified"}
    BY <1>8 DEF User, Resize, Interrupt, HandleControlSignals, sizeVars, signalVars, SessionTypes
  <2> QED
    BY <2>1, <2>2 DEF SessionTypes, SettingTypes
<1>9. CASE HandleTerminalResize
  <2>1. /\ UNCHANGED <<arguments, program, main, listener, stops, connection, attempts, losses,
                       terminal, sttyRefused, resizer, size, notifier, signals>>
        /\ SizeData' = size /\ agentSize' \in {agentSize, size}
    BY Zenon, <1>9 DEF HandleTerminalResize, MeasuredSize, startVars, mainVars, channelVars,
       terminalVars, signalVars
  <2>2. sizeFailed' \in BOOLEAN
    BY Zenon, <1>9 DEF HandleTerminalResize, SettingTypes
  <2>3. SettingTypes'
    BY Zenon, <2>1, <2>2 DEF SettingTypes
  <2> QED
    BY <2>1, <2>3 DEF SessionTypes
<1>10. CASE Listen \/ AgentHears
  BY <1>10 DEF Listen, AgentHears, startVars, mainVars, channelVars, shellVars, terminalVars,
     sizeVars, signalVars, SessionTypes, SettingTypes
<1>11. CASE Stop
  <2>1. /\ UNCHANGED <<arguments, main, stops, connection, attempts, losses, resizer, size,
                       SizeData, agentSize, sizeFailed, notifier, signals>>
        /\ program' \in {program, "stopped"}
        /\ listener' \in {listener, "restoring", "echoing", "exiting"}
    BY <1>11 DEF Stop, HandleChannelClosed, Restore, Echo, Exit, startVars, sizeVars, signalVars
  <2>2. terminal' \in [{"canonical", "echo"} -> BOOLEAN]
    <3>1. originalSttyState \in {<<>>, <<Original>>}
      BY DEF TerminalInv
    <3>2. originalSttyState # <<>> => Head(originalSttyState) = Original
      BY <3>1
    <3>3. Original \in [{"canonical", "echo"} -> BOOLEAN]
      BY DEF Original
    <3>4. terminal' \in {terminal, Original} \/ terminal' = [terminal EXCEPT !.echo = TRUE]
      BY <1>11, <3>2 DEF Stop, HandleChannelClosed, Restore, Echo, Exit, terminalVars
    <3> QED
      BY <3>3, <3>4 DEF SettingTypes
  <2>3. sttyRefused' \in BOOLEAN
    BY <1>11 DEF Stop, HandleChannelClosed, Restore, Echo, Exit, terminalVars, SettingTypes
  <2> QED
    BY <2>1, <2>2, <2>3 DEF SessionTypes, SettingTypes
<1>12. CASE Lose
  BY <1>12, SessionAssumption DEF Lose, startVars, mainVars, shellVars, terminalVars, sizeVars,
     signalVars, SessionTypes, SettingTypes
<1>14. CASE MessagePanics \/ SetOnError
  BY <1>14 DEF MessagePanics, SetOnError, startVars, mainVars, channelVars, shellVars,
     terminalVars, sizeVars, signalVars, SessionTypes, SettingTypes
<1>13. CASE Resume
  <2>1. /\ program' \in {program, "timedOut"}
        /\ listener' \in {listener, "resuming", "reading", "deaf", "panicked"}
        /\ connection' \in {connection, "up", "closed"}
        /\ attempts' \in {0, attempts} \/ (attempts' = attempts + 1 /\ ~GivesUp)
        /\ UNCHANGED <<arguments, main, stops, losses, shellVars>>
    BY <1>13 DEF Resume, CallOnError, ResumeSessionHandler, startVars
  <2>2. attempts' \in 0 .. MaxAttempts
    BY <2>1, SessionAssumption DEF SessionTypes, GivesUp
  <2>3. UNCHANGED <<terminal, sttyRefused, resizer, size, SizeData, agentSize, sizeFailed,
                    notifier, signals>>
    BY <2>1 DEF shellVars, terminalVars, sizeVars, signalVars
  <2> QED
    BY <2>1, <2>2, <2>3 DEF SessionTypes, SettingTypes
<1> QED
  BY <1>1, <1>2, <1>3, <1>4, <1>5, <1>6, <1>7, <1>8, <1>9, <1>10, <1>11, <1>12, <1>13, <1>14
     DEF Next, Main

-----------------------------------------------------------------------------
\* Saving, changing and restoring the terminal.
LEMMA TerminalKept ==
  ASSUME TerminalInv, SessionTypes, SettingTypes, Next
  PROVE  TerminalInv'
<1>0. Running
  BY Zenon DEF Next, Main, User, ValidateInputAndStartSession, StartSessionCommand,
     OpenDataChannel, Execute, Initialize, SetSessionHandlers, DisableEchoAndInputBuffering,
     HandleKeyboardInput, InitializePort, InitializeStreams, SetOnError, ReadStream, Resize,
     Interrupt,
     HandleTerminalResize, HandleControlSignals, Listen, AgentHears, Stop, HandleChannelClosed,
     Listening, Restore, Echo, Exit, Lose, MessagePanics, Resume,
     CallOnError, ResumeSessionHandler
<1> DEFINE Same == UNCHANGED <<stops, listener, terminal, originalSttyState, stoppedAt,
                               sttyRefused>>
\* The steps that change nothing but the program or the main goroutine's place.
<1>1. ASSUME Same, main' = main, program' \notin {"stopped", "refused", "failed"}
      PROVE  TerminalInv'
  BY <1>1 DEF TerminalInv, TerminalIsRestored
<1>2. ASSUME Same, {main, main'} \cap (ShellStates \ {"setting", "getState"}) = {},
             main \in ShellStates <=> main' \in ShellStates,
             main \in {"streams", "forwarding"} <=> main' \in {"streams", "forwarding"},
             program' # "stopped"
      PROVE  TerminalInv'
  <2>1. Original.echo
    BY DEF Original
  <2> QED
    BY <1>2, <2>1 DEF TerminalInv, TerminalIsRestored, ShellStates
<1>3. CASE ValidateInputAndStartSession \/ StartSessionCommand \/ Execute
  <2>1. Same
    BY <1>3 DEF ValidateInputAndStartSession, StartSessionCommand, Execute, channelVars,
       shellVars, terminalVars
  <2>2. /\ main \in {"starting", "waiting"}
        /\ main' \in {main, "opening", "port", "initializing"}
        /\ program' # "stopped"
    BY <1>0, <1>3 DEF ValidateInputAndStartSession, StartSessionCommand, Execute, Outcomes,
       GetStartSessionParams, Running
  <2> QED
    BY <1>2, <2>1, <2>2 DEF ShellStates
<1>4. CASE SetSessionHandlers \/ InitializeStreams \/ SetOnError
  BY <1>0, <1>2, <1>4 DEF SetSessionHandlers, InitializeStreams, SetOnError, UnchangedButMain,
                          Running,
     channelVars, shellVars, terminalVars, ShellStates
<1>5. CASE OpenDataChannel
  <2>1. /\ UNCHANGED <<stops, terminal, originalSttyState, stoppedAt, sttyRefused, program>>
        /\ listener' \in {listener, "reading"}
        /\ main \in {"opening", "reopening"} /\ main' \in {"opening", "reopening", "opened"}
    BY <1>5 DEF OpenDataChannel, Opened, shellVars, terminalVars
  <2> QED
    BY <1>0, <2>1 DEF TerminalInv, TerminalIsRestored, ShellStates, Running
<1>6. CASE Initialize
  <2>1. /\ UNCHANGED <<listener, terminal, originalSttyState, stoppedAt, sttyRefused, program>>
        /\ main = "initializing" /\ main' = "setting" /\ stops' = "shell"
    BY <1>6 DEF Initialize, UnchangedButMain, shellVars, terminalVars
  <2> QED
    BY <1>0, <2>1 DEF TerminalInv, TerminalIsRestored, SessionTypes, ShellStates, Running
<1>7. CASE InitializePort
  <2>1. /\ UNCHANGED <<listener, terminal, originalSttyState, stoppedAt, sttyRefused, program>>
        /\ main = "port" /\ main' = "streams" /\ stops' = "port"
    BY <1>7 DEF InitializePort, UnchangedButMain, shellVars, terminalVars
  <2> QED
    BY <1>0, <2>1 DEF TerminalInv, TerminalIsRestored, SessionTypes, ShellStates, Running
<1>8. CASE DisableEchoAndInputBuffering
  <2>1. UNCHANGED <<stops, listener, stoppedAt, sttyRefused, program>>
    BY <1>8 DEF DisableEchoAndInputBuffering, UnchangedButMain, channelVars
  <2>2. \/ /\ main = "getState" /\ main' = "cbreak"
           /\ terminal' = terminal /\ originalSttyState' = <<terminal>>
        \/ main = "cbreak" /\ main' = "noEcho" /\ UNCHANGED originalSttyState
        \/ main = "noEcho" /\ main' = "keyboard" /\ UNCHANGED originalSttyState
    BY <1>8 DEF DisableEchoAndInputBuffering, GetState, SetCbreak, SetNoEcho
  <2> QED
    BY <1>0, <2>1, <2>2 DEF TerminalInv, TerminalIsRestored, ShellStates, Running
<1>9. CASE HandleKeyboardInput \/ ReadStream \/ User \/ HandleTerminalResize \/ HandleControlSignals
             \/ Listen \/ AgentHears \/ Lose
  <2>1. Same /\ main' = main
    BY <1>9 DEF HandleKeyboardInput, ReadStream, User, Resize, Interrupt, HandleTerminalResize,
       HandleControlSignals, Listen, AgentHears, Lose, mainVars, channelVars, shellVars,
       terminalVars
  <2>2. program' \in {program, "ended", "killed"}
    BY <1>9 DEF HandleKeyboardInput, ReadStream, User, Resize, Interrupt, HandleTerminalResize,
       HandleControlSignals, Listen, AgentHears, Lose, mainVars
  <2> QED
    BY <1>0, <1>1, <2>1, <2>2 DEF Running
<1>10. CASE Resume
  <2>1. /\ UNCHANGED <<main, stops, terminal, originalSttyState, stoppedAt, sttyRefused>>
        /\ listener' \in {listener, "resuming", "reading", "deaf", "panicked"}
        /\ program' \in {program, "timedOut"}
    BY <1>10 DEF Resume, CallOnError, ResumeSessionHandler, shellVars, terminalVars
  <2> QED
    BY <1>0, <2>1 DEF TerminalInv, TerminalIsRestored, Running
<1>11. CASE Stop
  <2>1. UNCHANGED <<main, stops, originalSttyState>>
    BY <1>11 DEF Stop, HandleChannelClosed, Restore, Echo, Exit, terminalVars
  <2>2. CASE HandleChannelClosed
    <3>1. /\ UNCHANGED <<terminal, sttyRefused>> /\ stoppedAt' = main /\ listener = "reading"
          /\ \/ stops = "session" /\ program' = "stopped" /\ UNCHANGED listener
             \/ stops = "shell" /\ listener' = "restoring" /\ UNCHANGED program
             \/ stops = "port" /\ listener' = "exiting" /\ UNCHANGED program
      BY <2>2 DEF HandleChannelClosed, Listening
    <3>2. Original.echo
      BY DEF Original
    <3> QED
      BY <1>0, <2>1, <3>1, <3>2
         DEF TerminalInv, TerminalIsRestored, ShellStates, Running, Starting
  <2>3. CASE Restore
    <3>1. originalSttyState # <<>> => Head(originalSttyState) = Original
      BY DEF TerminalInv
    <3>2. stoppedAt = "keyboard" => originalSttyState = <<Original>>
      BY <2>3 DEF Restore, TerminalInv
    <3>3. /\ UNCHANGED <<stoppedAt, program>>
          /\ listener = "restoring" /\ listener' = "echoing"
      BY <2>3 DEF Restore
    <3>4. terminal' \in {terminal, Original}
      BY <2>3, <3>1 DEF Restore
    <3>5. stoppedAt = "keyboard" => terminal' = Original \/ sttyRefused'
      <4>1. originalSttyState # <<>> =>
                terminal' = Head(originalSttyState) \/ sttyRefused' = TRUE
        BY <2>3 DEF Restore
      <4>2. stoppedAt = "keyboard" => originalSttyState # <<>>
        BY <3>2
      <4> QED
        BY Zenon, <3>1, <4>1, <4>2
    <3>6. main \notin {"noEcho", "keyboard"} => terminal' = Original
      BY <3>4 DEF TerminalInv
    <3> QED
      BY <1>0, <2>1, <3>3, <3>5, <3>6 DEF TerminalInv, TerminalIsRestored, Running
  <2>4. CASE Echo
    <3>1. (terminal = Original => terminal' = Original) /\ terminal'.echo
      BY <2>4 DEF Echo, Original, SettingTypes
    <3>2. /\ UNCHANGED <<stoppedAt, sttyRefused, program>>
          /\ listener = "echoing" /\ listener' = "exiting"
      BY <2>4 DEF Echo
    <3> QED
      BY <1>0, <2>1, <3>1, <3>2 DEF TerminalInv, TerminalIsRestored, Running
  <2>5. CASE Exit
    <3>1. /\ UNCHANGED <<stoppedAt, sttyRefused, terminal, listener>> /\ listener = "exiting"
          /\ program' = "stopped"
      BY <2>5 DEF Exit, terminalVars
    <3>2. Original.echo
      BY DEF Original
    <3> QED
      BY <2>1, <3>1, <3>2 DEF TerminalInv, TerminalIsRestored, ShellStates, Starting
  <2> QED
    BY <1>11, <2>2, <2>3, <2>4, <2>5 DEF Stop
<1>12. CASE MessagePanics
  <2>1. /\ UNCHANGED <<main, stops, terminal, originalSttyState, stoppedAt, sttyRefused, program>>
        /\ listener' = "panicked"
    BY <1>12 DEF MessagePanics, mainVars, shellVars, terminalVars
  <2> QED
    BY <1>0, <2>1 DEF TerminalInv, TerminalIsRestored, Running
<1> QED
  BY <1>3, <1>4, <1>5, <1>6, <1>7, <1>8, <1>9, <1>10, <1>11, <1>12 DEF Next, Main

-----------------------------------------------------------------------------
\* A stuttering step.
LEMMA StutterKeeps ==
  ASSUME IInv, UNCHANGED vars
  PROVE  IInv'
<1>1. /\ UNCHANGED <<IsAwsCliUpgradeNeeded, arguments, handshakeVars, program, main, listener,
                     stops, connection, attempts, losses, terminal, originalSttyState,
                     stoppedAt, sttyRefused, resizer, size, SizeData, agentSize, sizeFailed,
                     notifier,
                     signals, sealsSent>>
      /\ UNCHANGED <<pluginVars, keys, failures, agentVars>>
  BY DEF vars, startVars, handshakeVars, mainVars, channelVars, shellVars, terminalVars,
         sizeVars, signalVars
<1>2. UNCHANGED <<encryption, encryptionEnabled, sessionType, isSessionTypeSet, processed,
                  keys, failures, agentVars, agent>>
  BY <1>1 DEF pluginVars, agentVars
<1>3. IsAwsCliUpgradeNeeded' \in BOOLEAN
  BY Zenon, <1>1 DEF IInv, HandshakeInv, Flags
<1>4. HandshakeInv'
  BY <1>2, <1>3, OthersPreserve DEF IInv
<1>5. SessionTypes' /\ TerminalInv' /\ ArgumentInv' /\ StartInv'
  BY <1>1, <1>2 DEF IInv, SessionTypes, TerminalInv, TerminalIsRestored, ArgumentInv, Running,
     PanicsOnlyWithoutValue, StartInv
<1>6. SettingTypes'
  BY Zenon, <1>1 DEF IInv, SettingTypes
<1>7. SealInv'
  BY <1>1, <1>2 DEF IInv, SealInv, Sealed, EncryptionKey
<1> QED
  BY <1>4, <1>5, <1>6, <1>7 DEF IInv

\* The inductive invariant holds in every state that can be reached.
THEOREM Invariance == Spec => []IInv
<1>1. Init => IInv
  <2> SUFFICES ASSUME Init
               PROVE  IInv
    OBVIOUS
  <2>1. HandshakeInv
    <3>1. HandshakeInit /\ IsAwsCliUpgradeNeeded \in BOOLEAN
      BY Zenon DEF Init
    <3> QED
      BY <3>1, HandshakeInitially
  <2>2. /\ program = "running" /\ arguments = <<>> /\ main = "starting" /\ listener = "none"
        /\ stops = "session" /\ connection = "none" /\ attempts = 0 /\ losses = 0
        /\ terminal = Original /\ originalSttyState = <<>> /\ resizer = "none"
        /\ size \in Sizes /\ SizeData = NoSize /\ agentSize = NoSize
        /\ notifier = "none" /\ signals = 0 /\ sealsSent = {}
        /\ isSessionTypeSet = <<>>
    BY Zenon DEF Init, HandshakeInit
  <2>3. SessionTypes
    BY <2>2, SessionAssumption DEF SessionTypes
  <2>4. SettingTypes
    <3>1. Original \in [{"canonical", "echo"} -> BOOLEAN]
      BY DEF Original
    <3> QED
      BY Zenon, <3>1 DEF Init, SettingTypes
  <2>5. StartInv /\ SealInv /\ TerminalInv /\ ArgumentInv
    BY <2>2 DEF StartInv, SealInv, TerminalInv, TerminalIsRestored, ArgumentInv, Running,
       PanicsOnlyWithoutValue, ShellStates, Starting
  <2> QED
    BY <2>1, <2>3, <2>4, <2>5 DEF IInv
<1>2. IInv /\ [Next]_vars => IInv'
  <2>1. IInv /\ Next => IInv'
    BY HandshakeKept, ArgumentsKept, StartKept, TypesKept, TerminalKept DEF IInv
  <2> QED
    BY <2>1, StutterKeeps
<1> QED
  BY <1>1, <1>2, PTL DEF Spec

\* Every variable of a session keeps its type.
THEOREM TypeCorrect == Spec => []TypeOK
<1>1. IInv => TypeOK
  <2>1. IInv => HandshakeTypeOK
    BY TypeParts DEF IInv, HandshakeInv
  <2>2. IInv => SessionTypes /\ SettingTypes
    BY DEF IInv
  <2> QED
    BY Zenon, <2>1, <2>2 DEF SessionTypes, SettingTypes, TypeOK
<1> QED
  BY Invariance, <1>1, PTL

\* Once the agent has a key the plugin keeps it, whatever the agent requests
\* again, KMS does, or the network loses (ProcessKMSEncryptionHandshakeAction).
THEOREM KeysAgreeCorrect == Spec => []KeysAgree
<1>1. IInv => KeysAgree
  BY Agreement DEF IInv
<1> QED
  BY Invariance, <1>1, PTL

\* Each side can decrypt what the other sends, or neither encrypts.
THEOREM UnderstandingCorrect == Spec => []SidesUnderstandEachOther
<1>1. IInv => SidesUnderstandEachOther
  BY Agreement DEF IInv
<1> QED
  BY Invariance, <1>1, PTL

\* What the keyboard and the signals have sent is readable with the agent's key.
THEOREM ReadableCorrect == Spec => []InputIsReadable
<1>1. IInv => InputIsReadable
  BY Agreement DEF IInv, InputIsReadable, SidesUnderstandEachOther, StartInv, SealInv
<1> QED
  BY Invariance, <1>1, PTL

\* The program leaves the terminal echoing, and just as it found it unless stty refused
\* the saved settings (ShellSession.Stop).
THEOREM RestoredCorrect == Spec => []TerminalIsRestored
<1>1. IInv => TerminalIsRestored
  BY DEF IInv, TerminalInv
<1> QED
  BY Invariance, <1>1, PTL

\* ssmcli panics only where a flag has no value, whatever the command line.
THEOREM PanicsCorrect == Spec => []PanicsOnlyWithoutValue
<1>1. IInv => PanicsOnlyWithoutValue
  BY DEF IInv, ArgumentInv
<1> QED
  BY Invariance, <1>1, PTL
=============================================================================
