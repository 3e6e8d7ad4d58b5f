---------------------- MODULE BasicPortForwardingProofs ----------------------
(***************************************************************************)
(* For any number of clients, inputs and outputs: types, the separation of *)
(* the clients' data by the flag, and which output can be lost.            *)
(***************************************************************************)
EXTENDS BasicPortForwarding, TLAPS

\* A client is there when it is read from, and output in hand when it is written.
ProgressInv ==
    /\ main \in {"reading", "closing"} => stream > 0
    /\ writer # 0 => ExpectedSequenceNumber < sent

TypeInv == TypeOK /\ ProgressInv

\* What goes to the agent is a client's number or a flag.
LEMMA InputsAppended ==
    ASSUME NEW S, NEW s \in Seq(S), NEW e \in S
    PROVE  Append(s, e) \in Seq(S)
OBVIOUS

\* Sending something leaves what was sent before where it was.
LEMMA AppendKeeps ==
    ASSUME NEW S, NEW s \in Seq(S), NEW e \in S
    PROVE  /\ Append(s, e) # s
           /\ Len(s) \in Nat /\ Len(Append(s, e)) = Len(s) + 1
           /\ DOMAIN s = 1 .. Len(s) /\ DOMAIN Append(s, e) = 1 .. Len(s) + 1
           /\ Append(s, e)[Len(s) + 1] = e
           /\ \A i \in 1 .. Len(s) : s[i] \in S /\ Append(s, e)[i] = s[i]
<1>1. Len(s) \in Nat /\ DOMAIN s = 1 .. Len(s) /\ Append(s, e) \in Seq(S)
  OBVIOUS
<1>2. Len(Append(s, e)) = Len(s) + 1
  OBVIOUS
<1>3. DOMAIN Append(s, e) = 1 .. Len(s) + 1
  BY <1>1, <1>2
<1>4. Append(s, e)[Len(s) + 1] = e
  OBVIOUS
<1>5. \A i \in 1 .. Len(s) : s[i] \in S /\ Append(s, e)[i] = s[i]
  OBVIOUS
<1>6. Append(s, e) # s
  <2>1. SUFFICES ASSUME Append(s, e) = s
                 PROVE  FALSE
    OBVIOUS
  <2>2. Len(s) = Len(s) + 1
    BY <1>2, <2>1
  <2> QED
    BY <1>1, <2>2
<1> QED
  BY <1>1, <1>2, <1>3, <1>4, <1>5, <1>6

\* Initially there is no client, and no output has been passed.
LEMMA InitTypes == Init => TypeInv
<1> SUFFICES ASSUME Init
             PROVE  TypeInv
  OBVIOUS
<1>1. inputs \in Seq(Disconnect .. Terminate)
  BY DEF Init
<1>2. /\ main = "initializing" /\ listener = FALSE /\ stream = 0 /\ closed = {}
      /\ signals = "unhandled" /\ arrived = 0 /\ gone = {}
      /\ sent \in Outputs /\ ExpectedSequenceNumber = 0 /\ writer = 0
      /\ early \subseteq 0 .. sent - 1 /\ kept = early /\ written = {}
  BY DEF Init
<1>3. MaxClients \in Nat /\ MaxOutputs \in Nat
  BY PortAssumption DEF PortAssumption
<1>4. TypeOK
  <2>1. stream \in 0 .. MaxClients /\ writer \in 0 .. stream /\ arrived \in stream .. MaxClients
    BY <1>2, <1>3
  <2>2. sent \in Outputs /\ ExpectedSequenceNumber \in 0 .. sent
    BY <1>2, <1>3 DEF Outputs
  <2>3. /\ closed \subseteq 1 .. stream /\ gone \subseteq 1 .. arrived
        /\ early \subseteq kept /\ kept \subseteq 0 .. sent - 1
        /\ written \subseteq Clients \X Outputs
    BY <1>2, <1>3 DEF Outputs
  <2>4. /\ main \in {"initializing", "starting", "accepting", "reading", "closing", "exited"}
        /\ listener \in BOOLEAN
        /\ signals \in {"unhandled", "waiting", "stopping", "done"}
    BY <1>2
  <2> QED
    BY <1>1, <2>1, <2>2, <2>3, <2>4 DEF TypeOK
<1>5. ProgressInv
  BY <1>2 DEF ProgressInv
<1> QED
  BY <1>4, <1>5 DEF TypeInv

\* The main goroutine keeps the types: it accepts only clients that arrived.
LEMMA MainTypes == TypeInv /\ Main => TypeInv'
<1> SUFFICES ASSUME TypeInv, Main
             PROVE  TypeInv'
  OBVIOUS
<1> USE PortAssumption DEF PortAssumption, TypeInv, TypeOK, ProgressInv, Clients, Outputs,
        Disconnect, Terminate, mainVars, clientVars, outputVars
<1>1. CASE SetOnMessage
  BY <1>1 DEF SetOnMessage
<1>2. CASE InitializeStreams
  <2>1. CASE Provide
    BY <1>2, <2>1 DEF InitializeStreams, Provide
  <2>2. CASE ~Provide
    BY <1>2, <2>2 DEF InitializeStreams
  <2> QED
    BY <2>1, <2>2
<1>3. CASE Accept
  BY <1>3 DEF Accept
<1>4. CASE Acquire
  <2>1. CASE Provide
    BY <1>4, <2>1 DEF Acquire, Provide
  <2>2. CASE ~Provide
    BY <1>4, <2>2 DEF Acquire
  <2> QED
    BY <2>1, <2>2
<1>5. CASE ReadStream
  <2>1. stream \in Disconnect .. Terminate
    BY <1>5 DEF ReadStream
  <2>2. inputs' \in Seq(Disconnect .. Terminate)
    BY <1>5, <2>1, InputsAppended DEF ReadStream, Send
  <2> QED
    BY <1>5, <2>2 DEF ReadStream, Send
<1>6. CASE ReadFails
  <2>1. Disconnect \in Disconnect .. Terminate
    OBVIOUS
  <2>2. inputs' \in Seq(Disconnect .. Terminate)
    BY <1>6, <2>1, InputsAppended DEF ReadFails, Send
  <2> QED
    BY <1>6, <2>2 DEF ReadFails, Send
<1>7. CASE CloseStream
  BY <1>7 DEF CloseStream
<1> QED
  BY <1>1, <1>2, <1>3, <1>4, <1>5, <1>6, <1>7 DEF Main

\* So do the clients, the agent, the signals and the websocket listener.
LEMMA OtherTypes == TypeInv /\ [Next]_vars /\ ~Main => TypeInv'
<1> SUFFICES ASSUME TypeInv, [Next]_vars, ~Main
             PROVE  TypeInv'
  OBVIOUS
<1> USE PortAssumption DEF PortAssumption, TypeInv, TypeOK, ProgressInv, Clients, Outputs,
        Disconnect, Terminate, mainVars, clientVars, outputVars
<1>1. CASE Arrive
  BY <1>1 DEF Arrive
<1>2. ASSUME NEW c \in Clients, HangUp(c)
      PROVE  TypeInv'
  BY <1>2 DEF HangUp
<1>3. CASE AgentSends
  BY <1>3 DEF AgentSends
<1>4. CASE HandleSignal
  <2> DEFINE S == Disconnect .. Terminate
  <2>1. Terminate \in S /\ inputs \in Seq(S)
    OBVIOUS
  <2>2. inputs' \in Seq(S)
    <3> HIDE DEF S, TypeInv, TypeOK, ProgressInv, Terminate, PortAssumption
    <3>1. Append(inputs, Terminate) \in Seq(S)
      BY <2>1, InputsAppended
    <3>2. inputs' = inputs \/ inputs' = Append(inputs, Terminate)
      BY <1>4 DEF HandleSignal
    <3> QED
      BY <2>1, <3>1, <3>2
  <2> QED
    BY <1>4, <2>2 DEF HandleSignal
<1>5. CASE StopOnSignal
  BY <1>5 DEF StopOnSignal, Stop
<1>6. CASE HandleChannelClosed
  BY <1>6 DEF HandleChannelClosed, Stop
<1>7. ASSUME NEW k \in Outputs, ReceiveAhead(k)
      PROVE  TypeInv'
  BY <1>7 DEF ReceiveAhead
<1>8. CASE ProcessStreamMessagePayload
  BY <1>8 DEF ProcessStreamMessagePayload, InTurn, IsStreamNotSet
<1>9. CASE DrainUnready
  <2>1. ExpectedSequenceNumber < sent
    BY <1>9 DEF DrainUnready
  <2> QED
    BY <1>9, <2>1 DEF DrainUnready
<1>10. CASE WriteStream
  BY <1>10 DEF WriteStream
<1>11. CASE WriteFails
  BY <1>11 DEF WriteFails
<1>12. CASE UNCHANGED vars
  BY <1>12 DEF vars
<1> QED
  BY <1>1, <1>2, <1>3, <1>4, <1>5, <1>6, <1>7, <1>8, <1>9, <1>10, <1>11, <1>12
  DEF Next, Signal, Receive, Write

\* Every variable keeps its type.
THEOREM TypeCorrect == Spec => []TypeOK
<1>1. TypeInv /\ [Next]_vars => TypeInv'
  BY MainTypes, OtherTypes
<1> QED
  BY InitTypes, <1>1, PTL DEF Spec, TypeInv

-----------------------------------------------------------------------------
(* The data of two clients is separated. *)

\* Nothing is sent before the streams are initialized.
QuietInv ==
    main \in {"initializing", "starting"} => inputs = <<>> /\ signals = "unhandled"

\* A flag follows the data of every client but the one that is read from.
FlagInv ==
    listener => \A i \in DOMAIN inputs : inputs[i] \in Clients =>
        /\ inputs[i] <= stream
        /\ inputs[i] < stream \/ main \in {"closing", "accepting"} =>
               \E n \in i .. Len(inputs) : inputs[n] = Disconnect

SeparationInv == QuietInv /\ FlagInv /\ ClientsAreSeparated

\* All the actions, for steps that look at each of them.
Steps ==
    \/ Arrive
    \/ \E c \in Clients : HangUp(c)
    \/ AgentSends
    \/ SetOnMessage
    \/ InitializeStreams
    \/ Accept
    \/ Acquire
    \/ ReadStream
    \/ ReadFails
    \/ CloseStream
    \/ HandleSignal
    \/ StopOnSignal
    \/ HandleChannelClosed
    \/ \E k \in Outputs : ReceiveAhead(k)
    \/ ProcessStreamMessagePayload
    \/ DrainUnready
    \/ WriteStream
    \/ WriteFails
    \/ UNCHANGED vars

LEMMA StepsAreSteps == [Next]_vars => Steps
BY DEF Next, Main, Signal, Receive, Write, Steps

\* Nothing is sent before the streams are initialized.
LEMMA Quiet == ASSUME TypeInv, QuietInv, [Next]_vars PROVE QuietInv'
<1>1. Steps
  BY StepsAreSteps
<1> QED
  BY <1>1
  DEF QuietInv, Steps, Arrive, HangUp, AgentSends, SetOnMessage, InitializeStreams, Provide,
      Accept, Acquire, ReadStream, ReadFails, Send, CloseStream, HandleSignal, StopOnSignal,
      HandleChannelClosed, Stop, ReceiveAhead, ProcessStreamMessagePayload, InTurn,
      DrainUnready, WriteStream, WriteFails, vars, mainVars, clientVars, outputVars

\* While nothing is sent, the main goroutine leaves the client only when it
\* accepts another.
LEMMA SilentSteps ==
    ASSUME TypeInv, QuietInv, [Next]_vars, inputs' = inputs
    PROVE  \/ inputs = <<>>
           \/ /\ listener' = listener
              /\ \/ stream' = stream /\ main' \in {main, "exited"}
                 \/ stream' = stream /\ main = "closing" /\ main' = "accepting"
                 \/ main = "accepting" /\ stream' = stream + 1 /\ main' = "reading"
                 \/ ~listener
<1>1. Steps
  BY StepsAreSteps
<1>2. inputs \in Seq(Disconnect .. Terminate) /\ stream \in Disconnect .. Terminate
      /\ Disconnect \in Disconnect .. Terminate
  BY PortAssumption DEF PortAssumption, TypeInv, TypeOK, Disconnect, Terminate
<1>3. inputs' # Append(inputs, stream) /\ inputs' # Append(inputs, Disconnect)
  BY <1>2, AppendKeeps
<1> QED
  BY <1>1, <1>3
  DEF QuietInv, Steps, Arrive, HangUp, AgentSends, SetOnMessage, InitializeStreams, Provide,
      Accept, Acquire, ReadStream, ReadFails, Send, CloseStream, HandleSignal, StopOnSignal,
      HandleChannelClosed, Stop, ReceiveAhead, ProcessStreamMessagePayload, InTurn,
      DrainUnready, WriteStream, WriteFails, vars, mainVars, clientVars, outputVars

\* Steps that send nothing keep the flags behind the clients.
LEMMA SilentFlags ==
    ASSUME TypeInv, SeparationInv, [Next]_vars, inputs' = inputs
    PROVE  FlagInv' /\ ClientsAreSeparated'
<1>1. CASE inputs = <<>>
  BY <1>1 DEF FlagInv, ClientsAreSeparated
<1>2. CASE inputs # <<>>
  <2>1. listener' = listener
    BY <1>2, SilentSteps DEF SeparationInv
  <2>2. ClientsAreSeparated'
    BY <2>1 DEF SeparationInv, ClientsAreSeparated
  <2>3. SUFFICES ASSUME listener,
                        NEW i \in DOMAIN inputs, inputs[i] \in Clients
                 PROVE  /\ inputs[i] <= stream'
                        /\ inputs[i] < stream' \/ main' \in {"closing", "accepting"} =>
                               \E n \in i .. Len(inputs) : inputs[n] = Disconnect
    BY <2>1, <2>2 DEF FlagInv
  <2>4. /\ inputs[i] <= stream
        /\ inputs[i] < stream \/ main \in {"closing", "accepting"} =>
               \E n \in i .. Len(inputs) : inputs[n] = Disconnect
    BY <2>3 DEF SeparationInv, FlagInv
  <2>5. stream \in Nat /\ inputs[i] \in Nat
    BY <2>3 DEF TypeInv, TypeOK, Clients
  <2>6. \/ stream' = stream /\ main' \in {main, "exited"}
        \/ stream' = stream /\ main = "closing" /\ main' = "accepting"
        \/ main = "accepting" /\ stream' = stream + 1 /\ main' = "reading"
    BY <1>2, <2>3, SilentSteps DEF SeparationInv
  <2> QED
    BY <2>4, <2>5, <2>6
<1> QED
  BY <1>1, <1>2

\* What a step sends, and where it leaves the main goroutine.
LEMMA SendingSteps ==
    ASSUME TypeInv, QuietInv, [Next]_vars, inputs' # inputs
    PROVE  /\ listener' = listener /\ stream' = stream
           /\ \/ inputs' = Append(inputs, stream) /\ main = "reading" /\ main' = "reading"
              \/ inputs' = Append(inputs, Disconnect)
              \/ inputs' = Append(inputs, Terminate) /\ main' = main
<1>1. Steps
  BY StepsAreSteps
<1> QED
  BY <1>1
  DEF QuietInv, Steps, Arrive, HangUp, AgentSends, SetOnMessage, InitializeStreams, Provide,
      Accept, Acquire, ReadStream, ReadFails, Send, CloseStream, HandleSignal, StopOnSignal,
      HandleChannelClosed, Stop, ReceiveAhead, ProcessStreamMessagePayload, InTurn,
      DrainUnready, WriteStream, WriteFails, vars, mainVars, clientVars, outputVars

\* A client's data comes behind the flag for the one before it, and a flag comes
\* behind everything.
LEMMA SendingFlags ==
    ASSUME TypeInv, SeparationInv, [Next]_vars, inputs' # inputs
    PROVE  FlagInv' /\ ClientsAreSeparated'
<1>1. SUFFICES ASSUME listener
               PROVE  FlagInv' /\ ClientsAreSeparated'
  BY SendingSteps DEF SeparationInv, FlagInv, ClientsAreSeparated
<1>2. PICK e \in Disconnect .. Terminate :
         /\ inputs' = Append(inputs, e) /\ stream' = stream
         /\ \/ e = stream /\ main = "reading" /\ main' = "reading"
            \/ e = Disconnect
            \/ e = Terminate /\ main' = main
  BY SendingSteps, PortAssumption
  DEF SeparationInv, PortAssumption, TypeInv, TypeOK, Disconnect, Terminate
<1>3. /\ Len(inputs) \in Nat /\ Len(inputs') = Len(inputs) + 1
      /\ DOMAIN inputs = 1 .. Len(inputs) /\ DOMAIN inputs' = 1 .. Len(inputs')
      /\ inputs'[Len(inputs')] = e
      /\ \A i \in DOMAIN inputs : inputs'[i] = inputs[i]
      /\ \A i \in DOMAIN inputs : inputs[i] \in Disconnect .. Terminate
  <2>1. inputs \in Seq(Disconnect .. Terminate)
    BY DEF TypeInv, TypeOK
  <2>2. e \in Disconnect .. Terminate
    BY <1>2
  <2>3. \A S : \A s \in Seq(S) : \A x \in S :
           /\ Len(s) \in Nat /\ Len(Append(s, x)) = Len(s) + 1
           /\ DOMAIN s = 1 .. Len(s) /\ DOMAIN Append(s, x) = 1 .. Len(s) + 1
           /\ Append(s, x)[Len(s) + 1] = x
           /\ \A i \in 1 .. Len(s) : s[i] \in S /\ Append(s, x)[i] = s[i]
    BY AppendKeeps
  <2>4. /\ Len(inputs) \in Nat /\ Len(Append(inputs, e)) = Len(inputs) + 1
        /\ DOMAIN inputs = 1 .. Len(inputs)
        /\ DOMAIN Append(inputs, e) = 1 .. Len(inputs) + 1
    BY <2>1, <2>2, <2>3
  <2>5. Append(inputs, e)[Len(inputs) + 1] = e
    BY <2>1, <2>2, <2>3
  <2>6. \A i \in 1 .. Len(inputs) : inputs[i] \in Disconnect .. Terminate
    BY <2>1, <2>2, <2>3, Zenon
  <2>7. \A i \in 1 .. Len(inputs) : Append(inputs, e)[i] = inputs[i]
    BY <2>1, <2>2, <2>3
  <2>8. inputs' = Append(inputs, e)
    BY <1>2
  <2>9. /\ Len(inputs') = Len(inputs) + 1 /\ inputs'[Len(inputs) + 1] = e
        /\ DOMAIN inputs' = 1 .. Len(inputs) + 1
        /\ \A i \in 1 .. Len(inputs) :
               inputs[i] \in Disconnect .. Terminate /\ inputs'[i] = inputs[i]
    BY <2>8, <2>4, <2>5, <2>6, <2>7
  <2>10. inputs'[Len(inputs')] = e /\ DOMAIN inputs' = 1 .. Len(inputs')
    BY <2>9, Zenon
  <2> QED
    BY <2>4, <2>9, <2>10, Zenon
<1>4. Disconnect \notin Clients /\ Terminate \notin Clients /\ stream \in Nat
      /\ MaxClients \in Nat
  BY PortAssumption DEF PortAssumption, TypeInv, TypeOK, Clients, Disconnect, Terminate
<1>5. FlagInv'
  <2>1. SUFFICES ASSUME NEW i \in DOMAIN inputs', inputs'[i] \in Clients
                 PROVE  /\ inputs'[i] <= stream'
                        /\ inputs'[i] < stream' \/ main' \in {"closing", "accepting"} =>
                               \E n \in i .. Len(inputs') : inputs'[n] = Disconnect
    BY DEF FlagInv
  <2>2. CASE i = Len(inputs')
    <3>1. inputs'[i] = e
      BY <1>3, <2>2
    <3>2. e = stream /\ main' = "reading"
      BY <1>2, <1>4, <2>1, <3>1
    <3> QED
      BY <1>2, <1>4, <3>1, <3>2
  <2>3. CASE i \in DOMAIN inputs
    <3>1. /\ inputs[i] <= stream
          /\ inputs[i] < stream \/ main \in {"closing", "accepting"} =>
                 \E n \in i .. Len(inputs) : inputs[n] = Disconnect
      BY <1>1, <1>3, <2>1, <2>3 DEF SeparationInv, FlagInv
    <3>2. inputs'[i] = inputs[i] /\ stream' = stream /\ i \in 1 .. Len(inputs)
      BY <1>2, <1>3, <2>3
    <3>3. CASE e = Disconnect
      <4>1. Len(inputs') \in i .. Len(inputs')
        BY <1>3, <3>2
      <4> QED
        BY <1>3, <3>1, <3>2, <3>3, <4>1
    <3>4. CASE e # Disconnect
      <4>1. main' \in {"closing", "accepting"} => main \in {"closing", "accepting"}
        BY <1>2, <3>4
      <4>2. \A n \in i .. Len(inputs) :
               n \in i .. Len(inputs') /\ inputs'[n] = inputs[n]
        BY <1>3, <3>2
      <4> QED
        BY <3>1, <3>2, <4>1, <4>2
    <3> QED
      BY <3>3, <3>4
  <2> QED
    BY <1>3, <2>1, <2>2, <2>3
<1>6. ClientsAreSeparated'
  <2>1. SUFFICES ASSUME NEW i \in DOMAIN inputs', NEW j \in DOMAIN inputs',
                        i < j, inputs'[i] \in Clients, inputs'[j] \in Clients,
                        inputs'[i] # inputs'[j]
                 PROVE  \E n \in i .. j : inputs'[n] = Disconnect
    BY DEF ClientsAreSeparated
  <2>2. CASE j \in DOMAIN inputs
    <3>1. i \in DOMAIN inputs
      BY <1>3, <2>1, <2>2
    <3>2. inputs[i] = inputs'[i] /\ inputs[j] = inputs'[j]
      BY <1>3, <2>2, <3>1
    <3>3. PICK n \in i .. j : inputs[n] = Disconnect
      BY <1>1, <2>1, <2>2, <3>1, <3>2 DEF SeparationInv, ClientsAreSeparated
    <3>4. n \in DOMAIN inputs
      BY <1>3, <2>2, <3>1, <3>3
    <3> QED
      BY <1>3, <3>3, <3>4
  <2>3. CASE j = Len(inputs')
    <3>1. i \in DOMAIN inputs /\ inputs[i] \in Clients /\ inputs[i] # e /\ e = stream
      <4>1. i \in DOMAIN inputs
        BY <1>3, <2>1, <2>3
      <4>2. e \in Clients /\ inputs[i] \in Clients /\ inputs[i] # e
        BY <1>3, <2>1, <2>3, <4>1
      <4> QED
        BY <1>2, <1>4, <4>1, <4>2
    <3>2. inputs[i] < stream
      BY <1>1, <1>4, <3>1 DEF SeparationInv, FlagInv, Clients
    <3>3. PICK n \in i .. Len(inputs) : inputs[n] = Disconnect
      BY <1>1, <3>1, <3>2 DEF SeparationInv, FlagInv
    <3> QED
      BY <1>3, <2>3, <3>1, <3>3
  <2> QED
    BY <1>3, <2>1, <2>2, <2>3
<1> QED
  BY <1>5, <1>6

\* With a local listener, the data of two clients always has the flag between it.
THEOREM SeparationCorrect == Spec => []ClientsAreSeparated
<1>1. Init => SeparationInv
  BY DEF Init, SeparationInv, QuietInv, FlagInv, ClientsAreSeparated
<1>2. TypeInv /\ SeparationInv /\ [Next]_vars => SeparationInv'
  BY Quiet, SilentFlags, SendingFlags DEF SeparationInv
<1>3. TypeInv /\ [Next]_vars => TypeInv'
  BY MainTypes, OtherTypes
<1> QED
  BY InitTypes, <1>1, <1>2, <1>3, PTL DEF Spec, SeparationInv

-----------------------------------------------------------------------------
(* Only kept output is lost. *)

\* While the process lives it closes only connections that clients have hung up.
ClosedInv ==
    /\ main # "exited" => closed \subseteq gone
    /\ main = "closing" => stream \in gone

\* Before there is a client, all that was passed had overtaken HandshakeComplete, and
\* so has what will be drained: nothing else can take the turn of the output expected.
EarlyInv ==
    stream = 0 =>
        /\ ExpectedSequenceNumber > 0 => 0 .. ExpectedSequenceNumber - 1 \subseteq early
        /\ ExpectedSequenceNumber \in kept => kept = early

LossInv == ClosedInv /\ EarlyInv /\ OnlyKeptOutputIsLost

\* The process closes a connection only when its client has hung up, or when it ends.
LEMMA StepClosed == ASSUME TypeInv, ClosedInv, [Next]_vars PROVE ClosedInv'
<1>1. Steps
  BY StepsAreSteps
<1> QED
  BY <1>1
  DEF ClosedInv, TypeInv, TypeOK, Steps, Arrive, HangUp, AgentSends, SetOnMessage, Alive,
      InitializeStreams, Provide, Accept, Acquire, ReadStream, ReadFails, Send, CloseStream,
      HandleSignal, StopOnSignal, HandleChannelClosed, Stop, ReceiveAhead, Idle,
      ProcessStreamMessagePayload, InTurn, DrainUnready, WriteStream, WriteFails, vars,
      mainVars, clientVars, outputVars

\* The steps that pass or keep output; all others leave both alone.
LEMMA OtherOutput ==
    ASSUME TypeInv, [Next]_vars, ~DrainUnready, ~WriteStream, ~WriteFails
    PROVE  /\ UNCHANGED <<ExpectedSequenceNumber, early, written>>
           /\ \/ UNCHANGED kept
              \/ \E k \in Outputs : /\ k > ExpectedSequenceNumber
                                    /\ ExpectedSequenceNumber \notin kept
                                    /\ kept' = kept \cup {k}
<1>1. CASE \E k \in Outputs : ReceiveAhead(k)
  BY <1>1 DEF ReceiveAhead, Idle
<1>2. CASE ~\E k \in Outputs : ReceiveAhead(k)
  <2>1. Steps
    BY StepsAreSteps
  <2> QED
    BY <1>2, <2>1
    DEF Steps, Arrive, HangUp, AgentSends, SetOnMessage, InitializeStreams, Accept, Acquire,
        ReadStream, ReadFails, CloseStream, HandleSignal, StopOnSignal, HandleChannelClosed,
        ProcessStreamMessagePayload, vars, outputVars
<1> QED
  BY <1>1, <1>2

\* The clients that have hung up stay gone, and a client, once there, is not forgotten.
LEMMA Onwards == ASSUME TypeInv, [Next]_vars PROVE gone \subseteq gone' /\ stream <= stream'
<1>0. stream \in Nat
  BY DEF TypeInv, TypeOK
<1>1. Steps
  BY StepsAreSteps
<1>2. gone \subseteq gone'
  BY <1>1
  DEF Steps, Arrive, HangUp, AgentSends, SetOnMessage, InitializeStreams, Provide, Accept,
      Acquire, ReadStream, ReadFails, CloseStream, HandleSignal, StopOnSignal,
      HandleChannelClosed, ReceiveAhead, ProcessStreamMessagePayload, DrainUnready,
      WriteStream, WriteFails, vars, clientVars
<1>3. stream' \in {stream, stream + 1}
  BY <1>1
  DEF Steps, Arrive, HangUp, AgentSends, SetOnMessage, InitializeStreams, Provide, Accept,
      Acquire, ReadStream, ReadFails, CloseStream, HandleSignal, StopOnSignal,
      HandleChannelClosed, ReceiveAhead, ProcessStreamMessagePayload, DrainUnready,
      WriteStream, WriteFails, vars, mainVars, clientVars
<1> QED
  BY <1>0, <1>2, <1>3

\* Before there is a client, only what overtook HandshakeComplete is drained.
LEMMA StepEarly == ASSUME TypeInv, EarlyInv, [Next]_vars PROVE EarlyInv'
<1>1. SUFFICES ASSUME stream' = 0
               PROVE  EarlyInv'
  BY DEF EarlyInv
<1>2. /\ stream = 0 /\ writer = 0 /\ ExpectedSequenceNumber \in Nat
      /\ early \subseteq kept
  BY <1>1, Onwards, PortAssumption DEF PortAssumption, TypeInv, TypeOK, Outputs
<1>3. CASE DrainUnready
  <2>1. /\ ExpectedSequenceNumber \in early /\ kept = early
        /\ ExpectedSequenceNumber' = ExpectedSequenceNumber + 1
        /\ early' = early /\ kept' = kept
    BY <1>2, <1>3 DEF DrainUnready, EarlyInv
  <2> QED
    BY <1>2, <2>1 DEF EarlyInv
<1>4. CASE ~DrainUnready
  <2>1. /\ UNCHANGED <<ExpectedSequenceNumber, early, written>>
        /\ \/ UNCHANGED kept
           \/ \E k \in Outputs : /\ k > ExpectedSequenceNumber
                                 /\ ExpectedSequenceNumber \notin kept
                                 /\ kept' = kept \cup {k}
    BY <1>2, <1>4, OtherOutput DEF WriteStream, WriteFails, TypeInv, TypeOK
  <2> QED
    BY <1>2, <2>1 DEF EarlyInv, Outputs
<1> QED
  BY <1>3, <1>4

\* What a step passes was written, or kept and drained early or lost with a client.
LEMMA StepLost == ASSUME TypeInv, LossInv, [Next]_vars PROVE OnlyKeptOutputIsLost'
<1> DEFINE e == ExpectedSequenceNumber
           Taken(k) == \E c \in Clients : <<c, k>> \in written
           Excused(k) == k \in kept /\ (0 .. k \subseteq early \/ gone # {})
<1>0. /\ e \in Nat /\ MaxOutputs \in Nat /\ gone \subseteq gone'
      /\ early \subseteq kept
  BY Onwards, PortAssumption DEF PortAssumption, TypeInv, TypeOK, Outputs
<1>1. \A k \in Outputs : k < e => Taken(k) \/ Excused(k)
  BY DEF LossInv, OnlyKeptOutputIsLost
<1>2. SUFFICES ASSUME NEW k \in Outputs, k < e'
               PROVE  Taken(k)' \/ Excused(k)'
  BY DEF OnlyKeptOutputIsLost
<1>3. CASE DrainUnready
  <2>1. /\ e \in early /\ (e > 0 => 0 .. e - 1 \subseteq early)
        /\ e' = e + 1 /\ UNCHANGED <<kept, early, written>>
    BY <1>3 DEF DrainUnready, LossInv, EarlyInv, IsStreamNotSet
  <2>2. CASE k < e
    BY <1>0, <1>1, <2>1, <2>2
  <2>3. CASE k = e
    BY <1>0, <2>1, <2>3
  <2> QED
    BY <1>0, <1>2, <2>1, <2>2, <2>3 DEF Outputs
<1>4. CASE WriteStream
  <2>1. /\ written' = written \cup {<<writer, e>>} /\ writer \in Clients
        /\ e' = e + 1 /\ UNCHANGED <<kept, early>>
    BY <1>4, PortAssumption DEF WriteStream, PortAssumption, TypeInv, TypeOK, Clients
  <2>2. CASE k < e
    BY <1>0, <1>1, <2>1, <2>2
  <2>3. CASE k = e
    BY <2>1, <2>3
  <2> QED
    BY <1>0, <1>2, <2>1, <2>2, <2>3 DEF Outputs
<1>5. CASE WriteFails
  <2>1. /\ UNCHANGED <<kept, early, written>>
        /\ e' = IF e \in kept THEN e + 1 ELSE e
    BY <1>5 DEF WriteFails
  <2>2. gone # {}
    BY <1>5 DEF WriteFails, Alive, LossInv, ClosedInv
  <2>3. CASE k < e
    BY <1>0, <1>1, <2>1, <2>3
  <2>4. CASE ~(k < e)
    <3>1. k = e /\ e \in kept
      BY <1>0, <1>2, <2>1, <2>4 DEF Outputs
    <3> QED
      BY <1>0, <2>1, <2>2, <3>1
  <2> QED
    BY <2>3, <2>4
<1>6. CASE ~DrainUnready /\ ~WriteStream /\ ~WriteFails
  <2>1. UNCHANGED <<ExpectedSequenceNumber, early, written>> /\ kept \subseteq kept'
    BY <1>6, OtherOutput
  <2> QED
    BY <1>0, <1>1, <1>2, <2>1
<1> QED
  BY <1>3, <1>4, <1>5, <1>6

\* Output passed unwritten was kept ahead of its turn, and either overtook
\* HandshakeComplete and was drained before there was a client, or a client had hung up.
THEOREM LossCorrect == Spec => []OnlyKeptOutputIsLost
<1>1. Init => LossInv
  BY DEF Init, LossInv, ClosedInv, EarlyInv, OnlyKeptOutputIsLost, Outputs
<1>2. TypeInv /\ LossInv /\ [Next]_vars => LossInv'
  BY StepClosed, StepEarly, StepLost DEF LossInv
<1>3. TypeInv /\ [Next]_vars => TypeInv'
  BY MainTypes, OtherTypes
<1> QED
  BY InitTypes, <1>1, <1>2, <1>3, PTL DEF Spec, LossInv
=============================================================================
