------------------------ MODULE MuxPortForwardingProofs ------------------------
(***************************************************************************)
(* The safety properties of MuxPortForwarding, for every version an agent  *)
(* may tell and any number of clients.                                     *)
(*                                                                         *)
(* That the TerminateSession flag is known to the agent rests on a fact    *)
(* about versions (MultiplexingKnowsFlag) and on the session having been   *)
(* chosen by the version.  That no message makes the listener panic rests  *)
(* on each field having been set by a goroutine that initialize waits for. *)
(***************************************************************************)
EXTENDS MuxPortForwarding, TLAPS

\* A version after the one of the mux threshold is after the one of the flag's.
LEMMA MultiplexingKnowsFlag ==
  ASSUME NEW version \in Seq(Nat \cup {NotANumber}), DoesAgentSupportTCPMultiplexing(version)
  PROVE  Later(version, TerminateSessionFlagSupportedAfterThisAgentVersion)
<1> DEFINE mux  == TCPMultiplexingSupportedAfterThisAgentVersion
           flag == TerminateSessionFlagSupportedAfterThisAgentVersion
<1>1. Len(version) = 4 /\ DOMAIN version = 1 .. 4
  BY DEF DoesAgentSupportTCPMultiplexing, IsGreater, TCPMultiplexingSupportedAfterThisAgentVersion
<1>2. PICK i \in 1 .. 4 : /\ \A j \in 1 .. i - 1 : version[j] = mux[j]
                          /\ version[i] > mux[i]
  BY <1>1 DEF DoesAgentSupportTCPMultiplexing, IsGreater, Decides
<1>3. version[1] > flag[1]
  <2>1. CASE i = 1
    <3>1. version[1] > mux[1]
      BY <1>2, <2>1
    <3>2. mux[1] = 3 /\ flag[1] = 2
      BY DEF TCPMultiplexingSupportedAfterThisAgentVersion,
             TerminateSessionFlagSupportedAfterThisAgentVersion
    <3>3. version[1] \in Int
      BY <1>1 DEF NotANumber
    <3> HIDE DEF mux, flag
    <3> QED
      BY <3>1, <3>2, <3>3
  <2>2. CASE i # 1
    <3>1. 1 \in 1 .. i - 1
      BY <2>2
    <3>2. version[1] = mux[1]
      BY <1>2, <3>1
    <3> QED
      BY <3>2 DEF TCPMultiplexingSupportedAfterThisAgentVersion,
                  TerminateSessionFlagSupportedAfterThisAgentVersion
  <2> QED
    BY <2>1, <2>2
<1>4. Len(flag) = 4 /\ 1 \in DOMAIN flag /\ 1 .. 1 - 1 = {}
  BY DEF TerminateSessionFlagSupportedAfterThisAgentVersion
<1> QED
  BY <1>1, <1>3, <1>4 DEF Later

-----------------------------------------------------------------------------
\* Which session was chosen, and who has sent a flag.
ChoiceInv ==
    /\ main = "initializing" => portType = "none" /\ signals = "unhandled" /\ ~terminateSent
    /\ main # "initializing" => portType # "none"
    /\ signals # "unhandled" => portType = "mux"
    /\ terminateSent => portType = "mux"
    /\ portType = "mux" => DoesAgentSupportTCPMultiplexing(agentVersion)

\* Which goroutine sets which field.
FieldInv ==
    /\ acceptor = "done" => mgsConn
    /\ dialer = "done" => muxClient

IInv == TypeOK /\ ChoiceInv /\ FieldInv

LEMMA InitIInv == Init => IInv
BY DEF Init, IInv, TypeOK, ChoiceInv, FieldInv

\* No step changes the version, and the type of the session is chosen once.
LEMMA ChoiceStep == ASSUME IInv, [Next]_vars PROVE ChoiceInv'
<1> USE DEF IInv, TypeOK, ChoiceInv, Alive, setupVars, readVars, clientVars, signalVars, vars
<1>1. CASE Main
  BY <1>1 DEF Main, Initialize, SetOnMessage, InitializeStreams, EndSetup, EndReadStream
<1>2. CASE Dial \/ StartMux \/ AcceptMux \/ AcceptMuxFails
  BY <1>2 DEF Dial, StartMux, AcceptMux, AcceptMuxFails
<1>3. CASE TransferDataToServer \/ HandleClientConnections
  BY <1>3 DEF TransferDataToServer, CheckTransfer, TransferData, ReadFails,
              HandleClientConnections, OpenListener, CheckAccept, AcceptClient, AcceptFails
<1>4. CASE \E c \in Clients : \/ HandleDataTransfer(c)
                              \/ Connect(c)
                              \/ \E end \in {"client", "server"} : HangUp(c, end)
  BY <1>4 DEF HandleDataTransfer, CopyUp, CopyDown, Connect, HangUp
<1>5. CASE MuxWrites \/ MuxTimesOut \/ ReceiveOutput \/ ReceiveOther \/ HandleChannelClosed
  BY <1>5 DEF MuxWrites, MuxTimesOut, ReceiveOutput, ReceiveOther, HandleChannelClosed,
              Listening
<1>6. CASE HandleSignal \/ StopOnSignal
  BY <1>6 DEF HandleSignal, StopOnSignal
<1>7. CASE UNCHANGED vars
  BY <1>7
<1> QED
  BY <1>1, <1>2, <1>3, <1>4, <1>5, <1>6, <1>7 DEF Next

LEMMA FieldStep == ASSUME IInv, [Next]_vars PROVE FieldInv'
<1> USE DEF IInv, FieldInv, setupVars, readVars, clientVars, signalVars, vars
<1>1. CASE Main
  BY <1>1 DEF Main, Initialize, SetOnMessage, InitializeStreams, EndSetup, EndReadStream
<1>2. CASE Dial \/ StartMux \/ AcceptMux \/ AcceptMuxFails
  BY <1>2 DEF Dial, StartMux, AcceptMux, AcceptMuxFails
<1>3. CASE TransferDataToServer \/ HandleClientConnections
  BY <1>3 DEF TransferDataToServer, CheckTransfer, TransferData, ReadFails,
              HandleClientConnections, OpenListener, CheckAccept, AcceptClient, AcceptFails
<1>4. CASE \E c \in Clients : \/ HandleDataTransfer(c)
                              \/ Connect(c)
                              \/ \E end \in {"client", "server"} : HangUp(c, end)
  BY <1>4 DEF HandleDataTransfer, CopyUp, CopyDown, Connect, HangUp
<1>5. CASE MuxWrites \/ MuxTimesOut \/ ReceiveOutput \/ ReceiveOther \/ HandleChannelClosed
  BY <1>5 DEF MuxWrites, MuxTimesOut, ReceiveOutput, ReceiveOther, HandleChannelClosed
<1>6. CASE HandleSignal \/ StopOnSignal
  BY <1>6 DEF HandleSignal, StopOnSignal
<1>7. CASE UNCHANGED vars
  BY <1>7
<1> QED
  BY <1>1, <1>2, <1>3, <1>4, <1>5, <1>6, <1>7 DEF Next

LEMMA TypeStep == ASSUME IInv, [Next]_vars PROVE TypeOK'
<1> USE DEF IInv, TypeOK, FieldInv, setupVars, readVars, clientVars, signalVars, vars
<1>1. CASE Main
  BY <1>1 DEF Main, Initialize, SetOnMessage, InitializeStreams, EndSetup, EndReadStream
<1>2. CASE Dial \/ AcceptMuxFails
  BY <1>2 DEF Dial, AcceptMuxFails
<1>3. CASE StartMux
  <2>1. keepAlive' \in BOOLEAN /\ muxClient' \in BOOLEAN /\ muxAlive' \in BOOLEAN
    BY <1>3, Zenon DEF StartMux
  <2> QED
    BY <1>3, <2>1 DEF StartMux
<1>4. CASE AcceptMux
  <2>1. mgsConn' \in BOOLEAN
    BY <1>4, Zenon DEF AcceptMux
  <2> QED
    BY <1>4, <2>1 DEF AcceptMux
<1>5. CASE TransferDataToServer
  <2>1. cancelled' \in BOOLEAN /\ frames' \in BOOLEAN
    BY <1>5, Zenon DEF TransferDataToServer, CheckTransfer, TransferData, ReadFails
  <2> QED
    BY <1>5, <2>1 DEF TransferDataToServer, CheckTransfer, TransferData, ReadFails
<1>6. CASE HandleClientConnections
  <2>1. cancelled' \in BOOLEAN /\ frames' \in BOOLEAN
    BY <1>6, Zenon DEF HandleClientConnections, OpenListener, CheckAccept, AcceptClient,
                       AcceptFails
  <2> QED
    BY <1>6, <2>1 DEF HandleClientConnections, OpenListener, CheckAccept, AcceptClient,
                      AcceptFails
<1>7. ASSUME NEW c \in Clients, HandleDataTransfer(c) \/ Connect(c)
      PROVE  TypeOK'
  <2>1. frames' \in BOOLEAN
    BY <1>7, Zenon DEF HandleDataTransfer, CopyUp, CopyDown, Connect
  <2> QED
    BY <1>7, <2>1 DEF HandleDataTransfer, CopyUp, CopyDown, Connect
<1>8. ASSUME NEW c \in Clients, NEW end \in {"client", "server"}, HangUp(c, end)
      PROVE  TypeOK'
  BY <1>8 DEF HangUp
<1>9. CASE MuxWrites \/ MuxTimesOut
  <2>1. frames' \in BOOLEAN /\ muxAlive' \in BOOLEAN
    BY <1>9, Zenon DEF MuxWrites, MuxTimesOut
  <2> QED
    BY <1>9, <2>1 DEF MuxWrites, MuxTimesOut
<1>10. CASE ReceiveOutput \/ ReceiveOther \/ HandleChannelClosed
  <2>1. panicked' \in BOOLEAN
    BY <1>10, Zenon DEF ReceiveOutput, ReceiveOther, HandleChannelClosed
  <2> QED
    BY <1>10, <2>1 DEF ReceiveOutput, ReceiveOther, HandleChannelClosed
<1>11. CASE HandleSignal \/ StopOnSignal
  BY <1>11 DEF HandleSignal, StopOnSignal
<1>12. CASE UNCHANGED vars
  BY <1>12
<1> QED
  BY <1>1, <1>2, <1>3, <1>4, <1>5, <1>6, <1>7, <1>8, <1>9, <1>10, <1>11, <1>12 DEF Next

LEMMA Invariance == Spec => []IInv
<1>1. IInv /\ [Next]_vars => IInv'
  BY ChoiceStep, FieldStep, TypeStep DEF IInv
<1> QED
  BY InitIInv, <1>1, PTL DEF Spec

-----------------------------------------------------------------------------
\* Every variable of the multiplexed port session keeps its type, and ReadStream
\* finds both fields set.
THEOREM TypeCorrect == Spec => []TypeOK
<1>1. IInv => TypeOK
  BY DEF IInv
<1> QED
  BY Invariance, <1>1, PTL

\* The TerminateSession flag goes only to agents that know it, whatever versions
\* there are.
THEOREM FlagsCorrect == Spec => []FlagsAreKnown
<1>1. IInv => FlagsAreKnown
  <2> SUFFICES ASSUME IInv, terminateSent
               PROVE  Later(agentVersion, TerminateSessionFlagSupportedAfterThisAgentVersion)
    BY DEF FlagsAreKnown
  <2>1. agentVersion \in Seq(Nat \cup {NotANumber})
    BY MuxAssumption DEF MuxAssumption, IInv, TypeOK
  <2>2. DoesAgentSupportTCPMultiplexing(agentVersion)
    BY DEF IInv, ChoiceInv
  <2> QED
    BY <2>1, <2>2, MultiplexingKnowsFlag
<1> QED
  BY Invariance, <1>1, PTL

\* Once the session is set up no message makes the websocket listener panic.
THEOREM PanicsCorrect == Spec => PanicsOnlyInSetup
<1>1. IInv /\ [Next]_vars => [main = "running" => panicked' = panicked]_vars
  <2> SUFFICES ASSUME IInv, Next, main = "running"
               PROVE  panicked' = panicked
    OBVIOUS
  <2>1. muxClient /\ mgsConn
    BY DEF IInv, TypeOK
  <2>2. ~ReceiveOutput /\ ~ReceiveOther
    BY <2>1 DEF ReceiveOutput, ReceiveOther
  <2> QED
    BY <2>2 DEF Next, Main, Initialize, SetOnMessage, InitializeStreams, EndSetup,
       EndReadStream, Dial, StartMux, AcceptMux, AcceptMuxFails, TransferDataToServer,
       CheckTransfer, TransferData, ReadFails, HandleClientConnections, OpenListener,
       CheckAccept, AcceptClient, AcceptFails, HandleDataTransfer, CopyUp, CopyDown, Connect,
       HangUp, MuxWrites, MuxTimesOut, HandleChannelClosed, HandleSignal, StopOnSignal
<1> QED
  BY Invariance, <1>1, PTL DEF Spec, PanicsOnlyInSetup
=============================================================================
