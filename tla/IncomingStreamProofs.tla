------------------------- MODULE IncomingStreamProofs -------------------------
(***************************************************************************)
(* The safety properties of IncomingStream, for streams of any length and  *)
(* any kinds, any capacity and any number of failing sends.                *)
(*                                                                         *)
(* None of them is inductive alone: that what is passed was acknowledged   *)
(* rests on the buffer holding only acknowledged messages, and where the   *)
(* listener stands tells whether the buffer holds the expected message.    *)
(***************************************************************************)
EXTENDS IncomingStream, FiniteSetTheorems, TLAPS

\* The helpers that stand for one assignment are expanded everywhere.
USE DEF AddDataToIncomingMessageBuffer, RemoveDataFromIncomingMessageBuffer,
        ProcessSessionTypeHandshakeAction, DeregisterOutputStreamHandler, SetSessionType

\* What the agent has sent, what it has not, and whose answer it waits for.
AgentInv ==
    /\ \A k \in wire \cup IncomingMessageBuffer : k < agentNext
    /\ \A j, k \in SeqNos : j < k /\ k < agentNext /\ Kind[j] \in Asking => j \in replied
    /\ \A k \in replied : k < ExpectedSequenceNumber

\* What is in the buffer was acknowledged and is still to come.
BufferInv ==
    \A k \in IncomingMessageBuffer : k >= ExpectedSequenceNumber /\ k \in acked

\* The listener goes back to reading only when the next message is not there, or
\* cannot be decrypted.
ListenerInv ==
    /\ ExpectedSequenceNumber \in IncomingMessageBuffer =>
           listener # "reading" \/ ExpectedSequenceNumber \in Undecryptable
    /\ listener = "draining" => ExpectedSequenceNumber \in IncomingMessageBuffer
    /\ CallsFirst => /\ ExpectedSequenceNumber \in SeqNos
                     /\ ExpectedSequenceNumber \notin Undecryptable

\* Nothing is shown before its turn.
ShownInv == \A i \in DOMAIN displayed : displayed[i] <= ExpectedSequenceNumber

\* The session's handler is in the slice, or in a copy of it, only after the
\* flag that admits messages to it.
HandlerInv ==
    \/ isSessionSpecificHandlerSet
    \/ /\ "session" \notin outputStreamHandlers \cup ranged \cup found \cup copied
       /\ execute \in {"waiting", "typed", "exited"}

IInv ==
    /\ TypeOK
    /\ AgentInv
    /\ BufferInv
    /\ ListenerInv
    /\ PassedIsAcked
    /\ AckedDataIsKept
    /\ BufferHoldsOnlyData
    /\ ShownInv
    /\ DisplayedInOrder
    /\ HandlerInv

-----------------------------------------------------------------------------
\* Initialize, and opening the channel, establish the inductive invariant.
LEMMA InitIInv == Init => IInv
<1> SUFFICES ASSUME Init PROVE IInv
  OBVIOUS
<1> USE StreamAssumption, LimitAssumption DEF Init
<1>1. TypeOK
  <2>1. displayed \in Seq(SeqNos) /\ isSessionTypeSet = <<>>
    BY DEF SeqNos
  <2>2. isSessionSpecificHandlerSet \in BOOLEAN
    BY Zenon
  <2> QED
    BY <2>1, <2>2 DEF TypeOK, SeqNos, Handlers
<1>2. AgentInv /\ BufferInv /\ ListenerInv
  BY DEF AgentInv, BufferInv, ListenerInv, CallsFirst, SeqNos
<1>3. PassedIsAcked /\ AckedDataIsKept /\ BufferHoldsOnlyData
  BY DEF PassedIsAcked, AckedDataIsKept, BufferHoldsOnlyData, SeqNos
<1>4. ShownInv /\ DisplayedInOrder
  BY DEF ShownInv, DisplayedInOrder
<1>5. HandlerInv
  BY DEF HandlerInv
<1> QED
  BY <1>1, <1>2, <1>3, <1>4, <1>5 DEF IInv

\* Appending the expected message keeps what is shown in order.
LEMMA ShowKeepsOrder ==
  ASSUME TypeOK, ShownInv, DisplayedInOrder,
         ExpectedSequenceNumber \in SeqNos,
         NEW shows \in BOOLEAN,
         displayed' = IF shows THEN Append(displayed, ExpectedSequenceNumber)
                               ELSE displayed,
         ExpectedSequenceNumber' \in {ExpectedSequenceNumber, ExpectedSequenceNumber + 1}
  PROVE  /\ displayed' \in Seq(SeqNos)
         /\ ShownInv'
         /\ DisplayedInOrder'
<1>1. CASE ~shows
  BY <1>1, StreamAssumption DEF TypeOK, ShownInv, DisplayedInOrder, SeqNos
<1>2. CASE shows
  <2>1. displayed' = Append(displayed, ExpectedSequenceNumber)
    BY <1>2
  <2>2. displayed \in Seq(SeqNos) /\ displayed' \in Seq(SeqNos)
    BY <2>1 DEF TypeOK
  <2>3. /\ DOMAIN displayed = 1 .. Len(displayed)
        /\ DOMAIN displayed' = 1 .. Len(displayed) + 1
        /\ Len(displayed) \in Nat
        /\ \A i \in 1 .. Len(displayed) : displayed'[i] = displayed[i]
        /\ \A i \in 1 .. Len(displayed) : displayed[i] \in SeqNos
        /\ displayed'[Len(displayed) + 1] = ExpectedSequenceNumber
    BY <2>1, <2>2
  <2>4. ShownInv'
    BY <2>3 DEF ShownInv, SeqNos
  <2>5. DisplayedInOrder'
    BY <2>3 DEF ShownInv, DisplayedInOrder, SeqNos
  <2> QED
    BY <2>2, <2>4, <2>5
<1> QED
  BY <1>1, <1>2

\* The invariants of the stream's own state, which a handler's result changes.
StreamTypeOK ==
    /\ acked \subseteq SeqNos /\ replied \subseteq SeqNos
    /\ ExpectedSequenceNumber \in 0 .. LastSequenceNumber + 1
    /\ IncomingMessageBuffer \subseteq SeqNos
    /\ displayed \in Seq(SeqNos)
    /\ failures \in 0 .. MaxSendFailures
    /\ listener \in {"reading", "draining", "calling", "deregistering"}

StreamInv ==
    /\ StreamTypeOK
    /\ AgentInv
    /\ BufferInv
    /\ ListenerInv
    /\ PassedIsAcked
    /\ AckedDataIsKept
    /\ BufferHoldsOnlyData
    /\ ShownInv
    /\ DisplayedInOrder

\* Whatever the handlers returned, finishing with the expected message keeps
\* the stream consistent.
LEMMA FinishKeepsStream ==
  ASSUME IInv,
         NEW result, NEW shows \in BOOLEAN,
         Finish(result, shows),
         ExpectedSequenceNumber \in SeqNos, ExpectedSequenceNumber \notin Undecryptable,
         wire' \subseteq wire, agentNext' = agentNext
  PROVE  StreamInv'
<1> USE StreamAssumption, LimitAssumption DEF CallsFirst
<1>0. StreamTypeOK /\ StreamInv
  BY DEF IInv, StreamInv, StreamTypeOK, TypeOK
<1>1. ExpectedSequenceNumber' \in {ExpectedSequenceNumber, ExpectedSequenceNumber + 1}
  BY DEF Finish, PassBuffered, PassReceived, LeaveForResend, MoveOn
<1>2. displayed' \in Seq(SeqNos) /\ ShownInv' /\ DisplayedInOrder'
  BY <1>1, ShowKeepsOrder DEF Finish, IInv
<1>3. replied' = replied
  BY DEF Finish
<1>4. CASE /\ ExpectedSequenceNumber' = ExpectedSequenceNumber + 1
           /\ listener' = IF ExpectedSequenceNumber + 1 \in IncomingMessageBuffer
                          THEN "draining" ELSE "reading"
           /\ IncomingMessageBuffer' = IncomingMessageBuffer \ {ExpectedSequenceNumber}
           /\ acked' = acked \cup {ExpectedSequenceNumber}
           /\ failures' = failures
  <2>1. StreamTypeOK'
    BY <1>0, <1>2, <1>3, <1>4 DEF StreamTypeOK, SeqNos
  <2>2. AgentInv'
    BY <1>0, <1>3, <1>4 DEF AgentInv, StreamInv, StreamTypeOK, SeqNos
  <2>3. BufferInv' /\ ListenerInv'
    BY <1>0, <1>4 DEF BufferInv, ListenerInv, StreamInv, StreamTypeOK, SeqNos
  <2>4. PassedIsAcked'
    BY <1>0, <1>4 DEF PassedIsAcked, StreamInv, StreamTypeOK, SeqNos
  <2>5. AckedDataIsKept'
    BY <1>0, <1>4 DEF AckedDataIsKept, StreamInv, StreamTypeOK, SeqNos
  <2>6. BufferHoldsOnlyData'
    BY <1>0, <1>4 DEF BufferHoldsOnlyData, StreamInv, StreamTypeOK, SeqNos
  <2> QED
    BY <1>2, <2>1, <2>2, <2>3, <2>4, <2>5, <2>6 DEF StreamInv
<1>5. CASE /\ ExpectedSequenceNumber \notin IncomingMessageBuffer
           /\ listener' = "reading"
           /\ failures' \in 0 .. MaxSendFailures
           /\ UNCHANGED <<ExpectedSequenceNumber, IncomingMessageBuffer, acked>>
  <2>1. StreamTypeOK'
    BY <1>0, <1>2, <1>3, <1>5 DEF StreamTypeOK
  <2>2. AgentInv'
    BY <1>0, <1>3, <1>5 DEF AgentInv, StreamInv
  <2>3. BufferInv' /\ ListenerInv'
    BY <1>0, <1>5 DEF BufferInv, ListenerInv, StreamInv
  <2>4. PassedIsAcked' /\ AckedDataIsKept' /\ BufferHoldsOnlyData'
    BY <1>0, <1>5 DEF PassedIsAcked, AckedDataIsKept, BufferHoldsOnlyData, StreamInv
  <2> QED
    BY <1>2, <2>1, <2>2, <2>3, <2>4 DEF StreamInv
<1>6. CASE ExpectedSequenceNumber \in IncomingMessageBuffer
  <2>1. ExpectedSequenceNumber \in acked
    BY <1>0, <1>6 DEF StreamInv, BufferInv
  <2> QED
    BY <1>4, <1>6, <2>1 DEF Finish, PassBuffered, PassReceived, LeaveForResend, MoveOn
<1>7. CASE ExpectedSequenceNumber \notin IncomingMessageBuffer
  <2>1. failures' \in 0 .. MaxSendFailures
    BY <1>0, <1>7
       DEF Finish, PassBuffered, PassReceived, LeaveForResend, SendFails, StreamTypeOK
  <2>2. IncomingMessageBuffer \ {ExpectedSequenceNumber} = IncomingMessageBuffer
    BY <1>7
  <2> QED
    BY <1>4, <1>5, <1>7, <2>1, <2>2 DEF Finish, PassBuffered, PassReceived, LeaveForResend, MoveOn
<1> QED
  BY <1>6, <1>7

\* The variables that no step of the listener's handlers touches.
OtherTypeOK ==
    /\ agentNext \in 0 .. LastSequenceNumber + 1
    /\ wire \subseteq SeqNos /\ agentAcked \subseteq SeqNos
    /\ sessionType \in {"unset", "set"}
    /\ isSessionTypeSet \in {<<>>, <<TRUE>>, <<FALSE>>}
    /\ isSessionSpecificHandlerSet \in BOOLEAN
    /\ outputStreamHandlers \subseteq Handlers
    /\ ranged \subseteq Handlers /\ found \subseteq Handlers
    /\ execute \in {"waiting", "typed", "flagged", "appending", "running", "exited"}
    /\ copied \subseteq Handlers

\* The invariant in the parts that the actions disturb separately.
LEMMA IInvParts == IInv <=> StreamInv /\ OtherTypeOK /\ HandlerInv
BY DEF IInv, StreamInv, StreamTypeOK, OtherTypeOK, TypeOK

\* The same for the next state.
LEMMA IInvPartsPrime == IInv' <=> StreamInv' /\ OtherTypeOK' /\ HandlerInv'
BY DEF IInv, StreamInv, StreamTypeOK, OtherTypeOK, TypeOK

\* A step that leaves the stream's state and the sent messages alone.
LEMMA UnchangedStream ==
  ASSUME StreamInv, UNCHANGED <<streamVars, listener>>, wire' \subseteq wire,
         agentNext' = agentNext
  PROVE  StreamInv'
BY DEF StreamInv, StreamTypeOK, AgentInv, BufferInv, ListenerInv, CallsFirst, PassedIsAcked,
       AckedDataIsKept, BufferHoldsOnlyData, ShownInv, DisplayedInOrder, streamVars

\* Passing the expected data to the handlers: finish, or start to remove
\* ProcessFirstMessage.
LEMMA PassKeepsStream ==
  ASSUME IInv, DecryptAndPass, ExpectedSequenceNumber \in SeqNos,
         wire' \subseteq wire, agentNext' = agentNext
  PROVE  /\ StreamInv'
         /\ ranged' \in {ranged, outputStreamHandlers}
         /\ found' = found
<1> USE DEF CallsFirst
<1>4. CASE DecryptFails
  BY <1>4, IInvParts
     DEF DecryptFails, StreamInv, StreamTypeOK, AgentInv, BufferInv, ListenerInv,
         PassedIsAcked, AckedDataIsKept, BufferHoldsOnlyData, ShownInv, DisplayedInOrder,
         streamVars
<1> SUFFICES ASSUME PassToHandlers, ExpectedSequenceNumber \notin Undecryptable
             PROVE  /\ StreamInv'
                    /\ ranged' \in {ranged, outputStreamHandlers}
                    /\ found' = found
  BY <1>4 DEF DecryptAndPass
<1>1. CASE NoHandler
  <2>1. Finish("notReady", FALSE) /\ UNCHANGED <<ranged, found>>
    BY <1>1 DEF PassToHandlers
  <2> QED
    BY <2>1, FinishKeepsStream
<1>2. CASE /\ listener' = "calling"
           /\ ranged' = outputStreamHandlers
           /\ UNCHANGED <<streamVars, found>>
  BY <1>2, IInvParts
     DEF StreamInv, StreamTypeOK, AgentInv, BufferInv, ListenerInv, CallsFirst, PassedIsAcked,
         AckedDataIsKept, BufferHoldsOnlyData, ShownInv, DisplayedInOrder, streamVars
<1>3. CASE /\ \E outcome \in SessionOutcomes : Finish(outcome, outcome = "ready")
           /\ UNCHANGED <<ranged, found>>
  <2>1. PICK outcome \in SessionOutcomes : Finish(outcome, outcome = "ready")
    BY <1>3
  <2> QED
    BY <1>3, <2>1, FinishKeepsStream
<1> QED
  BY <1>1, <1>2, <1>3 DEF PassToHandlers

\* Control messages: the outcomes of acknowledging and answering one.
LEMMA AckFailsKeepsStream ==
  ASSUME NEW k \in SeqNos, IInv, AckFails(k), wire' \subseteq wire, agentNext' = agentNext
  PROVE  StreamInv'
BY LimitAssumption, IInvParts
   DEF AckFails, SendFails, StreamInv, StreamTypeOK, AgentInv, BufferInv, ListenerInv,
       CallsFirst, PassedIsAcked, AckedDataIsKept, BufferHoldsOnlyData, ShownInv, DisplayedInOrder

\* Acknowledging a control message, and answering it or failing to, keeps the
\* stream consistent.
LEMMA ControlKeepsStream ==
  ASSUME NEW k \in SeqNos, IInv, k = ExpectedSequenceNumber,
         Kind[k] \in Control, listener = "reading",
         acked' = acked \cup {k},
         UNCHANGED <<IncomingMessageBuffer, displayed>>,
         wire' \subseteq wire, agentNext' = agentNext,
         \/ /\ replied' \in {replied, replied \cup {k}}
            /\ MoveOn
            /\ UNCHANGED failures
         \/ SendFails("reply") /\ UNCHANGED <<replied, ExpectedSequenceNumber, listener>>
  PROVE  StreamInv'
<1> USE StreamAssumption, LimitAssumption
<1>0. /\ StreamInv /\ StreamTypeOK
      /\ k \notin IncomingMessageBuffer /\ k \notin Undecryptable
  BY IInvParts DEF StreamInv, ListenerInv, Data, Control, Asking
<1>1. ExpectedSequenceNumber' \in {ExpectedSequenceNumber, ExpectedSequenceNumber + 1}
  BY DEF MoveOn
<1>2. displayed' \in Seq(SeqNos) /\ ShownInv' /\ DisplayedInOrder'
  BY <1>0, <1>1
     DEF StreamInv, StreamTypeOK, ShownInv, DisplayedInOrder, SeqNos
<1>3. /\ replied \subseteq replied' /\ replied' \subseteq replied \cup {k}
      /\ ExpectedSequenceNumber' = ExpectedSequenceNumber => replied' = replied
      /\ failures' \in 0 .. MaxSendFailures
      /\ listener' \in {"reading", "draining"}
  BY <1>0 DEF StreamTypeOK, MoveOn, SendFails, SeqNos
<1>9. StreamTypeOK'
  BY <1>0, <1>1, <1>2, <1>3 DEF StreamTypeOK, SeqNos
<1>4. AgentInv'
  BY <1>0, <1>1, <1>3 DEF AgentInv, StreamInv, StreamTypeOK, SeqNos
<1>5. BufferInv' /\ ListenerInv'
  BY <1>0 DEF BufferInv, ListenerInv, CallsFirst, MoveOn, StreamInv, StreamTypeOK, SeqNos
<1>6. PassedIsAcked'
  BY <1>0 DEF PassedIsAcked, MoveOn, StreamInv, StreamTypeOK, SeqNos
<1>7. AckedDataIsKept'
  BY <1>0, <1>1 DEF AckedDataIsKept, StreamInv, StreamTypeOK, SeqNos, Control, Asking, Data
<1>8. BufferHoldsOnlyData'
  BY <1>0, <1>1 DEF BufferHoldsOnlyData, StreamInv, StreamTypeOK, SeqNos
<1> QED
  BY <1>2, <1>9, <1>4, <1>5, <1>6, <1>7, <1>8 DEF StreamInv

\* A message ahead of its turn carries data: if it were a control message, the
\* agent would still be waiting for the answer to the expected one.
LEMMA AheadKeepsStream ==
  ASSUME NEW k \in SeqNos, IInv, ReceiveAhead(k)
  PROVE  StreamInv'
<1> USE StreamAssumption, LimitAssumption
<1>0. StreamInv /\ StreamTypeOK /\ wire' \subseteq wire /\ agentNext' = agentNext
  BY IInvParts DEF StreamInv, ReceiveAhead, Read
<1>1. k > ExpectedSequenceNumber /\ k < agentNext /\ agentNext \in Nat
  BY IInvParts DEF ReceiveAhead, Read, StreamInv, AgentInv, OtherTypeOK
<1>2. Kind[k] \in Data
  <2>1. SUFFICES ASSUME Kind[k] \in Control PROVE FALSE
    BY DEF Control, Data
  <2>2. ExpectedSequenceNumber \in SeqNos
    BY <1>0, <1>1 DEF StreamTypeOK, SeqNos
  <2>3. Kind[ExpectedSequenceNumber] \in Asking
    BY <1>1, <2>1, <2>2, HandshakeFirstAssumption
  <2>4. ExpectedSequenceNumber \in replied
    BY <1>0, <1>1, <2>2, <2>3 DEF StreamInv, AgentInv
  <2> QED
    BY <1>0, <2>2, <2>4 DEF StreamInv, AgentInv, SeqNos
<1>3. UNCHANGED <<ExpectedSequenceNumber, replied, displayed, listener>>
  BY DEF ReceiveAhead, listenerVars
<1>4. CASE UNCHANGED <<acked, IncomingMessageBuffer>>
  <2>1. failures' \in 0 .. MaxSendFailures
    BY <1>0 DEF ReceiveAhead, SendFails, StreamTypeOK
  <2> QED
    BY <1>0, <1>3, <1>4, <2>1
       DEF StreamInv, StreamTypeOK, AgentInv, BufferInv, ListenerInv, CallsFirst, PassedIsAcked,
           AckedDataIsKept, BufferHoldsOnlyData, ShownInv, DisplayedInOrder
<1>5. CASE /\ acked' = acked \cup {k}
           /\ IncomingMessageBuffer' = IncomingMessageBuffer \cup {k}
           /\ UNCHANGED failures
  BY <1>0, <1>1, <1>2, <1>3, <1>5
     DEF StreamInv, StreamTypeOK, AgentInv, BufferInv, ListenerInv, CallsFirst, PassedIsAcked,
         AckedDataIsKept, BufferHoldsOnlyData, ShownInv, DisplayedInOrder, SeqNos
<1> QED
  BY <1>4, <1>5 DEF ReceiveAhead

-----------------------------------------------------------------------------
(* One step per action. *)

\* The steps of the agent and of the network keep the invariant.
LEMMA AgentStep ==
  ASSUME IInv,
         \/ AgentSend
         \/ \E k \in SeqNos : AgentResend(k) \/ AckArrives(k) \/ Lose(k)
  PROVE  IInv'
<1> USE StreamAssumption
<1>0. StreamInv /\ OtherTypeOK /\ HandlerInv
  BY IInvParts
<1>1. CASE AgentSend
  <2>1. OtherTypeOK' /\ HandlerInv'
    <3>1. agentNext' \in 0 .. LastSequenceNumber + 1 /\ wire' \subseteq SeqNos
      BY <1>0, <1>1 DEF AgentSend, OtherTypeOK, SeqNos
    <3>2. UNCHANGED <<agentAcked, typeVars, handlerVars, listenerVars, executeVars>>
      BY <1>1 DEF AgentSend
    <3> QED
      BY <1>0, <3>1, <3>2 DEF OtherTypeOK, HandlerInv, typeVars, handlerVars, listenerVars,
                              executeVars
  <2>2. AgentInv'
    BY <1>0, <1>1 DEF AgentSend, StreamInv, StreamTypeOK, AgentInv, OtherTypeOK, SeqNos,
                      streamVars
  <2>3. StreamInv'
    BY <1>0, <1>1, <2>2
       DEF AgentSend, StreamInv, StreamTypeOK, BufferInv, ListenerInv, CallsFirst, PassedIsAcked,
           AckedDataIsKept, BufferHoldsOnlyData, ShownInv, DisplayedInOrder, streamVars,
           listenerVars
  <2> QED
    BY <2>1, <2>3, IInvPartsPrime
<1>2. ASSUME NEW k \in SeqNos, AgentResend(k) \/ AckArrives(k) \/ Lose(k)
      PROVE  IInv'
  <2>1. OtherTypeOK' /\ HandlerInv'
    BY <1>0, <1>2 DEF AgentResend, AckArrives, Lose, StreamInv, StreamTypeOK, OtherTypeOK,
                      HandlerInv, typeVars, handlerVars, listenerVars, executeVars
  <2>2. /\ UNCHANGED <<streamVars, listener, agentNext>>
        /\ \A j \in wire' : j \in wire \/ j < agentNext
    BY <1>2 DEF AgentResend, AckArrives, Lose, listenerVars
  <2>3. StreamInv'
    BY <1>0, <2>2
       DEF StreamInv, StreamTypeOK, AgentInv, BufferInv, ListenerInv, CallsFirst, PassedIsAcked,
           AckedDataIsKept, BufferHoldsOnlyData, ShownInv, DisplayedInOrder, streamVars
  <2> QED
    BY <2>1, <2>3, IInvPartsPrime
<1> QED
  BY <1>1, <1>2

\* HandleOutputMessage, whichever message it is called with, keeps the invariant.
LEMMA ReceiveStep ==
  ASSUME IInv, NEW k \in SeqNos, Receive(k)
  PROVE  IInv'
<1>0. StreamInv /\ StreamTypeOK /\ OtherTypeOK /\ HandlerInv
  BY IInvParts DEF StreamInv
<1>1. /\ wire' \subseteq wire /\ agentNext' = agentNext /\ agentAcked' = agentAcked
      /\ listener = "reading"
  BY DEF Receive, ReceiveOld, ReceiveAhead, ReceiveHandshakeRequest,
         ReceiveEncChallengeRequest, ReceiveHandshakeComplete, ReceiveData, Read
<1>2. OtherTypeOK' /\ HandlerInv'
  <2>1. UNCHANGED <<handlerVars, executeVars>>
    BY DEF Receive, ReceiveOld, ReceiveAhead, ReceiveHandshakeRequest,
           ReceiveEncChallengeRequest, ReceiveHandshakeComplete, ReceiveData
  <2>2. ranged' \in {ranged, outputStreamHandlers} /\ found' = found
    BY DEF Receive, ReceiveOld, ReceiveAhead, ReceiveHandshakeRequest,
           ReceiveEncChallengeRequest, ReceiveHandshakeComplete, ReceiveData,
           DecryptAndPass, DecryptFails, PassToHandlers, listenerVars
  <2>3. sessionType' \in {"unset", "set"}
    BY <1>0 DEF Receive, ReceiveOld, ReceiveAhead, ReceiveHandshakeRequest,
           ReceiveEncChallengeRequest, ReceiveHandshakeComplete, ReceiveData,
           AckFails, OtherTypeOK, typeVars
  <2>4. isSessionTypeSet' \in {isSessionTypeSet, <<TRUE>>, <<FALSE>>}
    BY <1>0 DEF SessionTypeKnown, Receive, ReceiveOld, ReceiveAhead, ReceiveHandshakeRequest,
           ReceiveEncChallengeRequest, ReceiveHandshakeComplete, ReceiveData,
           AckFails, OtherTypeOK, typeVars
  <2>5. OtherTypeOK'
    BY <1>0, <1>1, <2>1, <2>2, <2>3, <2>4 DEF OtherTypeOK, handlerVars, executeVars
  <2>6. HandlerInv'
    BY <1>0, <2>1, <2>2 DEF HandlerInv, handlerVars, executeVars
  <2> QED
    BY <2>5, <2>6
<1>3. StreamInv'
  <2>1. CASE ReceiveOld(k)
    BY <1>0, <1>1, <2>1, UnchangedStream DEF ReceiveOld, listenerVars
  <2>2. CASE ReceiveAhead(k)
    BY <2>2, AheadKeepsStream
  <2>3. CASE AckFails(k)
    BY <1>1, <2>3, AckFailsKeepsStream
  <2>4. CASE Answer(k) /\ k = ExpectedSequenceNumber /\ Kind[k] \in Control
    BY <1>1, <2>4, ControlKeepsStream DEF Answer
  <2>5. CASE /\ k = ExpectedSequenceNumber /\ Kind[k] \in Control
             /\ acked' = acked \cup {k} /\ MoveOn
             /\ UNCHANGED <<IncomingMessageBuffer, replied, displayed, failures>>
    BY <1>1, <2>5, ControlKeepsStream
  <2>6. CASE ReceiveData(k)
    BY <1>1, <2>6, PassKeepsStream DEF ReceiveData
  <2> QED
    BY <2>1, <2>2, <2>3, <2>4, <2>5, <2>6
       DEF Receive, ReceiveHandshakeRequest, ReceiveEncChallengeRequest,
           ReceiveHandshakeComplete, Control, Asking
<1> QED
  BY <1>2, <1>3, IInvPartsPrime

\* Draining the buffer and ProcessFirstMessage keep the invariant.
LEMMA ListenerStep ==
  ASSUME IInv, Listener
  PROVE  IInv'
<1>0. StreamInv /\ StreamTypeOK /\ OtherTypeOK /\ HandlerInv
  BY IInvParts DEF StreamInv
<1>1. CASE ProcessBufferItem
  <2>1. ExpectedSequenceNumber \in SeqNos
    BY <1>0, <1>1 DEF ProcessBufferItem, StreamInv, ListenerInv, StreamTypeOK
  <2>2. StreamInv' /\ ranged' \in {ranged, outputStreamHandlers} /\ found' = found
    BY <1>1, <2>1, PassKeepsStream DEF ProcessBufferItem, agentVars
  <2>3. OtherTypeOK' /\ HandlerInv'
    BY <1>0, <1>1, <2>2 DEF ProcessBufferItem, OtherTypeOK, HandlerInv, agentVars, typeVars,
                            handlerVars, executeVars
  <2> QED
    BY <2>2, <2>3, IInvPartsPrime
<1>2. CASE ProcessFirstMessage
  <2>1. ExpectedSequenceNumber \in SeqNos
    BY <1>0, <1>2 DEF ProcessFirstMessage, StreamInv, ListenerInv, CallsFirst
  <2>2. \E result, shows : shows \in BOOLEAN /\ Finish(result, shows)
    <3>1. CASE "session" \in ranged
      BY <1>2, <3>1 DEF ProcessFirstMessage
    <3>2. CASE "session" \notin ranged
      BY <1>2, <3>2 DEF ProcessFirstMessage
    <3> QED
      BY <3>1, <3>2
  <2>6. ExpectedSequenceNumber \notin Undecryptable
    BY <1>0, <1>2 DEF ProcessFirstMessage, StreamInv, ListenerInv, CallsFirst
  <2>3. StreamInv'
    BY <1>2, <2>1, <2>2, <2>6, FinishKeepsStream DEF ProcessFirstMessage, agentVars
  <2>4. OtherTypeOK'
    BY <1>0, <1>2 DEF ProcessFirstMessage, OtherTypeOK, agentVars, typeVars, executeVars
  <2>5. HandlerInv'
    BY <1>0, <1>2 DEF ProcessFirstMessage, HandlerInv, executeVars
  <2> QED
    BY <2>3, <2>4, <2>5, IInvPartsPrime
<1>3. CASE FindHandler
  <2>1. StreamInv'
    BY <1>0, <1>3
       DEF FindHandler, StreamInv, StreamTypeOK, AgentInv, BufferInv, ListenerInv,
           CallsFirst, PassedIsAcked, AckedDataIsKept, BufferHoldsOnlyData, ShownInv,
           DisplayedInOrder, streamVars, agentVars
  <2>2. OtherTypeOK' /\ HandlerInv'
    BY <1>0, <1>3
       DEF FindHandler, OtherTypeOK, HandlerInv, agentVars, typeVars, handlerVars, executeVars
  <2> QED
    BY <2>1, <2>2, IInvPartsPrime
<1> QED
  BY <1>1, <1>2, <1>3 DEF Listener

\* Execute's wait for the session type and the registration of the session's
\* handler keep the invariant.
LEMMA ExecuteStep ==
  ASSUME IInv, Execute
  PROVE  IInv'
<1>0. StreamInv /\ OtherTypeOK /\ HandlerInv
  BY IInvParts
<1>1. UNCHANGED <<agentVars, streamVars, listenerVars>>
  BY DEF Execute, TakeSessionType, SetSessionSpecificHandler, ReadHandlers, AppendHandler
<1>2. StreamInv'
  BY <1>0, <1>1, UnchangedStream DEF agentVars, listenerVars
<1>3. isSessionTypeSet' \in {isSessionTypeSet, <<>>}
  BY DEF Execute, TakeSessionType, SetSessionSpecificHandler, ReadHandlers, AppendHandler,
         typeVars
<1>4. /\ isSessionSpecificHandlerSet' \in BOOLEAN
      /\ execute' \in {"typed", "exited", "flagged", "appending", "running"}
      /\ sessionType' = sessionType
      /\ outputStreamHandlers' \subseteq Handlers
      /\ copied' \subseteq Handlers
  BY <1>0 DEF Execute, TakeSessionType, SetSessionSpecificHandler, ReadHandlers,
              AppendHandler, OtherTypeOK, Handlers, typeVars, handlerVars
<1>5. OtherTypeOK'
  BY <1>0, <1>1, <1>3, <1>4 DEF OtherTypeOK, agentVars, listenerVars
<1>6. HandlerInv'
  BY <1>0, <1>1 DEF HandlerInv, Execute, TakeSessionType, SetSessionSpecificHandler,
                    ReadHandlers, AppendHandler, handlerVars, listenerVars
<1> QED
  BY <1>2, <1>5, <1>6, IInvPartsPrime

\* Every step, of any goroutine or of the agent, keeps the invariant.
LEMMA StepIInv == IInv /\ [Next]_vars => IInv'
<1> SUFFICES ASSUME IInv, [Next]_vars PROVE IInv'
  OBVIOUS
<1>1. CASE UNCHANGED vars
  <2>1. StreamInv'
    BY <1>1, IInvParts, UnchangedStream DEF vars, agentVars, listenerVars
  <2>2. OtherTypeOK' /\ HandlerInv'
    BY <1>1, IInvParts DEF OtherTypeOK, HandlerInv, vars, agentVars, typeVars, handlerVars,
                           listenerVars, executeVars
  <2> QED
    BY <2>1, <2>2, IInvPartsPrime
<1> QED
  BY <1>1, AgentStep, ReceiveStep, ListenerStep, ExecuteStep DEF Next

\* The inductive invariant of HandleOutputMessage and the goroutines around it
\* holds in every reachable state.
THEOREM Invariance == Spec => []IInv
BY InitIInv, StepIInv, PTL DEF Spec

-----------------------------------------------------------------------------
(* What follows for every run of the stream. *)

\* Every variable keeps its type.
THEOREM TypeCorrect == Spec => []TypeOK
BY Invariance, PTL DEF IInv

\* The user never sees messages out of order.
THEOREM OrderCorrect == Spec => []DisplayedInOrder
BY Invariance, PTL DEF IInv

\* What has been passed was acknowledged.
THEOREM PassedIsAckedCorrect == Spec => []PassedIsAcked
BY Invariance, PTL DEF IInv

\* Acknowledged data is passed or buffered, whichever sends fail.
THEOREM AckedDataIsKeptCorrect == Spec => []AckedDataIsKept
BY Invariance, PTL DEF IInv

\* No handshake message is ever buffered, where it would miss its handler.
THEOREM BufferHoldsOnlyDataCorrect == Spec => []BufferHoldsOnlyData
BY Invariance, PTL DEF IInv

-----------------------------------------------------------------------------
(* The bound of the buffer: only ReceiveAhead adds to it, one message after    *)
(* looking at its size.                                                        *)

\* A buffer, being a set of sequence numbers, is finite.
LEMMA SeqNosFinite == \A S \in SUBSET SeqNos : IsFiniteSet(S)
<1>1. 0 \in Int /\ LastSequenceNumber \in Int
  BY StreamAssumption
<1>2. IsFiniteSet(SeqNos)
  BY <1>1, FS_Interval DEF SeqNos
<1> QED
  BY <1>2, FS_Subset

\* Adding to the incoming buffer respects its capacity, and no other step adds.
LEMMA BoundStep ==
  ASSUME IInv, [Next]_vars, IInv',
         Cardinality(IncomingMessageBuffer) <= IncomingMessageBufferCapacity
  PROVE  Cardinality(IncomingMessageBuffer') <= IncomingMessageBufferCapacity
<1> USE LimitAssumption
<1>1. IsFiniteSet(IncomingMessageBuffer) /\ Cardinality(IncomingMessageBuffer) \in Nat
  BY SeqNosFinite, FS_CardinalityType DEF IInv, TypeOK
<1>2. CASE \E k \in SeqNos : ReceiveAhead(k)
  <2>1. PICK k \in SeqNos : ReceiveAhead(k)
    BY <1>2
  <2>2. CASE UNCHANGED IncomingMessageBuffer
    BY <2>2
  <2>3. CASE /\ IncomingMessageBuffer' = IncomingMessageBuffer \cup {k}
             /\ Cardinality(IncomingMessageBuffer) < IncomingMessageBufferCapacity
    <3>1. Cardinality(IncomingMessageBuffer \cup {k}) <= Cardinality(IncomingMessageBuffer) + 1
      <4>1. Cardinality(IncomingMessageBuffer \cup {k}) =
                IF k \in IncomingMessageBuffer THEN Cardinality(IncomingMessageBuffer)
                ELSE Cardinality(IncomingMessageBuffer) + 1
        BY <1>1, FS_AddElement, Zenon
      <4> QED
        BY <1>1, <4>1
    <3>2. Cardinality(IncomingMessageBuffer') \in Nat
      BY SeqNosFinite, FS_CardinalityType DEF IInv, TypeOK
    <3> QED
      BY <1>1, <2>3, <3>1, <3>2
  <2> QED
    BY <2>1, <2>2, <2>3 DEF ReceiveAhead, HasCapacity
<1>3. CASE ~ \E k \in SeqNos : ReceiveAhead(k)
  <2>1. IncomingMessageBuffer' \in
            {IncomingMessageBuffer, IncomingMessageBuffer \ {ExpectedSequenceNumber}}
    <3>1. ASSUME NEW result, NEW shows, Finish(result, shows)
          PROVE  IncomingMessageBuffer' \in
                     {IncomingMessageBuffer, IncomingMessageBuffer \ {ExpectedSequenceNumber}}
      BY <3>1 DEF Finish, PassBuffered, PassReceived, LeaveForResend
    <3>2. PassToHandlers => IncomingMessageBuffer' \in
              {IncomingMessageBuffer, IncomingMessageBuffer \ {ExpectedSequenceNumber}}
      BY <3>1 DEF PassToHandlers, streamVars
    <3>4. DecryptAndPass => IncomingMessageBuffer' \in
              {IncomingMessageBuffer, IncomingMessageBuffer \ {ExpectedSequenceNumber}}
      BY <3>2 DEF DecryptAndPass, DecryptFails, streamVars
    <3>3. ProcessFirstMessage => IncomingMessageBuffer' \in
              {IncomingMessageBuffer, IncomingMessageBuffer \ {ExpectedSequenceNumber}}
      BY <3>1 DEF ProcessFirstMessage
    <3> QED
      BY <1>3, <3>3, <3>4
         DEF Next, vars, streamVars, AgentSend, AgentResend, AckArrives, Lose, Receive,
             ReceiveOld, ReceiveHandshakeRequest, ReceiveEncChallengeRequest,
             ReceiveHandshakeComplete, ReceiveData, AckFails, Answer, Listener,
             ProcessBufferItem, FindHandler, Execute, TakeSessionType, SetSessionSpecificHandler,
             ReadHandlers, AppendHandler
  <2>2. Cardinality(IncomingMessageBuffer \ {ExpectedSequenceNumber})
            <= Cardinality(IncomingMessageBuffer)
    BY <1>1, FS_RemoveElement, FS_Subset, FS_CardinalityType
  <2>3. Cardinality(IncomingMessageBuffer') \in Nat
    BY SeqNosFinite, FS_CardinalityType DEF IInv, TypeOK
  <2> QED
    BY <1>1, <2>1, <2>2, <2>3
<1> QED
  BY <1>2, <1>3

\* The buffer never holds more than its capacity, nor anything already passed.
THEOREM BoundCorrect == Spec => []BufferIsBounded
<1> DEFINE Bound == Cardinality(IncomingMessageBuffer) <= IncomingMessageBufferCapacity
<1>1. Init => Bound
  BY LimitAssumption, FS_EmptySet DEF Init
<1>2. IInv /\ [Next]_vars /\ IInv' /\ Bound => Bound'
  BY BoundStep
<1>3. IInv /\ Bound => BufferIsBounded
  BY DEF IInv, BufferInv, BufferIsBounded
<1> HIDE DEF Bound
<1> QED
  BY <1>1, <1>2, <1>3, Invariance, PTL DEF Spec

-----------------------------------------------------------------------------
(* The session type: whoever announces it has stored it before, and it is      *)
(* never forgotten.                                                            *)

TypeInv ==
    /\ isSessionTypeSet # <<>> /\ Head(isSessionTypeSet) => sessionType = "set"
    /\ StartsWithKnownType

\* Taking the only element from the session-type channel leaves it empty.
LEMMA HeadOfOne ==
  ASSUME NEW a
  PROVE  Head(<<a>>) = a
OBVIOUS

\* The session-type channel is written to only when the session type is set.
LEMMA TypeStep ==
  ASSUME TypeOK, TypeInv, [Next]_vars
  PROVE  TypeInv'
<1>1. CASE Execute
  BY <1>1 DEF Execute, TakeSessionType, SetSessionSpecificHandler, ReadHandlers,
              AppendHandler, TypeInv, StartsWithKnownType, typeVars
<1>2. CASE sessionType' = "set"
  BY <1>2 DEF TypeInv, StartsWithKnownType
<1>3. CASE UNCHANGED <<typeVars, execute>>
  BY <1>3 DEF TypeInv, StartsWithKnownType, typeVars
<1>4. CASE isSessionTypeSet' = <<SessionTypeKnown>> /\ UNCHANGED <<sessionType, execute>>
  <2>1. CASE sessionType = "set"
    BY <1>4, <2>1, <1>2
  <2>2. CASE sessionType # "set"
    <3>1. SessionTypeKnown = FALSE
      BY <2>2 DEF TypeOK, SessionTypeKnown
    <3>2. isSessionTypeSet' = <<FALSE>>
      BY <1>4, <3>1, Zenon
    <3>3. ~Head(<<FALSE>>)
      BY HeadOfOne, Zenon
    <3> QED
      BY <1>4, <3>2, <3>3 DEF TypeInv, StartsWithKnownType
  <2> QED
    BY <2>1, <2>2
<1>5. ASSUME NEW k \in SeqNos, Receive(k) PROVE TypeInv'
  BY <1>2, <1>3, <1>4, <1>5
     DEF Receive, ReceiveOld, ReceiveAhead, ReceiveHandshakeRequest,
         ReceiveEncChallengeRequest, ReceiveHandshakeComplete, ReceiveData, AckFails,
         typeVars, executeVars
<1>6. CASE \/ AgentSend \/ Listener \/ UNCHANGED vars
           \/ \E k \in SeqNos : AgentResend(k) \/ AckArrives(k) \/ Lose(k)
  BY <1>2, <1>3, <1>6
     DEF AgentSend, AgentResend, AckArrives, Lose, Listener, ProcessBufferItem,
         FindHandler, ProcessFirstMessage, vars, typeVars, executeVars
<1> QED
  BY <1>1, <1>5, <1>6 DEF Next

\* The main goroutine never looks up a session type that was not set.
THEOREM KnownTypeCorrect == Spec => []StartsWithKnownType
<1>1. Init => TypeInv
  BY DEF Init, TypeInv, StartsWithKnownType
<1>2. TypeOK /\ TypeInv /\ [Next]_vars => TypeInv'
  BY TypeStep
<1>3. TypeInv => StartsWithKnownType
  BY DEF TypeInv
<1> QED
  BY <1>1, <1>2, <1>3, TypeCorrect, PTL DEF Spec

-----------------------------------------------------------------------------
(* The session type is announced once: on a stream that handshakes the         *)
(* handshake does it, and by then the only message that could announce it      *)
(* again has been passed; without a handshake the first output does.           *)

Announced == isSessionTypeSet = <<TRUE>>

HandshakePassed == \A k \in SeqNos : Kind[k] = "HandshakeComplete" => k < ExpectedSequenceNumber

\* Until the session's handler is admitted, a type that was announced keeps every
\* message from ProcessFirstMessage, which announces one too.
AnnounceInv ==
    /\ Announced => execute = "waiting" /\ ~CallsFirst /\ sessionType = "set"
    /\ isSessionSpecificHandlerSet => execute \notin {"waiting", "typed"}
    /\ Announced \/ execute \in {"typed", "flagged", "appending", "running"} => HandshakePassed

\* The channel holds the announcement, or the news that there is no type, or nothing.
LEMMA ChannelContents ==
  /\ isSessionTypeSet = <<>> => ~Announced
  /\ isSessionTypeSet = <<FALSE>> => ~Announced
  /\ TypeOK /\ isSessionTypeSet # <<>> /\ Head(isSessionTypeSet) => Announced
<1>1. <<>> # <<TRUE>>
  OBVIOUS
<1>2. Head(<<TRUE>>) = TRUE /\ Head(<<FALSE>>) = FALSE
  BY HeadOfOne, Zenon
<1>3. <<FALSE>> # <<TRUE>>
  BY <1>2, Zenon
<1>4. TypeOK => isSessionTypeSet = <<>> \/ isSessionTypeSet = <<TRUE>>
                    \/ isSessionTypeSet = <<FALSE>>
  BY Zenon DEF TypeOK
<1> QED
  BY <1>1, <1>2, <1>3, <1>4, Zenon DEF Announced

\* Once a message other than a request has its turn, no handshake is to come after it.
LEMMA NoHandshakeAfter ==
  ASSUME NEW k \in SeqNos, Kind[k] \notin Asking
  PROVE  \A j \in SeqNos : Kind[j] = "HandshakeComplete" => j <= k
BY HandshakeFirstAssumption DEF SeqNos, Control

\* A number that does not fall keeps the handshake passed.
LEMMA HandshakeStaysPassed ==
  ASSUME ExpectedSequenceNumber \in Nat, ExpectedSequenceNumber' \in Nat,
         ExpectedSequenceNumber <= ExpectedSequenceNumber', HandshakePassed
  PROVE  HandshakePassed'
BY DEF HandshakePassed, SeqNos

\* Finishing with a message moves the number on, and the listener does not go back to
\* ProcessFirstMessage.
LEMMA FinishMoves ==
  ASSUME NEW result, NEW shows, Finish(result, shows)
  PROVE  /\ ExpectedSequenceNumber' \in {ExpectedSequenceNumber, ExpectedSequenceNumber + 1}
         /\ listener' \in {"reading", "draining"}
BY DEF Finish, PassBuffered, PassReceived, LeaveForResend, MoveOn

\* Giving a message to the handlers announces nothing, and a type that was announced keeps
\* it from them.
LEMMA PassKeepsAnnounce ==
  ASSUME TypeOK, TypeOK', AnnounceInv, DecryptAndPass,
         UNCHANGED <<typeVars, handlerVars, executeVars>>
  PROVE  AnnounceInv'
<1> USE DEF CallsFirst
<1>1. ExpectedSequenceNumber \in Nat /\ ExpectedSequenceNumber' \in Nat
  BY StreamAssumption DEF TypeOK
<1>2. CASE \E result, shows : Finish(result, shows)
  <2>1. /\ ExpectedSequenceNumber' \in {ExpectedSequenceNumber, ExpectedSequenceNumber + 1}
        /\ listener' \in {"reading", "draining"}
    BY <1>2, FinishMoves
  <2>2. HandshakePassed => HandshakePassed'
    BY <1>1, <2>1, HandshakeStaysPassed
  <2> QED
    BY <2>1, <2>2 DEF AnnounceInv, Announced, typeVars, handlerVars, executeVars
<1>3. CASE ~NoHandler /\ UNCHANGED streamVars
  <2>1. ~Announced
    BY <1>3 DEF AnnounceInv, NoHandler
  <2>2. ~Announced' /\ HandshakePassed' = HandshakePassed
    BY <1>3, <2>1 DEF Announced, HandshakePassed, streamVars, typeVars
  <2> QED
    BY <2>2 DEF AnnounceInv, handlerVars, executeVars
<1>4. CASE DecryptFails
  BY <1>4 DEF DecryptFails, AnnounceInv, Announced, HandshakePassed, streamVars, typeVars,
              handlerVars, executeVars
<1> QED
  BY <1>2, <1>3, <1>4 DEF DecryptAndPass, PassToHandlers

\* Receiving a message: of those that announce the type, only the handshake's.
LEMMA ReceiveKeepsAnnounce ==
  ASSUME TypeOK, TypeOK', AnnounceInv, NEW k \in SeqNos, Receive(k)
  PROVE  AnnounceInv'
<1> USE DEF CallsFirst
<1>0. ExpectedSequenceNumber \in Nat /\ ExpectedSequenceNumber' \in Nat
  BY StreamAssumption DEF TypeOK
<1>1. CASE ReceiveData(k)
  BY <1>1, PassKeepsAnnounce DEF ReceiveData
<1>2. CASE /\ UNCHANGED <<isSessionTypeSet, handlerVars, executeVars>>
           /\ sessionType' \in {sessionType, "set"}
           /\ ExpectedSequenceNumber' \in {ExpectedSequenceNumber, ExpectedSequenceNumber + 1}
           /\ listener' \in {listener, "reading", "draining"}
  <2>1. HandshakePassed => HandshakePassed'
    BY <1>0, <1>2, HandshakeStaysPassed
  <2> QED
    BY <1>2, <2>1 DEF AnnounceInv, Announced, handlerVars, executeVars
<1>3. CASE /\ ReceiveHandshakeComplete(k)
           /\ isSessionTypeSet' = <<SessionTypeKnown>>
           /\ MoveOn
  <2>1. /\ k = ExpectedSequenceNumber /\ Kind[k] = "HandshakeComplete" /\ execute # "exited"
        /\ UNCHANGED <<sessionType, handlerVars, executeVars>>
    BY <1>3 DEF ReceiveHandshakeComplete, Read, AckFails, typeVars
  <2>2. execute = "waiting"
    BY <1>0, <2>1 DEF AnnounceInv, HandshakePassed, TypeOK
  <2>3. HandshakePassed'
    <3>1. \A j \in SeqNos : Kind[j] = "HandshakeComplete" => j <= k
      BY <2>1, NoHandshakeAfter DEF Asking
    <3>2. ExpectedSequenceNumber' = ExpectedSequenceNumber + 1
      BY <1>3 DEF MoveOn
    <3> QED
      BY <1>0, <2>1, <3>1, <3>2 DEF HandshakePassed, SeqNos
  <2>4. Announced' => sessionType = "set"
    <3>1. CASE sessionType = "unset"
      <4>1. SessionTypeKnown = FALSE
        BY <3>1 DEF SessionTypeKnown
      <4>2. isSessionTypeSet' = <<FALSE>>
        BY <1>3, <4>1, Zenon
      <4>3. <<FALSE>> # <<TRUE>>
        <5>1. Head(<<TRUE>>) = TRUE /\ Head(<<FALSE>>) = FALSE
          BY HeadOfOne, Zenon
        <5> QED
          BY <5>1, Zenon
      <4> QED
        BY <4>2, <4>3, Zenon DEF Announced
    <3> QED
      BY <3>1 DEF TypeOK
  <2>5. listener' \in {"reading", "draining"}
    BY <1>3 DEF MoveOn
  <2> QED
    BY <2>1, <2>2, <2>3, <2>4, <2>5 DEF AnnounceInv, handlerVars, executeVars
<1> QED
  BY <1>1, <1>2, <1>3
     DEF Receive, ReceiveOld, ReceiveAhead, ReceiveHandshakeRequest,
         ReceiveEncChallengeRequest, ReceiveHandshakeComplete, AckFails, Answer, MoveOn,
         typeVars, streamVars, listenerVars, executeVars

\* The listener's other steps: ProcessFirstMessage announces a shell's type, when no
\* handshake came before.
LEMMA ListenerKeepsAnnounce ==
  ASSUME TypeOK, TypeOK', ListenerInv, AnnounceInv, Listener
  PROVE  AnnounceInv'
<1> USE DEF CallsFirst
<1>0. ExpectedSequenceNumber \in Nat /\ ExpectedSequenceNumber' \in Nat
  BY StreamAssumption DEF TypeOK
<1>1. CASE ProcessBufferItem
  BY <1>1, PassKeepsAnnounce DEF ProcessBufferItem
<1>2. CASE ProcessFirstMessage
  <2>1. \E result, shows : Finish(result, shows)
    BY <1>2 DEF ProcessFirstMessage
  <2>2. /\ ExpectedSequenceNumber' \in {ExpectedSequenceNumber, ExpectedSequenceNumber + 1}
        /\ listener' \in {"reading", "draining"}
    BY <2>1, FinishMoves
  <2>3. HandshakePassed => HandshakePassed'
    BY <1>0, <2>2, HandshakeStaysPassed
  <2>4. UNCHANGED <<isSessionSpecificHandlerSet, execute>> /\ ~Announced
    BY <1>2 DEF ProcessFirstMessage, executeVars, AnnounceInv
  <2>5. CASE UNCHANGED typeVars
    BY <2>2, <2>3, <2>4, <2>5 DEF AnnounceInv, Announced, typeVars
  <2>6. CASE /\ execute = "waiting" /\ Kind[ExpectedSequenceNumber] = "Output"
             /\ SetSessionType
    <3>1. ExpectedSequenceNumber \in SeqNos
      BY <1>2 DEF ProcessFirstMessage, ListenerInv
    <3>2. \A j \in SeqNos : Kind[j] = "HandshakeComplete" => j <= ExpectedSequenceNumber
      BY <2>6, <3>1, NoHandshakeAfter DEF Asking
    <3>3. HandshakePassed
      BY <1>0, <2>6, <3>2 DEF HandshakePassed, SeqNos
    <3> QED
      BY <2>2, <2>3, <2>4, <2>6, <3>3 DEF AnnounceInv
  <2> QED
    BY <1>2, <2>5, <2>6 DEF ProcessFirstMessage
<1>3. CASE FindHandler
  BY <1>3 DEF FindHandler, AnnounceInv, Announced, HandshakePassed, streamVars, typeVars,
              handlerVars, executeVars
<1> QED
  BY <1>1, <1>2, <1>3 DEF Listener

\* Every step keeps the announcement single.
LEMMA StepKeepsAnnounce ==
  ASSUME TypeOK, TypeOK', ListenerInv, AnnounceInv, [Next]_vars
  PROVE  AnnounceInv'
<1> USE DEF CallsFirst
<1>1. CASE TakeSessionType
  <2>1. /\ execute = "waiting" /\ ~Announced'
        /\ execute' \in {"typed", "exited"}
        /\ execute' = "typed" => Announced
        /\ UNCHANGED <<ExpectedSequenceNumber, isSessionSpecificHandlerSet>>
    <3>1. isSessionTypeSet' = <<>> /\ <<>> # <<TRUE>>
      BY <1>1 DEF TakeSessionType
    <3>2. ~Announced'
      BY <3>1, Zenon DEF Announced
    <3>3. execute' = "typed" => Head(isSessionTypeSet) /\ isSessionTypeSet # <<>>
      BY <1>1 DEF TakeSessionType
    <3> QED
      BY <1>1, <3>2, <3>3, ChannelContents DEF TakeSessionType, streamVars, handlerVars
  <2> QED
    BY <2>1 DEF AnnounceInv, HandshakePassed
<1>2. CASE SetSessionSpecificHandler \/ ReadHandlers \/ AppendHandler
  <2>1. /\ execute \in {"typed", "flagged", "appending"}
        /\ execute' \in {"flagged", "appending", "running"}
        /\ UNCHANGED <<typeVars, ExpectedSequenceNumber, listener>>
    BY <1>2 DEF SetSessionSpecificHandler, ReadHandlers, AppendHandler, streamVars, listenerVars
  <2> QED
    BY <2>1 DEF AnnounceInv, Announced, HandshakePassed, typeVars
<1>3. CASE UNCHANGED <<typeVars, handlerVars, ExpectedSequenceNumber, listener, executeVars>>
  BY <1>3 DEF AnnounceInv, Announced, HandshakePassed, typeVars, handlerVars, executeVars
<1>4. CASE \/ AgentSend \/ UNCHANGED vars
           \/ \E k \in SeqNos : AgentResend(k) \/ AckArrives(k) \/ Lose(k)
  BY <1>3, <1>4
     DEF AgentSend, AgentResend, AckArrives, Lose, vars, streamVars, listenerVars
<1> QED
  BY <1>1, <1>2, <1>4, ReceiveKeepsAnnounce, ListenerKeepsAnnounce DEF Next, Execute

\* On every stream the listener announces a known session type at most once, whatever is
\* sent again and whatever fails to be sent: when the type is in the channel of capacity
\* one, nothing is left that would announce it again.
THEOREM AnnouncedOnce == Spec => []TypeIsAnnouncedOnce
<1>1. Init => AnnounceInv
  <2>1. Init => ~Announced
    BY ChannelContents DEF Init
  <2> QED
    BY <2>1 DEF Init, AnnounceInv
<1>2. IInv /\ IInv' /\ AnnounceInv /\ [Next]_vars => AnnounceInv'
  BY StepKeepsAnnounce DEF IInv
<1>3. AnnounceInv => TypeIsAnnouncedOnce
  BY Zenon DEF AnnounceInv, TypeIsAnnouncedOnce, CallsFirst, Announced, HandshakePassed
<1> QED
  BY <1>1, <1>2, <1>3, Invariance, PTL DEF Spec

-----------------------------------------------------------------------------
(* The refinement: what each step means to the user. *)

\* Finishing with a message shows it, or skips it, or changes nothing abstract.
LEMMA FinishRefines ==
  ASSUME NEW result, NEW shows \in BOOLEAN, Finish(result, shows),
         ExpectedSequenceNumber \in Nat,
         ~shows => "session" \notin HandlersInUse
  PROVE  Output!Next
<1>1. ExpectedSequenceNumber' \in {ExpectedSequenceNumber, ExpectedSequenceNumber + 1}
  BY DEF Finish, PassBuffered, PassReceived, LeaveForResend, MoveOn
<1>2. CASE shows
  BY <1>1, <1>2 DEF Finish, Output!Next, Output!Show
<1>3. CASE ~shows
  BY <1>1, <1>3 DEF Finish, Output!Next, Output!Skip, Output!Idle
<1> QED
  BY <1>2, <1>3

\* Giving a message to the handlers does what the abstract receiver may do.
LEMMA PassRefines ==
  ASSUME SessionOutcomes = {"ready"}, IInv, DecryptAndPass,
         ~CallsFirst, ExpectedSequenceNumber \in Nat
  PROVE  Output!Next
<1> SUFFICES ASSUME PassToHandlers PROVE Output!Next
  BY DEF DecryptAndPass, DecryptFails, streamVars, Output!Next, Output!Idle
<1>1. CASE NoHandler
  <2>1. "session" \notin HandlersInUse
    BY <1>1 DEF NoHandler, HandlersInUse, IInv, HandlerInv
  <2> QED
    BY <1>1, <2>1, FinishRefines DEF PassToHandlers
<1>2. CASE UNCHANGED streamVars
  BY <1>2 DEF streamVars, Output!Next, Output!Idle
<1>3. CASE Finish("ready", TRUE)
  BY <1>3, FinishRefines
<1> QED
  BY <1>1, <1>2, <1>3 DEF PassToHandlers

\* Every step of the receiving side is a step of OrderedOutput or a stutter.
LEMMA StepRefines ==
  ASSUME SessionOutcomes = {"ready"}, IInv, [Next]_vars
  PROVE  [Output!Next]_(Output!vars)
<1>0. ExpectedSequenceNumber \in Nat
  BY StreamAssumption DEF IInv, TypeOK
<1>1. CASE UNCHANGED <<ExpectedSequenceNumber, displayed>>
  BY <1>1 DEF Output!Next, Output!Idle
<1>2. ASSUME NEW k \in SeqNos, Receive(k)
      PROVE  Output!Next
  <2>1. listener = "reading"
    BY <1>2 DEF Receive, ReceiveOld, ReceiveAhead, ReceiveHandshakeRequest,
                ReceiveEncChallengeRequest, ReceiveHandshakeComplete, ReceiveData, Read
  <2>2. CASE ReceiveData(k)
    BY <1>0, <2>1, <2>2, PassRefines DEF ReceiveData, CallsFirst
  <2>3. CASE UNCHANGED <<ExpectedSequenceNumber, displayed>>
    BY <2>3 DEF Output!Next, Output!Idle
  <2>4. CASE /\ k = ExpectedSequenceNumber /\ Kind[k] \in Control
             /\ ExpectedSequenceNumber' = ExpectedSequenceNumber + 1
             /\ displayed' = displayed
    BY <2>4 DEF Output!Next, Output!Skip
  <2> QED
    BY <1>2, <2>2, <2>3, <2>4
       DEF Receive, ReceiveOld, ReceiveAhead, ReceiveHandshakeRequest,
           ReceiveEncChallengeRequest, ReceiveHandshakeComplete, AckFails, Answer, MoveOn,
           streamVars, Control, Asking
<1>3. CASE ProcessBufferItem
  BY <1>0, <1>3, PassRefines DEF ProcessBufferItem, CallsFirst
<1>4. CASE ProcessFirstMessage
  <2>1. CASE "session" \in ranged
    <3>1. Finish("ready", TRUE)
      BY <1>4, <2>1 DEF ProcessFirstMessage
    <3> QED
      BY <1>0, <3>1, FinishRefines
  <2>2. CASE "session" \notin ranged
    <3>1. \E shows \in BOOLEAN : Finish("ready", shows)
      BY <1>4, <2>2 DEF ProcessFirstMessage
    <3>2. "session" \notin HandlersInUse
      BY <1>4, <2>2 DEF ProcessFirstMessage, HandlersInUse, CallsFirst
    <3> QED
      BY <1>0, <3>1, <3>2, FinishRefines
  <2> QED
    BY <2>1, <2>2
<1>5. CASE \/ AgentSend
           \/ \E k \in SeqNos : AgentResend(k) \/ AckArrives(k) \/ Lose(k)
           \/ Execute \/ FindHandler
           \/ UNCHANGED vars
  BY <1>1, <1>5
     DEF FindHandler, AgentSend, AgentResend, AckArrives, Lose, Execute, TakeSessionType,
         SetSessionSpecificHandler, ReadHandlers, AppendHandler, vars, streamVars
<1> QED
  BY <1>2, <1>3, <1>4, <1>5 DEF Next, Listener

\* With a handler that is always ready, the listener delivers in order and skips
\* no data while the handler is in use.
THEOREM DeliveryCorrect ==
  ASSUME SessionOutcomes = {"ready"}
  PROVE  Spec => DeliversInOrder
<1>1. Init => Output!Init
  BY DEF Init, Output!Init, HandlersInUse, CallsFirst
<1>2. IInv /\ [Next]_vars => [Output!Next]_(Output!vars)
  BY StepRefines
<1> QED
  BY <1>1, <1>2, Invariance, PTL DEF Spec, DeliversInOrder, Output!Spec
=============================================================================
