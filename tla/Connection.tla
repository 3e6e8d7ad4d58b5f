------------------------------- MODULE Connection -------------------------------
(***************************************************************************)
(* The websocket under the data channel: WebSocketChannel's Open, Close,   *)
(* SendMessage, ping and listening goroutines, and the session's opening,  *)
(* resuming and reopening of it through the retryer.                       *)
(*                                                                         *)
(* The fields of WebSocketChannel are shared by all those goroutines, and  *)
(* none is protected: Open replaces the write mutex itself.  A call of     *)
(* WebSocketChannel.Open is known by its number; so are the mutex it       *)
(* makes, the connection it dials, and the goroutines it starts.           *)
(***************************************************************************)
EXTENDS Integers, FiniteSets

CONSTANTS
    Senders,          \* goroutines that call SendMessage
    MaxOpens,         \* bound: how often WebSocketChannel.Open is called
    Pinged,           \* bound: the calls of Open whose goroutine pings
    MaxRetries,       \* config.DataChannelNumMaxRetries
    RetryAttempt,     \* config.RetryAttempt
    ResumeOutcomes,   \* what ResumeSession answers: "token", "error", "timedOut"
    DialOutcomes      \* may dialing succeed, fail?

Opens == 1 .. MaxOpens

ASSUME ConnectionAssumption ==
    /\ MaxOpens \in Nat
    /\ Pinged \subseteq Opens
    /\ MaxRetries \in Nat
    /\ RetryAttempt \in Nat \ {0}
    /\ ResumeOutcomes \subseteq {"token", "error", "timedOut"}
    /\ DialOutcomes \subseteq BOOLEAN

Main        == <<"main", 0>>
Listener(c) == <<"listener", c>>
Pinger(c)   == <<"pinger", c>>
Listeners   == {Listener(c) : c \in Opens}
Pingers     == {Pinger(c) : c \in Pinged}
Openers     == {Main} \cup Listeners
Writers     == {<<"sender", s>> : s \in Senders} \cup Pingers \cup Openers

VARIABLES
    Connection,       \* the number of the current connection, 0 for nil
    IsOpen,
    writeLock,        \* the number of the current mutex, 0 for nil
    OnErrorSet,       \* is OnError not nil?
    locked,           \* the mutexes that are locked
    opens,            \* how often WebSocketChannel.Open was called
    lost,             \* connections the network or the service has broken
    closed,           \* connections closed on this side
    pc,               \* where each opener is
    failures,         \* failed calls of the retryer's function; -1 before Call
    opening,          \* the number of the Open it is executing
    readOn,           \* the connection a listener's ReadMessage runs on, or 0
    retryCount,       \* a listener's consecutive read errors
    writing,          \* where each writer's SendMessage is
    program,          \* running, ended by os.Exit, or by the runtime's fatal error
    abandoned,        \* history: the connections whose handshake failed
    rivals            \* history: have two goroutines ever been replacing the
                      \* connection at the same time?

channelVars == <<Connection, IsOpen, writeLock, OnErrorSet, opens>>
networkVars == <<lost, closed>>
openerVars  == <<pc, failures, opening, readOn, retryCount>>
writerVars  == <<locked, writing, program>>
historyVars == <<abandoned, rivals>>
vars == <<channelVars, networkVars, openerVars, writerVars, historyVars>>

Running == program = "running"
Dead(c) == c \in lost \cup closed

\* Has the connection of this call of Open been dialed?  Then its listener was started.
Dialed(c) == pc[Listener(c)] # "none"

Idle    == [at |-> "idle", mutex |-> 0, on |-> 0]
Gone    == [at |-> "none", mutex |-> 0, on |-> 0]

Init ==
    /\ Connection = 0 /\ IsOpen = FALSE /\ writeLock = 0
    /\ OnErrorSet = FALSE
    /\ opens = 0 /\ lost = {} /\ closed = {} /\ locked = {}
    /\ pc = [g \in Openers |-> IF g = Main THEN "locking" ELSE "none"]
    /\ failures = [g \in Openers |-> IF g = Main THEN -1 ELSE 0]
    /\ opening = [g \in Openers |-> 0]
    /\ readOn = [g \in Listeners |-> 0]
    /\ retryCount = [g \in Listeners |-> 0]
    /\ writing = [g \in Writers |-> IF g \in Pingers THEN Gone ELSE Idle]
    /\ program = "running"
    /\ abandoned = {} /\ rivals = FALSE

-----------------------------------------------------------------------------
(* Writing: SendMessage, and the same statements in the ping goroutine. *)

\* Writers that send whenever they like; an opener sends only its handshake.
MaySend(g) == g \in Openers => pc[g] = "handshaking"

\* SendMessage finds the channel open.
BeginWrite(g) ==
    /\ Running /\ writing[g].at = "idle" /\ MaySend(g) /\ IsOpen
    /\ writing' = [writing EXCEPT ![g].at = "open"]
    /\ UNCHANGED <<channelVars, networkVars, openerVars, historyVars, locked, program>>

\* It waits for the mutex that is in the field at this moment.
ReadLock(g) ==
    /\ Running /\ writing[g].at = "open"
    /\ writing' = [writing EXCEPT ![g].at = "waiting", ![g].mutex = writeLock]
    /\ UNCHANGED <<channelVars, networkVars, openerVars, historyVars, locked, program>>

\* It gets the mutex and calls WriteMessage on the connection of this moment.
Acquire(g) ==
    /\ Running /\ writing[g].at = "waiting"
    /\ writing[g].mutex \notin locked
    /\ locked' = locked \cup {writing[g].mutex}
    /\ writing' = [writing EXCEPT ![g] = [at |-> "writing", mutex |-> 0, on |-> Connection]]
    /\ UNCHANGED <<channelVars, networkVars, openerVars, historyVars, program>>

\* What becomes of the writer: a ping that failed is the last one; an opener
\* has its handshake's result; the others may send again.
AfterWrite(g) ==
    IF g \in Pingers /\ Dead(writing[g].on) THEN Gone
    ELSE IF g \in Openers
         THEN [Idle EXCEPT !.at = IF Dead(writing[g].on) THEN "failed" ELSE "written"]
         ELSE Idle

\* WriteMessage returns and the mutex that is in the field by now is unlocked;
\* unlocking one that is not locked ends the program.
Release(g) ==
    /\ Running /\ writing[g].at = "writing"
    /\ \/ /\ writeLock \in locked
          /\ locked' = locked \ {writeLock}
          /\ writing' = [writing EXCEPT ![g] = AfterWrite(g)]
          /\ UNCHANGED program
       \/ /\ writeLock \notin locked
          /\ program' = "fatal"
          /\ UNCHANGED <<locked, writing>>
    /\ UNCHANGED <<channelVars, networkVars, openerVars, historyVars>>

\* SendMessage on a closed channel: a ping goroutine ends, a handshake fails.
FindClosed(g) ==
    /\ Running /\ g \in Pingers \cup Openers
    /\ writing[g].at = "idle" /\ MaySend(g) /\ ~IsOpen
    /\ writing' = [writing EXCEPT ![g] =
                       IF g \in Pingers THEN Gone ELSE [Idle EXCEPT !.at = "failed"]]
    /\ UNCHANGED <<channelVars, networkVars, openerVars, historyVars, locked, program>>

-----------------------------------------------------------------------------
(* Opening: DataChannel.Open and Reconnect, called by the session at the   *)
(* start and by a listener whose reads keep failing.                        *)

\* GetResumeSessionParams, for a listener; at the start there is a token.
Resume(g) ==
    /\ Running /\ pc[g] = "resuming"
    /\ \E outcome \in ResumeOutcomes :
          /\ program' = IF outcome = "timedOut" THEN "exited" ELSE program
          /\ pc' = [pc EXCEPT ![g] = CASE outcome = "token"    -> "closing"
                                       [] outcome = "error"    -> "failed"
                                       [] outcome = "timedOut" -> "ended"]
    /\ UNCHANGED <<channelVars, networkVars, failures, opening, readOn, retryCount, locked,
                   writing, historyVars>>

\* Mutant of Close: the channel is marked closed, the connection is not.
MarkClosed(g) ==
    /\ Running /\ pc[g] = "closing"
    /\ IsOpen' = FALSE
    /\ pc' = [pc EXCEPT ![g] = "locking"]
    /\ UNCHANGED <<Connection, writeLock, OnErrorSet, opens, networkVars, failures, opening,
                   readOn, retryCount, writerVars, historyVars>>

\* Close does nothing when the channel is already closed.
Close(g) ==
    /\ Running /\ pc[g] = "closing"
    /\ IsOpen' = FALSE
    /\ closed' = IF IsOpen THEN closed \cup {Connection} ELSE closed
    /\ pc' = [pc EXCEPT ![g] = "locking"]
    /\ rivals' = (rivals \/ \E h \in Openers \ {g} : pc[h] \in {"locking", "dialing"})
    /\ UNCHANGED <<Connection, writeLock, OnErrorSet, opens, lost, failures, opening, readOn,
                   retryCount, writerVars, abandoned>>

\* Open replaces the mutex, whoever holds or waits for the one before.
NewLock(g) ==
    /\ Running /\ pc[g] = "locking"
    /\ opens < MaxOpens
    /\ opens' = opens + 1
    /\ writeLock' = opens'
    /\ opening' = [opening EXCEPT ![g] = opens']
    /\ pc' = [pc EXCEPT ![g] = "dialing"]
    /\ UNCHANGED <<Connection, IsOpen, OnErrorSet, networkVars, failures, readOn, retryCount,
                   writerVars, historyVars>>

\* The connection is dialed and published, and its two goroutines started.
Dial(g) ==
    /\ Running /\ pc[g] = "dialing"
    /\ TRUE \in DialOutcomes
    /\ Connection' = opening[g]
    /\ IsOpen' = TRUE
    /\ pc' = [pc EXCEPT ![g] = "handshaking", ![Listener(opening[g])] = "listening"]
    /\ writing' = [w \in Writers |-> IF w = Pinger(opening[g]) THEN Idle ELSE writing[w]]
    /\ UNCHANGED <<writeLock, OnErrorSet, opens, networkVars, failures, opening, readOn,
                   retryCount, locked, program, historyVars>>

DialFails(g) ==
    /\ Running /\ pc[g] = "dialing"
    /\ FALSE \in DialOutcomes
    /\ pc' = [pc EXCEPT ![g] = "failed"]
    /\ UNCHANGED <<channelVars, networkVars, failures, opening, readOn, retryCount, writerVars,
                   historyVars>>

\* Mutant of Finished: a listener goes on listening after OnError.
ListenOn(g) == pc' = [pc EXCEPT ![g] = IF g = Main THEN "setting" ELSE "listening"]

\* After the retryer's Call, whether or not there is a connection: OpenDataChannel
\* goes on, a listener ends.
Finished(g) == pc' = [pc EXCEPT ![g] = IF g = Main THEN "setting" ELSE "ended"]

\* FinalizeDataChannelHandshake returns.  When it failed, the connection's goroutines
\* go on, and so does the goroutine that opened it.
Handshake(g) ==
    /\ Running /\ pc[g] = "handshaking"
    /\ writing' = [writing EXCEPT ![g] = Idle]
    /\ \/ writing[g].at = "written" /\ Finished(g) /\ UNCHANGED abandoned
       \/ /\ writing[g].at = "failed"
          /\ pc' = [pc EXCEPT ![g] = "failed"]
          /\ abandoned' = abandoned \cup {opening[g]}
    /\ UNCHANGED <<channelVars, networkVars, failures, opening, readOn, retryCount, locked,
                   program, rivals>>

\* Mutant of Retry: the limit is compared with the calls, not with the failures
\* before this one.
RetryOnceMore(g) ==
    /\ Running /\ pc[g] = "failed"
    /\ failures' = [failures EXCEPT ![g] = @ + 1]
    /\ IF failures[g] > MaxRetries THEN Finished(g)
       ELSE pc' = [pc EXCEPT ![g] = IF g = Main THEN "closing" ELSE "resuming"]
    /\ UNCHANGED <<channelVars, networkVars, opening, readOn, retryCount, writerVars,
                   historyVars>>

\* The retryer calls its function again, or gives up without telling anyone.
Retry(g) ==
    /\ Running /\ pc[g] = "failed"
    /\ failures' = [failures EXCEPT ![g] = @ + 1]
    /\ IF failures[g] = MaxRetries THEN Finished(g)
       ELSE pc' = [pc EXCEPT ![g] = IF g = Main THEN "closing" ELSE "resuming"]
    /\ UNCHANGED <<channelVars, networkVars, opening, readOn, retryCount, writerVars,
                   historyVars>>

\* Only now does OpenDataChannel set OnError; the listeners have been running.
SetOnError ==
    /\ Running /\ pc[Main] = "setting"
    /\ OnErrorSet' = TRUE
    /\ pc' = [pc EXCEPT ![Main] = "opened"]
    /\ UNCHANGED <<Connection, IsOpen, writeLock, opens, networkVars, failures, opening,
                   readOn, retryCount, writerVars, historyVars>>

Open(g) == Resume(g) \/ Close(g) \/ NewLock(g) \/ Dial(g) \/ DialFails(g)
              \/ Handshake(g) \/ Retry(g)

-----------------------------------------------------------------------------
(* Listening: the goroutine that Open starts. *)

\* The listener ends, or reads from the connection of this moment.
CheckOpen(l) ==
    /\ Running /\ pc[l] = "listening"
    /\ pc' = [pc EXCEPT ![l] = IF IsOpen THEN "reading" ELSE "ended"]
    /\ readOn' = IF IsOpen THEN [readOn EXCEPT ![l] = Connection] ELSE readOn
    /\ UNCHANGED <<channelVars, networkVars, failures, opening, retryCount, writerVars,
                   historyVars>>

\* A message arrives and OnMessage handles it.
ReadMessage(l) ==
    /\ Running /\ pc[l] = "reading"
    /\ ~Dead(readOn[l])
    /\ readOn' = [readOn EXCEPT ![l] = 0]
    /\ retryCount' = [retryCount EXCEPT ![l] = 0]
    /\ pc' = [pc EXCEPT ![l] = "listening"]
    /\ UNCHANGED <<channelVars, networkVars, failures, opening, writerVars, historyVars>>

\* OnMessage panics over the message: the listener recovers and ends; the channel
\* stays open.
MessagePanics(l) ==
    /\ Running /\ pc[l] = "reading"
    /\ ~Dead(readOn[l])
    /\ readOn' = [readOn EXCEPT ![l] = 0]
    /\ retryCount' = [retryCount EXCEPT ![l] = 0]
    /\ pc' = [pc EXCEPT ![l] = "panicked"]
    /\ UNCHANGED <<channelVars, networkVars, failures, opening, writerVars, historyVars>>

\* Mutant of ReadFails: the failures are never counted.
Reread(l) ==
    /\ Running /\ pc[l] = "reading"
    /\ Dead(readOn[l])
    /\ readOn' = [readOn EXCEPT ![l] = 0]
    /\ retryCount' = [retryCount EXCEPT ![l] = 0]
    /\ pc' = [pc EXCEPT ![l] = "listening"]
    /\ UNCHANGED <<channelVars, networkVars, failures, opening, writerVars, historyVars>>

\* Mutant of ReadFails: the listener ends at the limit without calling OnError.
EndQuietly(l) ==
    /\ Running /\ pc[l] = "reading"
    /\ Dead(readOn[l])
    /\ readOn' = [readOn EXCEPT ![l] = 0]
    /\ retryCount' = [retryCount EXCEPT ![l] = @ + 1]
    /\ pc' = [pc EXCEPT ![l] = IF retryCount'[l] < RetryAttempt THEN "listening"
                               ELSE "ended"]
    /\ UNCHANGED <<channelVars, networkVars, failures, opening, writerVars, historyVars>>

\* The read fails.  The last allowed failure calls OnError: the listener turns
\* opener, or, when OnError is still nil, ends in the panic it recovers from.
ReadFails(l) ==
    /\ Running /\ pc[l] = "reading"
    /\ Dead(readOn[l])
    /\ readOn' = [readOn EXCEPT ![l] = 0]
    /\ retryCount' = [retryCount EXCEPT ![l] = @ + 1]
    /\ pc' = [pc EXCEPT ![l] = IF retryCount'[l] < RetryAttempt THEN "listening"
                               ELSE IF OnErrorSet THEN "resuming" ELSE "panicked"]
    /\ UNCHANGED <<channelVars, networkVars, failures, opening, writerVars, historyVars>>

Listen(l) == CheckOpen(l) \/ ReadMessage(l) \/ MessagePanics(l) \/ ReadFails(l)

-----------------------------------------------------------------------------
\* The network or the service breaks a connection, at any time after it was dialed.
Lose(c) ==
    /\ Running /\ Dialed(c) /\ ~Dead(c)
    /\ lost' = lost \cup {c}
    /\ UNCHANGED <<channelVars, closed, openerVars, writerVars, historyVars>>

Write(g) == BeginWrite(g) \/ ReadLock(g) \/ Acquire(g) \/ Release(g) \/ FindClosed(g)

Next ==
    \/ \E g \in Writers : Write(g)
    \/ \E g \in Openers : Open(g)
    \/ SetOnError
    \/ \E l \in Listeners : Listen(l)
    \/ \E c \in Opens : Lose(c)

Spec == Init /\ [][Next]_vars

\* Goroutines are scheduled, and calls of the service and of the retryer return;
\* messages, pings and losses need not come.
FairSpec ==
    /\ Spec
    /\ \A g \in Openers : WF_vars(Open(g))
    /\ \A l \in Listeners : WF_vars(CheckOpen(l) \/ ReadFails(l))

-----------------------------------------------------------------------------
(* Properties. *)

\* Every variable has its type.
TypeOK ==
    /\ {Connection, writeLock, opens} \subseteq 0 .. MaxOpens
    /\ {IsOpen, OnErrorSet, rivals} \subseteq BOOLEAN
    /\ lost \subseteq Opens /\ closed \subseteq Opens /\ locked \subseteq Opens
    /\ abandoned \subseteq Opens
    /\ pc \in [Openers -> {"none", "listening", "reading", "resuming", "closing", "locking",
                           "dialing", "handshaking", "failed", "setting", "opened",
                           "panicked", "ended"}]
    /\ failures \in [Openers -> -1 .. MaxRetries + 1]
    /\ opening \in [Openers -> 0 .. MaxOpens]
    /\ readOn \in [Listeners -> 0 .. MaxOpens]
    /\ retryCount \in [Listeners -> 0 .. RetryAttempt]
    /\ writing \in [Writers -> [at : {"none", "idle", "open", "waiting", "writing", "written",
                                     "failed"},
                                mutex : 0 .. MaxOpens, on : 0 .. MaxOpens]]
    /\ program \in {"running", "exited", "fatal"}

\* The goroutines that will read from the current connection or replace it.
InCharge == {g \in Openers : pc[g] \in {"listening", "reading", "resuming", "closing",
                                        "locking", "dialing", "failed"}}

\* The websocket library's demand on readers is that a connection has one at a time,
\* and a listener reads from whatever connection is current; two reconnecting
\* goroutines close and replace one another's connections.  Each handshake that failed
\* adds one goroutine to the one in charge, as the connection's listener and whoever
\* opened it both go on; nothing else does, whenever connections are lost.
OneInCharge == Cardinality(InCharge) <= 1 + Cardinality(abandoned)

\* The library's demand on writers: a connection has at most one concurrent writer.
\* The mutex is to ensure it, for pings, handshakes and messages.
OneWriterPerConnection ==
    \A g, h \in Writers :
        /\ writing[g].at = "writing" /\ writing[h].at = "writing"
        /\ writing[g].on = writing[h].on
        => g = h

\* No connection is leaked, also when its handshake failed: one that was replaced has
\* been closed, unless two goroutines were replacing the connection at the same time.
ReplacedIsClosed ==
    ~rivals => \A c \in Opens : Dialed(c) /\ c # Connection => c \in closed

\* An open channel has its own connection's listener, which reads from that connection
\* or is about to replace it, unless the retryer gave that up or the listener ended in
\* a panic: over a message, or over OnError, which is nil until the session is set up.
SomeoneListens ==
    Running /\ IsOpen =>
        LET l == Listener(Connection)
        IN  \/ pc[l] \in {"listening", "resuming", "closing", "failed", "panicked"}
            \/ pc[l] = "reading" /\ readOn[l] = Connection
            \/ pc[l] = "ended" /\ failures[l] > MaxRetries

\* As long as every handshake has succeeded, only a connection that was lost is closed:
\* a reconnection never takes down a connection that works.
WorkingConnectionIsKept ==
    [][abandoned = {} => \A c \in closed' \ closed : c \in lost]_vars

\* Has the retryer given up?
OutOfRetries == \E g \in Openers : failures[g] > MaxRetries

\* A session that loses its connection gets another one, or is out of retries, or has
\* ended, unless its listener ended in a panic.  (MaxOpens bounds the model only.)
LostConnectionIsReplaced ==
    Connection \in lost ~>
        \/ Connection \notin lost \/ OutOfRetries \/ ~Running
        \/ pc[Listener(Connection)] = "panicked"
        \/ opens = MaxOpens

=============================================================================
