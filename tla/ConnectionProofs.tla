--------------------------- MODULE ConnectionProofs ---------------------------
(***************************************************************************)
(* The safety properties of Connection, for any number of senders, calls   *)
(* of Open, retries and failing reads.                                     *)
(*                                                                         *)
(* Connections are lost at any moment.  The main argument counts the       *)
(* goroutines in charge of the connection: a step that adds one is a       *)
(* handshake that fails, and its connection is added to the abandoned ones *)
(* by the same step.  While none has failed, one goroutine at a time reads *)
(* or reconnects, and what it closes is lost.                              *)
(***************************************************************************)
EXTENDS Connection, FiniteSetTheorems, TLAPS

\* Is a listener in its loop?
Active(l) == pc[l] \in {"listening", "reading"}

\* Does it have a connection to publish or to hand the token to?
Holding(g) == pc[g] \in {"dialing", "handshaking"}

\* Is it between closing a connection and publishing the next one?
Replacing(g) == pc[g] \in {"locking", "dialing"}

\* The numbers given to calls of Open: each is dialed at most once, so its listener
\* is started at most once; each handshake fails at most once.
NumberInv ==
    /\ writeLock = opens
    /\ Connection <= opens
    /\ IsOpen => Connection \in Opens
    /\ \A c \in Opens : c > opens => pc[Listener(c)] = "none"
    /\ \A c \in abandoned : c <= opens
    /\ \A g \in Openers : Holding(g) => opening[g] \in 1 .. opens /\ opening[g] \notin abandoned
    /\ \A g \in Openers : pc[g] = "dialing" => pc[Listener(opening[g])] = "none"
    /\ \A g, h \in Openers : Holding(g) /\ Holding(h) /\ opening[g] = opening[h] => g = h

\* What is counted and waited for.
CountInv ==
    /\ \A l \in Listeners : /\ pc[l] = "none" => retryCount[l] = 0
                            /\ Active(l) => retryCount[l] < RetryAttempt
    /\ \A g \in Openers : failures[g] > MaxRetries => pc[g] \in {"setting", "opened", "ended"}
    /\ \A g \in Writers : /\ writing[g].at = "open" => opens > 0
                          /\ writing[g].at = "waiting" => writing[g].mutex \in Opens

TInv == TypeOK /\ NumberInv /\ CountInv

\* The state of the connections, replaced, closed and lost.
ClosedInv ==
    /\ IsOpen => Connection \notin closed
    /\ ~IsOpen => Connection = 0 \/ Connection \in closed
    /\ Connection # 0 => Dialed(Connection)
    /\ \A c \in lost \cup closed : Dialed(c)

\* Without rivals, one goroutine replaces a connection, and the channel is closed
\* meanwhile.
RivalsInv ==
    ~rivals => /\ \A g \in Openers : Replacing(g) => ~IsOpen
               /\ \A g, h \in Openers : Replacing(g) /\ Replacing(h) => g = h

\* What a goroutine in charge has before it: a listener the current connection, a
\* reconnecting goroutine one that was lost.
Justified(g) ==
    /\ Active(g) => IsOpen /\ g = Listener(Connection)
    /\ pc[g] = "reading" => readOn[g] = Connection
    /\ Replacing(g) => ~IsOpen
    /\ pc[g] \in {"resuming", "closing", "failed"} /\ IsOpen => Connection \in lost

KeptInv == abandoned = {} => \A g \in Openers : Justified(g)

-----------------------------------------------------------------------------
(* The types in the parts that the actions change separately. *)

ChannelType ==
    /\ Connection \in 0 .. MaxOpens /\ writeLock \in 0 .. MaxOpens
    /\ opens \in 0 .. MaxOpens
    /\ IsOpen \in BOOLEAN /\ OnErrorSet \in BOOLEAN /\ rivals \in BOOLEAN
    /\ lost \subseteq Opens /\ closed \subseteq Opens /\ abandoned \subseteq Opens

PcType ==
    /\ pc \in [Openers -> {"none", "listening", "reading", "resuming", "closing", "locking",
                           "dialing", "handshaking", "failed", "setting", "opened",
                           "panicked", "ended"}]
    /\ opening \in [Openers -> 0 .. MaxOpens]

OpenerType ==
    /\ failures \in [Openers -> -1 .. MaxRetries + 1]
    /\ readOn \in [Listeners -> 0 .. MaxOpens]
    /\ retryCount \in [Listeners -> 0 .. RetryAttempt]
    /\ program \in {"running", "exited", "fatal"}

Slot == [at : {"none", "idle", "open", "waiting", "writing", "written", "failed"},
         mutex : 0 .. MaxOpens, on : 0 .. MaxOpens]

WriterType ==
    /\ locked \subseteq Opens
    /\ writing \in [Writers -> Slot]

\* The type invariant is these four parts.
LEMMA TypeParts == TypeOK <=> ChannelType /\ PcType /\ OpenerType /\ WriterType
BY DEF TypeOK, ChannelType, PcType, OpenerType, WriterType, Slot

\* The same for the next state.
LEMMA TypePartsPrime == TypeOK' <=> (ChannelType /\ PcType /\ OpenerType /\ WriterType)'
BY DEF TypeOK, ChannelType, PcType, OpenerType, WriterType, Slot

-----------------------------------------------------------------------------
(* The goroutines' names, which stay folded from here on. *)

\* A call of Open names its own listener and its own ping goroutine; the main
\* goroutine is no listener, and a ping goroutine opens nothing.
LEMMA Names ==
  /\ Openers = {Main} \cup Listeners
  /\ Main \notin Listeners
  /\ \A c \in Opens : Listener(c) \in Listeners
  /\ \A l \in Listeners : \E c \in Opens : l = Listener(c)
  /\ \A c, d \in Opens : Listener(c) = Listener(d) => c = d
  /\ \A c \in Opens : Pinger(c) \notin Openers
  /\ Pingers \cap Openers = {}
  /\ Pingers \subseteq Writers /\ Openers \subseteq Writers
BY DEF Openers, Main, Listeners, Listener, Pingers, Pinger, Writers

\* Before the first call of Open there are no goroutines but the main one.
LEMMA InitTInv == Init => TInv
<1> SUFFICES ASSUME Init PROVE TInv
  OBVIOUS
<1> USE ConnectionAssumption, Names DEF Init
<1>1. ChannelType /\ PcType
  <2>1. ChannelType
    <3>1. IsOpen \in BOOLEAN /\ OnErrorSet \in BOOLEAN /\ rivals \in BOOLEAN
      BY Zenon
    <3>2. lost \subseteq Opens /\ closed \subseteq Opens /\ abandoned \subseteq Opens
      OBVIOUS
    <3> QED
      BY <3>1, <3>2 DEF ChannelType
  <2>2. PcType
    BY DEF PcType
  <2> QED
    BY <2>1, <2>2
<1>2. OpenerType /\ WriterType
  BY DEF OpenerType, WriterType, Slot, Idle, Gone
<1>3. NumberInv
  BY DEF NumberInv, Holding, Opens
<1>4. CountInv
  BY DEF CountInv, Active, Idle, Gone
<1> QED
  BY <1>1, <1>2, <1>3, <1>4, TypeParts DEF TInv

\* SendMessage's steps change neither the openers nor the channel.
LEMMA WriteKeepsTInv ==
  ASSUME TInv, NEW g \in Writers, Write(g)
  PROVE  TInv'
<1> USE ConnectionAssumption, Names
<1>0. ChannelType /\ PcType /\ OpenerType /\ WriterType
  BY TypeParts DEF TInv
<1>1. UNCHANGED <<channelVars, networkVars, openerVars, historyVars>>
  BY DEF Write, BeginWrite, ReadLock, Acquire, Release, FindClosed
<1>2. ChannelType' /\ PcType'
  BY <1>0, <1>1 DEF ChannelType, PcType, channelVars, networkVars, openerVars, historyVars
<1>3. NumberInv'
  BY <1>1 DEF TInv, NumberInv, Holding, channelVars, openerVars, historyVars
<1>4. /\ \A l \in Listeners : /\ pc'[l] = "none" => retryCount'[l] = 0
                              /\ Active(l)' => retryCount'[l] < RetryAttempt
      /\ \A h \in Openers : failures'[h] > MaxRetries => pc'[h] \in {"setting", "opened", "ended"}
  BY <1>1 DEF TInv, CountInv, Active, openerVars
<1>5. program' \in {"running", "exited", "fatal"}
  BY <1>0 DEF OpenerType, Write, BeginWrite, ReadLock, Acquire, Release, FindClosed
<1>6. OpenerType'
  BY <1>0, <1>1, <1>5 DEF OpenerType, openerVars
<1>7. PICK r \in Slot : /\ writing' = [writing EXCEPT ![g] = r]
                        /\ r.at = "open" => opens > 0
                        /\ r.at = "waiting" => r.mutex \in Opens
  <2>0. /\ writing[g] \in Slot /\ Idle \in Slot /\ Gone \in Slot
        /\ writing[g].at = "open" => opens > 0
        /\ writing[g].at = "waiting" => writing[g].mutex \in Opens
    BY <1>0 DEF WriterType, Slot, Idle, Gone, TInv, CountInv
  <2>1. CASE BeginWrite(g)
    <3>1. opens > 0
      BY <1>0, <2>1 DEF BeginWrite, ChannelType, TInv, NumberInv, Opens
    <3>2. [writing[g] EXCEPT !.at = "open"] \in Slot
      BY <2>0 DEF Slot
    <3> QED
      BY <2>1, <3>1, <3>2 DEF BeginWrite, Slot
  <2>2. CASE ReadLock(g)
    <3>1. writeLock \in Opens
      <4>1. opens > 0 /\ writeLock = opens
        BY <2>0, <2>2 DEF ReadLock, TInv, NumberInv
      <4> QED
        BY <1>0, <4>1 DEF ChannelType, Opens
    <3>2. [writing[g] EXCEPT !.at = "waiting", !.mutex = writeLock] \in Slot
      BY <1>0, <2>0 DEF Slot, ChannelType
    <3>3. /\ [writing[g] EXCEPT !.at = "waiting", !.mutex = writeLock].mutex = writeLock
          /\ [writing[g] EXCEPT !.at = "waiting", !.mutex = writeLock].at = "waiting"
      BY <2>0 DEF Slot
    <3>4. writing' = [writing EXCEPT
                          ![g] = [writing[g] EXCEPT !.at = "waiting", !.mutex = writeLock]]
      BY <1>0, <2>2 DEF ReadLock, WriterType
    <3> QED
      BY <3>1, <3>2, <3>3, <3>4
  <2>3. CASE Acquire(g)
    <3>1. [at |-> "writing", mutex |-> 0, on |-> Connection] \in Slot
      BY <1>0 DEF ChannelType, Slot
    <3> QED
      BY <2>3, <3>1 DEF Acquire
  <2>4. CASE Release(g)
    <3>1. AfterWrite(g) \in {Gone, Idle, [Idle EXCEPT !.at = "failed"],
                             [Idle EXCEPT !.at = "written"]}
      BY DEF AfterWrite
    <3>2. AfterWrite(g) \in Slot /\ AfterWrite(g).at \notin {"open", "waiting"}
      BY <3>1 DEF Slot, Idle, Gone
    <3>3. writing' \in {[writing EXCEPT ![g] = writing[g]], [writing EXCEPT ![g] = AfterWrite(g)]}
      BY <1>0, <2>4 DEF Release, WriterType
    <3> QED
      BY <2>0, <3>2, <3>3
  <2>5. CASE FindClosed(g)
    <3>1. PICK r \in {Gone, [Idle EXCEPT !.at = "failed"]} : writing' = [writing EXCEPT ![g] = r]
      BY <2>5 DEF FindClosed
    <3>2. r \in Slot /\ r.at \notin {"open", "waiting"}
      BY <3>1 DEF Slot, Idle, Gone
    <3> QED
      BY <3>1, <3>2
  <2> QED
    BY <2>1, <2>2, <2>3, <2>4, <2>5 DEF Write
<1>8. locked' \subseteq Opens
  BY <1>0 DEF TInv, CountInv, WriterType, Write, BeginWrite, ReadLock, Acquire, Release, FindClosed
<1>9. WriterType'
  BY <1>0, <1>7, <1>8 DEF WriterType
<1>10. \A h \in Writers : /\ writing'[h].at = "open" => opens > 0
                          /\ writing'[h].at = "waiting" => writing'[h].mutex \in Opens
  <2>1. \A h \in Writers : writing'[h] = IF h = g THEN r ELSE writing[h]
    BY <1>0, <1>7 DEF WriterType
  <2> QED
    BY <1>7, <2>1 DEF TInv, CountInv
<1>11. CountInv'
  <2>1. opens' = opens
    BY <1>1 DEF channelVars
  <2> QED
    BY <1>4, <1>10, <2>1 DEF CountInv, Active
<1> QED
  BY <1>2, <1>3, <1>6, <1>9, <1>11, TypePartsPrime DEF TInv

\* Resuming, closing, failing to dial, the handshake's result, the retryer and setting
\* OnError move one opener, and never into the loop of a listener or to dialing.
LEMMA MoveKeepsTInv ==
  ASSUME TInv, NEW g \in Openers,
         \/ Resume(g) \/ Close(g) \/ DialFails(g) \/ Handshake(g) \/ Retry(g)
         \/ g = Main /\ SetOnError
  PROVE  TInv'
<1> USE ConnectionAssumption, Names
<1>0. ChannelType /\ PcType /\ OpenerType /\ WriterType
  BY TypeParts DEF TInv
<1>1. PICK at \in {"closing", "failed", "ended", "locking", "setting", "opened", "resuming"} :
          pc[g] # "none" /\ pc' = [pc EXCEPT ![g] = at]
  BY DEF Resume, Close, DialFails, Handshake, Retry, Finished, SetOnError
<1>2. /\ UNCHANGED <<Connection, writeLock, opens, opening, readOn, retryCount, locked, lost>>
      /\ IsOpen' \in {IsOpen, FALSE}
      /\ OnErrorSet' \in BOOLEAN
      /\ rivals' \in BOOLEAN
  BY <1>0 DEF Resume, Close, DialFails, Handshake, Retry, SetOnError, channelVars, networkVars,
              writerVars, historyVars, ChannelType
<1>3. closed' \subseteq Opens
  <2>1. CASE Close(g) /\ IsOpen
    BY <1>0, <2>1 DEF Close, ChannelType, TInv, NumberInv
  <2>2. CASE UNCHANGED closed
    BY <1>0, <2>2 DEF ChannelType
  <2> QED
    BY <2>1, <2>2 DEF Resume, Close, DialFails, Handshake, Retry, SetOnError, networkVars
<1>4. /\ failures' \in [Openers -> -1 .. MaxRetries + 1]
      /\ \A h \in Openers : failures'[h] > MaxRetries => pc'[h] \in {"setting", "opened", "ended"}
  <2>0. \A h \in Openers : pc'[h] = IF h = g THEN at ELSE pc[h]
    BY <1>0, <1>1 DEF PcType
  <2>1. CASE Retry(g)
    <3>1. failures[g] <= MaxRetries
      BY <1>0, <2>1 DEF Retry, OpenerType, TInv, CountInv
    <3>2. failures[g] + 1 \in -1 .. MaxRetries + 1
      BY <1>0, <3>1 DEF OpenerType
    <3>3. failures' = [failures EXCEPT ![g] = failures[g] + 1]
      BY <2>1 DEF Retry
    <3>4. failures' \in [Openers -> -1 .. MaxRetries + 1]
      BY <1>0, <3>2, <3>3 DEF OpenerType
    <3>5. failures'[g] > MaxRetries => pc'[g] \in {"setting", "ended"}
      BY <1>0, <2>1, <3>1, <3>3 DEF Retry, Finished, OpenerType, PcType
    <3>6. \A h \in Openers : h # g => failures'[h] = failures[h] /\ pc'[h] = pc[h]
      BY <1>0, <2>0, <3>3 DEF OpenerType
    <3> QED
      BY <3>4, <3>5, <3>6 DEF TInv, CountInv
  <2>2. CASE UNCHANGED failures /\ ~Retry(g)
    <3>1. failures[g] > MaxRetries => at = "opened"
      <4>1. CASE g = Main /\ SetOnError
        BY <1>0, <2>0, <4>1 DEF SetOnError, PcType
      <4>2. CASE Resume(g) \/ Close(g) \/ DialFails(g) \/ Handshake(g)
        BY <4>2 DEF Resume, Close, DialFails, Handshake, TInv, CountInv
      <4> QED
        BY <2>2, <4>1, <4>2
    <3> QED
      BY <1>0, <2>0, <2>2, <3>1 DEF OpenerType, TInv, CountInv
  <2> QED
    BY <2>1, <2>2 DEF Resume, Close, DialFails, Handshake, SetOnError
<1>5. program' \in {"running", "exited", "fatal"}
  BY <1>0 DEF Resume, Close, DialFails, Handshake, Retry, SetOnError, writerVars, OpenerType
<1>6. writing' \in {writing, [writing EXCEPT ![g] = Idle]}
  BY DEF Resume, Close, DialFails, Handshake, Retry, SetOnError, writerVars
<1>7. abandoned' \in {abandoned, abandoned \cup {opening[g]}}
      /\ (abandoned' # abandoned => pc[g] = "handshaking" /\ at = "failed")
  <2>1. CASE Handshake(g)
    BY <1>0, <1>1, <2>1 DEF Handshake, PcType
  <2>2. CASE UNCHANGED abandoned
    BY <2>2
  <2> QED
    BY <2>1, <2>2 DEF Resume, Close, DialFails, Retry, SetOnError, historyVars
<1>8. abandoned' \subseteq Opens /\ \A c \in abandoned' : c <= opens
  <2>1. pc[g] = "handshaking" => opening[g] \in 1 .. opens
    BY DEF TInv, NumberInv, Holding
  <2> QED
    BY <1>0, <1>7, <2>1 DEF ChannelType, Opens, TInv, NumberInv
<1>9. ChannelType' /\ OpenerType'
  BY <1>0, <1>2, <1>3, <1>4, <1>5, <1>8 DEF ChannelType, OpenerType
<1>10. PcType'
  BY <1>0, <1>1, <1>2 DEF PcType
<1>11. WriterType'
  BY <1>0, <1>2, <1>6 DEF WriterType, Slot, Idle
<1>12. NumberInv'
  <2>1. \A h \in Openers : pc'[h] = IF h = g THEN at ELSE pc[h]
    BY <1>0, <1>1 DEF PcType
  <2>2. \A c \in Opens : c > opens => pc'[Listener(c)] = "none"
    BY <1>1, <2>1 DEF TInv, NumberInv
  <2>3. \A h \in Openers : Holding(h)' => h # g /\ Holding(h) /\ pc'[h] = pc[h]
    BY <1>1, <2>1 DEF Holding
  <2>4. \A h \in Openers : Holding(h)' => opening[h] \in 1 .. opens /\ opening[h] \notin abandoned'
    <3>1. SUFFICES ASSUME NEW h \in Openers, Holding(h)'
                   PROVE  opening[h] \in 1 .. opens /\ opening[h] \notin abandoned'
      OBVIOUS
    <3>2. h # g /\ opening[h] \in 1 .. opens /\ opening[h] \notin abandoned
      BY <2>3, <3>1 DEF TInv, NumberInv
    <3>3. pc[g] = "handshaking" => opening[h] # opening[g]
      BY <2>3, <3>1, <3>2 DEF TInv, NumberInv, Holding
    <3> QED
      BY <1>7, <3>2, <3>3
  <2>5. \A h \in Openers : pc'[h] = "dialing" => pc'[Listener(opening[h])] = "none"
    <3>1. SUFFICES ASSUME NEW h \in Openers, pc'[h] = "dialing"
                   PROVE  pc'[Listener(opening[h])] = "none"
      OBVIOUS
    <3>2. pc[h] = "dialing" /\ opening[h] \in 1 .. opens /\ pc[Listener(opening[h])] = "none"
      BY <2>3, <3>1 DEF TInv, NumberInv, Holding
    <3>3. Listener(opening[h]) \in Openers
      BY <1>0, <3>2 DEF ChannelType, Opens
    <3> QED
      BY <1>1, <2>1, <3>2, <3>3
  <2>6. IsOpen' => Connection' \in Opens
    BY <1>2 DEF TInv, NumberInv
  <2>7. \A h, k \in Openers : Holding(h)' /\ Holding(k)' /\ opening[h] = opening[k] => h = k
    BY <2>3 DEF TInv, NumberInv
  <2> QED
    BY <1>2, <1>8, <2>2, <2>4, <2>5, <2>6, <2>7 DEF TInv, NumberInv
<1>13. CountInv'
  <2>1. \A l \in Listeners : /\ pc'[l] = "none" => retryCount'[l] = 0
                             /\ Active(l)' => retryCount'[l] < RetryAttempt
    BY <1>0, <1>1, <1>2 DEF PcType, TInv, CountInv, Active
  <2>2. \A h \in Writers : /\ writing'[h].at = "open" => opens > 0
                           /\ writing'[h].at = "waiting" => writing'[h].mutex \in Opens
    BY <1>0, <1>6 DEF WriterType, TInv, CountInv, Idle
  <2>3. opens' = opens
    BY <1>2
  <2> QED
    BY <1>4, <2>1, <2>2, <2>3 DEF CountInv, Active
<1> QED
  BY <1>9, <1>10, <1>11, <1>12, <1>13, TypePartsPrime DEF TInv

\* The mutex that Open makes, and with it the call, gets a new number.
LEMMA NewLockKeepsTInv ==
  ASSUME TInv, NEW g \in Openers, NewLock(g)
  PROVE  TInv'
<1> USE ConnectionAssumption, Names
<1>0. ChannelType /\ PcType /\ OpenerType /\ WriterType
  BY TypeParts DEF TInv
<1>1. opens' = opens + 1 /\ opens' \in Opens /\ writeLock' = opens'
  BY <1>0 DEF NewLock, ChannelType, Opens
<1>2. /\ opening' = [opening EXCEPT ![g] = opens']
      /\ pc' = [pc EXCEPT ![g] = "dialing"]
      /\ UNCHANGED <<Connection, IsOpen, OnErrorSet, lost, closed, failures, readOn,
                     retryCount, locked, writing, program, abandoned, rivals>>
  BY DEF NewLock, networkVars, writerVars, historyVars
<1>3. ChannelType'
  BY <1>0, <1>1, <1>2 DEF ChannelType, Opens
<1>4. PcType' /\ OpenerType' /\ WriterType'
  BY <1>0, <1>1, <1>2 DEF PcType, OpenerType, WriterType, Opens
<1>5. \A h \in Openers : /\ pc'[h] = IF h = g THEN "dialing" ELSE pc[h]
                         /\ opening'[h] = IF h = g THEN opens' ELSE opening[h]
  BY <1>0, <1>2 DEF PcType
<1>6. \A c \in Opens : c > opens => pc[Listener(c)] = "none"
  BY DEF TInv, NumberInv
<1>7. pc[g] = "locking" /\ \A c \in Opens : c > opens => Listener(c) # g
  BY <1>6 DEF NewLock
<1>8. \A c \in Opens : c > opens => pc'[Listener(c)] = "none"
  BY <1>5, <1>6, <1>7
<1>9. \A h \in Openers : h # g /\ Holding(h)' => /\ Holding(h) /\ opening'[h] = opening[h]
                                                /\ opening[h] \in 1 .. opens
                                                /\ opening[h] \notin abandoned
  BY <1>5 DEF TInv, NumberInv, Holding
<1>10. \A c \in abandoned : c <= opens
  BY DEF TInv, NumberInv
<1>11. \A h \in Openers : Holding(h)' => opening'[h] \in 1 .. opens' /\ opening'[h] \notin abandoned
  <2>1. opens' \notin abandoned /\ opens' \in 1 .. opens'
    BY <1>0, <1>1, <1>10 DEF ChannelType, Opens
  <2> QED
    BY <1>0, <1>1, <1>5, <1>9, <2>1 DEF ChannelType, Opens
<1>12. \A h \in Openers : pc'[h] = "dialing" => pc'[Listener(opening'[h])] = "none"
  <2>1. SUFFICES ASSUME NEW h \in Openers, pc'[h] = "dialing"
                 PROVE  pc'[Listener(opening'[h])] = "none"
    OBVIOUS
  <2>2. CASE h = g
    BY <1>0, <1>1, <1>5, <1>8, <2>2 DEF ChannelType
  <2>3. CASE h # g
    <3>1. opening[h] \in 1 .. opens /\ pc[Listener(opening[h])] = "none" /\ opening'[h] = opening[h]
      BY <1>5, <1>9, <2>1, <2>3 DEF TInv, NumberInv, Holding
    <3>2. Listener(opening[h]) \in Openers /\ Listener(opening[h]) # g
      BY <1>0, <1>7, <3>1 DEF ChannelType, Opens
    <3> QED
      BY <1>5, <3>1, <3>2
  <2> QED
    BY <2>2, <2>3
<1>13. \A h, k \in Openers :
           Holding(h)' /\ Holding(k)' /\ opening'[h] = opening'[k] => h = k
  <2>1. SUFFICES ASSUME NEW h \in Openers, NEW k \in Openers, Holding(h)', Holding(k)',
                        opening'[h] = opening'[k], h # k
                 PROVE  FALSE
    OBVIOUS
  <2>2. CASE h # g /\ k # g
    BY <1>9, <2>1, <2>2 DEF TInv, NumberInv
  <2>3. CASE h = g \/ k = g
    BY <1>0, <1>1, <1>5, <1>9, <2>1, <2>3 DEF ChannelType
  <2> QED
    BY <2>2, <2>3
<1>14. NumberInv'
  <2>1. Connection' <= opens' /\ (IsOpen' => Connection' \in Opens)
        /\ \A c \in abandoned' : c <= opens'
    BY <1>0, <1>1, <1>2 DEF TInv, NumberInv, ChannelType, Opens
  <2>2. \A c \in Opens : c > opens' => pc'[Listener(c)] = "none"
    BY <1>0, <1>1, <1>8 DEF ChannelType, Opens
  <2> QED
    BY <1>1, <1>2, <1>11, <1>12, <1>13, <2>1, <2>2 DEF NumberInv
<1>15. CountInv'
  <2>1. \A h \in Openers : failures'[h] > MaxRetries => pc'[h] \in {"setting", "opened", "ended"}
    BY <1>2, <1>5, <1>7 DEF TInv, CountInv
  <2>2. \A l \in Listeners : /\ pc'[l] = "none" => retryCount'[l] = 0
                             /\ Active(l)' => retryCount'[l] < RetryAttempt
    BY <1>2, <1>5 DEF TInv, CountInv, Active
  <2>3. \A h \in Writers : writing'[h].at = "open" => opens' > 0
    BY <1>0, <1>1 DEF ChannelType
  <2>4. \A h \in Writers : writing'[h].at = "waiting" => writing'[h].mutex \in Opens
    BY <1>2 DEF TInv, CountInv
  <2> QED
    BY <2>1, <2>2, <2>3, <2>4 DEF CountInv, Active
<1> QED
  BY <1>3, <1>4, <1>14, <1>15, TypePartsPrime DEF TInv

\* What Dial does to the goroutines: the opener goes on to its handshake, and the
\* listener of its call, which was not there, begins.
LEMMA DialStarts ==
  ASSUME TInv, NEW g \in Openers, Dial(g)
  PROVE  /\ opening[g] \in Opens /\ opening[g] <= opens
         /\ Listener(opening[g]) \in Listeners
         /\ pc[Listener(opening[g])] = "none" /\ g # Listener(opening[g])
         /\ \A h \in Openers : pc'[h] = IF h = g THEN "handshaking"
                                        ELSE IF h = Listener(opening[g]) THEN "listening"
                                        ELSE pc[h]
<1>0. ChannelType /\ PcType
  BY TypeParts DEF TInv
<1>1. opening[g] \in 1 .. opens /\ pc[Listener(opening[g])] = "none" /\ pc[g] = "dialing"
  BY DEF Dial, TInv, NumberInv, Holding
<1>2. opening[g] \in Opens /\ opening[g] <= opens
  BY <1>0, <1>1, ConnectionAssumption DEF ChannelType, Opens
<1>3. Listener(opening[g]) \in Listeners /\ Listener(opening[g]) \in Openers
  BY <1>2, Names
<1> QED
  BY <1>0, <1>1, <1>2, <1>3, Names DEF Dial, PcType

\* Dialing publishes a connection no other call of Open has.
LEMMA DialKeepsTInv ==
  ASSUME TInv, NEW g \in Openers, Dial(g)
  PROVE  TInv'
<1> USE ConnectionAssumption, Names
<1>0. ChannelType /\ PcType /\ OpenerType /\ WriterType
  BY TypeParts DEF TInv
<1>1. /\ opening[g] \in Opens /\ opening[g] <= opens
      /\ Listener(opening[g]) \in Listeners
      /\ pc[Listener(opening[g])] = "none" /\ g # Listener(opening[g])
  BY DialStarts
<1>2. \A h \in Openers : pc'[h] = IF h = g THEN "handshaking"
                                  ELSE IF h = Listener(opening[g]) THEN "listening"
                                  ELSE pc[h]
  BY DialStarts
<1>3. /\ Connection' = opening[g] /\ IsOpen' = TRUE
      /\ UNCHANGED <<writeLock, OnErrorSet, opens, lost, closed, failures, opening, readOn,
                     retryCount, locked, program, abandoned, rivals>>
      /\ pc[g] = "dialing"
  BY DEF Dial, networkVars, historyVars
<1>4. \A w \in Writers : writing'[w] \in {Idle, writing[w]}
  BY DEF Dial
<1>5. ChannelType' /\ OpenerType'
  BY <1>0, <1>1, <1>3 DEF ChannelType, OpenerType, Opens
<1>6. PcType'
  BY <1>0, <1>3 DEF Dial, PcType
<1>7. WriterType'
  <2>1. Idle \in Slot
    BY DEF Slot, Idle
  <2> QED
    BY <1>0, <1>3, <1>4, <2>1 DEF Dial, WriterType
<1>8. \A h \in Openers : Holding(h)' => Holding(h)
  BY <1>2, <1>3 DEF Holding
<1>9. \A h \in Openers : pc'[h] = "dialing" => pc'[Listener(opening[h])] = "none"
  <2>1. SUFFICES ASSUME NEW h \in Openers, pc'[h] = "dialing"
                 PROVE  pc'[Listener(opening[h])] = "none"
    OBVIOUS
  <2>2. h # g /\ pc[h] = "dialing"
    BY <1>2, <2>1
  <2>3. opening[h] \in 1 .. opens /\ pc[Listener(opening[h])] = "none" /\ opening[h] # opening[g]
    BY <1>3, <2>2 DEF TInv, NumberInv, Holding
  <2>4. opening[h] \in Opens
    BY <1>0, <2>3 DEF ChannelType, Opens
  <2>5. /\ Listener(opening[h]) # Listener(opening[g]) /\ Listener(opening[h]) # g
        /\ Listener(opening[h]) \in Openers
    BY <1>1, <1>3, <2>3, <2>4
  <2> QED
    BY <1>2, <2>3, <2>5
<1>10. \A c \in Opens : c > opens => pc'[Listener(c)] = "none"
  <2>1. SUFFICES ASSUME NEW c \in Opens, c > opens PROVE pc'[Listener(c)] = "none"
    OBVIOUS
  <2>2. pc[Listener(c)] = "none" /\ c # opening[g]
    BY <1>0, <1>1, <2>1 DEF TInv, NumberInv, ChannelType, Opens
  <2> QED
    BY <1>1, <1>2, <1>3, <2>2
<1>11. NumberInv'
  <2>1. \A h \in Openers : Holding(h)' => opening[h] \in 1 .. opens /\ opening[h] \notin abandoned
    BY <1>8 DEF TInv, NumberInv
  <2>2. \A h, k \in Openers : Holding(h)' /\ Holding(k)' /\ opening[h] = opening[k] => h = k
    BY <1>8 DEF TInv, NumberInv
  <2>3. writeLock' = opens' /\ \A c \in abandoned' : c <= opens'
    BY <1>3 DEF TInv, NumberInv
  <2> QED
    BY <1>1, <1>3, <1>9, <1>10, <2>1, <2>2, <2>3 DEF NumberInv
<1>12. CountInv'
  <2>1. \A h \in Openers : failures'[h] > MaxRetries => pc'[h] \in {"setting", "opened", "ended"}
    BY <1>1, <1>2, <1>3 DEF TInv, CountInv
  <2>2. \A l \in Listeners : /\ pc'[l] = "none" => retryCount'[l] = 0
                             /\ Active(l)' => retryCount'[l] < RetryAttempt
    BY <1>0, <1>1, <1>2, <1>3 DEF TInv, CountInv, Active
  <2>3. \A h \in Writers : writing'[h].at = "open" => opens' > 0
    BY <1>3, <1>4 DEF TInv, CountInv, Idle
  <2>4. \A h \in Writers : writing'[h].at = "waiting" => writing'[h].mutex \in Opens
    BY <1>3, <1>4 DEF TInv, CountInv, Idle
  <2> QED
    BY <2>1, <2>2, <2>3, <2>4 DEF CountInv, Active
<1> QED
  BY <1>5, <1>6, <1>7, <1>11, <1>12, TypePartsPrime DEF TInv

\* The listening goroutine moves itself and counts its failing reads.
LEMMA ListenKeepsTInv ==
  ASSUME TInv, NEW l \in Listeners, Listen(l)
  PROVE  TInv'
<1> USE ConnectionAssumption, Names
<1>0. ChannelType /\ PcType /\ OpenerType /\ WriterType
  BY TypeParts DEF TInv
<1>1. PICK at \in {"listening", "reading", "ended", "resuming", "panicked"} :
          Active(l) /\ pc' = [pc EXCEPT ![l] = at]
  BY DEF Listen, CheckOpen, ReadMessage, MessagePanics, ReadFails, Active
<1>2. UNCHANGED <<Connection, IsOpen, writeLock, OnErrorSet, opens, lost, closed, failures,
                  opening, locked, writing, program, abandoned, rivals>>
  BY DEF Listen, CheckOpen, ReadMessage, MessagePanics, ReadFails, channelVars, networkVars,
         writerVars, historyVars
<1>3. readOn' \in [Listeners -> 0 .. MaxOpens]
  BY <1>0 DEF Listen, CheckOpen, ReadMessage, MessagePanics, ReadFails, OpenerType, ChannelType
<1>4. /\ retryCount' \in [Listeners -> 0 .. RetryAttempt]
      /\ \A k \in Listeners : k # l => retryCount'[k] = retryCount[k]
      /\ Active(l)' => retryCount'[l] < RetryAttempt
  <2>1. retryCount[l] \in 0 .. RetryAttempt /\ retryCount[l] < RetryAttempt
    BY <1>0, <1>1 DEF OpenerType, TInv, CountInv
  <2>2. CASE CheckOpen(l)
    BY <1>0, <2>1, <2>2 DEF CheckOpen, OpenerType
  <2>3. CASE ReadMessage(l) \/ MessagePanics(l)
    BY <1>0, <2>3 DEF ReadMessage, MessagePanics, OpenerType
  <2>4. CASE ReadFails(l)
    BY <1>0, <2>1, <2>4 DEF ReadFails, OpenerType, PcType, Active
  <2> QED
    BY <2>2, <2>3, <2>4 DEF Listen
<1>5. ChannelType' /\ OpenerType'
  BY <1>0, <1>2, <1>3, <1>4 DEF ChannelType, OpenerType
<1>6. PcType' /\ WriterType'
  BY <1>0, <1>1, <1>2 DEF PcType, WriterType
<1>7. \A h \in Openers : pc'[h] = IF h = l THEN at ELSE pc[h]
  BY <1>0, <1>1 DEF PcType
<1>8. \A h \in Openers : Holding(h)' => Holding(h)
  BY <1>7 DEF Holding
<1>9. \A h \in Openers : pc'[h] = "dialing" => pc'[Listener(opening[h])] = "none"
  <2>1. SUFFICES ASSUME NEW h \in Openers, pc'[h] = "dialing"
                 PROVE  pc'[Listener(opening[h])] = "none"
    OBVIOUS
  <2>2. opening[h] \in 1 .. opens /\ pc[Listener(opening[h])] = "none"
    BY <1>7, <2>1 DEF TInv, NumberInv, Holding
  <2>3. Listener(opening[h]) \in Openers /\ Listener(opening[h]) # l
    BY <1>0, <1>1, <2>2 DEF ChannelType, Opens, Active
  <2> QED
    BY <1>7, <2>2, <2>3
<1>10. \A c \in Opens : c > opens => pc'[Listener(c)] = "none"
  BY <1>1, <1>7 DEF TInv, NumberInv, Active
<1>11. NumberInv'
  <2>1. \A h \in Openers : Holding(h)' => opening[h] \in 1 .. opens /\ opening[h] \notin abandoned
    BY <1>8 DEF TInv, NumberInv
  <2>2. \A h, k \in Openers : Holding(h)' /\ Holding(k)' /\ opening[h] = opening[k] => h = k
    BY <1>8 DEF TInv, NumberInv
  <2>3. /\ writeLock' = opens' /\ Connection' <= opens' /\ \A c \in abandoned' : c <= opens'
        /\ IsOpen' => Connection' \in Opens
    BY <1>2 DEF TInv, NumberInv
  <2> QED
    BY <1>2, <1>9, <1>10, <2>1, <2>2, <2>3 DEF NumberInv
<1>12. CountInv'
  <2>1. \A h \in Openers : failures'[h] > MaxRetries => pc'[h] \in {"setting", "opened", "ended"}
    BY <1>1, <1>2, <1>7 DEF TInv, CountInv, Active
  <2>2. \A k \in Listeners : pc'[k] = "none" => retryCount'[k] = 0
    BY <1>1, <1>4, <1>7 DEF TInv, CountInv
  <2>3. \A k \in Listeners : Active(k)' => retryCount'[k] < RetryAttempt
    BY <1>4, <1>7 DEF TInv, CountInv, Active
  <2>4. \A h \in Writers : writing'[h].at = "open" => opens' > 0
    BY <1>2 DEF TInv, CountInv
  <2>5. \A h \in Writers : writing'[h].at = "waiting" => writing'[h].mutex \in Opens
    BY <1>2 DEF TInv, CountInv
  <2> QED
    BY <2>1, <2>2, <2>3, <2>4, <2>5 DEF CountInv, Active
<1> QED
  BY <1>5, <1>6, <1>11, <1>12, TypePartsPrime DEF TInv

\* Every step of every goroutine, and of the network, keeps the types and the numbers.
LEMMA StepTInv == TInv /\ [Next]_vars => TInv'
<1> SUFFICES ASSUME TInv, [Next]_vars PROVE TInv'
  OBVIOUS
<1>1. ASSUME NEW c \in Opens, Lose(c) PROVE TInv'
  <2>1. lost' \subseteq Opens
    BY <1>1, TypeParts DEF Lose, TInv, ChannelType
  <2>2. UNCHANGED <<channelVars, closed, openerVars, writerVars, historyVars>>
    BY <1>1 DEF Lose
  <2> QED
    BY <2>1, <2>2 DEF TInv, TypeOK, NumberInv, CountInv, Active, Holding, channelVars, openerVars,
                      writerVars, historyVars
<1>2. CASE UNCHANGED vars
  BY <1>2 DEF vars, TInv, TypeOK, NumberInv, CountInv, Active, Holding, channelVars, networkVars,
              openerVars, writerVars, historyVars
<1>3. CASE SetOnError
  <2>1. Main \in Openers
    BY Names
  <2> QED
    BY <1>3, <2>1, MoveKeepsTInv
<1> QED
  BY <1>1, <1>2, <1>3, WriteKeepsTInv, MoveKeepsTInv, NewLockKeepsTInv, DialKeepsTInv,
     ListenKeepsTInv
     DEF Next, Open

\* The types and the numbering hold whenever and wherever connections are lost.
THEOREM NumberingCorrect == Spec => []TInv
BY InitTInv, StepTInv, PTL DEF Spec

\* Every variable keeps its type.
THEOREM TypeCorrect == Spec => []TypeOK
BY NumberingCorrect, PTL DEF TInv
-----------------------------------------------------------------------------
(* How many goroutines are in charge. *)

\* There are finitely many goroutines that open, and finitely many calls of Open.
LEMMA FiniteOpeners ==
  IsFiniteSet(Openers) /\ \A S \in SUBSET Opens : IsFiniteSet(S) /\ Cardinality(S) \in Nat
<1>1. IsFiniteSet(Opens)
  BY FS_Interval, ConnectionAssumption DEF Opens
<1>2. IsFiniteSet(Listeners)
  <2> DEFINE f == [c \in Opens |-> Listener(c)]
  <2>1. f \in Surjection(Opens, Listeners)
    BY Names DEF Surjection
  <2> QED
    BY <1>1, <2>1, FS_Surjection
<1>3. Openers = Listeners \cup {Main}
  BY Names
<1>4. IsFiniteSet(Openers)
  BY <1>2, <1>3, FS_AddElement
<1>5. ASSUME NEW S \in SUBSET Opens PROVE IsFiniteSet(S) /\ Cardinality(S) \in Nat
  BY <1>1, FS_Subset, FS_CardinalityType
<1> QED
  BY <1>4, <1>5

\* Any set of openers is finite.
LEMMA FiniteCharge ==
  ASSUME NEW S \in SUBSET Openers
  PROVE  IsFiniteSet(S) /\ Cardinality(S) \in Nat
BY FiniteOpeners, FS_Subset, FS_CardinalityType

\* Nobody new is in charge, and no handshake fails.
LEMMA FewerInCharge ==
  ASSUME OneInCharge, abandoned \subseteq Opens, InCharge' \subseteq InCharge,
         abandoned' = abandoned
  PROVE  OneInCharge'
<1>1. InCharge \subseteq Openers
  BY DEF InCharge
<1>2. Cardinality(InCharge') <= Cardinality(InCharge)
  BY <1>1, FiniteCharge, FS_Subset
<1>3. Cardinality(InCharge) \in Nat /\ Cardinality(InCharge') \in Nat
  BY <1>1, FiniteCharge
<1>4. Cardinality(abandoned) \in Nat
  BY FiniteOpeners
<1> QED
  BY <1>2, <1>3, <1>4 DEF OneInCharge

\* A goroutine that dials a connection hands the charge to the connection's listener.
LEMMA DialKeepsCharge ==
  ASSUME TInv, OneInCharge, NEW g \in Openers, Dial(g)
  PROVE  OneInCharge'
<1> DEFINE l == Listener(opening[g])
<1>1. /\ l \in Openers /\ pc[l] = "none" /\ g # l
      /\ \A h \in Openers : pc'[h] = IF h = g THEN "handshaking"
                                     ELSE IF h = l THEN "listening" ELSE pc[h]
  BY DialStarts, Names
<1>2. g \in InCharge /\ l \notin InCharge
  BY <1>1 DEF InCharge, Dial
<1> HIDE DEF l
<1>3. InCharge' = (InCharge \ {g}) \cup {l}
  <2>1. ASSUME NEW h \in Openers PROVE h \in InCharge' <=> h \in (InCharge \ {g}) \cup {l}
    BY <1>1 DEF InCharge
  <2>2. InCharge' \subseteq Openers /\ InCharge \subseteq Openers
    BY DEF InCharge
  <2> QED
    BY <1>1, <2>1, <2>2
<1>4. IsFiniteSet(InCharge) /\ IsFiniteSet(InCharge \ {g}) /\ Cardinality(InCharge) \in Nat
  BY FiniteCharge DEF InCharge
<1>5. Cardinality(InCharge \ {g}) = Cardinality(InCharge) - 1
  BY <1>2, <1>4, FS_RemoveElement
<1>6. Cardinality((InCharge \ {g}) \cup {l}) = Cardinality(InCharge \ {g}) + 1
  BY <1>2, <1>4, FS_AddElement
<1>7. Cardinality(InCharge') = Cardinality(InCharge)
  BY <1>3, <1>4, <1>5, <1>6
<1>8. abandoned' = abandoned
  BY DEF Dial, historyVars
<1> QED
  BY <1>7, <1>8 DEF OneInCharge

\* A goroutine whose handshake failed is in charge again, besides the listener, and one
\* connection more is abandoned.
LEMMA HandshakeKeepsCharge ==
  ASSUME TInv, OneInCharge, NEW g \in Openers, Handshake(g)
  PROVE  OneInCharge'
<1>0. ChannelType /\ PcType
  BY TypeParts DEF TInv
<1>1. CASE writing[g].at = "written" /\ Finished(g) /\ UNCHANGED abandoned
  <2>1. InCharge' \subseteq InCharge
    BY <1>0, <1>1 DEF InCharge, Finished, PcType
  <2> QED
    BY <1>0, <1>1, <2>1, FewerInCharge DEF ChannelType
<1>2. CASE pc' = [pc EXCEPT ![g] = "failed"] /\ abandoned' = abandoned \cup {opening[g]}
  <2>1. pc[g] = "handshaking" /\ g \notin InCharge
    BY DEF Handshake, InCharge
  <2>2. opening[g] \notin abandoned
    BY <2>1 DEF TInv, NumberInv, Holding
  <2>3. InCharge' = InCharge \cup {g}
    BY <1>0, <1>2 DEF InCharge, PcType
  <2>4. IsFiniteSet(InCharge) /\ Cardinality(InCharge) \in Nat
    BY FiniteCharge DEF InCharge
  <2>5. Cardinality(InCharge \cup {g}) = Cardinality(InCharge) + 1
    BY <2>1, <2>4, FS_AddElement
  <2>6. IsFiniteSet(abandoned) /\ Cardinality(abandoned) \in Nat
    BY <1>0, FiniteOpeners DEF ChannelType
  <2>7. Cardinality(abandoned \cup {opening[g]}) = Cardinality(abandoned) + 1
    BY <2>2, <2>6, FS_AddElement
  <2> QED
    BY <1>2, <2>3, <2>4, <2>5, <2>6, <2>7 DEF OneInCharge
<1> QED
  BY <1>1, <1>2 DEF Handshake

\* No other step adds a goroutine to those in charge.
LEMMA StepCharge ==
  ASSUME TInv, OneInCharge, [Next]_vars
  PROVE  OneInCharge'
<1>0. ChannelType /\ PcType /\ Main \in Openers /\ Listeners \subseteq Openers
  BY TypeParts, Names DEF TInv
<1>1. ASSUME UNCHANGED <<pc, abandoned>> PROVE OneInCharge'
  BY <1>1 DEF OneInCharge, InCharge
<1>2. ASSUME NEW g \in Openers, g \in InCharge, NEW at, pc' = [pc EXCEPT ![g] = at],
             UNCHANGED abandoned
      PROVE  OneInCharge'
  <2>1. InCharge' \subseteq InCharge
    BY <1>0, <1>2 DEF InCharge, PcType
  <2> QED
    BY <1>0, <1>2, <2>1, FewerInCharge DEF ChannelType
<1>3. ASSUME NEW g \in Openers, Open(g) PROVE OneInCharge'
  <2>1. CASE Resume(g) \/ Close(g) \/ NewLock(g) \/ DialFails(g) \/ Retry(g)
    <3>1. g \in InCharge /\ UNCHANGED abandoned /\ \E at : pc' = [pc EXCEPT ![g] = at]
      BY <2>1 DEF Resume, Close, NewLock, DialFails, Retry, Finished, InCharge, historyVars
    <3> QED
      BY <1>2, <3>1
  <2> QED
    BY <1>3, <2>1, DialKeepsCharge, HandshakeKeepsCharge DEF Open
<1>4. ASSUME NEW l \in Listeners, Listen(l) PROVE OneInCharge'
  <2>1. l \in InCharge /\ UNCHANGED abandoned /\ \E at : pc' = [pc EXCEPT ![l] = at]
    BY <1>0, <1>4 DEF Listen, CheckOpen, ReadMessage, MessagePanics, ReadFails, InCharge,
                      historyVars
  <2> QED
    BY <1>0, <1>2, <2>1
<1>5. CASE SetOnError
  <2>1. InCharge' \subseteq InCharge /\ abandoned' = abandoned
    BY <1>0, <1>5 DEF SetOnError, InCharge, PcType, historyVars
  <2> QED
    BY <1>0, <2>1, FewerInCharge DEF ChannelType
<1>6. CASE \/ \E g \in Writers : Write(g)
           \/ \E c \in Opens : Lose(c)
           \/ UNCHANGED vars
  BY <1>1, <1>6 DEF Write, BeginWrite, ReadLock, Acquire, Release, FindClosed, Lose, vars,
                    openerVars, historyVars
<1> QED
  BY <1>3, <1>4, <1>5, <1>6 DEF Next

\* The main goroutine is in charge at the start.
LEMMA InitCharge == Init => OneInCharge
<1> SUFFICES ASSUME Init PROVE OneInCharge
  OBVIOUS
<1>1. InCharge = {Main}
  BY Names DEF Init, InCharge
<1>2. Cardinality({Main}) = 1 /\ Cardinality({}) = 0
  BY FS_Singleton, FS_EmptySet
<1> QED
  BY <1>1, <1>2 DEF Init, OneInCharge

\* While no handshake has failed, one goroutine is in charge.
LEMMA SoleInCharge ==
  ASSUME OneInCharge, abandoned = {}, NEW g \in InCharge, NEW h \in InCharge
  PROVE  g = h
<1>1. IsFiniteSet(InCharge) /\ Cardinality(InCharge) \in Nat
  BY FiniteCharge DEF InCharge
<1>2. Cardinality(InCharge) <= 1
  BY FS_EmptySet DEF OneInCharge
<1>3. Cardinality(InCharge) # 0
  BY <1>1, FS_EmptySet
<1>4. Cardinality(InCharge) = 1
  BY <1>1, <1>2, <1>3
<1>5. \E x : InCharge = {x}
  BY <1>1, <1>4, FS_Singleton
<1> QED
  BY <1>5

-----------------------------------------------------------------------------
(* What becomes of the connections. *)

\* Only Close and Dial change what the channel holds.
LEMMA StepChannel ==
  ASSUME [Next]_vars
  PROVE  \/ \E g \in Openers : Close(g) \/ Dial(g)
         \/ UNCHANGED <<Connection, IsOpen, closed, rivals>>
BY DEF Next, Write, BeginWrite, ReadLock, Acquire, Release, FindClosed, Open, Resume, NewLock,
       DialFails, Handshake, Retry, SetOnError, Listen, CheckOpen, ReadMessage, MessagePanics,
       ReadFails, Lose, vars, channelVars, networkVars, historyVars

\* A listener is started by the Dial of its call only, and for good.
LEMMA StepDialed ==
  ASSUME TInv, [Next]_vars, NEW c \in Opens
  PROVE  Dialed(c)' <=> Dialed(c) \/ \E g \in Openers : Dial(g) /\ opening[g] = c
<1>0. PcType /\ Listener(c) \in Openers /\ Main \in Openers /\ Listeners \subseteq Openers
  BY TypeParts, Names DEF TInv
<1>1. ASSUME NEW g \in Openers, Dial(g)
      PROVE  Dialed(c)' <=> Dialed(c) \/ opening[g] = c
  <2>1. opening[g] \in Opens /\ pc[g] = "dialing" /\ pc[Listener(opening[g])] = "none"
        /\ pc'[Listener(c)] = IF Listener(c) = g THEN "handshaking"
                              ELSE IF Listener(c) = Listener(opening[g]) THEN "listening"
                              ELSE pc[Listener(c)]
    BY <1>0, <1>1, DialStarts DEF Dial
  <2>2. Listener(c) = Listener(opening[g]) <=> c = opening[g]
    BY <2>1, Names
  <2> QED
    BY <2>1, <2>2 DEF Dialed
<1>2. ASSUME NEW g \in Openers, pc[g] # "none", NEW at, at # "none", pc' = [pc EXCEPT ![g] = at],
             ~\E h \in Openers : Dial(h)
      PROVE  Dialed(c)' <=> Dialed(c) \/ \E h \in Openers : Dial(h) /\ opening[h] = c
  BY <1>0, <1>2 DEF PcType, Dialed
<1>3. ASSUME NEW g \in Openers, Dial(g), NEW h \in Openers, Dial(h)
      PROVE  g = h
  <2>1. pc[g] = "dialing" /\ pc[h] = "dialing"
    BY <1>3 DEF Dial
  <2>2. \A k \in Openers : pc'[k] = "handshaking" /\ pc[k] = "dialing" => k = g
    BY <1>3, DialStarts
  <2>3. pc'[h] = "handshaking"
    BY <1>3, DialStarts
  <2> QED
    BY <2>1, <2>2, <2>3
<1>4. CASE \E g \in Openers : Dial(g)
  BY <1>1, <1>3, <1>4
<1>5. CASE ~\E g \in Openers : Dial(g)
  <2>1. ASSUME NEW g \in Openers, Open(g)
        PROVE  \E at \in {"closing", "failed", "ended", "locking", "dialing", "setting",
                          "resuming"} :
                   pc[g] # "none" /\ pc' = [pc EXCEPT ![g] = at]
    BY <1>5, <2>1, ConnectionAssumption
       DEF Open, Resume, Close, NewLock, DialFails, Handshake, Retry, Finished
  <2>2. ASSUME NEW l \in Listeners, Listen(l)
        PROVE  \E at : at # "none" /\ pc[l] # "none" /\ pc' = [pc EXCEPT ![l] = at]
    BY <2>2 DEF Listen, CheckOpen, ReadMessage, MessagePanics, ReadFails
  <2>3. CASE SetOnError
    BY <1>0, <1>2, <1>5, <2>3 DEF SetOnError
  <2>4. CASE UNCHANGED pc
    BY <1>5, <2>4 DEF Dialed
  <2> QED
    BY <1>0, <1>2, <1>5, <2>1, <2>2, <2>3, <2>4
       DEF Next, Write, BeginWrite, ReadLock, Acquire, Release, FindClosed, Lose, vars, openerVars
<1> QED
  BY <1>4, <1>5

\* The connections' state stays as the invariant says.
LEMMA StepClosed ==
  ASSUME TInv, ClosedInv, [Next]_vars
  PROVE  ClosedInv'
<1>0. /\ lost \subseteq Opens /\ closed \subseteq Opens /\ Connection \in 0 .. MaxOpens
      /\ Connection # 0 => Connection \in Opens
      /\ IsOpen \in BOOLEAN
  BY TypeParts, ConnectionAssumption DEF TInv, ChannelType, Opens
<1>1. \A c \in Opens : Dialed(c) => Dialed(c)'
  BY StepDialed
<1>2. lost' = lost \/ \E c \in Opens : Dialed(c) /\ lost' = lost \cup {c}
  BY DEF Next, Write, BeginWrite, ReadLock, Acquire, Release, FindClosed, Open, Resume, Close,
         NewLock, Dial, DialFails, Handshake, Retry, SetOnError, Listen, CheckOpen, ReadMessage,
         MessagePanics, ReadFails, Lose, vars, networkVars
<1>3. \A c \in lost' : Dialed(c)'
  BY <1>0, <1>1, <1>2 DEF ClosedInv
<1>4. ASSUME NEW g \in Openers, Close(g) PROVE ClosedInv'
  <2>1. /\ IsOpen' = FALSE /\ Connection' = Connection
        /\ closed' = IF IsOpen THEN closed \cup {Connection} ELSE closed
    BY <1>4 DEF Close
  <2>2. IsOpen => Connection # 0
    BY DEF TInv, NumberInv, Opens
  <2> QED
    BY <1>0, <1>1, <1>3, <2>1, <2>2 DEF ClosedInv
<1>5. ASSUME NEW g \in Openers, Dial(g) PROVE ClosedInv'
  <2>1. PICK c \in Opens : c = opening[g] /\ ~Dialed(c)
    BY <1>5, DialStarts DEF Dialed
  <2>2. Connection' = c /\ IsOpen' = TRUE /\ closed' = closed
    BY <1>5, <2>1 DEF Dial, networkVars
  <2>3. Dialed(c)'
    BY <1>5, <2>1, StepDialed
  <2>4. Dialed(Connection)' /\ c \notin closed
    BY <2>1, <2>2, <2>3 DEF ClosedInv, Dialed
  <2> QED
    BY <1>0, <1>1, <1>3, <2>2, <2>4 DEF ClosedInv
<1>6. CASE UNCHANGED <<Connection, IsOpen, closed, rivals>>
  BY <1>0, <1>1, <1>3, <1>6 DEF ClosedInv
<1> QED
  BY <1>4, <1>5, <1>6, StepChannel

\* Without rivals, who replaces the connection is alone, and the channel is closed.
LEMMA StepRivals ==
  ASSUME TInv, RivalsInv, [Next]_vars
  PROVE  RivalsInv'
<1>0. PcType /\ Main \in Openers /\ Listeners \subseteq Openers
  BY TypeParts, Names DEF TInv
<1>1. ASSUME NEW g \in Openers, Close(g) PROVE RivalsInv'
  <2>1. \A h \in Openers : pc'[h] = IF h = g THEN "locking" ELSE pc[h]
    BY <1>0, <1>1 DEF Close, PcType
  <2>2. ~rivals' => ~rivals /\ \A h \in Openers : Replacing(h) => h = g
    BY <1>1 DEF Close, Replacing
  <2>3. IsOpen' = FALSE
    BY <1>1 DEF Close
  <2> QED
    BY <2>1, <2>2, <2>3 DEF RivalsInv, Replacing
<1>2. ASSUME NEW g \in Openers, Dial(g) PROVE RivalsInv'
  <2>1. rivals' = rivals /\ Replacing(g)
    BY <1>2 DEF Dial, historyVars, Replacing
  <2>2. \A h \in Openers : Replacing(h)' => Replacing(h) /\ h # g
    BY <1>2, DialStarts DEF Replacing
  <2>3. ~rivals => \A h \in Openers : ~Replacing(h)'
    BY <2>1, <2>2 DEF RivalsInv
  <2> QED
    BY <2>1, <2>3 DEF RivalsInv
<1>3. CASE UNCHANGED <<Connection, IsOpen, closed, rivals>>
  <2>1. ASSUME NEW h \in Openers, ~\E g \in Openers : Close(g)
        PROVE  Replacing(h)' => Replacing(h)
    <3>1. ASSUME NEW g \in Openers, NEW at, at \notin {"locking", "dialing"},
                 pc' = [pc EXCEPT ![g] = at]
          PROVE  Replacing(h)' => Replacing(h)
      BY <1>0, <3>1 DEF PcType, Replacing
    <3>2. ASSUME NEW g \in Openers, Open(g) PROVE Replacing(h)' => Replacing(h)
      <4>1. CASE NewLock(g)
        BY <1>0, <4>1 DEF NewLock, PcType, Replacing
      <4>2. CASE Dial(g)
        BY <4>2, DialStarts DEF Replacing
      <4>3. CASE Resume(g) \/ DialFails(g) \/ Handshake(g) \/ Retry(g)
        <5>1. \E at \in {"closing", "failed", "ended", "setting", "resuming"} :
                  pc' = [pc EXCEPT ![g] = at]
          BY <4>3, ConnectionAssumption DEF Resume, DialFails, Handshake, Retry, Finished
        <5> QED
          BY <3>1, <5>1
      <4> QED
        BY <2>1, <3>2, <4>1, <4>2, <4>3 DEF Open
    <3>3. ASSUME NEW l \in Listeners, Listen(l) PROVE Replacing(h)' => Replacing(h)
      <4>1. \E at : at \notin {"locking", "dialing"} /\ pc' = [pc EXCEPT ![l] = at]
        BY <3>3 DEF Listen, CheckOpen, ReadMessage, MessagePanics, ReadFails
      <4> QED
        BY <1>0, <3>1, <4>1
    <3>4. CASE SetOnError
      BY <1>0, <3>1, <3>4 DEF SetOnError
    <3>5. CASE UNCHANGED pc
      BY <3>5 DEF Replacing
    <3> QED
      BY <3>2, <3>3, <3>4, <3>5
         DEF Next, Write, BeginWrite, ReadLock, Acquire, Release, FindClosed, Lose, vars, openerVars
  <2>2. CASE \E g \in Openers : Close(g)
    BY <1>1, <2>2
  <2>3. CASE ~\E g \in Openers : Close(g)
    BY <1>3, <2>1, <2>3 DEF RivalsInv
  <2> QED
    BY <2>2, <2>3
<1> QED
  BY <1>1, <1>2, <1>3, StepChannel

\* A connection is replaced only after the channel was closed.
LEMMA StepReplaced ==
  ASSUME TInv, ClosedInv, RivalsInv, ReplacedIsClosed, [Next]_vars
  PROVE  ReplacedIsClosed'
<1>1. ASSUME NEW g \in Openers, Close(g) PROVE ReplacedIsClosed'
  <2>1. /\ Connection' = Connection /\ closed \subseteq closed'
        /\ ~rivals' => ~rivals
    BY <1>1 DEF Close
  <2>2. ~\E h \in Openers : Dial(h)
    <3>1. SUFFICES ASSUME NEW h \in Openers, Dial(h) PROVE FALSE
      OBVIOUS
    <3>2. IsOpen' = TRUE /\ IsOpen' = FALSE
      BY <1>1, <3>1 DEF Close, Dial
    <3> QED
      BY <3>2
  <2>3. \A c \in Opens : Dialed(c)' => Dialed(c)
    BY <2>2, StepDialed
  <2> QED
    BY <2>1, <2>3 DEF ReplacedIsClosed
<1>2. ASSUME NEW g \in Openers, Dial(g), ~rivals,
             NEW c \in Opens, Dialed(c)', c # Connection'
      PROVE  c \in closed'
  <2>1. ~IsOpen /\ Connection' = opening[g] /\ closed' = closed
    BY <1>2 DEF Dial, networkVars, RivalsInv, Replacing
  <2>2. Dialed(c)
    <3>1. Dialed(c) \/ \E h \in Openers : Dial(h) /\ opening[h] = c
      BY <1>2, StepDialed
    <3>2. \A h \in Openers : Dial(h) => Connection' = opening[h]
      BY DEF Dial
    <3> QED
      BY <1>2, <3>1, <3>2
  <2>3. Connection = c => c \in closed
    BY <2>1, ConnectionAssumption DEF ClosedInv, Opens
  <2> QED
    BY <1>2, <2>1, <2>2, <2>3 DEF ReplacedIsClosed
<1>3. ASSUME NEW g \in Openers, Dial(g) PROVE ReplacedIsClosed'
  <2>1. rivals' = rivals
    BY <1>3 DEF Dial, historyVars
  <2> QED
    BY <1>2, <1>3, <2>1 DEF ReplacedIsClosed
<1>4. CASE UNCHANGED <<Connection, IsOpen, closed, rivals>> /\ ~\E g \in Openers : Dial(g)
  <2>1. \A c \in Opens : Dialed(c)' => Dialed(c)
    BY <1>4, StepDialed
  <2> QED
    BY <1>4, <2>1 DEF ReplacedIsClosed
<1> QED
  BY <1>1, <1>3, <1>4, StepChannel

-----------------------------------------------------------------------------
(* Who listens to the connection, and why it is replaced. *)

\* May this goroutine be the listener of an open channel's connection?
Attentive(l) ==
    \/ pc[l] \in {"listening", "resuming", "closing", "failed", "panicked"}
    \/ pc[l] = "reading" /\ readOn[l] = Connection
    \/ pc[l] = "ended" /\ failures[l] > MaxRetries

\* The listener of the connection leaves its loop only to replace it, in a panic, or
\* when it gives up; the others' steps do not concern it.
LEMMA StepListens ==
  ASSUME TInv, SomeoneListens, [Next]_vars
  PROVE  SomeoneListens'
<1> SUFFICES ASSUME Running', IsOpen' PROVE Attentive(Listener(Connection))'
  BY DEF SomeoneListens, Attentive
<1>0. /\ PcType /\ OpenerType /\ Main \in Openers /\ Listeners \subseteq Openers
      /\ Main \notin Listeners
  BY TypeParts, Names DEF TInv
<1>1. Running
  BY DEF Next, Write, BeginWrite, ReadLock, Acquire, Release, FindClosed, Open, Resume, Close,
         NewLock, Dial, DialFails, Handshake, Retry, SetOnError, Listen, CheckOpen, ReadMessage,
         MessagePanics, ReadFails, Lose, vars, writerVars, Running
<1>2. ASSUME NEW g \in Openers, Close(g) PROVE FALSE
  BY <1>2 DEF Close
<1>3. ASSUME NEW g \in Openers, Dial(g) PROVE Attentive(Listener(Connection))'
  <2> DEFINE l == Listener(opening[g])
  <2>1. l \in Openers /\ l # g
    BY <1>0, <1>3, DialStarts
  <2>2. pc'[l] = "listening"
    BY <1>3, <2>1, DialStarts
  <2>3. Listener(Connection') = l
    BY <1>3 DEF Dial
  <2> HIDE DEF l
  <2> QED
    BY <2>2, <2>3 DEF Attentive, Listener
<1>4. CASE UNCHANGED <<Connection, IsOpen, closed, rivals>> /\ ~\E g \in Openers : Dial(g)
  <2> DEFINE l == Listener(Connection)
  <2>1. l \in Listeners /\ Attentive(l)
    <3>1. IsOpen /\ Connection \in Opens
      BY <1>4 DEF TInv, NumberInv
    <3> QED
      BY <1>1, <3>1, Names DEF SomeoneListens, Attentive
  <2>2. l' = l
    BY <1>4 DEF Listener
  <2> SUFFICES Attentive(l)'
    OBVIOUS
  <2> HIDE DEF l
  <2>3. ASSUME pc'[l] = pc[l], failures'[l] = failures[l], readOn'[l] = readOn[l]
        PROVE  Attentive(l)'
    BY <1>4, <2>1, <2>2, <2>3 DEF Attentive
  <2>4. ASSUME NEW g \in Openers, Open(g) PROVE Attentive(l)'
    <3>1. readOn' = readOn
      BY <1>2, <1>4, <2>4 DEF Open, Resume, NewLock, DialFails, Handshake, Retry
    <3>2. CASE g # l
      <4>1. pc'[l] = pc[l]
        BY <1>0, <1>2, <1>4, <2>1, <2>4, <3>2
           DEF Open, Resume, NewLock, DialFails, Handshake, Retry, Finished, PcType
      <4>2. failures'[l] = failures[l]
        BY <1>0, <1>2, <1>4, <2>1, <2>4, <3>2
           DEF Open, Resume, NewLock, DialFails, Handshake, Retry, OpenerType
      <4> QED
        BY <2>3, <3>1, <4>1, <4>2
    <3>3. CASE g = l
      <4>1. CASE Resume(l)
        <5>1. pc'[l] \in {"closing", "failed"}
          BY <1>0, <2>1, <4>1, ConnectionAssumption DEF Resume, PcType, Running
        <5> QED
          BY <2>2, <5>1 DEF Attentive
      <4>2. CASE Retry(l)
        <5>1. CASE failures[l] = MaxRetries
          <6>1. failures'[l] = failures[l] + 1 /\ pc'[l] = "ended"
            BY <1>0, <2>1, <4>2, <5>1 DEF Retry, Finished, PcType, OpenerType
          <6>2. failures'[l] > MaxRetries
            BY <5>1, <6>1, ConnectionAssumption
          <6> QED
            BY <2>2, <6>1, <6>2 DEF Attentive
        <5>2. CASE failures[l] # MaxRetries
          <6>1. pc'[l] = "resuming"
            BY <1>0, <2>1, <4>2, <5>2 DEF Retry, PcType
          <6> QED
            BY <2>2, <6>1 DEF Attentive
        <5> QED
          BY <5>1, <5>2
      <4>3. ~NewLock(l) /\ ~DialFails(l) /\ ~Handshake(l)
        BY <2>1 DEF Attentive, NewLock, DialFails, Handshake
      <4> QED
        BY <1>0, <1>2, <1>4, <2>1, <2>4, <3>3, <4>1, <4>2, <4>3 DEF Open
    <3> QED
      BY <3>2, <3>3
  <2>5. ASSUME NEW k \in Listeners, Listen(k) PROVE Attentive(l)'
    <3>1. failures' = failures
      BY <2>5 DEF Listen, CheckOpen, ReadMessage, MessagePanics, ReadFails
    <3>2. CASE k # l
      <4>1. pc'[l] = pc[l]
        BY <1>0, <2>1, <2>5, <3>2
           DEF Listen, CheckOpen, ReadMessage, MessagePanics, ReadFails, PcType
      <4>2. readOn'[l] = readOn[l]
        BY <1>0, <2>1, <2>5, <3>2
           DEF Listen, CheckOpen, ReadMessage, MessagePanics, ReadFails, OpenerType
      <4> QED
        BY <2>3, <3>1, <4>1, <4>2
    <3>3. CASE k = l
      <4>1. CASE CheckOpen(l)
        <5>1. pc'[l] = "reading" /\ readOn'[l] = Connection
          BY <1>0, <1>4, <2>1, <4>1 DEF CheckOpen, PcType, OpenerType
        <5> QED
          BY <1>4, <2>2, <5>1 DEF Attentive
      <4>2. CASE ReadMessage(l) \/ MessagePanics(l) \/ ReadFails(l)
        <5>1. pc'[l] \in {"listening", "panicked", "resuming"}
          BY <1>0, <2>1, <4>2 DEF ReadMessage, MessagePanics, ReadFails, PcType
        <5> QED
          BY <2>2, <5>1 DEF Attentive
      <4> QED
        BY <2>5, <3>3, <4>1, <4>2 DEF Listen
    <3> QED
      BY <3>2, <3>3
  <2>6. CASE SetOnError
    <3>1. pc'[l] = pc[l] /\ failures' = failures /\ readOn' = readOn
      BY <1>0, <2>1, <2>6 DEF SetOnError, PcType
    <3> QED
      BY <2>3, <3>1
  <2>7. CASE UNCHANGED <<pc, failures, readOn>>
    BY <2>3, <2>7
  <2> QED
    BY <2>4, <2>5, <2>6, <2>7
       DEF Next, Write, BeginWrite, ReadLock, Acquire, Release, FindClosed, Lose, vars, openerVars
<1> QED
  BY <1>2, <1>3, <1>4, StepChannel

\* While no handshake has failed, a goroutine comes to reconnect only because the
\* current connection is lost, and nobody disturbs it.
LEMMA StepKept ==
  ASSUME TInv, OneInCharge, ClosedInv, KeptInv, [Next]_vars
  PROVE  KeptInv'
<1> SUFFICES ASSUME abandoned' = {}, NEW g \in Openers PROVE Justified(g)'
  BY DEF KeptInv
<1>0. /\ PcType /\ OpenerType /\ Main \in Openers /\ Listeners \subseteq Openers
      /\ Main \notin Listeners
  BY TypeParts, Names DEF TInv
<1>1. abandoned = {}
  BY DEF Next, Write, BeginWrite, ReadLock, Acquire, Release, FindClosed, Open, Resume, Close,
         NewLock, Dial, DialFails, Handshake, Retry, SetOnError, Listen, CheckOpen, ReadMessage,
         MessagePanics, ReadFails, Lose, vars, historyVars
<1>2. Justified(g)
  BY <1>1 DEF KeptInv
<1>3. ASSUME pc'[g] \notin {"listening", "reading", "resuming", "closing", "locking", "dialing",
                          "failed"}
      PROVE  Justified(g)'
  BY <1>3 DEF Justified, Active, Replacing
<1>4. ASSUME NEW h \in Openers, h \in InCharge, g # h, pc'[g] = pc[g] PROVE Justified(g)'
  <2>1. g \notin InCharge
    BY <1>1, <1>4, SoleInCharge
  <2> QED
    BY <1>3, <1>4, <2>1 DEF InCharge
<1>5. ASSUME NEW h \in Openers, Close(h) PROVE Justified(g)'
  <2>1. h \in InCharge /\ IsOpen' = FALSE
    BY <1>5 DEF Close, InCharge
  <2>2. pc'[g] = IF g = h THEN "locking" ELSE pc[g]
    BY <1>0, <1>5 DEF Close, PcType
  <2>3. CASE g = h
    BY <2>1, <2>2, <2>3 DEF Justified, Active, Replacing
  <2> QED
    BY <1>4, <2>1, <2>2, <2>3
<1>6. ASSUME NEW h \in Openers, Dial(h) PROVE Justified(g)'
  <2>1. h \in InCharge /\ IsOpen' = TRUE /\ Connection' = opening[h]
    BY <1>6 DEF Dial, InCharge
  <2>2. pc'[g] = IF g = h THEN "handshaking"
                 ELSE IF g = Listener(opening[h]) THEN "listening" ELSE pc[g]
    BY <1>6, DialStarts
  <2>3. CASE g = h
    BY <1>3, <2>2, <2>3
  <2>4. CASE g # h /\ g = Listener(opening[h])
    <3>1. g = Listener(Connection')
      BY <2>1, <2>4
    <3> QED
      BY <2>1, <2>2, <2>4, <3>1 DEF Justified, Active, Replacing, Listener
  <2> QED
    BY <1>4, <2>1, <2>2, <2>3, <2>4
<1>7. CASE /\ UNCHANGED <<Connection, IsOpen, closed, rivals>>
           /\ ~\E h \in Openers : Close(h) \/ Dial(h)
  <2>0. lost \subseteq lost'
    BY DEF Next, Write, BeginWrite, ReadLock, Acquire, Release, FindClosed, Open, Resume, Close,
           NewLock, Dial, DialFails, Handshake, Retry, SetOnError, Listen, CheckOpen, ReadMessage,
           MessagePanics, ReadFails, Lose, vars, networkVars
  <2>1. ASSUME pc'[g] = pc[g], pc[g] = "reading" => readOn'[g] = readOn[g] PROVE Justified(g)'
    BY <1>2, <1>7, <2>0, <2>1 DEF Justified, Active, Replacing, Listener
  <2>2. ASSUME pc[g] \in {"resuming", "failed"}, pc'[g] \in {"resuming", "closing", "failed"}
        PROVE  Justified(g)'
    BY <1>2, <1>7, <2>0, <2>2 DEF Justified, Active, Replacing
  <2>3. ASSUME NEW h \in Openers, Open(h) PROVE Justified(g)'
    <3>1. readOn' = readOn
      BY <1>7, <2>3 DEF Open, Resume, NewLock, DialFails, Handshake, Retry
    <3>2. CASE g # h
      <4>1. pc'[g] = pc[g]
        BY <1>0, <1>7, <2>3, <3>2
           DEF Open, Resume, NewLock, DialFails, Handshake, Retry, Finished, PcType
      <4> QED
        BY <2>1, <3>1, <4>1
    <3>3. CASE Resume(g)
      <4>1. pc[g] = "resuming" /\ pc'[g] \in {"closing", "failed", "ended"}
        BY <1>0, <3>3, ConnectionAssumption DEF Resume, PcType
      <4> QED
        BY <1>3, <2>2, <4>1
    <3>4. CASE Retry(g)
      <4>1. pc[g] = "failed" /\ pc'[g] \in {"closing", "resuming", "setting", "ended"}
        BY <1>0, <3>4 DEF Retry, Finished, PcType
      <4> QED
        BY <1>3, <2>2, <4>1
    <3>5. CASE NewLock(g) \/ DialFails(g)
      <4>1. Replacing(g) /\ pc'[g] \in {"dialing", "failed"}
        BY <1>0, <3>5 DEF NewLock, DialFails, PcType, Replacing
      <4> QED
        BY <1>2, <1>7, <4>1 DEF Justified, Active, Replacing
    <3>6. CASE Handshake(g)
      <4>1. pc'[g] \in {"setting", "ended"}
        BY <1>0, <3>6 DEF Handshake, Finished, PcType
      <4> QED
        BY <1>3, <4>1
    <3> QED
      BY <1>7, <2>3, <3>2, <3>3, <3>4, <3>5, <3>6 DEF Open
  <2>4. ASSUME NEW l \in Listeners, Listen(l) PROVE Justified(g)'
    <3>1. CASE g # l
      <4>1. pc'[g] = pc[g]
        BY <1>0, <2>4, <3>1 DEF Listen, CheckOpen, ReadMessage, MessagePanics, ReadFails, PcType
      <4>2. pc[g] = "reading" => readOn'[g] = readOn[g]
        <5>1. readOn' = readOn \/ \E v : readOn' = [readOn EXCEPT ![l] = v]
          BY <2>4 DEF Listen, CheckOpen, ReadMessage, MessagePanics, ReadFails
        <5>2. pc[g] = "reading" => g \in Listeners
          BY <1>2, Names DEF Justified, Active, TInv, NumberInv
        <5> QED
          BY <1>0, <3>1, <5>1, <5>2 DEF OpenerType
      <4> QED
        BY <2>1, <4>1, <4>2
    <3>2. CASE g = l
      <4>1. Active(g) /\ IsOpen /\ g = Listener(Connection)
        BY <1>2, <2>4, <3>2
           DEF Listen, CheckOpen, ReadMessage, MessagePanics, ReadFails, Active, Justified
      <4>2. CASE CheckOpen(l)
        <5>1. pc'[g] = "reading" /\ readOn'[g] = Connection
          BY <1>0, <3>2, <4>1, <4>2 DEF CheckOpen, PcType, OpenerType
        <5> QED
          BY <1>7, <4>1, <5>1 DEF Justified, Active, Replacing, Listener
      <4>3. ASSUME pc'[g] = "listening" PROVE Justified(g)'
        BY <1>7, <4>1, <4>3 DEF Justified, Active, Replacing, Listener
      <4>4. CASE ReadMessage(l) \/ MessagePanics(l)
        <5>1. pc'[g] \in {"listening", "panicked"}
          BY <1>0, <3>2, <4>4 DEF ReadMessage, MessagePanics, PcType
        <5> QED
          BY <1>3, <4>3, <5>1
      <4>5. CASE ReadFails(l)
        <5>1. /\ pc[g] = "reading" /\ Dead(readOn[g])
              /\ pc'[g] \in {"listening", "resuming", "panicked"}
          BY <1>0, <3>2, <4>5 DEF ReadFails, PcType
        <5>2. Connection \in lost
          BY <1>2, <4>1, <5>1 DEF Justified, Dead, ClosedInv
        <5>3. pc'[g] = "resuming" => Justified(g)'
          BY <1>7, <2>0, <5>2 DEF Justified, Active, Replacing
        <5> QED
          BY <1>3, <4>3, <5>1, <5>3
      <4> QED
        BY <2>4, <4>2, <4>4, <4>5 DEF Listen
    <3> QED
      BY <3>1, <3>2
  <2>5. CASE SetOnError
    <3>1. pc'[g] = "opened" \/ (pc'[g] = pc[g] /\ readOn' = readOn)
      BY <1>0, <2>5 DEF SetOnError, PcType
    <3> QED
      BY <1>3, <2>1, <3>1
  <2>6. CASE UNCHANGED <<pc, readOn>>
    BY <2>1, <2>6
  <2> QED
    BY <2>3, <2>4, <2>5, <2>6
       DEF Next, Write, BeginWrite, ReadLock, Acquire, Release, FindClosed, Lose, vars, openerVars
<1> QED
  BY <1>5, <1>6, <1>7, StepChannel

-----------------------------------------------------------------------------
(* The theorems. *)

\* The inductive invariant.
CInv == TInv /\ OneInCharge /\ ClosedInv /\ RivalsInv /\ ReplacedIsClosed /\ SomeoneListens
            /\ KeptInv

\* At the start the main goroutine is about to dial, and there is no connection.
LEMMA InitCInv == Init => CInv
<1> SUFFICES ASSUME Init PROVE CInv
  OBVIOUS
<1>1. TInv /\ OneInCharge
  BY InitTInv, InitCharge
<1>2. /\ \A g \in Openers : pc[g] = IF g = Main THEN "locking" ELSE "none"
      /\ ~IsOpen /\ Connection = 0 /\ lost = {} /\ closed = {}
  BY DEF Init
<1>3. ClosedInv
  BY <1>2 DEF ClosedInv
<1>4. RivalsInv /\ KeptInv
  BY <1>2 DEF RivalsInv, KeptInv, Justified, Active, Replacing
<1>5. ReplacedIsClosed
  <2>1. \A c \in Opens : ~Dialed(c)
    BY <1>2, Names DEF Dialed
  <2> QED
    BY <2>1 DEF ReplacedIsClosed
<1>6. SomeoneListens
  BY <1>2 DEF SomeoneListens
<1> QED
  BY <1>1, <1>3, <1>4, <1>5, <1>6 DEF CInv

\* Connections may be lost, messages may panic and calls may fail at any moment: one
\* goroutine is in charge of the connection, and one more for each failed handshake.
THEOREM ChargeCorrect == Spec => []OneInCharge
<1>1. Init => TInv /\ OneInCharge
  BY InitTInv, InitCharge
<1>2. TInv /\ OneInCharge /\ [Next]_vars => TInv' /\ OneInCharge'
  BY StepTInv, StepCharge
<1> QED
  BY <1>1, <1>2, PTL DEF Spec

\* The whole invariant.
THEOREM ConnectionCorrect == Spec => []CInv
<1>1. CInv /\ [Next]_vars => CInv'
  BY StepTInv, StepCharge, StepClosed, StepRivals, StepReplaced, StepListens, StepKept DEF CInv
<1> QED
  BY InitCInv, <1>1, PTL DEF Spec

\* No replaced connection is left open, failed handshakes and early losses included,
\* unless two goroutines were replacing the connection at the same time.
THEOREM NoneIsLeaked == Spec => []ReplacedIsClosed
BY ConnectionCorrect, PTL DEF CInv

\* An open channel's connection has its own listener, unless that panicked or gave up.
THEOREM OpenIsListenedTo == Spec => []SomeoneListens
BY ConnectionCorrect, PTL DEF CInv

\* While every handshake has succeeded, only a lost connection is closed, whenever and
\* however often connections are lost.
THEOREM OnlyLostIsClosed == Spec => WorkingConnectionIsKept
<1>1. CInv /\ [Next]_vars => [abandoned = {} => \A c \in closed' \ closed : c \in lost]_vars
  <2>1. SUFFICES ASSUME CInv, [Next]_vars, abandoned = {}
                 PROVE  \A c \in closed' \ closed : c \in lost
    OBVIOUS
  <2>2. CASE closed' = closed
    BY <2>2
  <2>3. ASSUME NEW g \in Openers, Close(g) PROVE \A c \in closed' \ closed : c \in lost
    <3>1. IsOpen => Connection \in lost
      BY <2>1, <2>3 DEF Close, CInv, KeptInv, Justified
    <3> QED
      BY <2>3, <3>1 DEF Close
  <2>4. ASSUME NEW g \in Openers, Dial(g) PROVE closed' = closed
    BY <2>4 DEF Dial, networkVars
  <2> QED
    BY <2>1, <2>2, <2>3, <2>4, StepChannel
<1> QED
  BY <1>1, ConnectionCorrect, PTL DEF Spec, WorkingConnectionIsKept

=============================================================================
