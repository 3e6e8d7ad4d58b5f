# A verification project for the Session Manager plugin

TLA+ modules of the plugin's data channel and of the websocket under it, of the
handshake, of a session from its command line to its end, of the shell and the
port sessions, and of the layout of their messages; the TLC configurations that
check them on small instances, and proofs for every instance. Paths are relative
to the repository; `streaming.go` is `src/datachannel/streaming.go`, `websocketchannel.go` is in `src/communicator`,
`session.go` and `sessionhandler.go` in `src/sessionmanagerplugin/session`,
the shell and the port sessions in `shellsession/` and `portsession/` below
that, and ssmcli's commands in `src/ssmclicommands`.

## The system

The plugin connects a user's terminal, or a local TCP port, with an SSM agent
through the message gateway service. One process is one session.

    keyboard, resize, signals, client sockets      terminal, client sockets
            | SendInputDataMessage                       ^ output handlers
            v                                            |
    DataChannel: sending side                  DataChannel: receiving side
      outgoing list, resend scheduler            expected number, buffer
            |            ^ acknowledgements              ^
            v            |                               |
    WebSocketChannel: SendMessage, pings       WebSocketChannel: listener
            |                                            ^
            +------------ gateway, SSM agent ------------+

| component | state | operations | interacts with |
|---|---|---|---|
| receiving side (`streaming.go`) | expected number, incoming buffer, output handlers and their flag, session type and its channel | OutputMessageHandler, HandleOutputMessage, the three handshake handlers, ProcessIncomingMessageBufferItems, Register/DeregisterOutputStreamHandler | called by the listener; handlers belong to the session; acknowledges through the websocket |
| sending side (`streaming.go`) | stream number, outgoing list, timeouts, the resend-timeout channel | SendInputDataMessage, ResendStreamDataMessageScheduler, ProcessAcknowledgedMessage | called by many goroutines; the session reads the channel |
| connection (`streaming.go`, `websocketchannel.go`) | the websocket, IsOpen, the write mutex, OnError, OnMessage | Open, Close, Reconnect, SendMessage, StartPings, the listener | the retryer repeats Open and Reconnect; OnError reconnects |
| session control (`session.go`, `sessionhandler.go`) | session type and properties, token, retry parameters | Execute, OpenDataChannel, ProcessFirstMessage, ResumeSessionHandler, handleStreamMessageResendTimeout, TerminateSession | drives the data channel, starts the plugin of the session's type |
| retryer (`retry/retryer.go`) | attempts | Call, NextSleepTime | Reconnect, ResumeSessionHandler |
| shell session (`shellsession/`) | terminal size, terminal mode | keyboard, resize and signal goroutines, ProcessStreamMessagePayload | senders of input; an output handler that is always ready |
| port session (`portsession/`) | client connection, listener, mux session | InitializeStreams, ReadStream, WriteStream, Stop | an output handler that may be unready or fail; replaces OnMessage |
| client message (`message/`) | none | serialize, deserialize, validate | every message |
| encryption (`encryption/`) | keys | Encrypt, Decrypt, KMS calls | handshake, payloads |
| versions (`version/`) | none | comparison with thresholds | port sessions |
| command line (`ssmclicommands/`, mains), SDK glue, logging, JSON | configuration | parsing, set-up | start of the session |

What is hard, and what would make it correct:

* Receiving. The network loses, repeats and reorders; an acknowledgement or an
  answer may fail to be sent; the main goroutine registers the session's handler
  while the listener delivers. Output must be shown in order, acknowledged only
  when it is safe with the plugin, and never be dropped while a handler is there.
* Sending. SendInputDataMessage takes no lock although several goroutines call
  it, and the resend scheduler and the acknowledgements work on its list.
  Inputs must reach the agent in order, nothing unacknowledged may be forgotten,
  and an inactive agent must end the session.
* Connection. The fields of the channel, the mutex included, are replaced by a
  reconnection while senders, pings and old listeners use them. One goroutine
  may read and one may write a connection, and a lost connection must be noticed
  and replaced.
* Handshake. A message of it is acknowledged before it is processed, and
  processed before its answer is sent: each step may be repeated or may be the
  last one. Whatever the repetitions do to the encrypter, both sides must use one
  key, and nobody may send before they do.
* Session control. The session type comes from a handshake or, with old agents,
  from the first output; the plugin for it must be looked up after it is known,
  and waiting for it must come to an end.
* Shell session. The terminal's settings outlive the program, and two goroutines
  change them by running stty; the last size must reach the agent.
* Command line. ssmcli's parser leaves holes (a flag without a value) that its
  commands must not fall into.
* Port sessions. The client connection appears late, goes away and is replaced
  while the listener writes to it.

`PROJECT.json` lists the hazards at their lines, with the properties that
cover them.

## Modules

### OrderedOutput and IncomingStream: the receiving side

`OrderedOutput` is the promise: messages are taken in sequence order, and none
that carries data is skipped while an output is attached; the last may be shown
again when its acknowledgement failed.

`IncomingStream` is HandleOutputMessage with everything it calls. A message is
its sequence number; the constant `Kind` says what each carries. One call of the
handler is one action, split only where the main goroutine can interfere:

| code | model |
|---|---|
| branches of HandleOutputMessage (620-729) | `ReceiveOld`, `ReceiveAhead`, `ReceiveHandshakeRequest`, `ReceiveEncChallengeRequest`, `ReceiveHandshakeComplete`, `ReceiveData` |
| decrypting a payload, on arrival and from the buffer | `DecryptAndPass`, `DecryptFails` |
| ProcessIncomingMessageBufferItems (734-770) | `ProcessBufferItem`, in a loop while `listener = "draining"` |
| the loop over the handlers (609), and ProcessFirstMessage removing itself (593-598) | `PassToHandlers` reads the slice for the loop, `FindHandler` reads it again to look for the handler, `ProcessFirstMessage` writes it back |
| `<-IsSessionTypeSet()`, RegisterOutputStreamHandler | `TakeSessionType`, `SetSessionSpecificHandler`, `ReadHandlers`, `AppendHandler` |
| returned errors of sends | `AckFails` and the alternatives of `Answer`, at most `MaxSendFailures` |
| agent, gateway (external) | `AgentSend`, `AgentResend`, `AckArrives`, `Lose` |

AddDataToIncomingMessageBuffer, RemoveDataFromIncomingMessageBuffer,
ProcessSessionTypeHandshakeAction and DeregisterOutputStreamHandler are
operators of the same names.

`outputStreamHandlers` is a slice that two goroutines change without a lock.
The model treats each read and the write of the slice header as an atomic
step; torn headers are not modelled, nor is a second read within one statement.

`Undecryptable` is the data that Decrypt returns an error for. In its turn it is
neither acknowledged nor passed; when it comes from the buffer it stays there, and
each later drain tries it again: the stream makes no progress (`StreamProgresses`
excepts it), but nothing is shown out of order and nothing acknowledged is thrown
away. Deserializing is the other error return of the drain (743-747). It cannot be
taken: the bytes in the buffer are those that were deserialized on arrival.

The agent is assumed to number its messages, to resend until acknowledged, to
begin with the handshake and to wait for the answer to a handshake request or a
challenge (`HandshakeFirstAssumption`, guard of `AgentSend`). In the plugin's
code this shows in handleHandshakeComplete's use of what the request set up.

### OrderedInput and OutgoingStream: the sending side

`OrderedInput` is the promise: accepted inputs reach the agent in order, each
once.

`OutgoingStream` has one action per access to shared state, because
SendInputDataMessage holds no lock:

| code | model |
|---|---|
| SendInputDataMessage (284-341) | `Compose`, `Transmit`, `Label`, `CheckCapacity`, `ReadOldest`, `Evict`, `Push`, `ReadNumber`, `Increment`, per sender |
| ResendStreamDataMessageScheduler (345-374) | `PickFirst`, `Signal`, `Resend`; `TimePasses` is the passing of RetransmissionTimeout |
| HandleAcknowledgeMessage, ProcessAcknowledgedMessage (377-391) | actions of these names; the walk over the list is `NextElement` until `RemoveAcknowledged` |
| the shell's goroutines (shellsession.go) | `EndOfInput`: the one that reads the keyboard returns, and the process ends |
| handleStreamMessageResendTimeout (session.go 115-130) | `HandleResendTimeout` |
| agent (external) | `AgentReceive` |

`overdue` holds the inputs whose LastSentTime in the list is older than the
timeout. It never loses one: line 368 assigns to a copy of the element, so from
the first resend on the scheduler resends at every tick, although the comment at
343 promises a message to be resent when its last transmission exceeds the timeout
(the one at config.go 27, on the other hand, counts on a resend at every tick). The
values of the timeout are abstracted from. This disagreement can be read off the code,
so no run is spent on it.

Only adding to the list and removing from it hold its mutex. The length (809) and the
first message (810) are read without it, and so is every element on the listener's walk
(379-388). An element that is evicted during the walk has no next one, so the
walk ends and the acknowledgement is lost; the message stays in the
list until it is acknowledged again. If acknowledgements empty a list that was found full before its first message is
read, that message is nil and the sender panics (`"panicked"`): TLC reaches this state in the
run Outgoing.

`background` are the senders that only log an error, like those for the terminal
size and the control signals. Any other may return, from an error (`AfterError`)
or at the end of its input, and then the process is over (`Alive`), as it is after
a panic; only the agent still receives what is under way.

### Connection: the websocket and its reconnection

Every call of WebSocketChannel.Open has a number, which names the mutex it
makes, the connection it dials, its listener and its pings.

| code | model |
|---|---|
| SendMessage (116-129), StartPings (93-112) | `BeginWrite` checks IsOpen, `ReadLock` reads the mutex field, `Acquire`, `Release`, `FindClosed`; for senders, pings and handshakes |
| Close (173-184), Open (187-213) | `Close`, `NewLock`, `Dial`, `DialFails`, `Handshake` |
| the listener (213-249) and its deferred recover (214-218) | `CheckOpen`, `ReadMessage`, `MessagePanics`, `ReadFails` |
| GetResumeSessionParams, ResumeSessionHandler, OnError, the retryer's Call | `Resume`, `Retry`, `Finished` |
| OpenDataChannel's SetOnError (sessionhandler.go 91) | `SetOnError` |
| network (external) | `Lose` |

The assignments of Connection and IsOpen are one step with the return of the
dial. Messages, tokens and delays are abstracted from. `program = "fatal"` is
Go's fatal error for unlocking a mutex that is not locked.

A connection may be lost at any time after it was dialed: during its handshake,
between the return of the retryer and `SetOnError`, or later. In the first case the
handshake may fail, and from then on the connection's listener and the goroutine that
opened it both go on. In the second OnError is nil when the listener wants to call
it, and it ends in the panic that it recovers from, as it does when OnMessage
panics over a message; the channel stays open and nobody reads from it
(`pc[l] = "panicked"`).

What the properties say is therefore conditional, and the conditions are as weak as
TLC allows. `OneInCharge` bounds the goroutines that read or replace the connection
by one and the number of failed handshakes (the history `abandoned`); TLC refutes the
bounds 1 and 2 alone. `WorkingConnectionIsKept` is asked as long as no handshake has failed, and
refuted without that. `ReplacedIsClosed` is asked also of abandoned connections, but
not after two goroutines have been replacing the connection at the same time (the
history `rivals`); with one more call of Open than in the run TLC refutes it without
that condition.

### BasicPortForwarding: a port session with one client at a time

PortSession over BasicPortForwarding (the agent does not multiplex). Clients
are numbered in the order they connect; a connection is its client's number.
The data channel is taken at its word: inputs are a sequence, and of the
receiving side only what the handler's answer decides is kept, since
IncomingStream has the rest (how full the buffer may get, acknowledgements that
fail to be sent).

| code | model |
|---|---|
| Initialize, its OnMessage (portsession.go 76-104) | `SetOnMessage`; the check of IsStreamNotSet is `PassesGate` |
| InitializeStreams, startLocalConn, startLocalListener | `InitializeStreams`, with `Provide` for the interceptor |
| ReadStream (basicportforwarding.go 83-118) | `ReadStream`, `ReadFails` |
| reconnect | `CloseStream`, then `Accept` or `Acquire` |
| handleControlSignals, Stop | `HandleSignal`, `StopOnSignal`, `HandleChannelClosed` |
| ProcessStreamMessagePayload, WriteStream | `ProcessStreamMessagePayload` reads the field, `WriteStream` and `WriteFails` use what it held |
| ProcessIncomingMessageBufferItems, which ignores a handler that is not ready (streaming.go 761) | `DrainUnready` |
| clients, interceptor, agent and server (external) | `Arrive`, `HangUp`, `AcquireOutcomes`, `AgentSends` |

The module starts when HandshakeComplete is handled. Output that overtook it is in
the buffer by then (`early`, any set of what was sent), and the listener drains it
while the main goroutine initializes: what is drained before there is a client is passed
to nobody (`DrainUnready`). `written` says which client's connection took which output.

So `OnlyKeptOutputIsLost` has two cases, and TLC refutes it without either; and
`OutputReachesClient` promises that output is written to the connection of the very client,
except what is kept and in hand for the connection of its predecessor
(`HeldForAnother`), which TLC shows to be lost.

The main goroutine, the websocket listener and the signal handler interleave.
The field `stream` keeps a closed connection until the next client comes, and
the listener may write to the connection that it read before it was replaced.

### Version and MuxPortForwarding: a port session with many clients

`Version` compares the agent's version with the thresholds of config.go. A
version is the sequence of its components, each a number or `NotANumber`; the
empty sequence is an agent that tells none. An error of the comparison counts as
"not greater", as in the callers.

`MuxPortForwarding` is PortSession over MuxPortForwarding, for agents that
multiplex. It starts before the version is looked at; a session that turns out
`"basic"` belongs to the module above.

| code | model |
|---|---|
| Initialize, its OnMessage (portsession.go) | `Initialize`, `SetOnMessage`: between the two the handler is registered and the gate is not there |
| InitializeStreams, initialize and its two goroutines | `InitializeStreams`, `Dial`, `StartMux`, `AcceptMux`, `AcceptMuxFails`, `EndSetup` |
| ReadStream | `EndReadStream`, and the two goroutines it starts |
| transferDataToServer | `CheckTransfer`, `TransferData`, `ReadFails` |
| handleClientConnections | `OpenListener`, `CheckAccept`, `AcceptClient`, `AcceptFails` |
| handleDataTransfer | `CopyUp`, `CopyDown`, for each client |
| handleControlSignals, Stop | `HandleSignal`, `StopOnSignal`, `HandleChannelClosed` |
| IsStreamNotSet, WriteStream, the handler of flags | `ReceiveOutput`, `ReceiveOther` |
| clients, servers, smux (external) | `Connect`, `HangUp`, `MuxWrites`, `MuxTimesOut` |

IsStreamNotSet reads a field of `muxClient`, which is nil until `StartMux`. A
message that comes earlier makes the listener panic; it recovers, and no one
listens any more (`panicked`). The window is a fact of the code that
`PanicsOnlyInSetup` bounds: it closes when initialize has waited for its two
goroutines. Also bounded, not excluded: when dialing fails, Accept waits for
ever, and initialize for it (`SetupEnds` excepts this case), and after an error
each goroutine of ReadStream looks at the context only when something has woken
it (`ErrorEndsSession`). `StartMux` does not fail: smux.Client returns an error only for
an invalid configuration, and both that are used are smux's default, with and without
keep-alive, so the error return at muxportforwarding.go 184-185 is dead code.

### ClientMessage: the layout of a message

One message is serialized, arrives whole, cut, or with one byte changed, and is
deserialized and validated.

| code | model |
|---|---|
| the struct, offsets and lengths (clientmessage.go 115-171) | `IsMessage`, `Fields`, `Size`, `Offset`, `Span` |
| SerializeClientMessage and the put functions | `SerializeClientMessage`, `Serialized`, `Encoded`, `Padded`, `Fits` |
| integerToBytes, longToBytes and their inverses | `IntegerToBytes`, `LongToBytes`, `BytesToInteger`, `BytesToULong`, `BytesToLong` |
| DeserializeClientMessage and the get functions | `DeserializeClientMessage`, `Deserialized`, `Decoded`, `PayloadStart` |
| Validate | `Validate`, `IsValid` |
| strings.TrimSpace (external) | the constant `Whitespace` |
| SHA-256 (external) | the constant `Digest`; `ShortDigest` of MCClientMessage, injective on the payloads of the run |

Offsets and sizes are the code's; a byte has `Radix` values, four in the run
instead of 256, so that TLC's integers hold eight of them. Signedness and
overflow are kept: the four bytes of HeaderLength are added to in 32 bits. That
fields do not overlap is not assumed: `Serialized` has at each position what was put
there last. `IsMessage` is what the types of the struct allow, with three things
that the plugin and the agent keep to: a message has a date and a type, no type
begins or ends with white space or a zero byte (they are constants of
clientmessage.go), and the length of a message fits its 32 bits.

### Handshake, CommandLine and ShellSession: a session from start to end

`Handshake` is what the actions of a handshake do to the data channel. Where
IncomingStream asks which message is handled when, this module asks what is left
behind: the encrypter, the session type, and who knows which key.

| code | model |
|---|---|
| handleHandshakeRequest (445-503), one action after the other | `BeginRequest`, `ProcessKMSEncryptionHandshakeAction`, `ProcessSessionTypeHandshakeAction`, `RejectAction`, `SendHandshakeResponse` |
| handleEncryptionChallengeRequest, handleHandshakeComplete | `HandleEncryptionChallengeRequest`, `HandleHandshakeComplete` |
| an acknowledgement or an answer that cannot be sent | `AcknowledgeFails`, the second alternative of `Answered` |
| ProcessFirstMessage (sessionhandler.go 106-122), for agents without a handshake | `ProcessFirstMessage` |
| NewEncrypter, generateEncryptionKey, Encrypt, Decrypt (encrypter.go) | `NewEncrypter`, `EncryptionKey`, `DecryptionKey`, `CanSend`, `CanRead` |
| KMS, agent, gateway (external) | `KmsOutcomes`, `AgentTakesResponse`, `AgentTakesChallenge` |

A data key is its number, and a sealed payload the half it was sealed with. A
request that comes again asks KMS again: a new key, or an encrypter without a
key while `encryptionEnabled` stays set (line 476). For an action it does not
know the code sets ActionResult and leaves ActionStatus zero (line 492), hence
the status `"zero"`.

`CommandLine` is ssmcli: ParseCliCommand, ValidateInput and the start-session
command, as operators on a sequence of arguments. Its `Outcomes` are what may
become of a command line. Options in front of a command are kept as the code
has it: the parameters are read from the third argument on even then.

`ShellSession` composes both with the goroutines of a session.

| code | model |
|---|---|
| ValidateInputAndStartSession (session.go 132-229), StartSessionCommand.Execute | actions of these names |
| OpenDataChannel and the retryer's Call | `OpenDataChannel`, `Opened`, `GivesUp`, and after them `SetOnError` |
| Execute, setSessionHandlersWithSessionType (231-259) | `Execute` |
| Initialize, SetSessionHandlers (shellsession.go) | `Initialize`, `SetSessionHandlers` |
| disableEchoAndInputBuffering, handleKeyboardInput (shellsession_unix.go) | `GetState`, `SetCbreak`, `SetNoEcho`, `HandleKeyboardInput` |
| handleTerminalResize, handleControlSignals | actions of these names |
| PortSession over StandardStreamForwarding | `InitializePort`, `InitializeStreams`, `ReadStream` |
| HandleChannelClosedMessage and the Stop that OnMessage calls | `HandleChannelClosed`, `Restore`, `Echo`, `Exit` |
| OnError and ResumeSessionHandler | `CallOnError`, `ResumeSessionHandler` |
| the listener's deferred recover (websocketchannel.go 214-218) | `MessagePanics`, and `CallOnError` while OnError is nil |
| user, network (external) | `Resize`, `Interrupt`, `Lose` |

setState runs stty with what getState has read, the newline at its end included, and
its error is ignored (shellsession_unix.go 40-51, 56). Whether stty takes that is
`SttyAccepts`: GNU stty 9.1 refuses it, others may not. Stop then sets echo
(57), which stty takes. So `TerminalIsRestored` says that the terminal echoes
again, and that it is as it was found unless stty has refused (`sttyRefused`): then it
stays in cbreak.

The main goroutine, the listener and the goroutines of the size and the signals
interleave. `IsAwsCliUpgradeNeeded`, which the plugin's command line decides,
decides in turn what the handshake answers; the session type that the handshake
announces decides whose keyboard is read, and whose Stop ends the program. The
histories `arguments`, `stoppedAt`, `sizeFailed` and `sealsSent` are for the
properties only. What the model shows and no property forbids: Stop during the
start of the shell, an early Control-C, a timed-out session and the end of the
input leave the terminal changed. `NoSize` is what SizeData holds at first, 0 x 0; a terminal
that reports this size is never reported to the agent, and is outside `Sizes`.

`ExecuteEnds` excepts four failures that the code only logs: the channel was not
opened in all attempts (`"none"`) or not opened again (`"deaf"`), an answer failed whose
request the agent does not repeat (`AnswerIsForgotten`), and the listener ended in a
panic, over a message or over an OnError that was still nil. TLC refutes the property when any
one of them is left out.

## Runs

| run | question | result |
|---|---|---|
| IncomingHandshake | a handshake with an encryption challenge, then output; capacity 1, two failing sends, a last message that cannot be decrypted | `DisplayedInOrder`, `PassedIsAcked`, `AckedDataIsKept`, `BufferHoldsOnlyData` and the refinement `DeliversInOrder` hold; the listener never blocks on the session-type channel (`TypeIsAnnouncedOnce`) |
| IncomingLive | an agent that does not handshake, a failing acknowledgement: does every message get through? | `StreamProgresses` holds |
| IncomingNotShown | is passed output shown? | no: finding |
| IncomingHandlerLost | does the handler stay registered? | no: finding |
| Outgoing | one sender, three inputs, a list of two, acknowledgements that walk the list while it changes | `InputsInOrder` (refinement of OrderedInput); the list is sorted and bounded, what is forgotten is the oldest of a full list (`ForgetsOldestWhenFull`), and a message that stays unacknowledged gets the session terminated |
| OutgoingSharedNumber | two senders | they share a number: finding |
| ConnectionReopened | connections lost at any time, messages that panic, any outcome of resuming, dialing and handshakes, pings | one goroutine is in charge of the connection, and one more for each failed handshake (`OneInCharge`); what is replaced is closed, an open channel is listened to, no working connection is closed while handshakes succeed, and a lost one is replaced unless its listener panicked, the retries are used up or the session timed out |
| ConnectionTwoWriters | connections lost at any time: the websocket library's demand of one writer | violated: finding |
| PortClients | clients come, send, hang up and are replaced while output arrives | `ClientsAreSeparated`; only kept output is lost, and in two ways (`OnlyKeptOutputIsLost`); whoever comes or stays is served (`ClientIsServed`, `OutputReachesClient`) |
| MuxClients | two clients of a multiplexed session, agents of versions around the thresholds | `FlagsAreKnown`, `PanicsOnlyInSetup`; set-up, an error and a transfer come to their end (`SetupEnds`, `ErrorEndsSession`, `TransferEnds`) |
| MessageDamaged | messages that arrive whole, cut or with a changed byte | `DamageStaysLocal`: fields do not overlap and are read as written; `AcceptedPayloadIsIntact` |
| SessionLifetime | a session from either command line to its end: encryption or not, a shell, a port or nothing known, failing KMS, answers and connections, and a user who types, resizes and interrupts | both sides use one key before anything is sent (`SidesUnderstandEachOther`, `InputIsReadable`), the terminal echoes again, and is restored where stty takes what it printed (`TerminalIsRestored`), only a flag without a value makes ssmcli panic (`PanicsOnlyWithoutValue`), Execute's wait ends but for four failures (`ExecuteEnds`), and a size arrives (`SizeArrives`) |

Each finding in `PROJECT.json` quotes the comment or release note that the
code disagrees with.

### Bounds

* IncomingHandshake has six messages: the handshake request, the challenge, its
  completion and three of output, more than the buffer (capacity 1) takes, so
  output overtakes each part of the handshake and the buffer is found full; the last
  cannot be decrypted, on arrival or from the buffer. The other streams have four. Two failing sends let an acknowledgement and an
  answer, or two acknowledgements of one message, fail.
* Outgoing: three inputs through a list of two are a first, a middle and a last
  message, and the list overflows. `ResendMaxAttempt` is 1 (3000 in the code):
  its value is only compared with the counter. Two inputs are enough for two
  senders to collide.
* Connection: three calls of Open allow two losses in a row, two failed handshakes, or
  one reconnection with a failed attempt; `MaxRetries` is 1 (5) and `RetryAttempt` 2 (5):
  enough for a read error that is not the last one and for a retry that is. The first
  connection is pinged (`Pinged`); the others' pings do what it does.
  ConnectionTwoWriters adds a sender. The properties were also checked with four
  calls, no pings and `RetryAttempt` 1 (7.7 million states), where the fourth lets two
  reconnecting goroutines replace the connection at once.
* PortClients: three clients, so that a client both follows and precedes
  another; each sends once, and of two messages of output one can be kept while the
  other is awaited, or both overtake HandshakeComplete.
* MuxClients: two clients, since what clients share is the mux session. The
  versions are none, one too short, two with a component that is no number, one
  below and one at the threshold of multiplexing, one just above it, and one
  above the threshold of keep-alive.
* MessageDamaged: messages with the least and the greatest numbers, an empty
  payload (which cannot be serialized) and one that pauses the publication; a
  changed byte belongs to one field, and a cut reaches into every field.
* SessionLifetime: four requests: a shell, encryption before a port, encryption
  after a shell's type, and two actions that are refused; with the legacy agents, who
  do not handshake, these are all cases of Execute. One failing acknowledgement or answer
  makes the agent repeat a request, so that KMS is asked twice and the encrypter
  replaced; one lost connection and one retry reach each exit of
  ResumeSessionHandler; stty may take or refuse what it printed. Two sizes are a size and a resize. The command lines hold
  each error of the parser and of the validation, each way to lack a value, and
  an option in front of the command.
* `CHECK_DEADLOCK FALSE`: the systems stop when the bounded inputs are used up,
  when the session has ended or when everything waits for the network.

### Fairness

* Goroutines: weak fairness on each one's actions. The Go scheduler is
  preemptive, so an enabled goroutine runs.
* IncomingStream: the agent goes on sending and resending (weak), and a message
  that is resent for ever arrives (strong fairness on `Receive`). Losing a
  message for ever would make any protocol stop.
* OutgoingStream: while the process is alive its goroutines run and time passes;
  nothing of the agent.
* Connection: each goroutine goes on with opening, and with checking the channel and
  failing reads on a dead connection. Writers need not be fair: while one holds the
  mutex the listener finds out about the loss all the same, and that a handshake is sent is not
  promised. Neither messages, losses nor pings need happen.
* BasicPortForwarding: the main goroutine and the listener run, and a message in
  its turn is handled, which stands for the agent's resending. Clients need
  neither come nor hang up.
* MuxPortForwarding: every goroutine that can go on does. Accept need not fail,
  and clients, smux and the agent need do nothing.
* ShellSession: the main goroutine goes on until it waits for the user, the
  goroutines of the size and the signals and a reconnection go on, and the agent
  and the network deliver what the handshake needs, since both sides repeat it.
  The user need do nothing, and an agent need close only a session it gave up.

## Proofs

`IncomingStreamProofs` proves, for every stream, capacity, number of failing
sends and set of undecryptable data allowed by `StreamAssumption`, `HandshakeFirstAssumption` and
`LimitAssumption`:

* `Invariance`: `Spec => []IInv`.
* `TypeCorrect`, `OrderCorrect`, `PassedIsAckedCorrect`,
  `AckedDataIsKeptCorrect`, `BufferHoldsOnlyDataCorrect`: the properties of
  those names, as parts of `IInv`. `OrderCorrect` says that nothing is shown after
  what comes later in the stream; that nothing is skipped does not hold
  (IncomingNotShown), and `DeliveryCorrect` says how much of it does.
* `BoundCorrect` and `KnownTypeCorrect`: two further invariants, each proved by
  induction on top of `IInv`.
* `AnnouncedOnce`: `TypeIsAnnouncedOnce`, by `AnnounceInv` on top of the types. A
  type that was announced keeps every message from ProcessFirstMessage, because
  the flag of the session's handler is set only after the type was taken; and the
  handshake announces a type only by the message after which none of it is left.
* `DeliveryCorrect`: the refinement `DeliversInOrder`, for handlers that are
  always ready (`SessionOutcomes = {"ready"}`), which is what a shell's are.

None of the properties is inductive alone. `PassedIsAcked` needs that the buffer
holds only acknowledged messages (`BufferInv`), because draining passes without
acknowledging. That no control message is in the buffer needs the agent's
waiting as an invariant (`AgentInv`): a request that is passed but unanswered is
the last one sent. `DisplayedInOrder` needs that nothing above the expected
number was shown (`ShownInv`). `ListenerInv` says where the listener may be when
the expected message is in the buffer, and `HandlerInv` that the flag is set
before the handler can be found. The proof that a step keeps `IInv` goes by
actors: `AgentStep`, `ReceiveStep`, `ListenerStep`, `ExecuteStep`.

The bound (`BufferIsBounded`) and the known type (`StartsWithKnownType`) are
stated and proved only: no run repeats them. The bound needs the theorems on
finite sets; the refinement maps each action to
`Show`, `Skip` or `Idle`.

`BasicPortForwardingProofs` proves, for every number of clients, inputs and
outputs and every answer of the interceptor (`PortAssumption`):

* `TypeCorrect`: `TypeOK`. It needs `ProgressInv`: who reads has a client, and who
  writes has a message.
* `SeparationCorrect`: `ClientsAreSeparated`. The strengthening says that nothing
  was sent before the streams are initialized (`QuietInv`), and that the data of
  every client but the present one is followed by a flag, as is that of the
  present one while it is closed and the next one awaited (`FlagInv`). `SilentFlags` and
  `SendingFlags` show that a step that sends nothing, and one that does, keeps it.
* `LossCorrect`: `OnlyKeptOutputIsLost`, whatever overtakes HandshakeComplete. Two
  facts strengthen it. The plugin closes the connection only of a client that has hung up,
  unless it exits (`ClosedInv`), so that a write fails only then. And before there
  is a client, all that was passed overtook HandshakeComplete, and what will be
  drained did, too (`EarlyInv`): output that is kept later is ahead of an output that
  only a client's connection can take.

`MuxPortForwardingProofs` proves, for every set of versions (`MuxAssumption`) and
any clients:

* `TypeCorrect`: `TypeOK`, with `FieldInv`, which says that a goroutine that is
  done has set its field.
* `FlagsCorrect`: `FlagsAreKnown`. handleControlSignals does not ask for the
  version, so this needs `ChoiceInv` (who handles signals multiplexes, and who
  multiplexes has a later version) and the lemma `MultiplexingKnowsFlag`: what is
  later than the one threshold is later than the other.
* `PanicsCorrect`: the action property `PanicsOnlyInSetup`.

`HandshakeProofs` and `ShellSessionProofs` prove, for every set of requests that
ask for encryption at most once (`HandshakeAssumption`), every set of command
lines (`CommandLineAssumption`), every behaviour of KMS and any number of
failures, sizes and retries (`SessionAssumption`):

* `Invariance`: `Spec => []IInv`, in two layers. The lemmas of HandshakeProofs
  keep `HandshakeInv` through every step of the handshake, of the agent, and of
  anyone who leaves it alone; ShellSessionProofs adds the session's parts.
* `KeysAgreeCorrect`, `UnderstandingCorrect`: `KeysAgree` and
  `SidesUnderstandEachOther`. That a reported key is in use is not inductive
  alone, as the encrypter may be replaced at any repetition. The strengthening
  (`AnswerInv`) says that the statuses of the request being processed, and those
  of an answer on its way, are `Honest` about the encrypter of this very moment,
  and that no answer is on its way while the request may come again; `KeyInv`
  says that encryption is enabled only for agents that asked for it.
* `ReadableCorrect`: `InputIsReadable`. Nothing is sent before the agent serves
  (`StartInv`), a handshake that is complete is over (`ServingIsFinal`), and so
  all input is sealed like the next (`SealInv`).
* `RestoredCorrect`: `TerminalIsRestored`, for an stty that takes what it printed and
  for one that refuses it (`SttyAccepts` is any set of answers), from `TerminalInv`: what was saved are
  the original settings, whoever restores belongs to the shell, who was
  stopped at the keyboard changes nothing any more, and so the settings are set again or
  refused, and the echo is set in both cases.
* `PanicsCorrect`: `PanicsOnlyWithoutValue`, by the lemmas `EmptyLacksValue` and
  `PanicLacksValue` on every sequence of arguments.
* `TypeCorrect`: `TypeOK`.

`OutgoingStreamProofs` proves, for every number of inputs, capacity, limit and
number of failing sends (`OutgoingAssumption`, where the goroutines that send are a
finite set):

* For any senders, `TypeCorrect`: `TypeOK`. That the number stays within the
  inputs needs `NumberInv`: it and the inputs in flight together are no more than
  the inputs taken, and the same is true of a number that was read and is about to
  be written back. `RoomInv` keeps the list of a sender that is alone within its
  capacity: between the check of the length, the look at the first message and the
  removal only an acknowledgement can shorten the list, and unless it does the victim is
  still the first.
* For any senders, `ResendsBounded`: `ResendsAreBounded`. `Signals` counts the
  values put in the resend-timeout channel, two at most since its reader reads
  once; the attempts of a message exceed the limit by no more than that (`ResendInv`).
* For one sender (the hypothesis `Senders = {s}` of each theorem; two share a number, as
  OutgoingSharedNumber shows) `ListSorted`, `NumbersUnique` and
  `OldestForgotten`: `BufferIsSorted`, `NumbersAreUnique` and
  `ForgetsOldestWhenFull`. They follow from `LoneInv`: the messages sent are
  numbered from 0 without a gap, in the order of their inputs (`SentInv`); the one
  in the sender's hands has the last number (`HandInv`); the list is sorted, and
  two messages that are n places apart differ by n or more (`ListInv`), so that the
  first of a full list is older than as many others as the list holds
  (`VictimInv`); the agent has only what was sent (`AgentInv`); and what nobody
  retains is that old (`ForgetInv`). None of these parts is inductive without the others.
* For one sender, `InputsOrdered`: the refinement `InputsInOrder`. `accepted` is
  mapped to the inputs that were sent, the smallest first; `AcceptedByNumber` shows,
  with bijections between numbers and inputs, that these are the inputs by number,
  and `TakenToNumber` that the agent's first gap exists. So a successful `Transmit` appends
  an input (`TransmitAccepts`), `AgentReceive` moves the gap on (`AgentTakes`),
  and every other step leaves both sequences alone.

`ConnectionProofs` proves, for every number of senders and calls of Open and every
limit of the retries (the assumption of Connection):

* `NumberingCorrect`, `TypeCorrect`: whenever connections are lost, each is
  dialed once and has one listener (`NumberInv`), and every variable keeps its type.
* `ChargeCorrect`: `OneInCharge`, by counting. A goroutine that dials hands the charge to
  the new connection's listener (`DialKeepsCharge`); one whose handshake fails takes it up again
  besides the listener, and the same step adds its connection to the abandoned ones
  (`HandshakeKeepsCharge`); no other step adds anyone (`StepCharge`).
* `ConnectionCorrect`: the inductive invariant `CInv`, and from it `NoneIsLeaked`,
  `OpenIsListenedTo` and `OnlyLostIsClosed`: `ReplacedIsClosed`, `SomeoneListens` and the
  action property `WorkingConnectionIsKept`. That what is replaced was closed needs that
  without rivals one goroutine replaces the connection, and the channel is closed
  meanwhile (`RivalsInv`). That only a lost connection is closed needs the count: while no
  handshake has failed there is one goroutine in charge (`SoleInCharge`), and so what
  it is about to do is still justified by the state in which it does it (`KeptInv`).

No theorem about the connection has a hypothesis on when connections are lost, which
handshakes fail or which messages make OnMessage panic.

`ClientMessageProofs` proves, for every number of values of a byte, every set of white
space and every set of messages as in `IsMessage` (`LayoutAssumption`):

* The conversions are inverse to one another: `IntegerRoundTrip`, `ULongRoundTrip`,
  `LongRoundTrip` (two's complement, from `SameResidue`), `SwapTwice` and
  `TypeRoundTrip`, which needs that a type neither begins nor ends with what the
  receiver trims.
* `SpansAreOrdered` and `WrittenOnce`: each position of the header belongs to one
  field, so that what was put there last is what was put there at all
  (`SerializedAs`).
* `DamageIsLocal`: `DamageStaysLocal`, from the inductive invariant `IInv`: the bytes under way
  are the serialization but for the touched positions (`Delivered`), and
  what was read is what they decode to. A field none of whose bytes was touched is
  decoded as it was sent (`UntouchedField`), and so are the start of the payload and
  the payload (`UntouchedStart`, `UntouchedPayload`).
* `AcceptedIsIntact`: `AcceptedPayloadIsIntact`. As PayloadLength is never compared with the
  payload, and the digest only when PayloadLength is not zero, the proof has to show
  that damage to one field leaves the checks of the others standing
  (`OtherFieldsUntouched`). The theorem has a
  hypothesis, `NoCollision`: no other sequence of bytes has the digest of a payload that is
  composed. It is asked of these payloads only, as no digest is injective on all.

Only model-checked:

* Liveness: `StreamProgresses`, `UnacknowledgedIsNoticed`, `LostConnectionIsReplaced`,
  `ClientIsServed`, `OutputReachesClient`, `SetupEnds`, `ErrorEndsSession`,
  `TransferEnds`, `ExecuteEnds`, `SizeArrives`. Fairness is outside the prover's reach.

These are all: every invariant, action property and refinement that a passing run
checks is also a theorem, under the hypotheses named above.

## Not modelled

* In the receiving side: errors of deserializing on arrival, which end a call of the
  handler without a change of state (ClientMessage says which messages fail);
  `start_publication` messages, which do nothing; `channel_closed` where
  IncomingStream and OutgoingStream have it, since there the process just ends.
* The cipher itself, the JSON of payloads, what HandshakeComplete displays.
* The arithmetic of the retransmission timeout and the retryer's delays: time is
  abstracted to whether it has passed, and no other state depends on them.
* smux's flow control and protocol errors, and the removal of the socket file.
* Two senders in one run of OutgoingStream show a shared number
  (OutgoingSharedNumber); what else follows from it, such as a list over its
  capacity, has no property.
* The shell on Windows: how its console is read and which bytes a key becomes.
* Help and usage texts, credentials and AWS calls, logging, display.
* A port session's own gate for output inside ShellSession; it is in
  BasicPortForwarding.

## Plan

Done, with their proofs: IncomingStream with OrderedOutput, OutgoingStream with
OrderedInput, Connection, BasicPortForwarding, MuxPortForwarding, Handshake,
ShellSession and ClientMessage, and the operators of Version and CommandLine they use.
Next, in this order:

1. A composition of both directions over one connection, with reconnection: the
   promises OrderedInput and OrderedOutput kept across a lost connection.
2. The retryer's delays and the retransmission timeout within its bounds, as
   operators with reference definitions.
