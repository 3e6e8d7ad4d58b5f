---------------------------- MODULE OrderedOutput ----------------------------
(***************************************************************************)
(* What the receiving half of the data channel promises its user, without  *)
(* buffers, acknowledgements, handlers or goroutines: messages are taken   *)
(* in sequence order, one at a time, and while an output is attached no    *)
(* message with something to show is skipped.  A message may be shown      *)
(* again before the next one is taken (its acknowledgement failed, so the  *)
(* agent sends it again).                                                  *)
(***************************************************************************)
EXTENDS Naturals, Sequences

CONSTANT Silent     \* the sequence numbers of messages with nothing to show

VARIABLES
    next,           \* the sequence number to take next
    attached,       \* is the session's output attached?
    shown           \* what the user was shown, in order

vars == <<next, attached, shown>>

Init ==
    /\ next = 0
    /\ attached = FALSE
    /\ shown = <<>>

\* The next message is shown, and taken unless it will come again.
Show ==
    /\ shown' = Append(shown, next)
    /\ next' \in {next, next + 1}

\* The next message is taken without being shown.
Skip ==
    /\ attached => next \in Silent
    /\ next' = next + 1
    /\ UNCHANGED shown

\* Output is attached and detached behind the stream's back.
Idle == UNCHANGED <<next, shown>>

Next ==
    /\ attached' \in BOOLEAN
    /\ Show \/ Skip \/ Idle

Spec == Init /\ [][Next]_vars
=============================================================================
