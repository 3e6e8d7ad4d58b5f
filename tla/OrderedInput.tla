---------------------------- MODULE OrderedInput ----------------------------
(***************************************************************************)
(* What the sending half of the data channel promises: the inputs that it  *)
(* accepts reach the agent in the order in which they were accepted, none  *)
(* twice and none in another's place.                                      *)
(***************************************************************************)
EXTENDS Naturals, Sequences

CONSTANT Inputs

VARIABLES
    accepted,       \* the inputs sent without an error, in order
    taken           \* the inputs the agent has taken in, in order

vars == <<accepted, taken>>

Init ==
    /\ accepted = <<>>
    /\ taken = <<>>

Accept ==
    /\ \E input \in Inputs : accepted' = Append(accepted, input)
    /\ UNCHANGED taken

\* The agent takes what it can: the messages that were missing have arrived.
Take ==
    /\ \E n \in Len(taken) .. Len(accepted) : taken' = SubSeq(accepted, 1, n)
    /\ UNCHANGED accepted

Next == Accept \/ Take

Spec == Init /\ [][Next]_vars
=============================================================================
