-------------------------------- MODULE Version --------------------------------
(***************************************************************************)
(* The comparison of the agent's version with the versions after which an  *)
(* agent supports a feature (version/).  A version is the sequence of its  *)
(* components, <<>> for an empty string; a component is a number or        *)
(* NotANumber.                                                             *)
(***************************************************************************)
EXTENDS Integers, Sequences

NotANumber == -1

\* config.go
TerminateSessionFlagSupportedAfterThisAgentVersion            == <<2, 3, 722, 0>>
TCPMultiplexingSupportedAfterThisAgentVersion                 == <<3, 0, 196, 0>>
TCPMultiplexingWithSmuxKeepAliveDisabledAfterThisAgentVersion == <<3, 1, 1511, 0>>

\* Where compare's loop returns: at a component that is no number or that differs.
Decides(this, other, i) ==
    \/ NotANumber \in {this[i], other[i]}
    \/ this[i] # other[i]

\* Mutant of IsGreater: any greater component is enough, and an agent that tells no
\* version is taken for a new one.
IsGreaterAnywhere(this, other) ==
    \/ this = <<>>
    \/ \E i \in DOMAIN this \cap DOMAIN other : this[i] > other[i]

\* compare returns 1: the component that decides is a greater number.  An error,
\* also of a component that is no number, makes it not greater.
IsGreater(this, other) ==
    /\ this # <<>> /\ Len(this) = Len(other)
    /\ \E i \in DOMAIN this :
          /\ \A j \in 1 .. i - 1 : ~Decides(this, other, j)
          /\ NotANumber \notin {this[i], other[i]}
          /\ this[i] > other[i]

DoesAgentSupportTCPMultiplexing(agentVersion) ==
    IsGreater(agentVersion, TCPMultiplexingSupportedAfterThisAgentVersion)

DoesAgentSupportDisableSmuxKeepAlive(agentVersion) ==
    IsGreater(agentVersion, TCPMultiplexingWithSmuxKeepAliveDisabledAfterThisAgentVersion)

DoesAgentSupportTerminateSessionFlag(agentVersion) ==
    IsGreater(agentVersion, TerminateSessionFlagSupportedAfterThisAgentVersion)
=============================================================================
