-------------------------- MODULE MCMuxPortForwarding --------------------------
(***************************************************************************)
(* Versions around each of the thresholds, and two that are malformed.     *)
(***************************************************************************)
EXTENDS MuxPortForwarding

SomeVersions ==
    {<<>>, <<2, 4, 0, 0>>, <<3, 0, 196, 0>>, <<3, 0, 196, 1>>, <<3, 0, 197>>,
     <<3, 1, 1512, 0>>, <<3, NotANumber, 0, 0>>,
     <<NotANumber, 1, 0, 0>>}
=============================================================================
