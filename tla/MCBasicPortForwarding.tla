------------------------ MODULE MCBasicPortForwarding ------------------------
(***************************************************************************)
(* A port session with a few clients, for TLC: with an interceptor that may  *)
(* do anything, and an agent that may be new or old.                       *)
(***************************************************************************)
EXTENDS BasicPortForwarding

AnyAcquire == {"provides", "declines", "fails"}
AnyAgent   == {TRUE, FALSE}
=============================================================================
