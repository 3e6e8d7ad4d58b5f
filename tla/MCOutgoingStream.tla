--------------------------- MODULE MCOutgoingStream ---------------------------
(***************************************************************************)
(* Sending sides small enough for TLC.  A message is resent once before    *)
(* the session is to be terminated; the call that does it may fail.        *)
(***************************************************************************)
EXTENDS OutgoingStream

ResendOnce   == 1
MayTerminate == {TRUE, FALSE}
Terminates   == {TRUE}
=============================================================================
