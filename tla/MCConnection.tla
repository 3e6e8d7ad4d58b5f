----------------------------- MODULE MCConnection -----------------------------
(***************************************************************************)
(* A websocket small enough for TLC: one retry and two failing reads, with *)
(* every answer that ResumeSession and the dialer may give.                *)
(***************************************************************************)
EXTENDS Connection

OneRetry    == 1
TwoReads    == 2
AnyResume   == {"token", "error", "timedOut"}
AnyDial     == {TRUE, FALSE}
=============================================================================
