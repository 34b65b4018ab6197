--------------------------- MODULE MCInboxQueue ---------------------------
(* Instance of InboxQueue for TLC. *)
EXTENDS InboxQueue

CONSTANTS m1, m2, m3

MCMsgs == {m1, m2, m3}
=============================================================================
