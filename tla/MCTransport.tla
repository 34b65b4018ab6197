---------------------------- MODULE MCTransport ----------------------------
(* Instance of Transport for TLC. *)
EXTENDS Transport

CONSTANTS m1, m2, m3

MCMsgs == {m1, m2, m3}
=============================================================================
