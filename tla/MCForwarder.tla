---------------------------- MODULE MCForwarder ----------------------------
(* Instance of Forwarder for TLC. *)
EXTENDS Forwarder

CONSTANTS c1, m1

\* Updates are told apart by their number: one chat is enough.
MCChats == {c1}
MCMsgs == {m1}

\* The reply comes and goes within Subscribe: here only the chat matters.
NoneEligible == {}
=============================================================================
