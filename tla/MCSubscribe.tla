---------------------------- MODULE MCSubscribe ----------------------------
(* Instances of Subscribe for TLC. *)
EXTENDS Subscribe

CONSTANTS m1, m2

\* Both auto-reply eligible, neither sender in the directory.
MCMsgs == {m1, m2}
NoneListed == {}

\* One eligible, one not; the second one's sender is in the directory.
OneEligible == {m1}
OneListed == {m2}
=============================================================================
