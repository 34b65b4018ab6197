------------------------- MODULE MCLangGraphAdapter -------------------------
(* Instances of LangGraphAdapter for TLC. *)
EXTENDS LangGraphAdapter, TLC

CONSTANTS t1, t2, a1, a2, b1, alice, bob

\* The receive loop, and a second caller of the adapter.
MCTasks == {t1, t2}

\* Two messages of one sender, one of another: the default resolver.
MCMsgs == {a1, a2, b1}
MCThreads == {alice, bob}
MCThreadOf == a1 :> alice @@ a2 :> alice @@ b1 :> bob
=============================================================================
