-------------------------- MODULE MCHermesAdapter --------------------------
(* Instances of HermesAdapter for TLC. *)
EXTENDS HermesAdapter

CONSTANTS t1, t2, alice, bob, carol

\* The receive loop, and a second caller of the adapter.
MCTasks == {t1, t2}
OneTask == {t1}

MCSenders == {alice, bob, carol}

\* No pool, and one that three senders overflow.
MCPoolSizes == {0, 2}
=============================================================================
