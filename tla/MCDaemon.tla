------------------------------ MODULE MCDaemon ------------------------------
(* Instance of Daemon for TLC. *)
EXTENDS Daemon
=============================================================================
