--------------------------- MODULE MCChatRouting ---------------------------
(***************************************************************************)
(* TLC instance of ChatRouting.                                            *)
(***************************************************************************)
EXTENDS ChatRouting

\* Chats are interchangeable: no action or property tells them apart.
Symmetry == Permutations(Chats) \cup Permutations(Names)
=============================================================================
