---------------------------- MODULE MCLogShutdown ----------------------------
(* Small instance of LogShutdown for TLC. *)
EXTENDS LogShutdown

MCSize == [m \in Msgs |-> 3]
=============================================================================
