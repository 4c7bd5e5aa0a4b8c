------------------------------ MODULE MCLogQueue ------------------------------
(* Small instance of LogBufferRefinement for TLC. *)
EXTENDS LogBufferRefinement

CONSTANTS Long   \* the messages of four bytes; the others have three

MCSize == [m \in Msgs |-> IF m \in Long THEN 4 ELSE 3]
=============================================================================
