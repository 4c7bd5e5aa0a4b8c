----------------------------- MODULE MCLogBuffer -----------------------------
(* Small instances of LogBuffer for TLC. *)
EXTENDS LogBuffer

CONSTANTS Long   \* the messages of four bytes; the others have three

MCSize == [m \in Msgs |-> IF m \in Long THEN 4 ELSE 3]
=============================================================================
