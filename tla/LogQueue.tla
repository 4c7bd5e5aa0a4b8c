------------------------------- MODULE LogQueue -------------------------------
(***************************************************************************)
(* What the log promises, without buffers, locks or threads.  A message    *)
(* is either put into a queue, which is written to the log file in the     *)
(* order of acceptance, or written directly; each is written once and      *)
(* given up only if its write fails.  The promise ends when the log is     *)
(* damaged.                                                                *)
(***************************************************************************)
EXTENDS Sequences

CONSTANTS Msgs, WritesMayFail

VARIABLES
    queue,     \* accepted messages that are still to be written, in order
    file,      \* the log file
    accepted,  \* every message that was ever queued or written directly
    damaged    \* the queue is in ruins

vars == <<queue, file, accepted, damaged>>

Init == queue = <<>> /\ file = <<>> /\ accepted = {} /\ damaged = FALSE

Accept(m) ==
    /\ m \notin accepted
    /\ queue' = Append(queue, m)
    /\ accepted' = accepted \cup {m}
    /\ UNCHANGED file

WriteDirectly(m) ==
    /\ m \notin accepted
    /\ accepted' = accepted \cup {m}
    /\ file' = Append(file, m) \/ (WritesMayFail /\ file' = file)
    /\ UNCHANGED queue

Write ==
    /\ queue # <<>>
    /\ file' = Append(file, Head(queue))
    /\ queue' = Tail(queue)
    /\ UNCHANGED accepted

LoseWrite ==
    /\ WritesMayFail
    /\ queue # <<>>
    /\ queue' = Tail(queue)
    /\ UNCHANGED <<file, accepted>>

Work == ~ damaged /\ UNCHANGED damaged /\ (Write \/ LoseWrite)

Log(m) == ~ damaged /\ UNCHANGED damaged /\ (Accept(m) \/ WriteDirectly(m))

(* From here on the file may get anything. *)
Damage == damaged' = TRUE /\ queue' = <<>>

Next == Work \/ Damage \/ \E m \in Msgs : Log(m)

Spec == Init /\ [][Next]_vars /\ WF_vars(Work)
=============================================================================
