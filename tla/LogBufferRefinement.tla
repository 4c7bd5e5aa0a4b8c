------------------------- MODULE LogBufferRefinement -------------------------
(***************************************************************************)
(* What the log keeps up in every calling context until an append begins   *)
(* while a flush that found the head buffer empty is still reading it.     *)
(* LogpPut flushes without a look at the buffer (log.cpp:528), so do, with *)
(* a message of their own, the flush thread when it starts and the         *)
(* re-initialization routine when it ends; only the rounds of the flush    *)
(* thread look first.  Such a flush takes the buffer to be its own while   *)
(* it is still the one messages are appended to.                           *)
(***************************************************************************)
EXTENDS LogBuffer

VARIABLE overlapped   \* history: that has happened

historyVars == <<vars, overlapped>>

HistoryInit == Init /\ overlapped = FALSE

AppendBegins == spin = None /\ spin' # None

(* A step of LogBuffer; the log is followed up to the first overlap. *)
Followed(action) ==
    /\ ~ overlapped
    /\ action
    /\ overlapped' = (FlushesEmpty /\ AppendBegins)

HistorySpec == HistoryInit /\ [][Followed(Next)]_historyVars

(* The fairness of LogBuffer. *)
HistoryFairSpec ==
    /\ HistorySpec
    /\ WF_historyVars(Followed(Activation))
    /\ WF_historyVars(Followed(FlushThreadStep))
    /\ \A t \in Threads : /\ WF_historyVars(Followed(FlushStep(t)))
                          /\ WF_historyVars(Followed(CallStep(t)))
    /\ \A t \in Writers : WF_historyVars(Followed(WriterStep(t)))

-----------------------------------------------------------------------------
(***************************************************************************)
(* Properties.                                                             *)
(***************************************************************************)

(* A message LogpBufferMessage accepted is in the file, or a flush will still
   come to it: it is in the head buffer and that buffer does not look empty,
   or the flush under way has it before its cursor.  (With an overlap it may be
   lost, see empty_flush.cfg.) *)
BufferedNotLost ==
    \A m \in Msgs : outcome[m] = "buffered" =>
        InFile(m) \/ InHead(m) \/ InOld(m) \/ overlapped

(* The log file holds whole messages only, each of them once, the ones that were
   written directly included: no flush walks text that is being copied or is left
   over from an earlier use of its buffer. *)
FileIsClean ==
    \/ overlapped
    \/ \A i \in 1 .. Len(file) :
          file[i] \in Msgs /\ \A j \in 1 .. Len(file) : file[i] = file[j] => i = j

(* The printed bit keeps LogpPut and the flush from both printing a message:
   nothing is printed twice, and what is in the file and no longer in its
   caller's hands was printed once, whoever flushed it. *)
PrintedOnce ==
    \/ overlapped
    \/ \A m \in Msgs :
          /\ prints[m] <= 1
          /\ InFile(m) /\ (\A t \in Threads : op[t].msg # m) => prints[m] = 1

(* A walk meets whole messages only and ends at a '\0' in the buffer: it never reads
   or edits the byte behind a buffer, or any text that is torn. *)
WalkStaysInside ==
    \/ overlapped
    \/ Walking => Inside /\ Current \in Entries \cup {Nul}

(* The whole messages that follow one another in a buffer, from each offset up
   to a string that is none or to offset limit. *)
Chain(buffer, limit) ==
    LET chain[o \in Nat] ==
            IF o < limit /\ o \in Offsets /\ buffer[o] \in Entries
            THEN <<buffer[o].msg>> \o chain[o + Size[buffer[o].msg]]
            ELSE <<>>
    IN chain

MessagesFrom(b, from, limit) == Chain(mem[b], limit)[from]

(* The queue: what the flush under way has before its cursor, unless it has found
   nothing, then the head buffer. *)
PendingQueue ==
    (IF Walking /\ old # head THEN MessagesFrom(old, cursor, BufferSize) ELSE <<>>)
        \o MessagesFrom(head, 0, tail.off)

Accepted == {m \in Msgs : outcome[m] \in {"buffered", "failed", "written"}}

Queue == INSTANCE LogQueue WITH
             queue    <- IF overlapped THEN <<>> ELSE PendingQueue,
             accepted <- Accepted,
             damaged  <- overlapped

(* The two buffers, the switch and the flush are a queue: first in, first out,
   nothing lost, duplicated or stuck, and the messages written past it keep its
   order, until an append overlaps the flush of an empty buffer. *)
ImplementsQueue == Queue!Spec
=============================================================================
