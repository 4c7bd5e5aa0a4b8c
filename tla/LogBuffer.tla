------------------------------ MODULE LogBuffer ------------------------------
(***************************************************************************)
(* The double-buffered log of ToolBoxDriver/log.cpp, from the moment both  *)
(* buffers exist: LogpPrint/LogpPut in any calling context, the buffering  *)
(* of a message under the spin lock (LogpBufferMessage), the flush of the  *)
(* buffers into the log file under the ERESOURCE (LogpFlushLogBuffer), the *)
(* flush thread, the activation of the log file at the re-initialization   *)
(* phase and LogIrpShutdownHandler.                                        *)
(*                                                                         *)
(* A buffer is an array of bytes of which only one thing matters: which    *)
(* string begins at an offset.  mem[b][o] is Nul (the byte is '\0'), an    *)
(* entry (a whole message begins here, with its printed bit), Begun (the   *)
(* first byte of a message that is being copied) or Torn (some other text: *)
(* the middle of a message, edited text, or the 0xff filling).  Size[m] is *)
(* strlen(message) + 1; every message ends with \r\n.                      *)
(***************************************************************************)
EXTENDS Integers, Sequences, FiniteSets

CONSTANTS
    Writers,        \* the threads that call LogpPrint
    FlushThread,    \* the thread of LogpBufferFlushThreadRoutine
    Closers,        \* the Writers that may call LogIrpShutdownHandler
    Msgs,           \* messages; each is logged at most once
    Size,           \* Size[m]: bytes of m in a buffer, its '\0' included
    BufferSize,     \* kLogpBufferSize
    Contexts,       \* the calling contexts that occur, see AllContexts
    WritesMayFail,  \* can ZwWriteFile return an error?
    OpeningMayFail, \* can LogpInitializeLogFile fail when it is retried?
    Nul, Torn, Begun, None

(* "passive":  PASSIVE_LEVEL, some APCs enabled, no kLogpLevelOptSafe
   "guarded":  PASSIVE_LEVEL, all APCs disabled, no kLogpLevelOptSafe
   "raised":   above PASSIVE_LEVEL and below CLOCK_LEVEL, not Safe
   "safe":     a *_SAFE macro, or CLOCK_LEVEL and above                    *)
AllContexts == {"passive", "guarded", "raised", "safe"}

Entries == [msg : Msgs, printed : BOOLEAN]

ASSUME ConstantsAssumption ==
    /\ FlushThread \notin Writers
    /\ None \notin Writers \cup {FlushThread}
    /\ Closers \subseteq Writers
    /\ BufferSize \in Nat \ {0}
    /\ Size \in [Msgs -> Nat \ 0 .. 2]
    /\ Contexts \subseteq AllContexts
    /\ WritesMayFail \in BOOLEAN /\ OpeningMayFail \in BOOLEAN
    /\ OpeningMayFail => WritesMayFail
    /\ Nul \notin Entries /\ Torn \notin Entries /\ Begun \notin Entries
    /\ Nul # Torn /\ Nul # Begun /\ Torn # Begun
    /\ Torn \notin Msgs /\ None \notin Msgs

Threads == Writers \cup {FlushThread}
Buffers == {1, 2}                  \* log_buffer1 and log_buffer2
Offsets == 0 .. BufferSize - 1
Cells   == Entries \cup {Nul, Torn, Begun}
Usable  == BufferSize - 1          \* kLogpBufferUsableSize

VARIABLES
    alive,     \* buffer_flush_thread_should_be_alive
    enabled,   \* g_logp_debug_flag is not kLogPutLevelDisable
    mem,       \* the bytes of the two buffers
    head,      \* log_buffer_head: the buffer messages are appended to
    tail,      \* log_buffer_tail: [buf, off], where the next one goes
    maxUsage,  \* log_max_usage
    spin,      \* owner of spin_lock
    resource,  \* owner of resource
    old,       \* old_log_buffer of the flush that owns resource
    cursor,    \* current_log_entry of that flush, an offset in old
    pc,        \* where each thread is
    op,        \* the message and context of each thread's current call
    closer,    \* the thread inside LogIrpShutdownHandler
    file,      \* what ZwWriteFile has appended to the log file
    prints,    \* how often DbgPrintEx was called for a message
    outcome    \* what became of a message's LogpPut call

vars == <<alive, enabled, mem, head, tail, maxUsage, spin, resource, old,
          cursor, pc, op, closer, file, prints, outcome>>

bufferVars == <<mem, head, tail, maxUsage, spin>>
flushVars  == <<resource, old, cursor>>
callVars   == <<op, closer, enabled, alive>>

BusyPCs == {"flush", "switch", "walk", "wipe", "write", "buffer", "copy", "term"}
WriterPCs == BusyPCs \cup {"idle", "await", "disable", "drain", "down", "fault"}
FlushThreadPCs ==
    BusyPCs \cup {"off", "start", "started", "sleep", "never", "fault"}

(* "overflow" is STATUS_BUFFER_OVERFLOW, "dropped" the branch of LogpPut that
   neither writes nor buffers, "failed" a ZwWriteFile that failed. *)
Outcomes == {"new", "put", "buffered", "overflow", "dropped", "written",
             "failed"}

NoCall == [msg |-> None, ctx |-> None]

TypeOK ==
    /\ alive \in BOOLEAN /\ enabled \in BOOLEAN
    /\ mem \in [Buffers -> [Offsets -> Cells]]
    /\ head \in Buffers
    /\ tail \in [buf : Buffers, off : Nat]
    /\ maxUsage \in Nat
    /\ spin \in Threads \cup {None}
    /\ resource \in Threads \cup {None}
    /\ old \in Buffers /\ cursor \in Nat
    /\ pc \in [Threads -> WriterPCs \cup FlushThreadPCs]
    /\ op \in [Threads -> [msg : Msgs, ctx : AllContexts] \cup {NoCall}]
    /\ closer \in Writers \cup {None}
    /\ file \in Seq(Msgs \cup {Torn})
    /\ prints \in [Msgs -> Nat]
    /\ outcome \in [Msgs -> Outcomes]

(* The buffers as LogpInitializeBufferInfo leaves them: filled with 0xff, the
   first and the last byte set to '\0'. *)
FreshBuffer == [o \in Offsets |-> IF o \in {0, BufferSize - 1} THEN Nul
                                                               ELSE Torn]

Init ==
    /\ alive = FALSE
    /\ enabled = TRUE
    /\ mem = [b \in Buffers |-> FreshBuffer]
    /\ head = 1
    /\ tail = [buf |-> 1, off |-> 0]
    /\ maxUsage = 0
    /\ spin = None
    /\ resource = None
    /\ old = 1
    /\ cursor = 0
    /\ pc = [t \in Threads |-> IF t = FlushThread THEN "off" ELSE "idle"]
    /\ op = [t \in Threads |-> NoCall]
    /\ closer = None
    /\ file = <<>>
    /\ prints = [m \in Msgs |-> 0]
    /\ outcome = [m \in Msgs |-> "new"]

Goto(t, where) == pc' = [pc EXCEPT ![t] = where]

(* LogpPut's do_DbgPrint. *)
DoDbgPrint(ctx) == ctx # "safe"

(* The call of t returns: to its caller, into the loop of the flush thread, or
   into the rest of LogIrpShutdownHandler. *)
Return(t) ==
    /\ Goto(t, IF t = FlushThread THEN "sleep"
               ELSE IF closer = t THEN "disable" ELSE "idle")
    /\ op' = [op EXCEPT ![t] = NoCall]

(* Mutant: the flush prints a message again, whatever its printed bit says. *)
CountEveryPrint(m, isPrinted) == prints' = [prints EXCEPT ![m] = @ + 1]

(* DbgPrintEx of m, if isPrinted. *)
CountPrint(m, isPrinted) ==
    prints' = IF isPrinted THEN [prints EXCEPT ![m] = @ + 1] ELSE prints

EmptyHead == mem[head][0] = Nul

(* A flush that found the head buffer empty is under way. *)
FlushesEmpty == old = head /\ \E t \in Threads : pc[t] \in {"walk", "wipe"}

-----------------------------------------------------------------------------
(***************************************************************************)
(* LogpPrint and the decision of LogpPut, which reads                      *)
(* buffer_flush_thread_should_be_alive once and acts on it later.          *)
(***************************************************************************)
CanLogToFileNow(ctx) == ctx \in {"passive", "guarded"} /\ alive

TakeMessage(t, m, ctx) ==
    /\ outcome[m] = "new"
    /\ enabled
    /\ op' = [op EXCEPT ![t] = [msg |-> m, ctx |-> ctx]]

LogpPut(t, m, ctx) ==
    /\ TakeMessage(t, m, ctx)
    /\ ~ (CanLogToFileNow(ctx) /\ ctx = "guarded")
    /\ Goto(t, IF CanLogToFileNow(ctx) THEN "flush" ELSE "buffer")
    /\ outcome' = [outcome EXCEPT ![m] = "put"]
    /\ UNCHANGED <<bufferVars, flushVars, alive, enabled, file, prints>>

(* The log file is active but all APCs are disabled: the message goes neither
   to the file nor to a buffer; it is only printed. *)
LogpPutDropped(t, m, ctx) ==
    /\ outcome[m] = "new"
    /\ enabled
    /\ CanLogToFileNow(ctx) /\ ctx = "guarded"
    /\ outcome' = [outcome EXCEPT ![m] = "dropped"]
    /\ CountPrint(m, DoDbgPrint(ctx))
    /\ UNCHANGED <<bufferVars, flushVars, callVars, pc, file>>

LogpPrint(t, m, ctx) ==
    /\ pc[t] = "idle"
    /\ LogpPut(t, m, ctx) \/ LogpPutDropped(t, m, ctx)
    /\ UNCHANGED closer

-----------------------------------------------------------------------------
(***************************************************************************)
(* LogpBufferMessage, under the spin lock: RtlStringCchCopyA seen halfway  *)
(* (the first byte is in place) and finished, the update of the tail, and  *)
(* the '\0' at the new tail.  A flush does not take the spin lock for what  *)
(* it reads and writes in a buffer.                                        *)
(***************************************************************************)
Used(tl) == tl.off                 \* log_buffer_tail - log_buffer_head

(* Mutant: the size of the buffer instead of its usable size. *)
AvailInBuffer(tl) == BufferSize - Used(tl)

Avail(tl) == Usable - Used(tl)     \* the size RtlStringCchCopyA is given

Fits(tl, m) == Size[m] <= Avail(tl)

(* The bytes RtlStringCchCopyA writes: the message, or what there is room for. *)
Copied(m) == IF Fits(tail, m) THEN Size[m] ELSE Avail(tail)

(* Mutant: an overflow is not recorded. *)
UsageOfFitting(m) ==
    IF Fits(tail, m) /\ Used(tail) + Size[m] > maxUsage
    THEN Used(tail) + Size[m] ELSE maxUsage

(* log_max_usage after m; the whole buffer size stands for an overflow. *)
UsageAfter(m) ==
    CASE ~ Fits(tail, m)                     -> BufferSize
      [] Fits(tail, m) /\ Used(tail) + Size[m] > maxUsage
                                             -> Used(tail) + Size[m]
      [] OTHER                               -> maxUsage

(* A string that is copied to offset o of a buffer and takes n bytes there. *)
Overwrite(buffer, o, n, first) ==
    [p \in Offsets |-> CASE p = o + n - 1 -> Nul
                         [] p = o /\ n > 1 -> first
                         [] p > o /\ p < o + n - 1 -> Torn
                         [] OTHER -> buffer[p]]

StartCopy(t) ==
    /\ pc[t] = "buffer"
    /\ spin = None
    /\ spin' = t
    /\ mem' = IF Avail(tail) > 1
              THEN [mem EXCEPT ![tail.buf][tail.off] = Begun] ELSE mem
    /\ Goto(t, "copy")
    /\ UNCHANGED <<head, tail, maxUsage, flushVars, callVars, file, prints,
                   outcome>>

(* The first byte when the copy ends, if it was copied as cell: nothing has
   happened to it, a flush has cleared it, or one has cleared its printed bit
   or edited the text. *)
Surviving(first, cell) ==
    CASE first = Begun -> {cell}
      [] first = Nul   -> {Nul}
      [] OTHER         -> {Torn} \cup { [msg |-> e.msg, printed |-> FALSE] :
                                          e \in {cell} \cap Entries }

FinishCopy(t) ==
    /\ pc[t] = "copy"
    /\ LET m    == op[t].msg
           fits == Fits(tail, m)
           cell == IF fits
                   THEN [msg |-> m, printed |-> DoDbgPrint(op[t].ctx)]
                   ELSE Torn
       IN /\ \E first \in Surviving(mem[tail.buf][tail.off], cell) :
                mem' = IF Avail(tail) > 0
                       THEN [mem EXCEPT ![tail.buf] =
                               Overwrite(@, tail.off, Copied(m), first)]
                       ELSE mem
          /\ tail' = IF fits THEN [tail EXCEPT !.off = @ + Size[m]] ELSE tail
          /\ outcome' = [outcome EXCEPT ![m] = IF fits THEN "buffered"
                                                       ELSE "overflow"]
    /\ maxUsage' = UsageAfter(op[t].msg)
    /\ Goto(t, "term")
    /\ UNCHANGED <<head, spin, flushVars, callVars, file, prints>>

(* Mutant: no '\0' at the tail. *)
LeaveTail(t) ==
    /\ pc[t] = "term"
    /\ spin' = None
    /\ CountPrint(op[t].msg, DoDbgPrint(op[t].ctx))
    /\ Return(t)
    /\ UNCHANGED <<mem, head, tail, maxUsage, flushVars, closer, enabled, alive,
                   file, outcome>>

Terminate(t) ==
    /\ pc[t] = "term"
    /\ mem' = [mem EXCEPT ![tail.buf][tail.off] = Nul]
    /\ spin' = None
    /\ CountPrint(op[t].msg, DoDbgPrint(op[t].ctx))
    /\ Return(t)
    /\ UNCHANGED <<head, tail, maxUsage, flushVars, closer, enabled, alive,
                   file, outcome>>

-----------------------------------------------------------------------------
(***************************************************************************)
(* LogpFlushLogBuffer.  resource admits one flush at a time; the spin lock *)
(* is held only while the buffers are switched, so the old buffer is read  *)
(* and its first byte is cleared without it.                               *)
(***************************************************************************)
AcquireResource(t) ==
    /\ pc[t] = "flush"
    /\ resource = None
    /\ resource' = t
    /\ Goto(t, "switch")
    /\ UNCHANGED <<bufferVars, old, cursor, callVars, file, prints, outcome>>

(* Mutants: the head stays where it is; the head moves on to a third buffer. *)
SameBuffer(b) == b
NextBuffer(b) == b + 1

Other(b) == IF b = 1 THEN 2 ELSE 1

SwitchBuffer(t) ==
    /\ pc[t] = "switch"
    /\ spin = None
    /\ old' = head
    /\ cursor' = 0
    /\ IF EmptyHead
       THEN UNCHANGED <<mem, head, tail>>
       ELSE /\ head' = Other(head)
            /\ mem' = [mem EXCEPT ![head'][0] = Nul]
            /\ tail' = [buf |-> head', off |-> 0]
    /\ Goto(t, "walk")
    /\ UNCHANGED <<maxUsage, spin, resource, callVars, file, prints, outcome>>

(* The cursor of a walk; only over torn text can it leave the buffer. *)
Inside == cursor \in Offsets

Current == mem[old][cursor]

(* What LogpDoDbgPrint leaves of a buffer when it ends a string at offset p:
   '\n' before p and '\0' at p, wherever that is. *)
CutAt(buffer, p) ==
    [o \in Offsets |->
        CASE o = p -> Nul
          [] o = p - 1 -> Torn
          [] /\ o < p - 1 /\ buffer[o] \in Entries
             /\ p <= o + Size[buffer[o].msg] -> Torn
          [] OTHER -> buffer[o]]

(* Mutant: the '\0' between two messages is not stepped over. *)
StepToTerminator(m) == cursor + Size[m] - 1

StepOver(m) == cursor + Size[m]

(* One iteration on a whole message: test and clear the printed bit, write it
   to the file, print it unless its printed bit was on, which cuts off its
   last character, step over all of it.  A failed write is not retried. *)
WriteEntry(t) ==
    /\ pc[t] = "walk"
    /\ Inside /\ Current \in Entries
    /\ LET m == Current.msg IN
       /\ \/ /\ file' = Append(file, m)
             /\ UNCHANGED outcome
          \/ /\ WritesMayFail
             /\ outcome' = [outcome EXCEPT ![m] = "failed"]
             /\ UNCHANGED file
       /\ CountPrint(m, ~ Current.printed)
       /\ mem' = [mem EXCEPT ![old] =
                      IF Current.printed
                      THEN [@ EXCEPT ![cursor] = [msg |-> m, printed |-> FALSE]]
                      ELSE CutAt(@, cursor + Size[m] - 2)]
       /\ cursor' = StepOver(m)
    /\ UNCHANGED <<head, tail, maxUsage, spin, resource, old, callVars, pc>>

(* The copy under way may have put text in the place of a '\0' at o. *)
Overwriting(o) ==
    /\ old = head
    /\ \E t \in Threads :
          pc[t] = "copy" /\ o \in tail.off .. tail.off + Copied(op[t].msg) - 2

(* Where strlen can find the end of the text at the cursor, in or past the
   buffer; the text is taken to be measured at one moment. *)
Ends ==
    {end \in cursor .. BufferSize :
        /\ end \in Offsets => mem[old][end] = Nul
        /\ \A o \in cursor .. end - 1 : mem[old][o] = Nul => Overwriting(o)}

(* What printing leaves of the text at the cursor, if its printed bit was off;
   the bit itself has been cleared. *)
Edited(buffer) ==
    LET cleared == IF buffer[cursor] = Begun
                   THEN [buffer EXCEPT ![cursor] = Torn] ELSE buffer
    IN {cleared} \cup {CutAt(cleared, end - 1) : end \in Ends}

(* One iteration on any other text, which an append may be changing. *)
WriteTornEntry(t) ==
    /\ pc[t] = "walk"
    /\ Inside /\ Current \in {Torn, Begun}
    /\ file' = Append(file, Torn)
    /\ \E edited \in Edited(mem[old]) : mem' = [mem EXCEPT ![old] = edited]
    /\ \E end \in Ends : cursor' = end + 1
    /\ UNCHANGED <<head, tail, maxUsage, spin, resource, old, callVars, pc,
                   prints, outcome>>

(* The walk has stepped to old_log_buffer + kLogpBufferSize and reads whatever
   lies there: a '\0' (see EndOfEntries), other text, which goes to the file and may be
   cut so that the last byte of the buffer becomes '\n', or nothing at all,
   which is a bug check. *)
WalkPastEnd(t) ==
    /\ pc[t] = "walk"
    /\ ~ Inside
    /\ \/ /\ file' = Append(file, Torn)
          /\ \/ mem' = [mem EXCEPT ![old] = CutAt(@, BufferSize)]
             \/ UNCHANGED mem
          /\ Goto(t, "wipe")
       \/ /\ pc' = [u \in Threads |-> "fault"]
          /\ UNCHANGED <<file, mem>>
    /\ UNCHANGED <<head, tail, maxUsage, spin, flushVars, callVars, prints,
                   outcome>>

(* Mutant: an empty buffer makes the flush return with the resource held. *)
ReturnIfEmpty(t) ==
    /\ pc[t] = "walk"
    /\ Inside => Current = Nul
    /\ Goto(t, IF cursor > 0 THEN "wipe"
               ELSE IF op[t] = NoCall THEN "sleep" ELSE "write")
    /\ UNCHANGED <<bufferVars, flushVars, callVars, file, prints, outcome>>

(* A '\0' at the cursor, be it the byte behind the buffer. *)
EndOfEntries(t) ==
    /\ pc[t] = "walk"
    /\ Inside => Current = Nul
    /\ Goto(t, "wipe")
    /\ UNCHANGED <<bufferVars, flushVars, callVars, file, prints, outcome>>

(* old_log_buffer[0] = '\0'; a round of the flush thread ends here, LogpPut goes
   on to LogpWriteMessageToFile.  old and cursor are locals of the flush. *)
WipeAndRelease(t) ==
    /\ pc[t] = "wipe"
    /\ mem' = [mem EXCEPT ![old][0] = Nul]
    /\ resource' = None
    /\ old' = 1 /\ cursor' = 0
    /\ Goto(t, IF op[t] = NoCall THEN "sleep" ELSE "write")
    /\ UNCHANGED <<head, tail, maxUsage, spin, callVars, file, prints, outcome>>

(* LogpWriteMessageToFile, called without any lock, and LogpPut's print. *)
WriteMessageToFile(t) ==
    /\ pc[t] = "write"
    /\ LET m == op[t].msg IN
       /\ \/ /\ file' = Append(file, m)
             /\ outcome' = [outcome EXCEPT ![m] = "written"]
          \/ /\ WritesMayFail
             /\ outcome' = [outcome EXCEPT ![m] = "failed"]
             /\ UNCHANGED file
       /\ CountPrint(m, DoDbgPrint(op[t].ctx))
    /\ Return(t)
    /\ UNCHANGED <<bufferVars, flushVars, closer, enabled, alive>>

-----------------------------------------------------------------------------
(***************************************************************************)
(* The flush thread and the other entry points.                            *)
(***************************************************************************)

(* LogpReinitializationRoutine, in a thread that is not logging at the moment:
   LogpInitializeLogFile has opened the file, announces the flush thread, and
   creates it. *)
Activate(t) ==
    /\ pc[t] = "idle"
    /\ pc[FlushThread] = "off"
    /\ alive' = TRUE
    /\ pc' = [pc EXCEPT ![t] = "await", ![FlushThread] = "start"]
    /\ UNCHANGED <<bufferVars, flushVars, op, closer, enabled, file, prints,
                   outcome>>

(* The file cannot be opened or the flush thread cannot be created, which
   LogpReinitializationRoutine asserts not to happen; the log goes on with its
   buffers and never tries again.  (A thread that has seen the flag writes to a
   closed file then, which fails.) *)
FailToActivate ==
    /\ OpeningMayFail
    /\ pc[FlushThread] \in {"off", "start"}
    /\ alive' = FALSE
    /\ pc' = [t \in Threads |-> IF t = FlushThread THEN "never"
                                ELSE IF pc[t] = "await" THEN "idle" ELSE pc[t]]
    /\ UNCHANGED <<bufferVars, flushVars, op, closer, enabled, file, prints,
                   outcome>>

(* buffer_flush_thread_started *)
ThreadStarts ==
    /\ pc[FlushThread] = "start"
    /\ Goto(FlushThread, "started")
    /\ UNCHANGED <<bufferVars, flushVars, callVars, file, prints, outcome>>

(* The flush thread logs a message of its own before its loop, if the level or
   LogIrpShutdownHandler lets it: another flush that does not test whether
   there is something to write. *)
LogThreadStarted(m) ==
    /\ pc[FlushThread] = "started"
    /\ LogpPut(FlushThread, m, "passive")
    /\ UNCHANGED closer

StartSilently ==
    /\ pc[FlushThread] = "started"
    /\ Goto(FlushThread, "sleep")
    /\ UNCHANGED <<bufferVars, flushVars, callVars, file, prints, outcome>>

(* The flush thread has started; "The log file has been activated." *)
ReportActivation(t, m) ==
    /\ pc[t] = "await"
    /\ pc[FlushThread] # "start"
    /\ LogpPut(t, m, "passive")
    /\ UNCHANGED closer

(* The log is disabled, or LogInitialization has opened the file. *)
ActivateSilently(t) ==
    /\ pc[t] = "await"
    /\ pc[FlushThread] # "start"
    /\ Goto(t, "idle")
    /\ UNCHANGED <<bufferVars, flushVars, callVars, file, prints, outcome>>

(* One round of LogpBufferFlushThreadRoutine: the first byte of the head
   buffer is read without a lock. *)
FlushThreadRound ==
    /\ pc[FlushThread] = "sleep"
    /\ alive
    /\ Goto(FlushThread, IF EmptyHead THEN "sleep" ELSE "flush")
    /\ UNCHANGED <<bufferVars, flushVars, callVars, file, prints, outcome>>

(* LogIrpShutdownHandler: log "Bye!", disable the log, wait until the first
   byte of the head buffer is '\0'.  Its first message, "Flushing...", is a call
   of LogpPrint like any other. *)
LogIrpShutdownHandler(t, m) ==
    /\ t \in Closers
    /\ pc[t] = "idle"
    /\ closer = None
    /\ closer' = t
    /\ LogpPut(t, m, "passive")

DisableLog(t) ==
    /\ pc[t] = "disable"
    /\ enabled' = FALSE
    /\ Goto(t, "drain")
    /\ UNCHANGED <<bufferVars, flushVars, op, closer, alive, file, prints,
                   outcome>>

(* Mutant: the handler does not wait. *)
DrainedAtOnce(t) ==
    /\ pc[t] = "drain"
    /\ Goto(t, "down")
    /\ UNCHANGED <<bufferVars, flushVars, callVars, file, prints, outcome>>

Drained(t) ==
    /\ pc[t] = "drain"
    /\ EmptyHead
    /\ Goto(t, "down")
    /\ UNCHANGED <<bufferVars, flushVars, callVars, file, prints, outcome>>

FlushStep(t) ==
    \/ AcquireResource(t)
    \/ SwitchBuffer(t)
    \/ WriteEntry(t)
    \/ WriteTornEntry(t)
    \/ WalkPastEnd(t)
    \/ EndOfEntries(t)
    \/ WipeAndRelease(t)

CallStep(t) ==
    \/ WriteMessageToFile(t)
    \/ StartCopy(t)
    \/ FinishCopy(t)
    \/ Terminate(t)

WriterStep(t) ==
    \/ \E m \in Msgs : ReportActivation(t, m)
    \/ ActivateSilently(t)
    \/ DisableLog(t)
    \/ Drained(t)

FlushThreadStep ==
    \/ ThreadStarts
    \/ \E m \in Msgs : LogThreadStarted(m)
    \/ StartSilently
    \/ FlushThreadRound

Activation == FailToActivate \/ \E t \in Writers : Activate(t)

Next ==
    \/ Activation
    \/ FlushThreadStep
    \/ \E t \in Threads : FlushStep(t) \/ CallStep(t)
    \/ \E t \in Writers : WriterStep(t)
    \/ \E t \in Writers, m \in Msgs, ctx \in Contexts : LogpPrint(t, m, ctx)
    \/ \E t \in Writers, m \in Msgs : LogIrpShutdownHandler(t, m)

(* The kernel schedules every thread that can run, a sleep of the flush thread
   ends, and the I/O manager calls the re-initialization routine.  Nobody is obliged
   to log anything. *)
Fairness ==
    /\ WF_vars(Activation)
    /\ WF_vars(FlushThreadStep)
    /\ \A t \in Threads : WF_vars(FlushStep(t)) /\ WF_vars(CallStep(t))
    /\ \A t \in Writers : WF_vars(WriterStep(t))

Spec == Init /\ [][Next]_vars
FairSpec == Spec /\ Fairness

-----------------------------------------------------------------------------
(***************************************************************************)
(* Properties.                                                             *)
(***************************************************************************)
Crashed == pc[FlushThread] = "fault"

InFile(m) == \E i \in 1 .. Len(file) : file[i] = m

BeginsAt(b, o, m) == mem[b][o] \in Entries /\ mem[b][o].msg = m

Walking == \E t \in Threads : pc[t] = "walk"

InHead(m) == ~ EmptyHead /\ \E o \in 0 .. tail.off - 1 : BeginsAt(head, o, m)

InOld(m) == Walking /\ \E o \in Offsets : o >= cursor /\ BeginsAt(old, o, m)

(* The arithmetic of LogpBufferMessage never lets a write of its own leave the
   buffer, whatever a flush does to the buffers meanwhile: the tail belongs to the
   head buffer and is at most kLogpBufferUsableSize from its start, and every whole
   message in a buffer, left over ones included, ends before the last byte, which
   is kept for a '\0'. *)
BufferBounds ==
    /\ tail.buf = head /\ tail.off <= Usable
    /\ \A b \in Buffers, o \in Offsets :
          mem[b][o] \in Entries => o + Size[mem[b][o].msg] <= Usable

(* log_max_usage tells whether a message was ever refused for lack of room,
   and is otherwise an upper bound of the usage of the current buffer: what
   its comment promises to whoever chooses kLogpBufferSizeInPages. *)
UsageIsRecorded ==
    IF \E m \in Msgs : outcome[m] = "overflow"
    THEN maxUsage = BufferSize
    ELSE maxUsage < BufferSize /\ tail.off <= maxUsage

(* Every buffered message is eventually written, unless its write fails or there
   is a bug check: the flush thread "flushes a log buffer to a log file every
   kLogpLogFlushIntervalMsec msec". *)
BufferedIsFlushed ==
    \A m \in Msgs :
        outcome[m] = "buffered" ~> InFile(m) \/ outcome[m] = "failed" \/ Crashed

(* Every call of LogpPrint, of LogIrpShutdownHandler and of the re-initialization
   routine returns: no thread waits for ever for the resource, for the spin lock,
   for the flush thread or for an empty buffer.  The exceptions are a bug check
   (see WalkPastEnd), and the shutdown handler of a log whose file could not be
   opened: it waits for an empty head buffer, and only a flush empties one. *)
CallsReturn ==
    \A t \in Writers :
        pc[t] # "idle" ~> \/ pc[t] \in {"idle", "down"} \/ Crashed
                          \/ pc[t] = "drain" /\ pc[FlushThread] = "never"

(* What LogpPut stores is never silently given up: if the log file is enabled
   a message is written, buffered or refused with an error status. *)
NeverDropped == \A m \in Msgs : outcome[m] # "dropped"
=============================================================================
