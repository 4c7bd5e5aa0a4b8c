----------------------------- MODULE LogLifecycle -----------------------------
(***************************************************************************)
(* How the log of ToolBoxDriver/log.cpp comes up and goes away:            *)
(* LogInitialization and everything it acquires (the ERESOURCE, two        *)
(* buffers, the log file, the flush thread), the activation of the log     *)
(* file at the re-initialization phase of a boot driver, LogTermination,   *)
(* the life of the flush thread, and the threads that are inside           *)
(* LogpPrint while all this happens.  What the buffers hold is the matter  *)
(* of LogBuffer; here a pointer or a handle is there (TRUE) or null.       *)
(*                                                                         *)
(* The driver is any client that follows the comments of log.h; module     *)
(* Driver shows that driver.cpp is one.                                    *)
(***************************************************************************)
EXTENDS FiniteSets

CONSTANTS
    Loggers,     \* the threads that call LogpPrint, the control thread aside
    RunDown,     \* those the I/O manager waits for before it unloads
    Failures     \* what may fail, see AllFailures

(* "absent" is STATUS_OBJECT_PATH_NOT_FOUND: at boot, before the file system of
   the log file is mounted. *)
AllFailures == {"resource", "pool", "absent", "file", "thread", "log"}

ASSUME LifecycleAssumption ==
    /\ RunDown \subseteq Loggers
    /\ Failures \subseteq AllFailures

VARIABLES
    at,            \* where the control thread is, see Places
    status,        \* what LogInitialization returns or returned
    reinit,        \* the state of the re-initialization, see Reinits
    enabled,       \* g_logp_debug_flag is not kLogPutLevelDisable
    resource,      \* resource_initialized
    buffer1,       \* log_buffer1 is not null
    buffer2,       \* log_buffer2 is not null
    headSet,       \* log_buffer_head and log_buffer_tail are not null
    fileHandle,    \* log_file_handle is not null
    alive,         \* buffer_flush_thread_should_be_alive
    threadHandle,  \* buffer_flush_thread_handle is not null
    started,       \* buffer_flush_thread_started
    flusher,       \* where the flush thread is
    logger         \* where each logger is

storage == <<resource, buffer1, buffer2, headSet>>
writing == <<fileHandle, alive, threadHandle, started, flusher>>
vars == <<at, status, reinit, enabled, storage, writing, logger>>

(* The control thread runs DriverEntry, the re-initialization routine and
   DriverUnload, which the I/O manager never runs at the same time. *)
Places == {"start", "resource", "alloc1", "alloc2", "fill", "file", "alive",
           "thread", "dead", "await", "test", "ready", "loaded", "finalize",
           "join", "close", "free2", "free1", "delete", "failed", "terminated"}

Reinits == {"none", "registered", "running", "done", "failed"}

TypeOK ==
    /\ at \in Places
    /\ status \in {"none", "success", "reinit", "error"}
    /\ reinit \in Reinits
    /\ \A b \in {enabled, resource, buffer1, buffer2, headSet, fileHandle, alive,
                 threadHandle, started} : b \in BOOLEAN
    /\ flusher \in {"none", "start", "loop", "check", "work", "sleep", "exited"}
    /\ logger \in [Loggers -> {"idle", "needed", "enabled", "flush", "write",
                               "buffer"}]

Init ==
    /\ at = "start"
    /\ status = "none"
    /\ reinit = "none"
    /\ enabled = FALSE
    /\ resource = FALSE
    /\ buffer1 = FALSE /\ buffer2 = FALSE /\ headSet = FALSE
    /\ fileHandle = FALSE
    /\ alive = FALSE
    /\ threadHandle = FALSE
    /\ started = FALSE
    /\ flusher = "none"
    /\ logger = [l \in Loggers |-> "idle"]

MayFail(what) == what \in Failures

-----------------------------------------------------------------------------
(***************************************************************************)
(* LogInitialization and LogpInitializeBufferInfo.                         *)
(***************************************************************************)
LogInitialization ==
    /\ at = "start"
    /\ enabled' = TRUE
    /\ at' = "resource"
    /\ UNCHANGED <<status, reinit, storage, writing, logger>>

(* Nothing has been acquired yet, so this failure returns at once; a path that is
   too long for log_file_path, tested before, ends the same way. *)
InitializeResource ==
    /\ at = "resource"
    /\ \/ /\ resource' = TRUE
          /\ at' = "alloc1"
          /\ UNCHANGED status
       \/ /\ MayFail("resource")
          /\ at' = "failed"
          /\ status' = "error"
          /\ UNCHANGED resource
    /\ UNCHANGED <<reinit, enabled, buffer1, buffer2, headSet, writing, logger>>

(* Mutant: an allocation that fails returns at once. *)
FailAtOnce == at' = "failed" /\ status' = "error"

Fail == at' = "finalize" /\ status' = "error"

AllocateBuffer1 ==
    /\ at = "alloc1"
    /\ \/ buffer1' = TRUE /\ at' = "alloc2" /\ UNCHANGED status
       \/ MayFail("pool") /\ Fail /\ UNCHANGED buffer1
    /\ UNCHANGED <<reinit, enabled, resource, buffer2, headSet, writing, logger>>

AllocateBuffer2 ==
    /\ at = "alloc2"
    /\ \/ buffer2' = TRUE /\ at' = "fill" /\ UNCHANGED status
       \/ MayFail("pool") /\ Fail /\ UNCHANGED buffer2
    /\ UNCHANGED <<reinit, enabled, resource, buffer1, headSet, writing, logger>>

FillBuffers ==
    /\ at = "fill"
    /\ headSet' = TRUE
    /\ at' = "file"
    /\ UNCHANGED <<status, reinit, enabled, resource, buffer1, buffer2, writing, logger>>

(* Mutant: STATUS_OBJECT_PATH_NOT_FOUND is returned as it is. *)
Untranslated(result) == result

StatusFor(result) == IF result = "absent" THEN "reinit" ELSE result

(* LogpInitializeLogFile returns to LogpInitializeBufferInfo, which lets an
   absent path pass and finalizes after any other error, or to
   LogpReinitializationRoutine. *)
Returns(result) ==
    IF reinit = "running"
    THEN /\ at' = "loaded"
         /\ reinit' = IF result = "success" THEN "done" ELSE "failed"
         /\ UNCHANGED status
    ELSE /\ IF result = "error" THEN at' = "finalize" ELSE at' = "test"
         /\ status' = StatusFor(result)
         /\ UNCHANGED reinit

OpenLogFile ==
    /\ at = "file"
    /\ \/ /\ fileHandle
          /\ Returns("success")
          /\ UNCHANGED fileHandle
       \/ /\ ~ fileHandle
          /\ fileHandle' = TRUE
          /\ at' = "alive"
          /\ UNCHANGED <<status, reinit>>
       \/ /\ ~ fileHandle
          /\ \/ MayFail("absent") /\ Returns("absent")
             \/ MayFail("file") /\ Returns("error")
          /\ UNCHANGED fileHandle
    /\ UNCHANGED <<enabled, storage, alive, threadHandle, started, flusher, logger>>

SetAlive ==
    /\ at = "alive"
    /\ alive' = TRUE
    /\ at' = "thread"
    /\ UNCHANGED <<status, reinit, enabled, storage, fileHandle, threadHandle,
                   started, flusher, logger>>

(* If the thread cannot be created, the file is closed first and
   buffer_flush_thread_should_be_alive reset next. *)
CreateFlushThread ==
    /\ at = "thread"
    /\ \/ /\ threadHandle' = TRUE
          /\ flusher' = "start"
          /\ at' = "await"
          /\ UNCHANGED fileHandle
       \/ /\ MayFail("thread")
          /\ fileHandle' = FALSE
          /\ at' = "dead"
          /\ UNCHANGED <<threadHandle, flusher>>
    /\ UNCHANGED <<status, reinit, enabled, storage, alive, started, logger>>

ResetAlive ==
    /\ at = "dead"
    /\ alive' = FALSE
    /\ Returns("error")
    /\ UNCHANGED <<enabled, storage, fileHandle, threadHandle, started, flusher, logger>>

(* Mutant: LogInitialization does not wait for the thread. *)
SkipFlushThread ==
    /\ at = "await"
    /\ Returns("success")
    /\ UNCHANGED <<enabled, storage, writing, logger>>

AwaitFlushThread ==
    /\ at = "await"
    /\ started
    /\ Returns("success")
    /\ UNCHANGED <<enabled, storage, writing, logger>>

(* "Test the log": one message, whose status decides. *)
TestLog ==
    /\ at = "test"
    /\ \/ at' = "ready" /\ UNCHANGED status
       \/ MayFail("log") /\ Fail
    /\ UNCHANGED <<reinit, enabled, storage, writing, logger>>

InitializeLog ==
    \/ LogInitialization \/ InitializeResource \/ AllocateBuffer1
    \/ AllocateBuffer2 \/ FillBuffers \/ OpenLogFile \/ SetAlive
    \/ CreateFlushThread \/ ResetAlive \/ AwaitFlushThread \/ TestLog

-----------------------------------------------------------------------------
(***************************************************************************)
(* What a client does between LogInitialization and LogTermination.        *)
(***************************************************************************)
LogRegisterReinitialization ==
    /\ reinit' = "registered"
    /\ UNCHANGED <<at, status, enabled, storage, writing, logger>>

DriverEntrySucceeds ==
    /\ at' = "loaded"
    /\ UNCHANGED <<status, reinit, enabled, storage, writing, logger>>

(* The I/O manager calls the routine after DriverEntry has returned and before
   the driver can be unloaded. *)
LogpReinitializationRoutine ==
    /\ at = "loaded"
    /\ reinit = "registered"
    /\ reinit' = "running"
    /\ at' = "file"
    /\ UNCHANGED <<status, enabled, storage, writing, logger>>

(* Its two messages and those of the client are calls of LogpPrint, which this
   thread completes before it goes on. *)
LogTermination ==
    /\ enabled' = FALSE
    /\ at' = "finalize"
    /\ UNCHANGED <<status, reinit, storage, writing, logger>>

(* The comment of log.h: after STATUS_REINITIALIZATION_NEEDED a driver registers
   the re-initialization and DriverEntry succeeds, or it calls LogTermination
   and DriverEntry fails. *)
Client ==
    \/ at = "ready" /\ status = "reinit" /\ reinit = "none" /\ LogRegisterReinitialization
    \/ at = "ready" /\ (status = "reinit" => reinit = "registered") /\ DriverEntrySucceeds
    \/ /\ \/ at = "ready" /\ reinit = "none"
          \/ at = "loaded" /\ reinit # "registered"
       /\ \A l \in RunDown : logger[l] = "idle"
       /\ LogTermination

-----------------------------------------------------------------------------
(***************************************************************************)
(* LogpFinalizeBufferInfo.                                                 *)
(***************************************************************************)
(* Mutant: the flush thread is not told to stop. *)
JoinAtOnce ==
    /\ at = "finalize"
    /\ at' = IF threadHandle THEN "join" ELSE "close"
    /\ UNCHANGED <<status, reinit, enabled, storage, writing, logger>>

StopFlushThread ==
    /\ at = "finalize"
    /\ IF threadHandle
       THEN alive' = FALSE /\ at' = "join"
       ELSE at' = "close" /\ UNCHANGED alive
    /\ UNCHANGED <<status, reinit, enabled, storage, fileHandle, threadHandle,
                   started, flusher, logger>>

(* Mutant: nobody waits for the flush thread. *)
CloseThreadHandle ==
    /\ at = "join"
    /\ threadHandle' = FALSE
    /\ at' = "close"
    /\ UNCHANGED <<status, reinit, enabled, storage, fileHandle, alive, started,
                   flusher, logger>>

JoinFlushThread ==
    /\ at = "join"
    /\ flusher = "exited"
    /\ threadHandle' = FALSE
    /\ at' = "close"
    /\ UNCHANGED <<status, reinit, enabled, storage, fileHandle, alive, started,
                   flusher, logger>>

CloseLogFile ==
    /\ at = "close"
    /\ fileHandle' = FALSE
    /\ at' = "free2"
    /\ UNCHANGED <<status, reinit, enabled, storage, alive, threadHandle, started,
                   flusher, logger>>

FreeBuffer2 ==
    /\ at = "free2"
    /\ buffer2' = FALSE
    /\ at' = "free1"
    /\ UNCHANGED <<status, reinit, enabled, resource, buffer1, headSet, writing, logger>>

FreeBuffer1 ==
    /\ at = "free1"
    /\ buffer1' = FALSE
    /\ at' = "delete"
    /\ UNCHANGED <<status, reinit, enabled, resource, buffer2, headSet, writing, logger>>

DeleteResource ==
    /\ at = "delete"
    /\ resource' = FALSE
    /\ at' = IF status = "error" THEN "failed" ELSE "terminated"
    /\ UNCHANGED <<status, reinit, enabled, buffer1, buffer2, headSet, writing, logger>>

FinalizeLog ==
    \/ StopFlushThread \/ JoinFlushThread \/ CloseLogFile \/ FreeBuffer2
    \/ FreeBuffer1 \/ DeleteResource

-----------------------------------------------------------------------------
(***************************************************************************)
(* LogpBufferFlushThreadRoutine.                                           *)
(***************************************************************************)
FlusherAt(from, to) ==
    /\ flusher = from
    /\ flusher' = to
    /\ UNCHANGED <<at, status, reinit, enabled, storage, fileHandle, alive, threadHandle, logger>>

(* In a debug build the thread writes a message of its own when it starts. *)
FlusherStarts ==
    /\ FlusherAt("start", "loop") \/ FlusherAt("start", "work")
    /\ started' = TRUE

(* The loop's condition, the assertion and the first byte of the head buffer,
   and a flush if that byte is not '\0'. *)
FlusherRuns ==
    /\ \/ alive /\ FlusherAt("loop", "check")
       \/ ~ alive /\ FlusherAt("loop", "exited")
       \/ FlusherAt("check", "work")
       \/ FlusherAt("check", "sleep")
       \/ FlusherAt("work", "sleep")
       \/ FlusherAt("sleep", "loop")
    /\ UNCHANGED started

-----------------------------------------------------------------------------
(***************************************************************************)
(* A logger: LogpIsLogNeeded, LogpIsLogFileEnabled, LogpIsLogFileActivated *)
(* and what LogpPut does with their answers.                               *)
(***************************************************************************)
LoggerAt(l, from, to) ==
    /\ logger[l] = from
    /\ logger' = [logger EXCEPT ![l] = to]
    /\ UNCHANGED <<at, status, reinit, enabled, storage, writing>>

LogpIsLogNeeded(l) == enabled /\ LoggerAt(l, "idle", "needed")

LogpIsLogFileEnabled(l) ==
    \/ buffer1 /\ LoggerAt(l, "needed", "enabled")
    \/ ~ buffer1 /\ LoggerAt(l, "needed", "idle")

(* Mutant: the log file is taken to be open. *)
AssumeActivated(l) == \E to \in {"flush", "idle", "buffer"} : LoggerAt(l, "enabled", to)

(* A message is buffered if its context demands it, dropped if all APCs are
   disabled, written otherwise. *)
LogpIsLogFileActivated(l) ==
    \/ alive /\ LoggerAt(l, "enabled", "flush")
    \/ alive /\ LoggerAt(l, "enabled", "idle")
    \/ LoggerAt(l, "enabled", "buffer")

LogpPut(l) ==
    \/ LogpIsLogFileEnabled(l)
    \/ LogpIsLogFileActivated(l)
    \/ LoggerAt(l, "flush", "write")
    \/ LoggerAt(l, "write", "idle")
    \/ LoggerAt(l, "buffer", "idle")

(* Other threads log once LogInitialization has returned; when LogTermination
   has cleared the flag, only the calls under way go on. *)
CanCall == at \in {"ready", "loaded"} \/ reinit = "running"

Control ==
    \/ InitializeLog \/ FinalizeLog
    \/ LogpReinitializationRoutine \/ Client

Next ==
    \/ Control
    \/ FlusherStarts \/ FlusherRuns
    \/ \E l \in Loggers : CanCall /\ LogpIsLogNeeded(l)
    \/ \E l \in Loggers : LogpPut(l)

(* The threads run, a sleep ends and the I/O manager calls the registered
   routine; nobody is obliged to log or to unload the driver. *)
Fairness ==
    /\ WF_vars(InitializeLog \/ FinalizeLog)
    /\ WF_vars(LogpReinitializationRoutine)
    /\ WF_vars(FlusherStarts \/ FlusherRuns)
    /\ \A l \in Loggers : WF_vars(LogpPut(l))

Spec == Init /\ [][Next]_vars
FairSpec == Spec /\ Fairness

-----------------------------------------------------------------------------
(***************************************************************************)
(* Properties.                                                             *)
(***************************************************************************)

(* Whatever failed, and wherever, a LogInitialization that returns an error and
   a LogTermination leave nothing behind: no buffer, no lock, no open file, no
   handle and no running thread. *)
NothingLeaks ==
    at \in {"failed", "terminated"} =>
        /\ ~ resource /\ ~ buffer1 /\ ~ buffer2
        /\ ~ fileHandle /\ ~ threadHandle /\ ~ alive
        /\ flusher \in {"none", "exited"}

(* The flush thread never reads a buffer, takes the resource or writes to the
   file before they exist or after they are gone, and when it asserts in its
   loop that the log file is activated, only a termination that already waits
   for it can have cleared the flag it has just tested. *)
FlushThreadOutlived ==
    flusher \in {"check", "work"} =>
        /\ resource /\ buffer1 /\ buffer2 /\ headSet
        /\ fileHandle /\ threadHandle
        /\ alive \/ at = "join"

(* What LogInitialization reports is what there is: success means an open file
   and a running flush thread, STATUS_REINITIALIZATION_NEEDED two buffers and
   neither of the others. *)
StatusIsTrue ==
    at = "ready" =>
        /\ resource /\ buffer1 /\ buffer2 /\ headSet
        /\ IF status = "success"
           THEN fileHandle /\ threadHandle /\ alive /\ started
           ELSE ~ fileHandle /\ ~ threadHandle /\ ~ alive /\ flusher = "none"

(* A thread the I/O manager waits for never uses the file, the buffers or the
   resource when they are gone.  Only a failed activation can take the file
   from a message that is about to be written, for LogpInitializeLogFile
   announces the thread before it has it. *)
LoggersUseLiveLog ==
    \A l \in RunDown :
        /\ logger[l] \in {"flush", "write", "buffer"} => resource /\ buffer1 /\ buffer2
        /\ logger[l] \in {"flush", "write"} =>
               fileHandle \/ at = "dead" \/ reinit = "failed"

(* Every call returns: LogInitialization does not wait for ever for a thread
   that does not start, LogTermination not for one that does not stop. *)
ControlReturns ==
    LET Resting == {"ready", "loaded", "failed", "terminated"} IN
    at \notin Resting ~> at \in Resting

(* log.cpp asserts in LogpIsLogFileEnabled that the two buffers, the head and
   the tail are all there or all null. *)
EnabledAsserts ==
    \A l \in Loggers :
        logger[l] = "needed" => (buffer1 <=> buffer2) /\ (buffer1 <=> headSet)
=============================================================================
