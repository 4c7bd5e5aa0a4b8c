----------------------------- MODULE DriverProofs -----------------------------
(***************************************************************************)
(* Theorems about the log's life cycle and about the driver that owns it,  *)
(* for any set of threads and any set of failures.  First the life of the  *)
(* log alone; then driver.cpp: it is a client of the log as log.h demands, *)
(* and installs and removes its device, link and tool with the log beneath *)
(* them.                                                                   *)
(***************************************************************************)
EXTENDS Driver, TLAPS

(* Where the control thread is when everything a log needs is allocated. *)
Up == {"file", "alive", "thread", "dead", "await", "test", "ready", "loaded"}

(* Inside LogpInitializeLogFile, at start-up or at the re-initialization. *)
Opening == {"file", "alive", "thread", "dead", "await"}

(* From the end of the flush thread on. *)
Down == {"join", "close", "free2", "free1", "delete", "failed", "terminated"}

(* What is allocated at each place. *)
StorageInv ==
    /\ resource <=> at \notin {"start", "resource", "failed", "terminated"}
    /\ at \in Up => buffer1 /\ buffer2 /\ headSet
    /\ at = "alloc2" => buffer1
    /\ at = "fill" => buffer1 /\ buffer2
    /\ at \in {"start", "resource", "alloc1", "delete", "failed", "terminated"} => ~ buffer1
    /\ at \in {"start", "resource", "alloc1", "alloc2", "free1", "delete", "failed",
               "terminated"} => ~ buffer2

(* The flush thread lives within the life of its handle, and the handle within
   the lives of the file and of the buffers. *)
ThreadInv ==
    /\ threadHandle =>
         /\ fileHandle /\ resource /\ buffer1 /\ buffer2 /\ headSet
         /\ at \in {"await", "test", "ready", "loaded", "finalize", "join"}
         /\ alive \/ at = "join"
         /\ flusher # "none"
    /\ flusher \notin {"none", "exited"} => threadHandle
    /\ flusher = "exited" => at \in Down

(* Where the file and the flag may be seen without the thread. *)
FileInv ==
    /\ alive => threadHandle \/ at \in {"thread", "dead"}
    /\ at \in {"alive", "thread"} => fileHandle
    /\ at \in {"thread", "dead"} => alive
    /\ at \in {"await", "join"} => threadHandle
    /\ at = "join" => ~ alive
    /\ fileHandle => threadHandle \/ at \in {"alive", "thread", "close"}

(* The returned status and the re-initialization it calls for. *)
StatusInv ==
    /\ at \in {"test", "ready"} =>
         /\ status \in {"success", "reinit"}
         /\ status = "success" <=> threadHandle
         /\ threadHandle => started
    /\ at \notin {"ready", "loaded", "finalize"} \cup Opening \cup Down => reinit = "none"
    /\ at \in Opening => reinit \in {"none", "running"}
    /\ at = "ready" => reinit \in {"none", "registered"}
    /\ reinit = "registered" => at \in {"ready", "loaded"} /\ ~ threadHandle
    /\ reinit = "running" => at \in Opening

(* A logger the I/O manager waits for is only at work while there is a log. *)
LoggerInv ==
    \A l \in RunDown :
        /\ logger[l] # "idle" => at \in {"ready", "loaded"} \/ reinit = "running"
        /\ logger[l] \in {"flush", "write"} =>
               fileHandle \/ at = "dead" \/ reinit = "failed"

Inv == TypeOK /\ StorageInv /\ ThreadInv /\ FileInv /\ StatusInv /\ LoggerInv
-----------------------------------------------------------------------------
LEMMA InitInv == Init => Inv
  BY LifecycleAssumption
  DEF Init, Inv, TypeOK, StorageInv, ThreadInv, FileInv, StatusInv, LoggerInv,
      Places, Reinits, Up, Opening, Down

(* Every acquisition, and every failure, of LogInitialization. *)
LEMMA InitializeInv == ASSUME Inv, InitializeLog PROVE Inv'
  <1> USE DEF Inv, TypeOK, StorageInv, ThreadInv, FileInv, StatusInv, LoggerInv,
              Places, Reinits, Up, Opening, Down, storage, writing
  <1>1. CASE LogInitialization
    BY <1>1 DEF LogInitialization
  <1>2. CASE InitializeResource
    <2>1. CASE resource'
      BY <1>2, <2>1 DEF InitializeResource
    <2>2. CASE ~ resource'
      BY <1>2, <2>2 DEF InitializeResource
    <2> QED
      BY <2>1, <2>2
  <1>3. CASE AllocateBuffer1
    BY <1>3 DEF AllocateBuffer1, MayFail, Fail
  <1>4. CASE AllocateBuffer2
    BY <1>4 DEF AllocateBuffer2, MayFail, Fail
  <1>5. CASE FillBuffers
    BY <1>5 DEF FillBuffers
  <1>6. CASE OpenLogFile
    <2>1. ~ fileHandle /\ ~ alive /\ ~ threadHandle
      BY <1>6 DEF OpenLogFile
    <2>2. CASE at' = "alive" /\ fileHandle'
      BY <1>6, <2>1, <2>2 DEF OpenLogFile
    <2>3. CASE Returns("absent") /\ UNCHANGED fileHandle
      BY <1>6, <2>1, <2>3 DEF OpenLogFile, Returns, StatusFor
    <2>4. CASE Returns("error") /\ UNCHANGED fileHandle
      BY <1>6, <2>1, <2>4 DEF OpenLogFile, Returns, StatusFor
    <2> QED
      BY <1>6, <2>1, <2>2, <2>3, <2>4 DEF OpenLogFile
  <1>7. CASE SetAlive
    BY <1>7 DEF SetAlive
  <1>8. CASE CreateFlushThread
    <2>1. CASE at' = "await" /\ threadHandle' /\ flusher' = "start"
      BY <1>8, <2>1 DEF CreateFlushThread
    <2>2. CASE at' = "dead" /\ fileHandle' = FALSE
      <3>1. /\ at = "thread" /\ alive /\ ~ threadHandle
            /\ UNCHANGED <<threadHandle, flusher, status, reinit, enabled, storage,
                           alive, started, logger>>
        BY <1>8, <2>2 DEF CreateFlushThread
      <3>2. TypeOK' /\ StorageInv' /\ ThreadInv'
        BY <2>2, <3>1
      <3>3. FileInv' /\ StatusInv' /\ LoggerInv'
        BY <2>2, <3>1
      <3> QED
        BY <3>2, <3>3
    <2> QED
      BY <1>8, <2>1, <2>2 DEF CreateFlushThread
  <1>9. CASE ResetAlive
    BY <1>9 DEF ResetAlive, Returns, StatusFor
  <1>10. CASE AwaitFlushThread
    BY <1>10 DEF AwaitFlushThread, Returns, StatusFor
  <1>11. CASE TestLog
    BY <1>11 DEF TestLog, MayFail, Fail
  <1> QED
    BY <1>1, <1>2, <1>3, <1>4, <1>5, <1>6, <1>7, <1>8, <1>9, <1>10, <1>11 DEF InitializeLog

(* Every release of LogpFinalizeBufferInfo. *)
LEMMA FinalizeInv == ASSUME Inv, FinalizeLog PROVE Inv'
  <1> USE DEF Inv, TypeOK, StorageInv, ThreadInv, FileInv, StatusInv, LoggerInv,
              Places, Reinits, Up, Opening, Down, storage, writing
  <1>1. CASE StopFlushThread
    BY <1>1 DEF StopFlushThread
  <1>2. CASE JoinFlushThread
    BY <1>2 DEF JoinFlushThread
  <1>3. CASE CloseLogFile
    BY <1>3 DEF CloseLogFile
  <1>4. CASE FreeBuffer2
    BY <1>4 DEF FreeBuffer2
  <1>5. CASE FreeBuffer1
    BY <1>5 DEF FreeBuffer1
  <1>6. CASE DeleteResource
    BY <1>6 DEF DeleteResource
  <1> QED
    BY <1>1, <1>2, <1>3, <1>4, <1>5, <1>6 DEF FinalizeLog

(* The client of the log, and the I/O manager's call of the re-initialization. *)
LEMMA ClientInv == ASSUME Inv, LogpReinitializationRoutine \/ Client PROVE Inv'
  <1> USE DEF Inv, TypeOK, StorageInv, ThreadInv, FileInv, StatusInv, LoggerInv,
              Places, Reinits, Up, Opening, Down, storage, writing
  <1>1. CASE LogpReinitializationRoutine
    BY <1>1 DEF LogpReinitializationRoutine
  <1>2. CASE at = "ready" /\ status = "reinit" /\ LogRegisterReinitialization
    BY <1>2 DEF LogRegisterReinitialization
  <1>3. CASE at = "ready" /\ DriverEntrySucceeds
    BY <1>3 DEF DriverEntrySucceeds
  <1>4. CASE /\ \/ at = "ready" /\ reinit = "none"
                \/ at = "loaded" /\ reinit # "registered"
             /\ \A l \in RunDown : logger[l] = "idle"
             /\ LogTermination
    BY <1>4 DEF LogTermination
  <1> QED
    BY <1>1, <1>2, <1>3, <1>4 DEF Client

(* The flush thread exits only when it has been told to, and that is only while
   the control thread waits for it. *)
LEMMA FlusherInv == ASSUME Inv, FlusherStarts \/ FlusherRuns PROVE Inv'
  <1> USE DEF Inv, TypeOK, StorageInv, ThreadInv, FileInv, StatusInv, LoggerInv,
              Places, Reinits, Up, Opening, Down, storage, writing
  <1>1. CASE FlusherStarts
    BY <1>1 DEF FlusherStarts, FlusherAt
  <1>2. CASE FlusherRuns
    <2>1. CASE ~ alive /\ FlusherAt("loop", "exited")
      BY <1>2, <2>1 DEF FlusherRuns, FlusherAt
    <2>2. CASE \E from, to \in {"loop", "check", "work", "sleep"} : FlusherAt(from, to)
      BY <1>2, <2>2 DEF FlusherRuns, FlusherAt
    <2> QED
      BY <1>2, <2>1, <2>2 DEF FlusherRuns
  <1> QED
    BY <1>1, <1>2

(* A logger finds the log file activated only if there is one. *)
LEMMA LoggerStepInv ==
    ASSUME Inv, NEW l \in Loggers, (CanCall /\ LogpIsLogNeeded(l)) \/ LogpPut(l)
    PROVE  Inv'
  <1> USE DEF Inv, TypeOK, StorageInv, ThreadInv, FileInv, StatusInv, LoggerInv,
              Places, Reinits, Up, Opening, Down, storage, writing
  <1>1. PICK from, to \in {"idle", "needed", "enabled", "flush", "write", "buffer"} :
           /\ LoggerAt(l, from, to)
           /\ from = "idle" => CanCall
           /\ to = "flush" => alive
           /\ to = "write" => from = "flush"
    BY DEF LogpIsLogNeeded, LogpPut, LogpIsLogFileEnabled, LogpIsLogFileActivated, LoggerAt
  <1>2. UNCHANGED <<at, status, reinit, enabled, storage, writing>>
    BY <1>1 DEF LoggerAt
  <1>3. logger' = [logger EXCEPT ![l] = to] /\ logger[l] = from
    BY <1>1 DEF LoggerAt
  <1>4. TypeOK' /\ StorageInv' /\ ThreadInv' /\ FileInv' /\ StatusInv'
    BY <1>2, <1>3
  <1>5. LoggerInv'
    <2> SUFFICES ASSUME NEW k \in RunDown
                 PROVE  /\ logger'[k] # "idle" => at \in {"ready", "loaded"} \/ reinit = "running"
                        /\ logger'[k] \in {"flush", "write"} =>
                               fileHandle \/ at = "dead" \/ reinit = "failed"
      BY <1>2
    <2>1. CASE k = l
      <3>1. logger'[k] = to
        BY <1>3, <2>1
      <3>2. from # "idle" \/ at \in {"ready", "loaded"} \/ reinit = "running"
        BY <1>1 DEF CanCall
      <3>3. alive => fileHandle \/ at = "dead"
        OBVIOUS
      <3> QED
        BY <1>1, <1>3, <2>1, <3>1, <3>2, <3>3
    <2>2. CASE k # l
      BY <1>3, <2>2
    <2> QED
      BY <2>1, <2>2
  <1> QED
    BY <1>4, <1>5

LEMMA NextInv == Inv /\ [Next]_vars => Inv'
  <1> SUFFICES ASSUME Inv, [Next]_vars PROVE Inv'
    OBVIOUS
  <1>1. CASE UNCHANGED vars
    BY <1>1 DEF Inv, TypeOK, StorageInv, ThreadInv, FileInv, StatusInv, LoggerInv, vars,
                storage, writing
  <1> QED
    BY <1>1, InitializeInv, FinalizeInv, ClientInv, FlusherInv, LoggerStepInv
    DEF Next, Control

LEMMA Invariance == Spec => []Inv
  BY InitInv, NextInv, PTL DEF Spec

-----------------------------------------------------------------------------
(* Every variable of the life cycle keeps its type. *)
THEOREM LifecycleTypeCorrect == Spec => []TypeOK
  BY Invariance, PTL DEF Inv

(* Whatever fails in LogInitialization or in the re-initialization, and whenever
   the log is terminated, LogpFinalizeBufferInfo leaves nothing behind. *)
THEOREM NothingIsLeft == Spec => []NothingLeaks
  <1>1. Inv => NothingLeaks
    BY DEF Inv, TypeOK, StorageInv, ThreadInv, FileInv, NothingLeaks
  <1> QED
    BY <1>1, Invariance, PTL

(* The flush thread works only between the creation of what it uses and its
   release, for LogpFinalizeBufferInfo waits for it before it closes the file. *)
THEOREM FlushThreadIsOutlived == Spec => []FlushThreadOutlived
  <1>1. Inv => FlushThreadOutlived
    BY DEF Inv, ThreadInv, FlushThreadOutlived
  <1> QED
    BY <1>1, Invariance, PTL

(* LogInitialization reports success or STATUS_REINITIALIZATION_NEEDED only if
   the one or the other is the case. *)
THEOREM StatusStaysTrue == Spec => []StatusIsTrue
  <1>1. Inv => StatusIsTrue
    BY DEF Inv, TypeOK, StorageInv, ThreadInv, FileInv, StatusInv, StatusIsTrue, Up, Down
  <1> QED
    BY <1>1, Invariance, PTL

(* A logger the I/O manager waits for never meets a log that is gone. *)
THEOREM LoggersAreSafe == Spec => []LoggersUseLiveLog
  <1>1. Inv => LoggersUseLiveLog
    BY DEF Inv, StorageInv, StatusInv, LoggerInv, LoggersUseLiveLog, Up, Opening
  <1> QED
    BY <1>1, Invariance, PTL

-----------------------------------------------------------------------------
(***************************************************************************)
(* The driver on top of the log.                                           *)
(***************************************************************************)

(* The part of DriverEntry and of DriverpDriverUnload during which each object
   is there. *)
WithDevice == {"link", "undo", "register", "tool", "return", "loaded", "untool",
               "unlink", "undevice"}
WithLink == {"register", "tool", "return", "loaded", "untool", "unlink"}
WithTool == {"return", "loaded", "untool"}

ObjectInv ==
    /\ device <=> step \in WithDevice
    /\ link <=> step \in WithLink
    /\ toolLoaded <=> step \in WithTool
    /\ inTool # {} =>
         step \in {"return", "loaded", "untool", "unlink", "undevice", "terminate"}

(* Where the log is at each step of the driver. *)
StepInv ==
    /\ step = "initialize" => at # "loaded" /\ reinit = "none"
    /\ step \in {"device", "link", "undo", "register"} => at = "ready" /\ reinit = "none"
    /\ step \in {"tool", "return"} =>
         at = "ready" /\ (status = "reinit" => reinit = "registered")
    /\ step = "loaded" => at = "loaded" \/ reinit = "running"
    /\ step \in {"untool", "unlink", "undevice"} => at = "loaded" /\ reinit # "registered"
    /\ step = "terminate" =>
         \/ at = "ready" /\ reinit = "none"
         \/ at = "loaded" /\ reinit # "registered"
         \/ at \in {"finalize"} \cup Down

(* g_logp_debug_flag is set until the driver terminates the log. *)
EnabledInv ==
    /\ step # "terminate" /\ at # "start" => enabled
    /\ step = "terminate" /\ at \in {"finalize"} \cup Down => ~ enabled

(* A dispatch routine logs inside its request, and only a loaded driver gets
   requests. *)
IrpInv ==
    \A t \in RunDown :
        /\ irp[t] # "none" => step = "loaded"
        /\ logger[t] # "idle" => irp[t] # "none"

DriverInv == DriverTypeOK /\ ObjectInv /\ StepInv /\ EnabledInv /\ IrpInv

-----------------------------------------------------------------------------
LEMMA DriverInitInv == DriverInit => DriverInv
  <1>1. RunDown \subseteq Loggers
    BY LifecycleAssumption
  <1>2. DriverInit => TypeOK
    BY InitInv DEF DriverInit, Inv
  <1> QED
    BY <1>1, <1>2
    DEF DriverInit, Init, DriverInv, DriverTypeOK, ObjectInv, StepInv, EnabledInv,
        IrpInv, Steps, Requests, WithDevice, WithLink, WithTool

(* The log's own steps, start-up, activation and release, leave the driver
   where it is. *)
LEMMA LogAdvancesInv ==
    ASSUME Inv, Inv', DriverInv, LogAdvances PROVE [Next]_vars /\ DriverInv'
  <1> USE DEF DriverInv, DriverTypeOK, ObjectInv, EnabledInv, IrpInv, driverVars
  <1>1. [Next]_vars
    BY DEF LogAdvances, Next, Control
  <1>2. UNCHANGED <<driverVars, logger>>
    BY DEF LogAdvances, InitializeLog, LogInitialization, InitializeResource,
           AllocateBuffer1, AllocateBuffer2, FillBuffers, OpenLogFile, SetAlive,
           CreateFlushThread, ResetAlive, AwaitFlushThread, TestLog, FinalizeLog,
           StopFlushThread, JoinFlushThread, CloseLogFile, FreeBuffer2, FreeBuffer1,
           DeleteResource, LogpReinitializationRoutine, storage, writing
  <1>3. DriverTypeOK' /\ ObjectInv' /\ IrpInv'
    BY <1>2 DEF Inv
  <1>4. StepInv' /\ EnabledInv'
    <2> USE DEF StepInv, Down, Opening, Inv, StatusInv, storage, writing
    <2>1. CASE LogInitialization
      BY <1>2, <2>1 DEF LogInitialization
    <2>2. CASE InitializeResource \/ AllocateBuffer1 \/ AllocateBuffer2 \/ FillBuffers
      BY <1>2, <2>2 DEF InitializeResource, AllocateBuffer1, AllocateBuffer2, FillBuffers, Fail
    <2>3. CASE OpenLogFile
      BY <1>2, <2>3 DEF OpenLogFile, Returns
    <2>4. CASE SetAlive \/ CreateFlushThread
      BY <1>2, <2>4 DEF SetAlive, CreateFlushThread
    <2>5. CASE ResetAlive
      BY <1>2, <2>5 DEF ResetAlive, Returns
    <2>6. CASE AwaitFlushThread
      BY <1>2, <2>6 DEF AwaitFlushThread, Returns
    <2>7. CASE TestLog
      BY <1>2, <2>7 DEF TestLog, Fail
    <2>8. CASE FinalizeLog
      BY <1>2, <2>8 DEF FinalizeLog, StopFlushThread, JoinFlushThread, CloseLogFile,
                        FreeBuffer2, FreeBuffer1, DeleteResource
    <2>9. CASE LogpReinitializationRoutine
      BY <1>2, <2>9 DEF LogpReinitializationRoutine
    <2> QED
      BY <2>1, <2>2, <2>3, <2>4, <2>5, <2>6, <2>7, <2>8, <2>9 DEF LogAdvances, InitializeLog
  <1> QED
    BY <1>1, <1>3, <1>4

(* DriverEntry registers the re-initialization before it succeeds. *)
LEMMA DriverEntryInv ==
    ASSUME Inv, DriverInv, DriverEntry PROVE [Next]_vars /\ DriverInv'
  <1> USE DEF DriverInv, DriverTypeOK, ObjectInv, StepInv, EnabledInv, IrpInv, StepTo,
              Steps, WithDevice, WithLink, WithTool, vars, storage, writing
  <1>1. CASE EnterDriver
    BY <1>1 DEF EnterDriver, TypeOK, Down
  <1>2. CASE IoCreateDevice
    <2>1. CASE step' = "link"
      BY <1>2, <2>1 DEF IoCreateDevice, TypeOK, Down
    <2>2. CASE step' = "terminate"
      BY <1>2, <2>2 DEF IoCreateDevice, TypeOK, Down
    <2> QED
      BY <1>2, <2>1, <2>2 DEF IoCreateDevice
  <1>3. CASE IoCreateSymbolicLink
    <2>1. CASE step' = "register"
      BY <1>3, <2>1 DEF IoCreateSymbolicLink, TypeOK, Down
    <2>2. CASE step' = "undo"
      BY <1>3, <2>2 DEF IoCreateSymbolicLink, TypeOK, Down
    <2> QED
      BY <1>3, <2>1, <2>2 DEF IoCreateSymbolicLink
  <1>4. CASE UndoDevice
    BY <1>4 DEF UndoDevice, TypeOK, Down
  <1>5. CASE RegisterReinitialization
    BY <1>5 DEF RegisterReinitialization, LogRegisterReinitialization, TypeOK, Reinits,
                Next, Control, Client
  <1>6. CASE LoadTool
    BY <1>6 DEF LoadTool, TypeOK
  <1>7. CASE ReturnSuccess
    BY <1>7 DEF ReturnSuccess, DriverEntrySucceeds, TypeOK, Places, Next, Control, Client
  <1> QED
    BY <1>1, <1>2, <1>3, <1>4, <1>5, <1>6, <1>7 DEF DriverEntry

(* The driver is unloaded when no request is under way, and terminates the log
   last. *)
LEMMA UnloadInv ==
    ASSUME Inv, DriverInv, DriverpDriverUnload \/ Unload PROVE [Next]_vars /\ DriverInv'
  <1> USE DEF DriverInv, DriverTypeOK, ObjectInv, StepInv, EnabledInv, IrpInv, StepTo,
              Steps, WithDevice, WithLink, WithTool, vars, storage, writing, driverVars
  <1>1. CASE DriverpDriverUnload
    BY <1>1 DEF DriverpDriverUnload, TypeOK
  <1>2. CASE UnloadTool
    BY <1>2 DEF UnloadTool, TypeOK
  <1>3. CASE IoDeleteSymbolicLink
    BY <1>3 DEF IoDeleteSymbolicLink, TypeOK
  <1>4. CASE IoDeleteDevice
    BY <1>4 DEF IoDeleteDevice, TypeOK, Down
  <1>5. CASE TerminateLog
    <2>1. \A t \in RunDown : logger[t] = "idle"
      BY <1>5 DEF TerminateLog
    <2>2. Client
      BY <1>5, <2>1 DEF TerminateLog, Client, Down
    <2>3. DriverInv'
      BY <1>5 DEF TerminateLog, LogTermination, TypeOK, Places, Down
    <2> QED
      BY <2>2, <2>3 DEF Next, Control
  <1> QED
    BY <1>1, <1>2, <1>3, <1>4, <1>5 DEF Unload

(* A request, a callback of the tool and the threads of the log: a thread that
   calls LogpPrint does so while other threads may. *)
LEMMA ThreadStepInv ==
    ASSUME Inv, DriverInv,
           \/ \E t \in RunDown, request \in Requests : ReceiveIrp(t, request)
           \/ \E t \in RunDown : CompleteIrp(t)
           \/ \E l \in Loggers \ RunDown : EnterTool(l) \/ ToolLogs(l) \/ LeaveTool(l)
           \/ ThreadsAdvance
    PROVE  [Next]_vars /\ DriverInv'
  <1> USE DEF DriverInv, DriverTypeOK, ObjectInv, StepInv, EnabledInv, IrpInv, vars,
              storage, writing, driverVars
  <1>1. CASE \E t \in RunDown, request \in Requests : ReceiveIrp(t, request)
    <2>1. PICK t \in RunDown, request \in Requests : ReceiveIrp(t, request)
      BY <1>1
    <2>2. CanCall
      BY <2>1 DEF ReceiveIrp, CanCall
    <2>3. UNCHANGED vars \/ LogpIsLogNeeded(t)
      BY <2>1 DEF ReceiveIrp
    <2>4. [Next]_vars
      BY <2>2, <2>3, LifecycleAssumption DEF Next
    <2>5. TypeOK'
      BY <2>3, LifecycleAssumption DEF LogpIsLogNeeded, LoggerAt, TypeOK
    <2>6. UNCHANGED <<at, status, reinit, enabled, step, device, link, toolLoaded, inTool>>
      BY <2>1 DEF ReceiveIrp, LogpIsLogNeeded, LoggerAt
    <2>7. /\ irp' = [irp EXCEPT ![t] = request]
          /\ \A k \in RunDown \ {t} : logger'[k] = logger[k]
          /\ step = "loaded"
      BY <2>1, LifecycleAssumption DEF ReceiveIrp, LogpIsLogNeeded, LoggerAt, TypeOK
    <2>8. IrpInv' /\ irp' \in [RunDown -> Requests \cup {"none"}]
      BY <2>6, <2>7 DEF Requests
    <2> QED
      BY <2>4, <2>5, <2>6, <2>8
  <1>2. CASE \E t \in RunDown : CompleteIrp(t)
    BY <1>2 DEF CompleteIrp, TypeOK
  <1>3. CASE \E l \in Loggers \ RunDown : EnterTool(l) \/ LeaveTool(l)
    <2>1. UNCHANGED <<vars, step, device, link, toolLoaded, irp>>
      BY <1>3 DEF EnterTool, LeaveTool
    <2>2. /\ inTool' \subseteq Loggers \ RunDown
          /\ toolLoaded \/ inTool' \subseteq inTool
      BY <1>3 DEF EnterTool, LeaveTool
    <2> QED
      BY <2>1, <2>2 DEF TypeOK, WithTool
  <1>4. CASE \E l \in Loggers \ RunDown : ToolLogs(l)
    <2>1. PICK l \in Loggers \ RunDown : ToolLogs(l)
      BY <1>4
    <2>2. CanCall
      BY <2>1 DEF ToolLogs, LogpIsLogNeeded, CanCall
    <2>3. [Next]_vars
      BY <2>1, <2>2 DEF ToolLogs, Next
    <2>4. TypeOK' /\ \A k \in RunDown : logger'[k] = logger[k]
      BY <2>1, LifecycleAssumption DEF ToolLogs, LogpIsLogNeeded, LoggerAt, TypeOK
    <2>5. UNCHANGED <<at, status, reinit, enabled, driverVars>>
      BY <2>1 DEF ToolLogs, LogpIsLogNeeded, LoggerAt
    <2> QED
      BY <2>3, <2>4, <2>5
  <1>5. CASE ThreadsAdvance
    <2>1. [Next]_vars
      BY <1>5 DEF ThreadsAdvance, Next
    <2>2. UNCHANGED <<at, status, reinit, enabled, driverVars>>
      BY <1>5 DEF ThreadsAdvance, FlusherStarts, FlusherRuns, FlusherAt, LogpPut,
                  LogpIsLogFileEnabled, LogpIsLogFileActivated, LoggerAt
    <2>3. \A k \in RunDown : logger'[k] # "idle" => logger[k] # "idle"
      BY <1>5, LifecycleAssumption
      DEF ThreadsAdvance, FlusherStarts, FlusherRuns, FlusherAt, LogpPut,
          LogpIsLogFileEnabled, LogpIsLogFileActivated, LoggerAt, TypeOK
    <2>4. TypeOK'
      BY <2>1, NextInv DEF Inv
    <2> QED
      BY <2>1, <2>2, <2>3, <2>4
  <1> QED
    BY <1>1, <1>2, <1>3, <1>4, <1>5

(* Every step of the driver is a step of the log with a client that keeps to
   log.h, or none of the log's. *)
LEMMA DriverNextInv ==
    Inv /\ DriverInv /\ [DriverNext]_allVars => [Next]_vars /\ Inv' /\ DriverInv'
  <1> SUFFICES ASSUME Inv, DriverInv, [DriverNext]_allVars
               PROVE  [Next]_vars /\ Inv' /\ DriverInv'
    OBVIOUS
  <1>1. CASE UNCHANGED allVars
    <2>1. UNCHANGED vars /\ UNCHANGED driverVars
      BY <1>1 DEF allVars
    <2>2. Inv'
      BY <2>1, NextInv
    <2>3. DriverInv'
      BY <2>1, <2>2 DEF vars, driverVars, DriverInv, DriverTypeOK, ObjectInv, StepInv,
                        EnabledInv, IrpInv, Inv, storage, writing
    <2> QED
      BY <2>1, <2>2, <2>3
  <1>2. CASE LogAdvances
    <2>1. Inv'
      BY <1>2, NextInv DEF LogAdvances, Next, Control
    <2> QED
      BY <1>2, <2>1, LogAdvancesInv
  <1>3. CASE DriverNext /\ ~ LogAdvances
    <2>1. [Next]_vars /\ DriverInv'
      BY <1>3, DriverEntryInv, UnloadInv, ThreadStepInv DEF DriverNext
    <2> QED
      BY <2>1, NextInv
  <1> QED
    BY <1>1, <1>2, <1>3

LEMMA DriverInvariance == DriverSpec => []Inv /\ []DriverInv
  <1>1. DriverInit => Inv /\ DriverInv
    BY InitInv, DriverInitInv DEF DriverInit
  <1> QED
    BY <1>1, DriverNextInv, PTL DEF DriverSpec

-----------------------------------------------------------------------------
(* Every variable of the driver keeps its type, with the log beneath it. *)
THEOREM DriverTypeCorrect == DriverSpec => []DriverTypeOK
  BY DriverInvariance, PTL DEF DriverInv

(* driver.cpp implements the client that log.h describes: whatever fails, it
   registers the re-initialization or terminates the log, never both, and
   terminates it once, when no request is inside LogpPrint. *)
THEOREM DriverFollowsProtocol == DriverSpec => FollowsLogProtocol
  <1>1. DriverInit => Init
    BY DEF DriverInit
  <1> QED
    BY <1>1, DriverNextInv, DriverInvariance, PTL DEF DriverSpec, FollowsLogProtocol, Spec

(* A DriverEntry that fails and a DriverpDriverUnload that is over leave neither
   an object of the driver nor one of the log. *)
THEOREM NothingStaysInstalled == DriverSpec => []NothingInstalled
  <1>1. Inv /\ DriverInv => NothingInstalled
    <2> SUFFICES ASSUME Inv, DriverInv, at \in {"failed", "terminated"}
                 PROVE  /\ ~ device /\ ~ link /\ ~ toolLoaded
                        /\ \A t \in RunDown : irp[t] = "none"
                        /\ NothingLeaks
      BY DEF NothingInstalled
    <2>1. step \in {"initialize", "terminate"}
      BY DEF Inv, StatusInv, DriverInv, DriverTypeOK, StepInv, Steps, Opening
    <2>2. NothingLeaks
      BY DEF Inv, TypeOK, StorageInv, ThreadInv, FileInv, NothingLeaks
    <2> QED
      BY <2>1, <2>2 DEF DriverInv, ObjectInv, IrpInv, WithDevice, WithLink, WithTool
  <1> QED
    BY <1>1, DriverInvariance, PTL

(* The link never outlives the device, nor the device the log. *)
THEOREM LinksLeadToDevice == DriverSpec => []LinkLeadsToDevice
  <1>1. Inv /\ DriverInv => LinkLeadsToDevice
    <2> SUFFICES ASSUME Inv, DriverInv PROVE LinkLeadsToDevice
      OBVIOUS
    <2>1. device => at \in Up /\ enabled
      BY DEF Inv, StatusInv, DriverInv, ObjectInv, StepInv, EnabledInv, WithDevice, Up, Opening
    <2>2. at \in Up => buffer1 /\ buffer2 /\ resource
      BY DEF Inv, StorageInv, Up
    <2> QED
      BY <2>1, <2>2 DEF DriverInv, ObjectInv, WithDevice, WithLink, LinkLeadsToDevice
  <1> QED
    BY <1>1, DriverInvariance, PTL
=============================================================================
