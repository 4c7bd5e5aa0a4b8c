-------------------------------- MODULE Driver --------------------------------
(***************************************************************************)
(* ToolBoxDriver/driver.cpp: DriverEntry, DriverpDriverUnload, the control *)
(* device with its symbolic link, and the two dispatch routines, on top of *)
(* LogLifecycle.  The active tool is the process monitor (module PicoMon); *)
(* here it matters only that it is loaded and that its callbacks log.      *)
(*                                                                         *)
(* The dispatch routines run in the threads of RunDown, because the I/O    *)
(* manager does not unload a driver while a handle to its device is open;  *)
(* the callbacks of the tool run in the other Loggers.                     *)
(***************************************************************************)
EXTENDS LogLifecycle

CONSTANTS DeviceFailures  \* what else may fail: "device", "link"

ASSUME DeviceAssumption == DeviceFailures \subseteq {"device", "link"}

VARIABLES
    step,         \* where DriverEntry or DriverpDriverUnload is
    device,       \* the control device exists
    link,         \* its symbolic link exists
    toolLoaded,   \* the callbacks of the active tool are installed
    inTool,       \* the threads inside a callback of the tool
    irp           \* the request each thread of RunDown is in

driverVars == <<step, device, link, toolLoaded, inTool, irp>>
allVars == <<vars, driverVars>>

Steps == {"initialize", "device", "link", "undo", "terminate", "register",
          "tool", "return", "loaded", "untool", "unlink", "undevice"}

(* An "activate" request is the one that logs; "unknown" is any other control
   code, and a request without buffers. *)
Requests == {"create", "activate", "unknown"}

DriverTypeOK ==
    /\ TypeOK
    /\ step \in Steps
    /\ device \in BOOLEAN /\ link \in BOOLEAN /\ toolLoaded \in BOOLEAN
    /\ inTool \subseteq Loggers \ RunDown
    /\ irp \in [RunDown -> Requests \cup {"none"}]

DriverInit ==
    /\ Init
    /\ step = "initialize"
    /\ device = FALSE /\ link = FALSE
    /\ toolLoaded = FALSE
    /\ inTool = {}
    /\ irp = [t \in RunDown |-> "none"]

StepTo(from, to) ==
    /\ step = from
    /\ step' = to

-----------------------------------------------------------------------------
(***************************************************************************)
(* DriverEntry.                                                            *)
(***************************************************************************)

(* LogInitialization, LogTermination and the re-initialization routine advance
   on their own; they are the log's steps. *)
LogAdvances ==
    /\ InitializeLog \/ FinalizeLog \/ LogpReinitializationRoutine
    /\ UNCHANGED driverVars

EnterDriver ==
    /\ at = "ready"
    /\ StepTo("initialize", "device")
    /\ UNCHANGED <<vars, device, link, toolLoaded, inTool, irp>>

IoCreateDevice ==
    /\ \/ StepTo("device", "link") /\ device' = TRUE
       \/ /\ "device" \in DeviceFailures
          /\ StepTo("device", "terminate")
          /\ UNCHANGED device
    /\ UNCHANGED <<vars, link, toolLoaded, inTool, irp>>

IoCreateSymbolicLink ==
    /\ \/ StepTo("link", "register") /\ link' = TRUE
       \/ /\ "link" \in DeviceFailures
          /\ StepTo("link", "undo")
          /\ UNCHANGED link
    /\ UNCHANGED <<vars, device, toolLoaded, inTool, irp>>

(* Mutant: the device of a failed link is left behind. *)
ForgetDevice ==
    /\ StepTo("undo", "terminate")
    /\ UNCHANGED <<vars, device, link, toolLoaded, inTool, irp>>

UndoDevice ==
    /\ StepTo("undo", "terminate")
    /\ device' = FALSE
    /\ UNCHANGED <<vars, link, toolLoaded, inTool, irp>>

(* Mutant: the partially initialized log is never completed. *)
SkipReinitialization ==
    /\ StepTo("register", "tool")
    /\ UNCHANGED <<vars, device, link, toolLoaded, inTool, irp>>

RegisterReinitialization ==
    /\ StepTo("register", "tool")
    /\ IF status = "reinit" THEN LogRegisterReinitialization ELSE UNCHANGED vars
    /\ UNCHANGED <<device, link, toolLoaded, inTool, irp>>

(* The tool's dispatcher is called with TOOL_LOAD; its result is ignored. *)
LoadTool ==
    /\ StepTo("tool", "return")
    /\ toolLoaded' = TRUE
    /\ UNCHANGED <<vars, device, link, inTool, irp>>

ReturnSuccess ==
    /\ StepTo("return", "loaded")
    /\ DriverEntrySucceeds
    /\ UNCHANGED <<device, link, toolLoaded, inTool, irp>>

DriverEntry ==
    \/ EnterDriver \/ IoCreateDevice \/ IoCreateSymbolicLink \/ UndoDevice
    \/ RegisterReinitialization \/ LoadTool \/ ReturnSuccess

-----------------------------------------------------------------------------
(***************************************************************************)
(* DriverpDriverUnload.                                                    *)
(***************************************************************************)
DriverpDriverUnload ==
    /\ at = "loaded" /\ reinit # "registered"
    /\ \A t \in RunDown : irp[t] = "none"
    /\ StepTo("loaded", "untool")
    /\ UNCHANGED <<vars, device, link, toolLoaded, inTool, irp>>

UnloadTool ==
    /\ StepTo("untool", "unlink")
    /\ toolLoaded' = FALSE
    /\ UNCHANGED <<vars, device, link, inTool, irp>>

(* Mutant: the link is left behind. *)
ForgetLink ==
    /\ StepTo("unlink", "undevice")
    /\ UNCHANGED <<vars, device, link, toolLoaded, inTool, irp>>

IoDeleteSymbolicLink ==
    /\ StepTo("unlink", "undevice")
    /\ link' = FALSE
    /\ UNCHANGED <<vars, device, toolLoaded, inTool, irp>>

IoDeleteDevice ==
    /\ StepTo("undevice", "terminate")
    /\ device' = FALSE
    /\ UNCHANGED <<vars, link, toolLoaded, inTool, irp>>

TerminateLog ==
    /\ step = "terminate" /\ at \in {"ready", "loaded"}
    /\ LogTermination
    /\ UNCHANGED driverVars

Unload == UnloadTool \/ IoDeleteSymbolicLink \/ IoDeleteDevice \/ TerminateLog

-----------------------------------------------------------------------------
(***************************************************************************)
(* IoctlCreateClose, IoctlDeviceControl and the tool's callbacks.          *)
(***************************************************************************)
ReceiveIrp(t, request) ==
    /\ step = "loaded"
    /\ device
    /\ irp[t] = "none" /\ logger[t] = "idle"
    /\ irp' = [irp EXCEPT ![t] = request]
    /\ \/ request # "activate" /\ UNCHANGED vars
       \/ request = "activate" /\ LogpIsLogNeeded(t)
    /\ UNCHANGED <<step, device, link, toolLoaded, inTool>>

(* Mutant: a request that is refused is not completed. *)
CompleteKnownIrp(t) ==
    /\ irp[t] \notin {"none", "unknown"} /\ logger[t] = "idle"
    /\ irp' = [irp EXCEPT ![t] = "none"]
    /\ UNCHANGED <<vars, step, device, link, toolLoaded, inTool>>

(* IoCompleteRequest comes after the message has been logged. *)
CompleteIrp(t) ==
    /\ irp[t] # "none" /\ logger[t] = "idle"
    /\ irp' = [irp EXCEPT ![t] = "none"]
    /\ UNCHANGED <<vars, step, device, link, toolLoaded, inTool>>

(* A callback may log several messages, and unloading the tool does not wait
   for the callbacks it removes. *)
EnterTool(l) ==
    /\ toolLoaded
    /\ l \notin inTool
    /\ inTool' = inTool \cup {l}
    /\ UNCHANGED <<vars, step, device, link, toolLoaded, irp>>

ToolLogs(l) ==
    /\ l \in inTool
    /\ LogpIsLogNeeded(l)
    /\ UNCHANGED driverVars

LeaveTool(l) ==
    /\ l \in inTool
    /\ logger[l] = "idle"
    /\ inTool' = inTool \ {l}
    /\ UNCHANGED <<vars, step, device, link, toolLoaded, irp>>

ThreadsAdvance ==
    /\ FlusherStarts \/ FlusherRuns \/ \E l \in Loggers : LogpPut(l)
    /\ UNCHANGED driverVars

DriverNext ==
    \/ LogAdvances \/ DriverEntry \/ DriverpDriverUnload \/ Unload
    \/ \E t \in RunDown, request \in Requests : ReceiveIrp(t, request)
    \/ \E t \in RunDown : CompleteIrp(t)
    \/ \E l \in Loggers \ RunDown : EnterTool(l) \/ ToolLogs(l) \/ LeaveTool(l)
    \/ ThreadsAdvance

DriverFairness ==
    /\ WF_allVars(LogAdvances \/ DriverEntry \/ Unload)
    /\ WF_allVars((FlusherStarts \/ FlusherRuns) /\ UNCHANGED driverVars)
    /\ \A l \in Loggers : WF_allVars(LogpPut(l) /\ UNCHANGED driverVars)
    /\ \A t \in RunDown : WF_allVars(CompleteIrp(t))

DriverSpec == DriverInit /\ [][DriverNext]_allVars
FairDriverSpec == DriverSpec /\ DriverFairness

-----------------------------------------------------------------------------
(***************************************************************************)
(* Properties.                                                             *)
(***************************************************************************)

(* driver.cpp is a client as log.h demands: after STATUS_REINITIALIZATION_NEEDED
   it registers and returns success, or terminates the log and fails, and it
   terminates the log once, with no request inside LogpPrint. *)
FollowsLogProtocol == Spec

(* A DriverEntry that fails and a DriverpDriverUnload that is over leave no
   device, link, tool or request, and nothing of the log. *)
NothingInstalled ==
    at \in {"failed", "terminated"} =>
        /\ ~ device /\ ~ link /\ ~ toolLoaded
        /\ \A t \in RunDown : irp[t] = "none"
        /\ NothingLeaks

(* User mode never finds a link that leads to no device, and the device never
   outlives the log its dispatch routines write to. *)
LinkLeadsToDevice ==
    /\ link => device
    /\ device => enabled /\ buffer1 /\ buffer2 /\ resource

(* Every request is completed, also while the log file is being activated. *)
RequestsComplete ==
    \A t \in RunDown : irp[t] # "none" ~> irp[t] = "none"
=============================================================================
