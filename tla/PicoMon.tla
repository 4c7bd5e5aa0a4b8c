-------------------------------- MODULE PicoMon --------------------------------
(***************************************************************************)
(* The process monitor of ToolBoxDriver/PicoMon.cpp: PicoMon_Load finds    *)
(* the kernel's table of PICO provider routines and replaces ExitProcess   *)
(* by PicoProviderProcessExit, PicoMon_UnLoad puts the original back, and  *)
(* in between processes are created and exit on other processors.  The     *)
(* provider may register, that is fill in the table, at any time.          *)
(*                                                                         *)
(* External: the kernel copies the provider's table in the order of its    *)
(* fields, calls ExitProcess through the table, and lets no process notify *)
(* callback run once its removal has returned.                             *)
(***************************************************************************)
EXTENDS Naturals

CONSTANTS
    Processes,   \* the PICO processes
    MaxLoads     \* how often the driver is loaded

ASSUME LoadsAssumption == MaxLoads \in Nat

Null == "null"

VARIABLES
    table,         \* the provider routines, in the order of the struct
    notified,      \* ProcessNotifyCallbackEx is registered
    gName,         \* gData.pGetAllocatedProcessImageName is not null
    gOriginal,     \* gData.pOriginalPicoProviderProcessExit
    gRoutines,     \* gData.pRoutines is not null
    at,            \* where PicoMon_Load or PicoMon_UnLoad is
    loads,         \* how often PicoMon_Load was called
    process,       \* what each PICO process does
    bugcheck       \* the call of null or of freed code that stopped the system

tool == <<notified, gName, gOriginal, gRoutines>>
vars == <<table, tool, at, loads, process, bugcheck>>

TypeOK ==
    /\ table \in [Size : BOOLEAN, ExitProcess : {Null, "provider", "hook"},
                  GetAllocatedProcessImageName : {Null, "provider"}]
    /\ notified \in BOOLEAN /\ gName \in BOOLEAN /\ gRoutines \in BOOLEAN
    /\ gOriginal \in {Null, "provider", "hook"}
    /\ at \in {"out", "check", "getName", "original", "hook", "in", "restore",
              "leave"}
    /\ loads \in 0 .. MaxLoads
    /\ process \in [Processes -> {"none", "creating", "running", "hooked",
                                  "named", "called", "adrift", "returning",
                                  "stranded", "provider", "gone"}]
    /\ bugcheck \in {"no", "null", "freed"}

EmptyData ==
    /\ gName' = FALSE
    /\ gOriginal' = Null
    /\ gRoutines' = FALSE

Init ==
    /\ table = [Size |-> FALSE, ExitProcess |-> Null,
                GetAllocatedProcessImageName |-> Null]
    /\ notified = FALSE
    /\ gName = FALSE /\ gOriginal = Null /\ gRoutines = FALSE
    /\ at = "out"
    /\ loads = 0
    /\ process = [p \in Processes |-> "none"]
    /\ bugcheck = "no"

Registered == table.GetAllocatedProcessImageName # Null

-----------------------------------------------------------------------------
(***************************************************************************)
(* The provider.                                                           *)
(***************************************************************************)
RegisterPicoProvider ==
    /\ ~ Registered
    /\ table' = CASE ~ table.Size               -> [table EXCEPT !.Size = TRUE]
                  [] table.Size /\ table.ExitProcess = Null
                                                -> [table EXCEPT !.ExitProcess = "provider"]
                  [] OTHER -> [table EXCEPT !.GetAllocatedProcessImageName = "provider"]
    /\ UNCHANGED <<tool, at, loads, process, bugcheck>>

-----------------------------------------------------------------------------
(***************************************************************************)
(* PicoMon_Load.                                                           *)
(***************************************************************************)

(* gData is zeroed before the callback that reads it is registered; the status
   of the registration is not looked at. *)
Load ==
    /\ at = "out"
    /\ loads < MaxLoads
    /\ loads' = loads + 1
    /\ EmptyData
    /\ notified' \in BOOLEAN
    /\ at' = "check"
    /\ UNCHANGED <<table, process, bugcheck>>

(* Mutants: only the size is checked; one of the two is enough. *)
TableHasSize == table.Size
TableIsNotEmpty == table.Size \/ Registered

CallbacksAreValid == table.Size /\ table.GetAllocatedProcessImageName # Null

CheckCallbacks ==
    /\ at = "check"
    /\ at' = IF CallbacksAreValid THEN "getName" ELSE "in"
    /\ UNCHANGED <<table, tool, loads, process, bugcheck>>

SaveGetName ==
    /\ at = "getName"
    /\ gRoutines' = TRUE
    /\ gName' = (table.GetAllocatedProcessImageName # Null)
    /\ at' = "original"
    /\ UNCHANGED <<table, notified, gOriginal, loads, process, bugcheck>>

SaveOriginal ==
    /\ at = "original"
    /\ gOriginal' = table.ExitProcess
    /\ at' = "hook"
    /\ UNCHANGED <<table, notified, gName, gRoutines, loads, process, bugcheck>>

(* Mutant: the hook goes into the wrong field. *)
HookGetName ==
    /\ at = "hook"
    /\ table' = [table EXCEPT !.GetAllocatedProcessImageName = "hook"]
    /\ at' = "in"
    /\ UNCHANGED <<tool, loads, process, bugcheck>>

HookExitProcess ==
    /\ at = "hook"
    /\ table' = [table EXCEPT !.ExitProcess = "hook"]
    /\ at' = "in"
    /\ UNCHANGED <<tool, loads, process, bugcheck>>

-----------------------------------------------------------------------------
(***************************************************************************)
(* PicoMon_UnLoad, which waits for no exit that is inside the hook.        *)
(***************************************************************************)
RemoveNotification ==
    /\ at = "in"
    /\ notified' = FALSE
    /\ notified => \A p \in Processes : process[p] # "creating"
    /\ at' = "restore"
    /\ UNCHANGED <<table, gName, gOriginal, gRoutines, loads, process, bugcheck>>

(* Mutant: the hook is left in the table. *)
UnrestoredTable == table

RestoredTable ==
    IF gOriginal # Null THEN [table EXCEPT !.ExitProcess = gOriginal] ELSE table

RestoreExitProcess ==
    /\ at = "restore"
    /\ table' = RestoredTable
    /\ at' = "leave"
    /\ UNCHANGED <<tool, loads, process, bugcheck>>

(* The rest of the unload; a callback that is still running has lost its code,
   and an exit inside the provider the code it will return to. *)
LeaveMemory ==
    /\ at = "leave"
    /\ at' = "out"
    /\ process' = [p \in Processes |->
                      CASE process[p] \in {"creating", "hooked", "named", "returning"}
                                                -> "stranded"
                        [] process[p] = "called" -> "adrift"
                        [] OTHER                 -> process[p]]
    /\ UNCHANGED <<table, tool, loads, bugcheck>>

MonitorStep ==
    \/ CheckCallbacks \/ SaveGetName \/ SaveOriginal \/ HookExitProcess
    \/ RestoreExitProcess \/ LeaveMemory

-----------------------------------------------------------------------------
(***************************************************************************)
(* The processes: creation through ProcessNotifyCallbackEx, exit through   *)
(* whatever ExitProcess holds.                                             *)
(***************************************************************************)
Becomes(p, from, to) ==
    /\ process[p] = from
    /\ process' = [process EXCEPT ![p] = to]
    /\ UNCHANGED <<table, tool, at, loads>>

Create(p) ==
    /\ Registered
    /\ Becomes(p, "none", IF notified THEN "creating" ELSE "running")
    /\ UNCHANGED bugcheck

(* The callback asks for the name if gData has the routine. *)
ProcessNotifyCallbackEx(p) ==
    /\ Becomes(p, "creating", "running")
    /\ UNCHANGED bugcheck

CallOf(routine) == bugcheck' = IF routine = Null THEN "null" ELSE bugcheck

Exit(p) ==
    /\ Becomes(p, "running", IF table.ExitProcess = "hook" THEN "hooked"
                                                           ELSE "provider")
    /\ CallOf(table.ExitProcess)

(* PicoProviderProcessExit logs, asks for the name, calls the original and
   returns to the kernel when that has returned. *)
AskName(p) ==
    /\ Becomes(p, "hooked", "named")
    /\ UNCHANGED bugcheck

(* Mutant: the monitor keeps the exit to itself. *)
SwallowExit(p) ==
    /\ Becomes(p, "named", "gone")
    /\ UNCHANGED bugcheck

CallOriginal(p) ==
    /\ Becomes(p, "named", CASE gOriginal = "provider" -> "called"
                             [] gOriginal = "hook"     -> "hooked"
                             [] OTHER                  -> "named")
    /\ CallOf(gOriginal)

Fault(p) ==
    /\ Becomes(p, "stranded", "stranded")
    /\ bugcheck' = "freed"

(* The provider may take its time, an unload and another load of the driver
   included, before it returns to the kernel or to the hook that called it. *)
ProviderReturns(p) ==
    /\ \/ Becomes(p, "provider", "gone")
       \/ Becomes(p, "called", "returning")
       \/ Becomes(p, "adrift", "stranded")
    /\ UNCHANGED bugcheck

HookReturns(p) ==
    /\ Becomes(p, "returning", "gone")
    /\ UNCHANGED bugcheck

ProcessStep(p) ==
    \/ ProcessNotifyCallbackEx(p)
    \/ AskName(p)
    \/ CallOriginal(p)
    \/ Fault(p)
    \/ ProviderReturns(p)
    \/ HookReturns(p)

(* Nothing runs after a bug check. *)
Next ==
    /\ bugcheck = "no"
    /\ \/ RegisterPicoProvider
       \/ Load \/ MonitorStep \/ RemoveNotification
       \/ \E p \in Processes : Create(p) \/ Exit(p) \/ ProcessStep(p)

(* The processors run; no process has to be created or to exit, and nobody has
   to load or unload the driver. *)
Fairness ==
    /\ WF_vars(bugcheck = "no" /\ MonitorStep)
    /\ \A p \in Processes : WF_vars(bugcheck = "no" /\ ProcessStep(p))

Spec == Init /\ [][Next]_vars
FairSpec == Spec /\ Fairness

-----------------------------------------------------------------------------
(***************************************************************************)
(* Properties.                                                             *)
(***************************************************************************)

(* No callback calls a null routine, whenever the provider registers:
   GetAllocatedProcessImageName, which PicoMon_Load checks, is the last of the
   fields it uses to be filled in.  What can stop the system is freed code: an
   exit that was in the hook, or in the provider on behalf of the hook, when the
   unload left memory. *)
OnlyOvertakenExitsFault ==
    /\ bugcheck # "null"
    /\ bugcheck = "freed" => \E p \in Processes : process[p] = "stranded"

(* A driver that is out of memory is in no list of the kernel any more: neither
   the provider's table nor the notify routines lead to it. *)
UnhookedWhenOut == at = "out" => table.ExitProcess # "hook" /\ ~ notified

(* A load that hooked ExitProcess saved the provider's own routine, never its
   own hook or null, and nothing but PicoMon_UnLoad takes the hook away again. *)
HookHasOriginal ==
    /\ table.ExitProcess = "hook" => gOriginal = "provider" /\ gRoutines
    /\ at = "in" /\ gOriginal # Null => table.ExitProcess = "hook"

(* Every exit that went to the monitor goes on to the provider, unless the
   unload overtakes one. *)
ExitsReachProvider ==
    \A p \in Processes :
        process[p] = "hooked" ~> process[p] \in {"called", "adrift"} \/ bugcheck # "no"
=============================================================================
