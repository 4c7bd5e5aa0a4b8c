----------------------------- MODULE PicoMonProofs -----------------------------
(***************************************************************************)
(* Theorems about PicoMon, for any set of processes and any number of      *)
(* loads: PicoMon_Load hooks a provider and nothing else, and whenever     *)
(* the provider registers no callback calls a null routine.                *)
(***************************************************************************)
EXTENDS PicoMon, TLAPS

(* The provider fills its table in the order of the fields, and only the hook
   changes a field later. *)
TableInv ==
    /\ table.ExitProcess # Null => table.Size
    /\ Registered => table.ExitProcess # Null

(* What PicoMon_Load has saved at each of its steps: once it has found the table
   filled in, the rest of it and of the unload rely on gOriginal. *)
MonitorInv ==
    /\ at \in {"getName", "original", "hook"} => Registered /\ table.ExitProcess = "provider"
    /\ at \in {"original", "hook"} => gRoutines
    /\ at \in {"check", "getName", "original"} => gOriginal = Null
    /\ at = "hook" => gOriginal = "provider"
    /\ gOriginal # "hook"
    /\ at \in {"in", "restore"} =>
         ((table.ExitProcess = "hook") <=> (gOriginal = "provider"))
    /\ table.ExitProcess = "hook" => at \in {"in", "restore"}
    /\ gOriginal = "provider" => gRoutines
    /\ at \in {"restore", "leave", "out"} => ~ notified

(* An exit is inside the hook only while its original is known. *)
ProcessInv ==
    \A p \in Processes :
        /\ process[p] # "none" => Registered
        /\ process[p] \in {"hooked", "named"} =>
             gOriginal = "provider" /\ at \in {"in", "restore", "leave"}

Inv ==
    /\ TypeOK /\ TableInv /\ MonitorInv /\ ProcessInv
    /\ OnlyOvertakenExitsFault

-----------------------------------------------------------------------------
LEMMA InitInv == Init => Inv
  <1>1. Init => TypeOK
    <2> SUFFICES ASSUME Init PROVE TypeOK
      OBVIOUS
    <2>1. table \in [Size : BOOLEAN, ExitProcess : {Null, "provider", "hook"},
                    GetAllocatedProcessImageName : {Null, "provider"}]
      BY DEF Init
    <2>2. loads \in 0 .. MaxLoads
      BY LoadsAssumption DEF Init
    <2>3. process \in [Processes -> {"none", "creating", "running", "hooked",
                                    "named", "called", "adrift", "returning",
                                    "stranded", "provider", "gone"}]
      BY DEF Init
    <2> QED
      BY <2>1, <2>2, <2>3 DEF Init, TypeOK
  <1>2. Init => TableInv /\ MonitorInv
    BY DEF Init, TableInv, MonitorInv, Registered, Null
  <1>3. Init => ProcessInv /\ OnlyOvertakenExitsFault
    BY DEF Init, ProcessInv, OnlyOvertakenExitsFault
  <1> QED
    BY <1>1, <1>2, <1>3 DEF Inv

(* The provider may fill in a field at any moment of a load. *)
LEMMA RegisterInv == ASSUME Inv, RegisterPicoProvider PROVE Inv'
  <1> USE DEF Inv, TypeOK, TableInv, MonitorInv, ProcessInv, OnlyOvertakenExitsFault,
              Registered, Null, tool
  <1>1. CASE ~ table.Size
    <2>1. /\ table' = [table EXCEPT !.Size = TRUE]
          /\ UNCHANGED <<tool, at, loads, process, bugcheck>>
      BY <1>1 DEF RegisterPicoProvider
    <2>2. /\ table'.ExitProcess = table.ExitProcess /\ table'.Size
          /\ table'.GetAllocatedProcessImageName = table.GetAllocatedProcessImageName
      BY <2>1
    <2> QED
      BY <2>1, <2>2
  <1>2. CASE table.Size /\ table.ExitProcess = Null
    BY <1>2 DEF RegisterPicoProvider
  <1>3. CASE table.Size /\ table.ExitProcess # Null
    BY <1>3 DEF RegisterPicoProvider
  <1> QED
    BY <1>1, <1>2, <1>3

(* PicoMon_Load and PicoMon_UnLoad. *)
LEMMA MonitorStepInv ==
    ASSUME Inv, Load \/ MonitorStep \/ RemoveNotification PROVE Inv'
  <1> USE LoadsAssumption
      DEF Inv, TypeOK, TableInv, MonitorInv, ProcessInv, OnlyOvertakenExitsFault,
          Registered, Null, tool
  <1>1. CASE Load
    <2>1. loads' \in 0 .. MaxLoads
      BY <1>1 DEF Load
    <2>2. TypeOK'
      BY <1>1, <2>1, Zenon DEF Load, EmptyData
    <2>3. (TableInv /\ MonitorInv /\ ProcessInv /\ OnlyOvertakenExitsFault)'
      BY <1>1 DEF Load, EmptyData
    <2> QED
      BY <2>2, <2>3
  <1>2. CASE CheckCallbacks
    BY <1>2 DEF CheckCallbacks, CallbacksAreValid
  <1>3. CASE SaveGetName
    BY <1>3 DEF SaveGetName
  <1>4. CASE SaveOriginal
    BY <1>4 DEF SaveOriginal
  <1>5. CASE HookExitProcess
    BY <1>5 DEF HookExitProcess
  <1>6. CASE RemoveNotification
    BY <1>6 DEF RemoveNotification
  <1>7. CASE RestoreExitProcess
    <2>1. CASE gOriginal = Null
      BY <1>7, <2>1 DEF RestoreExitProcess, RestoredTable
    <2>2. CASE gOriginal = "provider"
      <3>1. table' = [table EXCEPT !.ExitProcess = "provider"]
        BY <1>7, <2>2 DEF RestoreExitProcess, RestoredTable
      <3>2. /\ table'.Size = table.Size /\ table'.ExitProcess = "provider"
            /\ table'.GetAllocatedProcessImageName = table.GetAllocatedProcessImageName
        BY <3>1
      <3>3. /\ at = "restore" /\ at' = "leave"
            /\ UNCHANGED <<notified, gName, gOriginal, gRoutines, loads, process, bugcheck>>
        BY <1>7 DEF RestoreExitProcess
      <3>4. TypeOK'
        BY <3>1, <3>3
      <3> QED
        BY <2>2, <3>2, <3>3, <3>4
    <2> QED
      BY <2>1, <2>2
  <1>8. CASE LeaveMemory
    BY <1>8 DEF LeaveMemory
  <1> QED
    BY <1>1, <1>2, <1>3, <1>4, <1>5, <1>6, <1>7, <1>8 DEF MonitorStep

(* A process step changes its process, and bugcheck only if it found null or was
   overtaken by the unload. *)
LEMMA ProcessStepInv ==
    ASSUME Inv, NEW p \in Processes, Create(p) \/ Exit(p) \/ ProcessStep(p),
           bugcheck = "no"
    PROVE  Inv'
  <1> USE DEF Inv, TypeOK, TableInv, MonitorInv, ProcessInv, OnlyOvertakenExitsFault,
              Registered, Null, tool, Becomes
  <1>1. CASE Create(p)
    BY <1>1 DEF Create
  <1>2. CASE ProcessNotifyCallbackEx(p)
    BY <1>2 DEF ProcessNotifyCallbackEx
  <1>3. CASE Exit(p)
    BY <1>3 DEF Exit, CallOf
  <1>4. CASE AskName(p)
    BY <1>4 DEF AskName
  <1>5. CASE CallOriginal(p)
    BY <1>5 DEF CallOriginal, CallOf
  <1>6. CASE Fault(p)
    BY <1>6 DEF Fault
  <1>7. CASE ProviderReturns(p)
    BY <1>7 DEF ProviderReturns
  <1>8. CASE HookReturns(p)
    BY <1>8 DEF HookReturns
  <1> QED
    BY <1>1, <1>2, <1>3, <1>4, <1>5, <1>6, <1>7, <1>8 DEF ProcessStep

LEMMA NextInv == Inv /\ [Next]_vars => Inv'
  <1> SUFFICES ASSUME Inv, [Next]_vars PROVE Inv'
    OBVIOUS
  <1>1. CASE UNCHANGED vars
    BY <1>1 DEF Inv, TypeOK, TableInv, MonitorInv, ProcessInv, OnlyOvertakenExitsFault,
                Registered, vars, tool
  <1>2. CASE Next
    BY <1>2, RegisterInv, MonitorStepInv, ProcessStepInv DEF Next
  <1> QED
    BY <1>1, <1>2

LEMMA Invariance == Spec => []Inv
  BY InitInv, NextInv, PTL DEF Spec

-----------------------------------------------------------------------------
(* Every variable of the monitor keeps its type. *)
THEOREM MonitorTypeCorrect == Spec => []TypeOK
  BY Invariance, PTL DEF Inv

(* Whenever the provider registers, however often the driver is loaded and
   whatever the processes do, no callback calls a null routine: only freed code
   can stop the system, that of the hook under an exit that was in it, or in the
   provider it had called, when the driver left memory. *)
THEOREM NoCallOfNull == Spec => []OnlyOvertakenExitsFault
  BY Invariance, PTL DEF Inv

(* PicoMon_UnLoad leaves neither hook nor callback behind. *)
THEOREM UnloadUnhooks == Spec => []UnhookedWhenOut
  <1>1. Inv => UnhookedWhenOut
    BY DEF Inv, MonitorInv, UnhookedWhenOut
  <1> QED
    BY <1>1, Invariance, PTL

(* The hook always has the provider's own routine to go on to. *)
THEOREM HookKeepsOriginal == Spec => []HookHasOriginal
  <1>1. Inv => HookHasOriginal
    BY DEF Inv, TypeOK, MonitorInv, HookHasOriginal, Null
  <1> QED
    BY <1>1, Invariance, PTL
=============================================================================
