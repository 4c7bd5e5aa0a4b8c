------------------------------ MODULE KernelTools ------------------------------
(***************************************************************************)
(* ToolBoxDriver/tools.cpp, as DriverEntry and the tool it loads call it:  *)
(* FindKernelBase, which asks for the size of the module list, allocates a *)
(* block of that size, asks for the list and starts again if the list has  *)
(* outgrown the block; FindNtdll; and GetPICOCallbacks and                 *)
(* EnablePicoRegistrations, which decode the operand of an instruction of  *)
(* PsRegisterPicoProvider.  A length counts modules.                       *)
(*                                                                         *)
(* External: the module list, the pool, sections and the code of           *)
(* PsRegisterPicoProvider.                                                 *)
(***************************************************************************)
EXTENDS Integers, Sequences

CONSTANTS
    Modules,       \* the modules that can be in the list
    KernelImages,  \* those whose path has one of the five names of a kernel
    Loaded,        \* the lists there can be at first
    Garbage,       \* the values an uninitialized uLen can have
    MaxChanges,    \* how often modules are loaded or unloaded meanwhile
    Routine,       \* the address of PsRegisterPicoProvider
    Flags,         \* where its "registration disabled" byte can be
    HalfRange,     \* half the range of an INT32
    Null, Pending, Refused

ASSUME KernelAssumption ==
    /\ KernelImages \subseteq Modules
    /\ Loaded \subseteq Seq(Modules)
    /\ Garbage \subseteq Nat /\ MaxChanges \in Nat
    /\ Null \notin Modules /\ Pending # Refused
    /\ {Pending, Refused} \cap (Modules \cup {Null}) = {}
    /\ Routine \in Nat /\ Flags \subseteq Nat /\ HalfRange \in Nat
    /\ \A f \in Flags : f - (Routine + 50) \in -HalfRange .. HalfRange - 1

VARIABLES
    modules,     \* PsLoadedModuleList, in load order
    changes,     \* how often it has changed
    at,          \* where DriverEntry is, see Steps
    uLen, i,     \* the locals of FindKernelBase; i counts from 1
    block,       \* pModules: its size and the entries that were copied to it
    blocks,      \* the blocks with tag '--xS' that exist
    kernelBase,  \* what FindKernelBase returned, with *puSize
    refused,     \* history: it was refused memory or the list
    ntdll,       \* FindNtdll succeeded and has set *ppv
    flag,        \* the address of the byte
    table,       \* *pppr of GetPICOCallbacks
    patched      \* history: the writes of EnablePicoRegistrations

listVars   == <<modules, changes>>
blockVars  == <<block, blocks>>
resultVars == <<kernelBase, refused>>
laterVars  == <<ntdll, flag, table, patched>>
vars == <<listVars, at, uLen, i, blockVars, resultVars, laterVars>>

Steps == {"size", "allocate", "query", "walk", "section", "tool", "loaded"}

TypeOK ==
    /\ modules \in Seq(Modules) /\ changes \in 0 .. MaxChanges
    /\ at \in Steps
    /\ uLen \in Nat /\ i \in Nat
    /\ block \in [size : Nat, entries : Seq(Modules)] /\ blocks \in Nat
    /\ kernelBase \in Modules \cup {Null}
    /\ refused \in BOOLEAN /\ ntdll \in BOOLEAN
    /\ flag \in Flags /\ table \in Nat \cup {Null}
    /\ patched \subseteq [address : Nat, value : {0, 1}]

NoBlock == [size |-> 0, entries |-> <<>>]

Init ==
    /\ modules \in Loaded /\ changes = 0
    /\ at = "size"
    /\ uLen \in Garbage /\ i = 0
    /\ block = NoBlock /\ blocks = 0
    /\ kernelBase = Null /\ refused = FALSE
    /\ ntdll = FALSE
    /\ flag \in Flags /\ table = Null /\ patched = {}

-----------------------------------------------------------------------------
(* The kernel loads a module, at the end of the list, or unloads a driver. *)
Without(list, n) == SubSeq(list, 1, n - 1) \o SubSeq(list, n + 1, Len(list))

IsLoaded(m) == \E n \in 1 .. Len(modules) : modules[n] = m

ChangeModules ==
    /\ changes < MaxChanges
    /\ changes' = changes + 1
    /\ \/ \E m \in Modules : ~ IsLoaded(m) /\ modules' = Append(modules, m)
       \/ \E n \in 1 .. Len(modules) :
             modules[n] \notin KernelImages /\ modules' = Without(modules, n)
    /\ UNCHANGED <<at, uLen, i, blockVars, resultVars, laterVars>>

-----------------------------------------------------------------------------
(***************************************************************************)
(* FindKernelBase.                                                         *)
(***************************************************************************)
QueryStep(from, to) == at = from /\ at' = to /\ UNCHANGED <<listVars, laterVars>>

(* Mutants: the block is not freed; it is freed twice. *)
ForgetBlock == block' = NoBlock /\ UNCHANGED blocks
FreeTwice   == block' = NoBlock /\ blocks' = blocks - 2

FreeBlock == block' = NoBlock /\ blocks' = blocks - 1

(* The status of the first query is not looked at, so uLen may still have the
   value it had before. *)
QuerySize ==
    /\ QueryStep("size", "allocate")
    /\ uLen' \in {Len(modules), uLen}
    /\ UNCHANGED <<i, blockVars, resultVars>>

Allocate ==
    /\ \/ /\ QueryStep("allocate", "query")
          /\ block' = [size |-> uLen, entries |-> <<>>]
          /\ blocks' = blocks + 1
          /\ UNCHANGED refused
       \/ /\ QueryStep("allocate", "section")
          /\ refused' = TRUE
          /\ UNCHANGED blockVars
    /\ UNCHANGED <<uLen, i, kernelBase>>

(* The query writes the length it needs to uLen, whether the list fits or not. *)
QueryModules ==
    /\ QueryStep("query", "walk")
    /\ uLen >= Len(modules)
    /\ block' = [block EXCEPT !.entries = modules]
    /\ uLen' = Len(modules)
    /\ i' = 1
    /\ UNCHANGED <<blocks, resultVars>>

(* Mutant: a block that is too small is a failure like any other. *)
GiveUp ==
    /\ QueryStep("query", "section")
    /\ uLen < Len(modules)
    /\ FreeBlock
    /\ uLen' = Len(modules)
    /\ UNCHANGED <<i, resultVars>>

Repeat ==
    /\ QueryStep("query", "size")
    /\ uLen < Len(modules)
    /\ FreeBlock
    /\ uLen' = Len(modules)
    /\ UNCHANGED <<i, resultVars>>

QueryFails ==
    /\ QueryStep("query", "section")
    /\ FreeBlock
    /\ refused' = TRUE
    /\ UNCHANGED <<uLen, i, kernelBase>>

IsKernel(m) == m \in KernelImages

WalkOn ==
    /\ QueryStep("walk", "walk")
    /\ i <= Len(block.entries) /\ ~ IsKernel(block.entries[i])
    /\ i' = i + 1
    /\ UNCHANGED <<uLen, blockVars, resultVars>>

EndWalk ==
    /\ QueryStep("walk", "section")
    /\ i <= Len(block.entries) => IsKernel(block.entries[i])
    /\ kernelBase' = IF i <= Len(block.entries) THEN block.entries[i] ELSE Null
    /\ FreeBlock
    /\ UNCHANGED <<uLen, i, refused>>

FindKernelBase ==
    \/ QuerySize \/ Allocate \/ QueryModules \/ Repeat \/ QueryFails
    \/ WalkOn \/ EndWalk

-----------------------------------------------------------------------------
(* FindNtdll opens the section, asks it for the address and closes it, all of
   its own thread's; opening and asking may fail. *)
FindNtdll ==
    /\ at = "section"
    /\ at' = "tool"
    /\ ntdll' \in BOOLEAN
    /\ UNCHANGED <<listVars, uLen, i, blockVars, resultVars, flag, table, patched>>

(* External: "cmp byte ptr [flag], 0" holds the distance of the byte from the next
   instruction.  That the latter is at 0x32 of PsRegisterPicoProvider is a fact
   about the kernel which the code relies on; it is assumed here, not checked. *)
Encoded(d) == IF d < 0 THEN d + 2 * HalfRange ELSE d

Operand == Encoded(flag - (Routine + 50))

(* Mutant: the operand is read as an unsigned number. *)
Unsigned(bits) == bits

SignExtended(bits) == IF bits >= HalfRange THEN bits - 2 * HalfRange ELSE bits

FlagAddress == Routine + 50 + SignExtended(Operand)

(* ALIGN_UP_POINTER_BY *)
AlignUp(address, n) == (address + (n - 1)) - ((address + (n - 1)) % n)

(* PicoMon_Load passes a pointer, so the call does not fail. *)
GetPICOCallbacks ==
    /\ at = "tool"
    /\ at' = "loaded"
    /\ table' = AlignUp(FlagAddress + 1, 32)
    /\ UNCHANGED <<listVars, uLen, i, blockVars, resultVars, ntdll, flag, patched>>

(* Declared in tools.h and called by nobody in the repository; what it returns,
   whether the byte was 0 before, is not followed. *)
EnablePicoRegistrations(bEnable) ==
    /\ at = "loaded"
    /\ patched' = patched \cup
                     {[address |-> FlagAddress, value |-> IF bEnable THEN 0 ELSE 1]}
    /\ UNCHANGED <<listVars, at, uLen, i, blockVars, resultVars, ntdll, flag, table>>

DriverStep == FindKernelBase \/ FindNtdll \/ GetPICOCallbacks

Next == ChangeModules \/ DriverStep
        \/ \E bEnable \in BOOLEAN : EnablePicoRegistrations(bEnable)

(* DriverEntry runs; nobody has to load or unload a module. *)
Fairness == WF_vars(DriverStep)

Spec == Init /\ [][Next]_vars
FairSpec == Spec /\ Fairness

-----------------------------------------------------------------------------
(***************************************************************************)
(* Properties.                                                             *)
(***************************************************************************)
IsFirstKernel(list, n) ==
    /\ n \in 1 .. Len(list) /\ IsKernel(list[n])
    /\ \A k \in 1 .. n - 1 : ~ IsKernel(list[k])

FirstKernel(list) ==
    IF \E n \in 1 .. Len(list) : IsKernel(list[n])
    THEN list[CHOOSE n \in 1 .. Len(list) : IsFirstKernel(list, n)]
    ELSE Null

Rest == SubSeq(block.entries, i, Len(block.entries))

Answer == CASE at \in {"size", "allocate", "query"} -> Pending
            [] at = "walk" -> FirstKernel(Rest)
            [] OTHER -> IF refused THEN Refused ELSE kernelBase

ModuleList == INSTANCE Snapshot
    WITH Lists <- Seq(Modules), AnswerOf <- FirstKernel, Failed <- Refused,
         list <- modules, answer <- Answer

(* FindKernelBase returns the first kernel of the module list as it was at one
   moment, or null if it had none or the system refused memory or the list; a
   list that outgrows the block is no reason to give up.  It returns, for it
   repeats its query only while the list goes on growing. *)
FindsKernel == ModuleList!Spec

(* FindKernelBase frees the block it allocated exactly once on every path, the
   repeated query included, and reads only entries it has allocated. *)
BlockIsFreed ==
    /\ blocks = IF at \in {"query", "walk"} THEN 1 ELSE 0
    /\ at = "walk" => i - 1 <= Len(block.entries) /\ Len(block.entries) <= block.size

(* The table GetPICOCallbacks returns is the first aligned address behind the
   byte, wherever that byte is, and EnablePicoRegistrations patches that byte
   and nothing else, the table in particular. *)
TableFollowsFlag ==
    /\ table # Null => table % 32 = 0 /\ table > flag /\ table - 32 <= flag
    /\ \A write \in patched : write.address = flag
=============================================================================
