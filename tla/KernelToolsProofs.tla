--------------------------- MODULE KernelToolsProofs ---------------------------
(***************************************************************************)
(* Theorems about KernelTools, for any modules, any changes of their list  *)
(* and any place of the byte: FindKernelBase answers for the list as it    *)
(* was at one moment and leaves no block behind, and the decoded operand   *)
(* leads back to the byte.                                                 *)
(***************************************************************************)
EXTENDS KernelTools, SequenceTheorems, WellFoundedInduction, TLAPS

(* Nothing was found before the walk ends, and nothing after a refusal. *)
QueryInv ==
    /\ at = "query" => block.size = uLen
    /\ at = "walk" => Len(block.entries) <= block.size
    /\ at = "walk" => i \in 1 .. Len(block.entries) + 1
    /\ at \in {"size", "allocate", "query", "walk"} => kernelBase = Null /\ ~ refused
    /\ blocks = IF at \in {"query", "walk"} THEN 1 ELSE 0

Inv == TypeOK /\ QueryInv /\ TableFollowsFlag

-----------------------------------------------------------------------------
(***************************************************************************)
(* The operand.                                                            *)
(***************************************************************************)

(* Reading the operand as a signed number undoes its encoding. *)
LEMMA DecodesOperand ==
    ASSUME HalfRange \in Nat, NEW d \in -HalfRange .. HalfRange - 1
    PROVE  SignExtended(Encoded(d)) = d
  BY DEF SignExtended, Encoded

(* Both routines address the byte PsRegisterPicoProvider compares. *)
LEMMA FindsFlag == ASSUME TypeOK PROVE FlagAddress = flag
  <1>1. /\ HalfRange \in Nat /\ Routine \in Nat /\ flag \in Nat
        /\ flag - (Routine + 50) \in -HalfRange .. HalfRange - 1
    BY KernelAssumption DEF TypeOK
  <1>2. SignExtended(Operand) = flag - (Routine + 50)
    BY <1>1, DecodesOperand DEF Operand
  <1> QED
    BY <1>1, <1>2 DEF FlagAddress

(* AlignUp returns the first multiple of 32 behind an address. *)
LEMMA AlignsUp ==
    ASSUME NEW a \in Nat
    PROVE  /\ AlignUp(a + 1, 32) \in Nat /\ AlignUp(a + 1, 32) % 32 = 0
           /\ AlignUp(a + 1, 32) > a /\ AlignUp(a + 1, 32) - 32 <= a
  BY DEF AlignUp

-----------------------------------------------------------------------------
LEMMA InitInv == Init => Inv
  <1> SUFFICES ASSUME Init PROVE Inv
    OBVIOUS
  <1>1. NoBlock \in [size : Nat, entries : Seq(Modules)]
    BY DEF NoBlock
  <1>2. /\ modules \in Seq(Modules) /\ changes \in 0 .. MaxChanges
        /\ uLen \in Nat /\ i \in Nat
    BY KernelAssumption DEF Init
  <1>3. TypeOK
    BY <1>1, <1>2 DEF Init, TypeOK, Steps
  <1>4. QueryInv /\ TableFollowsFlag
    BY DEF Init, QueryInv, TableFollowsFlag
  <1> QED
    BY <1>3, <1>4 DEF Inv

(* The list keeps its type however modules come and go. *)
LEMMA ChangeInv == ASSUME Inv, ChangeModules PROVE Inv'
  <1> USE KernelAssumption DEF Inv, TypeOK
  <1>1. modules' \in Seq(Modules)
    <2>1. CASE \E m \in Modules : modules' = Append(modules, m)
      BY <2>1
    <2>2. CASE \E n \in 1 .. Len(modules) : modules' = Without(modules, n)
      <3>1. PICK n \in 1 .. Len(modules) : modules' = Without(modules, n)
        BY <2>2
      <3>2. /\ \A k \in 1 .. n - 1 : modules[k] \in Modules
            /\ \A k \in n + 1 .. Len(modules) : modules[k] \in Modules
        OBVIOUS
      <3>3. /\ SubSeq(modules, 1, n - 1) \in Seq(Modules)
            /\ SubSeq(modules, n + 1, Len(modules)) \in Seq(Modules)
        BY <3>2, SubSeqProperties
      <3> QED
        BY <3>1, <3>3, ConcatProperties DEF Without
    <2> QED
      BY <2>1, <2>2 DEF ChangeModules
  <1>2. changes' \in 0 .. MaxChanges
    BY DEF ChangeModules
  <1> QED
    BY <1>1, <1>2 DEF ChangeModules, QueryInv, TableFollowsFlag, blockVars, resultVars,
                      laterVars

LEMMA FindKernelBaseInv == ASSUME Inv, FindKernelBase PROVE Inv'
  <1> USE DEF Inv, TypeOK, QueryInv, TableFollowsFlag, QueryStep, FreeBlock, Steps,
              listVars, blockVars, resultVars, laterVars
  <1>1. NoBlock \in [size : Nat, entries : Seq(Modules)]
    BY DEF NoBlock
  <1>2. CASE QuerySize
    BY <1>2 DEF QuerySize
  <1>3. CASE Allocate
    <2>1. [size |-> uLen, entries |-> <<>>] \in [size : Nat, entries : Seq(Modules)]
      OBVIOUS
    <2>2. CASE block' = [size |-> uLen, entries |-> <<>>] /\ at' = "query"
      <3>1. block' \in [size : Nat, entries : Seq(Modules)] /\ block'.size = uLen
        BY <2>1, <2>2
      <3>2. /\ at = "allocate" /\ blocks' = blocks + 1
            /\ UNCHANGED <<modules, changes, uLen, i, kernelBase, refused, ntdll, flag,
                           table, patched>>
        BY <1>3, <2>2 DEF Allocate
      <3> QED
        BY <2>2, <3>1, <3>2
    <2>3. CASE at' = "section"
      BY <1>3, <2>3 DEF Allocate
    <2> QED
      BY <1>3, <2>2, <2>3 DEF Allocate
  <1>4. CASE QueryModules
    <2>1. block' = [block EXCEPT !.entries = modules]
      BY <1>4 DEF QueryModules
    <2>2. /\ block' \in [size : Nat, entries : Seq(Modules)]
          /\ block'.size = block.size /\ block'.entries = modules
      BY <2>1
    <2> QED
      BY <1>4, <2>2 DEF QueryModules
  <1>5. CASE Repeat
    BY <1>1, <1>5 DEF Repeat
  <1>6. CASE QueryFails
    BY <1>1, <1>6 DEF QueryFails
  <1>7. CASE WalkOn
    BY <1>7 DEF WalkOn
  <1>8. CASE EndWalk
    <2>1. kernelBase' \in Modules \cup {Null}
      BY <1>8 DEF EndWalk
    <2> QED
      BY <1>1, <1>8, <2>1 DEF EndWalk
  <1> QED
    BY <1>2, <1>3, <1>4, <1>5, <1>6, <1>7, <1>8 DEF FindKernelBase

LEMMA ToolInv ==
    ASSUME Inv, \/ FindNtdll \/ GetPICOCallbacks
                \/ \E bEnable \in BOOLEAN : EnablePicoRegistrations(bEnable)
    PROVE  Inv'
  <1> USE DEF Inv, TypeOK, QueryInv, Steps, listVars, blockVars, resultVars, laterVars
  <1>1. FlagAddress = flag /\ flag \in Nat
    BY FindsFlag, KernelAssumption
  <1>2. CASE FindNtdll
    BY <1>2 DEF FindNtdll, TableFollowsFlag
  <1>3. CASE GetPICOCallbacks
    <2>1. table' = AlignUp(flag + 1, 32)
      BY <1>1, <1>3 DEF GetPICOCallbacks
    <2>2. table' \in Nat /\ table' % 32 = 0 /\ table' > flag /\ table' - 32 <= flag
      BY <1>1, <2>1, AlignsUp
    <2> QED
      BY <1>3, <2>2 DEF GetPICOCallbacks, TableFollowsFlag
  <1>4. CASE \E bEnable \in BOOLEAN : EnablePicoRegistrations(bEnable)
    <2>1. PICK v \in {0, 1} : patched' = patched \cup {[address |-> flag, value |-> v]}
      BY <1>1, <1>4 DEF EnablePicoRegistrations
    <2>2. /\ patched' \subseteq [address : Nat, value : {0, 1}]
          /\ \A write \in patched' : write.address = flag
      BY <1>1, <2>1 DEF TableFollowsFlag
    <2> QED
      BY <1>4, <2>2 DEF EnablePicoRegistrations, TableFollowsFlag
  <1> QED
    BY <1>2, <1>3, <1>4

LEMMA NextInv == Inv /\ [Next]_vars => Inv'
  <1> SUFFICES ASSUME Inv, [Next]_vars PROVE Inv'
    OBVIOUS
  <1>1. CASE UNCHANGED vars
    BY <1>1 DEF Inv, TypeOK, QueryInv, TableFollowsFlag, vars, listVars, blockVars,
                resultVars, laterVars
  <1> QED
    BY <1>1, ChangeInv, FindKernelBaseInv, ToolInv DEF Next, DriverStep

LEMMA Invariance == Spec => []Inv
  BY InitInv, NextInv, PTL DEF Spec

-----------------------------------------------------------------------------
(* Every variable of tools.cpp keeps its type. *)
THEOREM ToolsTypeCorrect == Spec => []TypeOK
  BY Invariance, PTL DEF Inv

(* Whatever list and whatever uninitialized length FindKernelBase meets, it frees
   its block exactly once and stays within it. *)
THEOREM BlockIsFreedOnce == Spec => []BlockIsFreed
  <1>1. Inv => BlockIsFreed
    BY DEF Inv, TypeOK, QueryInv, BlockIsFreed
  <1> QED
    BY <1>1, Invariance, PTL

(* Wherever the byte is, within the reach of an INT32, the table is the aligned
   address behind it, and only the byte is patched. *)
THEOREM OperandLeadsToTable == Spec => []TableFollowsFlag
  BY Invariance, PTL DEF Inv

-----------------------------------------------------------------------------
(***************************************************************************)
(* The answer.                                                             *)
(***************************************************************************)

(* A list with a kernel has a first one. *)
LEMMA FirstExists ==
    ASSUME NEW list \in Seq(Modules), NEW n \in 1 .. Len(list), IsKernel(list[n])
    PROVE  \E k : IsFirstKernel(list, k)
  <1> DEFINE T == {k \in 1 .. Len(list) : IsKernel(list[k])}
             R == OpToRel(<, Nat)
  <1>1. T \subseteq Nat /\ T # {}
    OBVIOUS
  <1>2. PICK k \in T : \A l \in T : ~ (<<l, k>> \in R)
    <2> HIDE DEF T, R
    <2> QED
      BY <1>1, WFMin, NatLessThanWellFounded DEF R
  <1>3. \A l \in Nat : l < k => <<l, k>> \in R
    BY <1>1 DEF OpToRel
  <1>4. k \in 1 .. Len(list) /\ IsKernel(list[k])
    OBVIOUS
  <1>5. ASSUME NEW l \in 1 .. k - 1 PROVE ~ IsKernel(list[l])
    <2>1. l \in Nat /\ l < k /\ l \in 1 .. Len(list)
      BY <1>4
    <2>2. l \notin T
      <3> HIDE DEF T, R
      <3> QED
        BY <1>2, <1>3, <2>1
    <2> QED
      BY <2>1, <2>2
  <1> QED
    BY <1>4, <1>5 DEF IsFirstKernel

(* There is only one first kernel, and FirstKernel is it. *)
LEMMA FirstIsUnique ==
    ASSUME NEW list \in Seq(Modules), NEW n, IsFirstKernel(list, n)
    PROVE  FirstKernel(list) = list[n]
  <1> DEFINE m == CHOOSE k \in 1 .. Len(list) : IsFirstKernel(list, k)
  <1>1. n \in 1 .. Len(list) /\ IsKernel(list[n])
    BY DEF IsFirstKernel
  <1>2. IsFirstKernel(list, m)
    BY <1>1
  <1>3. m = n
    <2> HIDE DEF m
    <2>1. m \in 1 .. Len(list)
      BY <1>2 DEF IsFirstKernel
    <2>2. ~ (m < n) /\ ~ (n < m)
      BY <1>1, <1>2, <2>1 DEF IsFirstKernel
    <2> QED
      BY <1>1, <2>1, <2>2
  <1> QED
    BY <1>1, <1>3 DEF FirstKernel

(* What is left of a list when its first n - 1 entries have been passed. *)
LEMMA RestOf ==
    ASSUME NEW list \in Seq(Modules), NEW n \in 1 .. Len(list) + 1
    PROVE  /\ SubSeq(list, n, Len(list)) \in Seq(Modules)
           /\ Len(SubSeq(list, n, Len(list))) = Len(list) - n + 1
           /\ \A k \in 1 .. Len(list) - n + 1 :
                 SubSeq(list, n, Len(list))[k] = list[n + k - 1]
  <1>1. \A k \in n .. Len(list) : list[k] \in Modules
    OBVIOUS
  <1> QED
    BY <1>1, SubSeqProperties

(* A module that is no kernel may be passed. *)
LEMMA PassesOthers ==
    ASSUME NEW list \in Seq(Modules), NEW n \in 1 .. Len(list), ~ IsKernel(list[n])
    PROVE  FirstKernel(SubSeq(list, n + 1, Len(list))) = FirstKernel(SubSeq(list, n, Len(list)))
  <1> DEFINE rest == SubSeq(list, n, Len(list))
             next == SubSeq(list, n + 1, Len(list))
  <1>1. /\ rest \in Seq(Modules) /\ next \in Seq(Modules)
        /\ Len(rest) = Len(next) + 1 /\ Len(next) \in Nat
        /\ rest[1] = list[n]
        /\ \A k \in 1 .. Len(next) : next[k] = rest[k + 1]
    <2>1. /\ rest \in Seq(Modules) /\ Len(rest) = Len(list) - n + 1
          /\ \A k \in 1 .. Len(list) - n + 1 : rest[k] = list[n + k - 1]
      BY RestOf
    <2>2. /\ next \in Seq(Modules) /\ Len(next) = Len(list) - (n + 1) + 1
          /\ \A k \in 1 .. Len(list) - (n + 1) + 1 : next[k] = list[(n + 1) + k - 1]
      <3>1. n + 1 \in 1 .. Len(list) + 1
        OBVIOUS
      <3> QED
        BY <3>1, RestOf
    <2> HIDE DEF rest, next
    <2>3. Len(rest) = Len(next) + 1 /\ Len(next) \in Nat
      BY <2>1, <2>2
    <2>4. rest[1] = list[n]
      <3>1. 1 \in 1 .. Len(list) - n + 1 /\ n + 1 - 1 = n
        OBVIOUS
      <3> QED
        BY <2>1, <3>1
    <2>5. ASSUME NEW k \in 1 .. Len(next) PROVE next[k] = rest[k + 1]
      <3>1. /\ k \in 1 .. Len(list) - (n + 1) + 1 /\ k + 1 \in 1 .. Len(list) - n + 1
            /\ (n + 1) + k - 1 = n + (k + 1) - 1
        BY <2>2
      <3> QED
        BY <2>1, <2>2, <3>1
    <2> QED
      BY <2>1, <2>2, <2>3, <2>4, <2>5
  <1> HIDE DEF rest, next
  <1>2. CASE \E k \in 1 .. Len(next) : IsKernel(next[k])
    <2>1. PICK k : IsFirstKernel(next, k)
      BY <1>1, <1>2, FirstExists
    <2>2. k \in 1 .. Len(next)
      BY <2>1 DEF IsFirstKernel
    <2>3. \A l \in 1 .. k : ~ IsKernel(rest[l])
      <3> SUFFICES ASSUME NEW l \in 1 .. k PROVE ~ IsKernel(rest[l])
        OBVIOUS
      <3>1. CASE l = 1
        BY <1>1, <3>1
      <3>2. CASE l > 1
        <4>1. l - 1 \in 1 .. k - 1 /\ l - 1 \in 1 .. Len(next) /\ l - 1 + 1 = l
          BY <1>1, <2>2, <3>2
        <4>2. ~ IsKernel(next[l - 1])
          BY <2>1, <4>1 DEF IsFirstKernel
        <4>3. next[l - 1] = rest[l - 1 + 1]
          BY <1>1, <4>1
        <4> QED
          BY <4>1, <4>2, <4>3
      <3> QED
        BY <2>2, <3>1, <3>2
    <2>4. k + 1 \in 1 .. Len(rest) /\ k + 1 - 1 = k /\ rest[k + 1] = next[k]
      BY <1>1, <2>2
    <2>5. IsFirstKernel(rest, k + 1)
      BY <2>1, <2>3, <2>4 DEF IsFirstKernel
    <2> QED
      BY <1>1, <2>1, <2>4, <2>5, FirstIsUnique DEF rest, next
  <1>3. CASE ~ \E k \in 1 .. Len(next) : IsKernel(next[k])
    <2>1. ~ \E k \in 1 .. Len(rest) : IsKernel(rest[k])
      <3> SUFFICES ASSUME NEW k \in 1 .. Len(rest), IsKernel(rest[k]) PROVE FALSE
        OBVIOUS
      <3>1. k > 1
        BY <1>1
      <3>2. k - 1 \in 1 .. Len(next) /\ k - 1 + 1 = k
        BY <1>1, <3>1
      <3> QED
        BY <1>1, <1>3, <3>2
    <2>2. FirstKernel(rest) = Null /\ FirstKernel(next) = Null
      BY <1>3, <2>1 DEF FirstKernel
    <2> QED
      BY <2>2 DEF rest, next
  <1> QED
    BY <1>2, <1>3

(* Where the walk ends, the answer is the entry it ends at. *)
LEMMA EndsAtAnswer ==
    ASSUME NEW list \in Seq(Modules), NEW n \in 1 .. Len(list) + 1,
           n <= Len(list) => IsKernel(list[n])
    PROVE  FirstKernel(SubSeq(list, n, Len(list))) =
               IF n <= Len(list) THEN list[n] ELSE Null
  <1> DEFINE rest == SubSeq(list, n, Len(list))
  <1>1. /\ rest \in Seq(Modules) /\ Len(rest) = Len(list) - n + 1
        /\ \A k \in 1 .. Len(list) - n + 1 : rest[k] = list[n + k - 1]
    BY RestOf
  <1> HIDE DEF rest
  <1>2. CASE n <= Len(list)
    <2>1. 1 \in 1 .. Len(rest) /\ rest[1] = list[n]
      BY <1>1, <1>2
    <2>2. IsFirstKernel(rest, 1)
      BY <1>2, <2>1 DEF IsFirstKernel
    <2> QED
      BY <1>1, <1>2, <2>1, <2>2, FirstIsUnique DEF rest
  <1>3. CASE ~ (n <= Len(list))
    <2>1. Len(rest) = 0
      BY <1>1, <1>3
    <2>2. FirstKernel(rest) = Null
      BY <2>1 DEF FirstKernel
    <2> QED
      BY <1>3, <2>2 DEF rest
  <1> QED
    BY <1>2, <1>3

-----------------------------------------------------------------------------
LEMMA StartsPending == Init => ModuleList!Init
  BY KernelAssumption DEF Init, ModuleList!Init, Answer

(* Every step of the driver keeps the answer or gives the one of the list as it
   is at that moment. *)
LEMMA StepGives ==
    ASSUME Inv, Inv', [Next]_vars
    PROVE  [ModuleList!Next]_<<modules, Answer>>
  <1> USE DEF Inv, TypeOK, QueryInv, QueryStep, FreeBlock, Answer, Rest, listVars, blockVars,
              resultVars, laterVars
  <1>1. CASE UNCHANGED vars
    BY <1>1 DEF vars
  <1>2. CASE ChangeModules
    <2>1. ModuleList!Change
      BY <1>2 DEF ChangeModules, ModuleList!Change
    <2> QED
      BY <2>1 DEF ModuleList!Next
  <1>3. CASE QuerySize \/ Repeat
    BY <1>3 DEF QuerySize, Repeat
  <1>4. CASE Allocate
    <2>1. CASE at' = "query"
      BY <1>4, <2>1 DEF Allocate
    <2>2. CASE at' = "section" /\ refused'
      BY <1>4, <2>2 DEF Allocate, ModuleList!Next, ModuleList!Give
    <2> QED
      BY <1>4, <2>1, <2>2 DEF Allocate
  <1>5. CASE QueryModules
    <2>1. block'.entries = modules /\ i' = 1 /\ at = "query" /\ at' = "walk" /\ modules' = modules
      BY <1>5 DEF QueryModules
    <2>2. Answer' = FirstKernel(modules) /\ Answer = Pending
      BY <2>1, SubSeqFull
    <2> QED
      BY <2>1, <2>2 DEF ModuleList!Next, ModuleList!Give
  <1>6. CASE QueryFails
    BY <1>6 DEF QueryFails, ModuleList!Next, ModuleList!Give
  <1>7. CASE WalkOn
    <2>1. /\ block.entries \in Seq(Modules) /\ i \in 1 .. Len(block.entries)
          /\ ~ IsKernel(block.entries[i])
          /\ i' = i + 1 /\ UNCHANGED <<modules, block>> /\ at = "walk" /\ at' = "walk"
      BY <1>7 DEF WalkOn
    <2>2. FirstKernel(SubSeq(block.entries, i + 1, Len(block.entries)))
            = FirstKernel(SubSeq(block.entries, i, Len(block.entries)))
      BY <2>1, PassesOthers
    <2> QED
      BY <2>1, <2>2
  <1>8. CASE EndWalk
    <2>1. /\ block.entries \in Seq(Modules) /\ i \in 1 .. Len(block.entries) + 1
          /\ i <= Len(block.entries) => IsKernel(block.entries[i])
          /\ kernelBase' = IF i <= Len(block.entries) THEN block.entries[i] ELSE Null
          /\ ~ refused' /\ modules' = modules /\ at = "walk" /\ at' = "section"
      BY <1>8 DEF EndWalk
    <2>2. FirstKernel(SubSeq(block.entries, i, Len(block.entries))) = kernelBase'
      BY <2>1, EndsAtAnswer
    <2> QED
      BY <2>1, <2>2
  <1>9. CASE FindNtdll
    BY <1>9 DEF FindNtdll
  <1>10. CASE GetPICOCallbacks
    BY <1>10 DEF GetPICOCallbacks
  <1>11. CASE \E bEnable \in BOOLEAN : EnablePicoRegistrations(bEnable)
    BY <1>11 DEF EnablePicoRegistrations
  <1> QED
    BY <1>1, <1>2, <1>3, <1>4, <1>5, <1>6, <1>7, <1>8, <1>9, <1>10, <1>11
    DEF Next, DriverStep, FindKernelBase

(* The safety part of FindsKernel: FindKernelBase answers once, for the module
   list as it is at the moment of its last query, or with a refusal, however
   long the list is and however often it changes. *)
THEOREM AnswersForOneMoment ==
    Spec => ModuleList!Init /\ [][ModuleList!Next]_<<modules, Answer>>
  <1>1. Inv /\ Inv' /\ [Next]_vars => [ModuleList!Next]_<<modules, Answer>>
    BY StepGives
  <1> QED
    BY <1>1, StartsPending, Invariance, PTL DEF Spec
=============================================================================
