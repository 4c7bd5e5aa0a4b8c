---------------------------- MODULE MCKernelTools ----------------------------
(* Small instance of KernelTools for TLC: a system with one kernel, one with a
   driver, one whose list has a patched kernel before the other, and one whose
   kernel has an unknown name. *)
EXTENDS KernelTools

CONSTANTS ntoskrnl, xNtKrnl, driver1, driver2

MCModules == {ntoskrnl, xNtKrnl, driver1, driver2}
MCKernelImages == {ntoskrnl, xNtKrnl}
MCLoaded == {<<ntoskrnl>>, <<ntoskrnl, driver1>>, <<driver1, xNtKrnl, ntoskrnl>>,
             <<driver2>>}
=============================================================================
