------------------------------- MODULE Snapshot -------------------------------
(***************************************************************************)
(* What the two queries of a kernel list promise: FindKernelBase           *)
(* (ToolBoxDriver/tools.cpp) asks for the loaded modules and               *)
(* find_process_name (GetProcessName/main.cpp) for the processes.  The     *)
(* list changes all the time, the caller reads it in several steps, and    *)
(* still gets the answer for the list as it was at one moment of the call, *)
(* or is told that there is none.                                          *)
(***************************************************************************)
CONSTANTS
    Lists,          \* the lists there can be
    AnswerOf(_),    \* what a caller that had the list for itself would get
    Pending,        \* no answer yet
    Failed          \* the call failed

VARIABLES
    list,           \* the list, which the kernel changes
    answer          \* what the caller has got

Init == list \in Lists /\ answer = Pending

Change == list' \in Lists /\ UNCHANGED answer

Give ==
    /\ answer = Pending
    /\ answer' \in {AnswerOf(list), Failed}
    /\ UNCHANGED list

Next == Change \/ Give

(* The caller gets something, however often the list changes. *)
Spec == Init /\ [][Next]_<<list, answer>> /\ WF_<<list, answer>>(Give)
=============================================================================
