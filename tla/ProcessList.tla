------------------------------ MODULE ProcessList ------------------------------
(***************************************************************************)
(* GetProcessName/main.cpp: find_process_name asks for the size of the     *)
(* process list with a buffer of one record, allocates what it was told,   *)
(* asks once for the list itself and prints the names of the records it    *)
(* selects.  Processes and threads come and go meanwhile; a record takes   *)
(* more bytes the more threads the process has.                            *)
(*                                                                         *)
(* External: NtQuerySystemInformation and the list of processes.           *)
(***************************************************************************)
EXTENDS Naturals, Sequences

CONSTANTS
    Processes,        \* the processes that can be in the list
    Minimal,          \* those whose HandleCount is 0
    Named,            \* those whose ImageName is not empty
    Running,          \* the lists there can be at first
    RecordSize,       \* the bytes of a record without its threads
    ThreadSize,       \* the bytes of a SYSTEM_THREAD_INFORMATION
    MaxEvents,        \* how often processes and threads are created or end
    ShowMinimalOnly,  \* bShowMinimalOnly, TRUE in _tmain
    Pid,              \* pid, AnyProcess (0) in _tmain
    AnyProcess, Silent, Refused

(* The first process is the idle process, which has threads: its record alone is
   longer than the one of the first query, which therefore never succeeds. *)
ASSUME ProcessAssumption ==
    /\ Minimal \subseteq Processes /\ Named \subseteq Processes
    /\ Running \subseteq Seq(Processes) \ {<<>>}
    /\ RecordSize \in [Processes -> Nat] /\ ThreadSize \in Nat
    /\ MaxEvents \in Nat /\ ShowMinimalOnly \in BOOLEAN

VARIABLES
    processes,   \* the process list of the system
    threads,     \* how many threads a process of the list has
    events,      \* how often they have changed
    line,        \* where find_process_name is
    size,        \* what NtQuerySystemInformation wrote to size
    buffer,      \* the records in p_buffer
    record,      \* the index of the record pspi points to
    printed,     \* the processes whose names were printed
    status,      \* what the last query returned
    created      \* history: a process or a thread was created between the queries

vars == <<processes, threads, events, line, size, buffer, record, printed, status,
              created>>

TypeOK ==
    /\ processes \in Seq(Processes) /\ buffer \in Seq(Processes)
    /\ printed \in Seq(Processes)
    /\ threads \in [Processes -> Nat]
    /\ events \in 0 .. MaxEvents /\ size \in Nat
    /\ record \in 0 .. Len(buffer)
    /\ line \in {"size", "allocate", "query", "walk", "report", "done", "failed",
                 "aborted"}
    /\ status \in {"success", "mismatch", "error"}
    /\ created \in BOOLEAN

Init ==
    /\ processes \in Running
    /\ threads = [p \in Processes |-> 1]
    /\ events = 0
    /\ line = "size"
    /\ size = 0
    /\ buffer = <<>>
    /\ record = 0
    /\ printed = <<>>
    /\ status = "success"
    /\ created = FALSE

-----------------------------------------------------------------------------
(* A process is created without threads and then gets its first; the idle process
   and its threads never end. *)
CreateProcess(p) ==
    /\ \A i \in 1 .. Len(processes) : processes[i] # p
    /\ processes' = Append(processes, p)
    /\ threads' = [threads EXCEPT ![p] = 0]

CreateThread(i) ==
    /\ threads' = [threads EXCEPT ![processes[i]] = @ + 1]
    /\ UNCHANGED processes

EndThread(i) ==
    /\ i > 1
    /\ threads[processes[i]] > 0
    /\ threads' = [threads EXCEPT ![processes[i]] = @ - 1]
    /\ UNCHANGED processes

EndProcess(i) ==
    /\ i > 1
    /\ processes' = SubSeq(processes, 1, i - 1)
                    \o SubSeq(processes, i + 1, Len(processes))
    /\ UNCHANGED threads

ChangeProcesses ==
    /\ events < MaxEvents
    /\ events' = events + 1
    /\ \/ /\ \/ \E p \in Processes : CreateProcess(p)
             \/ \E i \in 1 .. Len(processes) : CreateThread(i)
          /\ created' = (created \/ line \in {"allocate", "query"})
       \/ /\ \E i \in 1 .. Len(processes) : EndThread(i) \/ EndProcess(i)
          /\ UNCHANGED created
    /\ UNCHANGED <<line, size, buffer, record, printed, status>>

-----------------------------------------------------------------------------
Total(list, bytes) ==
    LET sum[n \in 0 .. Len(list)] ==
            IF n = 0 THEN 0 ELSE sum[n - 1] + bytes[list[n]]
    IN sum[Len(list)]

ListSize(list) ==
    Total(list, [p \in Processes |-> RecordSize[p] + ThreadSize * threads[p]])

ListStep(from) == line = from /\ UNCHANGED <<processes, threads, events, created>>

QueryListSize ==
    /\ ListStep("size")
    /\ \/ /\ size' = ListSize(processes)
          /\ status' = "mismatch"
          /\ line' = "allocate"
       \/ /\ status' = "error"
          /\ line' = "report"
          /\ UNCHANGED size
    /\ UNCHANGED <<buffer, record, printed>>

(* operator new throws if there is no memory, and nothing catches it. *)
AllocateBuffer ==
    /\ ListStep("allocate")
    /\ line' \in {"query", "aborted"}
    /\ UNCHANGED <<size, buffer, record, printed, status>>

(* Mutant: a list that fills the whole buffer is taken to be too long. *)
HasRoom(list) == ListSize(list) < size

FitsBuffer(list) == ListSize(list) <= size

QueryList ==
    /\ ListStep("query")
    /\ size' = ListSize(processes)
    /\ \/ /\ FitsBuffer(processes)
          /\ buffer' = processes
          /\ record' = 1
          /\ status' = "success"
          /\ line' = "walk"
       \/ /\ status' = IF FitsBuffer(processes) THEN "error" ELSE "mismatch"
          /\ line' = "report"
          /\ UNCHANGED <<buffer, record>>
    /\ UNCHANGED printed

IsMinimal(p) == p \in Minimal

Selected(p) ==
    /\ Pid \in {AnyProcess, p}
    /\ ShowMinimalOnly => IsMinimal(p)
    /\ p \in Named

(* Mutants: the last record, whose NextEntryOffset is 0, is not looked at; its
   offset is not looked at. *)
StopBefore == record + 1 >= Len(buffer)
GoOn       == record > Len(buffer)

NoNextEntry == record = Len(buffer)

VisitRecord ==
    /\ ListStep("walk")
    /\ printed' = IF Selected(buffer[record]) THEN Append(printed, buffer[record])
                                              ELSE printed
    /\ IF NoNextEntry THEN line' = "report" /\ UNCHANGED record
                      ELSE record' = record + 1 /\ UNCHANGED line
    /\ UNCHANGED <<size, buffer, status>>

(* _tmain prints a status that is not STATUS_SUCCESS. *)
Report ==
    /\ ListStep("report")
    /\ line' = IF status = "success" THEN "done" ELSE "failed"
    /\ UNCHANGED <<size, buffer, record, printed, status>>

FindProcessName ==
    QueryListSize \/ AllocateBuffer \/ QueryList \/ VisitRecord \/ Report

Next == ChangeProcesses \/ FindProcessName

(* The program runs; no process has to be created or to end. *)
Fairness == WF_vars(FindProcessName)

Spec == Init /\ [][Next]_vars
FairSpec == Spec /\ Fairness

-----------------------------------------------------------------------------
(***************************************************************************)
(* Properties.                                                             *)
(***************************************************************************)
(* The selected records of a list, from each record on. *)
SelectedFrom(list) ==
    LET rest[i \in Nat] ==
            IF i \in 1 .. Len(list)
            THEN (IF Selected(list[i]) THEN <<list[i]>> ELSE <<>>) \o rest[i + 1]
            ELSE <<>>
    IN rest

SelectedOf(list) == SelectedFrom(list)[1]

Output ==
    CASE line \in {"size", "allocate", "query"} -> Silent
      [] line = "walk" -> printed \o SelectedFrom(buffer)[record]
      [] line = "report" /\ status = "success" -> printed
      [] line = "done" -> printed
      [] OTHER -> Refused

ListOfProcesses == INSTANCE Snapshot
    WITH Lists <- Seq(Processes), AnswerOf <- SelectedOf, Pending <- Silent,
         Failed <- Refused, list <- processes, answer <- Output

(* The program prints the selected names of the process list as it was at one
   moment, each of them once and in order, or reports a failure, and ends: it
   never prints a part of a list or a mixture of two. *)
PrintsSnapshot == ListOfProcesses!Spec

(* It gives up for lack of room only if a process or a thread was really created
   between its two queries. *)
OnlyGrowthIsMismatch == line = "failed" /\ status = "mismatch" => created
=============================================================================
