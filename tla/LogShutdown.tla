------------------------------ MODULE LogShutdown ------------------------------
(***************************************************************************)
(* The end of the log with its contents: LogTermination of                 *)
(* ToolBoxDriver/log.cpp on top of LogBuffer, while other threads still    *)
(* log and the flush thread still flushes.  LogBuffer says what happens    *)
(* to a message, LogLifecycle what exists when; here the two meet, for     *)
(* what is in a buffer when the buffers are freed is lost.                 *)
(*                                                                         *)
(* The other writers buffer their messages (Contexts without "passive" and *)
(* "guarded"): a thread at PASSIVE_LEVEL that is still inside LogpPut then *)
(* is what LogLifecycle is about.                                          *)
(***************************************************************************)
EXTENDS LogBuffer

VARIABLES
    ending,   \* how far LogTermination is
    due       \* history: Unwritten when "Bye!" was logged

endVars == <<vars, ending, due>>

EndingInit == Init /\ ending = "none" /\ due = {}

(* What the buffers hold for a flush to come to; a flush that found an empty buffer
   makes the head look empty again when it ends (see empty_flush.cfg). *)
Unwritten ==
    {m \in Msgs : /\ outcome[m] = "buffered" /\ ~ FlushesEmpty
                  /\ InHead(m) \/ InOld(m)}

(* An action of LogBuffer, before the buffers are freed; LogIrpShutdownHandler
   is the other way to end the log. *)
Log(action) ==
    /\ action
    /\ ending # "freed"
    /\ ending # "none" => \A t \in Writers : pc'[t] # "down"
    /\ due' = IF closer = None /\ closer' # None THEN Unwritten ELSE due
    /\ UNCHANGED ending

(* The I/O manager unloads the driver after the re-initialization routine has
   returned. *)
CanTerminate(t) ==
    /\ t \in Closers /\ closer = None
    /\ pc[t] = "idle"
    /\ pc[FlushThread] \notin {"off", "start"}
    /\ \A w \in Writers : pc[w] # "await" /\ op[w].ctx # "passive"

(* "Finalizing...", which only a log with debug messages has. *)
LogFinalizing(t, m) ==
    /\ CanTerminate(t)
    /\ ending = "none"
    /\ ending' = "finalizing"
    /\ LogpPut(t, m, "passive")
    /\ UNCHANGED <<closer, due>>

(* Mutant: "Bye!" is not logged. *)
LeaveSilently(t, m) ==
    /\ CanTerminate(t)
    /\ ending \in {"none", "finalizing"}
    /\ ending' = "bye"
    /\ enabled
    /\ closer' = t
    /\ Goto(t, "disable")
    /\ due' = IF alive THEN Unwritten ELSE {}
    /\ UNCHANGED <<bufferVars, flushVars, op, enabled, alive, file, prints, outcome>>

(* "Bye!"; the thread goes on to DisableLog when the call returns. *)
LogTermination(t, m) ==
    /\ CanTerminate(t)
    /\ ending \in {"none", "finalizing"}
    /\ ending' = "bye"
    /\ closer' = t
    /\ LogpPut(t, m, "passive")
    /\ due' = IF alive THEN Unwritten ELSE {}

EndStep(from, to) ==
    /\ closer # None /\ pc[closer] = "drain"
    /\ ending = from
    /\ ending' = to
    /\ UNCHANGED <<bufferVars, flushVars, op, closer, enabled, file, prints,
                   outcome, due>>

(* Mutant: nobody waits for the flush thread. *)
StopAndGoOn ==
    /\ alive' = FALSE
    /\ EndStep("bye", "close")
    /\ UNCHANGED pc

StopFlushThread ==
    /\ alive' = FALSE
    /\ EndStep("bye", IF alive THEN "join" ELSE "close")
    /\ UNCHANGED pc

(* The flush thread ends when it finds the flag cleared after its sleep, which
   ends the wait. *)
JoinFlushThread ==
    /\ pc[FlushThread] = "sleep" /\ ~ alive
    /\ EndStep("join", "close")
    /\ Goto(FlushThread, "never")
    /\ UNCHANGED alive

(* The file is closed; both buffers and all they hold are freed. *)
FreeBuffers ==
    /\ EndStep("close", "freed")
    /\ UNCHANGED <<pc, alive>>

Termination == StopFlushThread \/ JoinFlushThread \/ FreeBuffers

EndingNext ==
    \/ Log(Next)
    \/ \E t \in Writers, m \in Msgs : LogFinalizing(t, m) \/ LogTermination(t, m)
    \/ Termination

EndingSpec == EndingInit /\ [][EndingNext]_endVars

(* The fairness of LogBuffer, and the terminating thread runs. *)
EndingFairSpec ==
    /\ EndingSpec
    /\ WF_endVars(Log(Activation))
    /\ WF_endVars(Log(FlushThreadStep))
    /\ \A t \in Threads : WF_endVars(Log(FlushStep(t))) /\ WF_endVars(Log(CallStep(t)))
    /\ \A t \in Writers : WF_endVars(Log(WriterStep(t)))
    /\ WF_endVars(Termination)

-----------------------------------------------------------------------------
(***************************************************************************)
(* Properties.                                                             *)
(***************************************************************************)

(* Although the flush thread ends without a last flush, nothing that was in the
   buffers when LogTermination said "Bye!", for a flush to come to, is lost with
   them: writing "Bye!" has flushed both. *)
TerminationFlushes ==
    ending = "freed" => \A m \in due : InFile(m) \/ outcome[m] = "failed"

(* When LogIrpShutdownHandler returns, what was in the buffers when it said
   "Bye!" is in the file, or in the old buffer of a flush that has begun to
   write it. *)
ShutdownDrains ==
    (\E t \in Writers : pc[t] = "down") =>
        \A m \in due : InFile(m) \/ InOld(m) \/ outcome[m] = "failed"

(* Nothing is written to the file from the moment it is being closed. *)
FileIsQuiet == [][(ending \in {"close", "freed"}) => file' = file]_endVars

(* LogTermination returns, a bug check aside (see WalkPastEnd): the flush thread
   ends whatever it is doing, and nobody keeps the terminating thread from its
   locks. *)
TerminationReturns ==
    ending = "bye" ~> ending = "freed" \/ Crashed
=============================================================================
