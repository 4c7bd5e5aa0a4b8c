---------------------------- MODULE MCProcessList ----------------------------
(* Small instance of ProcessList for TLC: idle has no name, init and bash are
   minimal processes, cmd is not.  A record takes two or three units of memory
   and one for each thread. *)
EXTENDS ProcessList

CONSTANTS idle, init, bash, cmd

MCProcesses == {idle, init, bash, cmd}
MCMinimal == {idle, init, bash}
MCNamed == {init, bash, cmd}
MCRecordSize == [p \in MCProcesses |-> IF p = idle THEN 2 ELSE 3]
MCRunning == {<<idle, cmd>>, <<idle, cmd, bash>>, <<idle, init, cmd, bash>>}
=============================================================================
