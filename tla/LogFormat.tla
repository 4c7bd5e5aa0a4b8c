------------------------------- MODULE LogFormat -------------------------------
(***************************************************************************)
(* How LogpPrint of ToolBoxDriver/log.cpp makes an entry of the log before *)
(* LogpPut gets it: the level filter, the text in log_message, the prefix  *)
(* in message (LogpMakePrefix), and the formatting routine behind all of   *)
(* them, which __stdio_common_vsprintf looks up when it is first called.   *)
(* Several threads do this while LogInitialization and LogTermination      *)
(* change g_logp_debug_flag, which is read again for every option.         *)
(*                                                                         *)
(* A string is its length; only the function name, a sequence of           *)
(* identifiers and colons, has contents.                                   *)
(***************************************************************************)
EXTENDS Naturals, Sequences, FiniteSets

CONSTANTS
    Callers,     \* the threads that call LogpPrint
    Control,     \* the one that calls LogInitialization and LogTermination
    Settings,    \* the flags LogInitialization may be called with
    Texts,       \* the lengths a formatted text can have
    Names,       \* the function names, sequences of Identifier and ":"
    NameLength,  \* the length of an Identifier
    Numbers      \* the digits [cpu, id] of a processor number and of an ID

Identifier == "id"

Levels == {"debug", "info", "warn", "error"}             \* kLogpLevel*
Options == {"noTime", "noFunctionName", "noProcessor"}   \* kLogOptDisable*

ASSUME FormatAssumption ==
    /\ Control \in Callers
    /\ Settings \subseteq SUBSET (Levels \cup Options)
    /\ \A f \in Settings : "info" \in f     \* kLogPutLevelInfo or -Debug
    /\ Texts \subseteq Nat
    /\ Names \subseteq Seq({Identifier, ":"}) \ {<<>>}
    /\ NameLength \in Nat \ {0}
    /\ Numbers \subseteq [cpu : 1 .. 4, id : 5 .. 10]

VARIABLES
    phase,     \* where LogInitialization and LogTermination are
    flag,      \* g_logp_debug_flag
    setting,   \* the flag LogInitialization was called with
    resolved,  \* local__vsnprintf is not null
    resolver,  \* history: the IRQL at which it was looked up
    call       \* what each thread's call of LogpPrint has come to

vars == <<phase, flag, setting, resolved, resolver, call>>

EntrySize == 512     \* RTL_NUMBER_OF(message)

Outcomes == {"put", "tooLong", "empty", "noRoom"}

Call == [pc : {"idle", "text", "time", "name", "processor", "entry"} \cup Outcomes,
         length : 0 .. EntrySize - 1,
         function : [name : Seq({Identifier, ":"}), base : Seq({Identifier, ":"})]]

NoName == [name |-> <<>>, base |-> <<>>]

NoCall == [pc |-> "idle", length |-> 0, function |-> NoName]

TypeOK ==
    /\ phase \in {"off", "test", "on", "failed", "terminated"}
    /\ flag \in SUBSET (Levels \cup Options) /\ setting \in Settings \cup {{}}
    /\ resolved \in BOOLEAN /\ resolver \in {"none", "passive", "raised"}
    /\ call \in [Callers -> Call]

Init ==
    /\ phase = "off"
    /\ flag = {} /\ setting = {}
    /\ resolved = FALSE /\ resolver = "none"
    /\ call = [c \in Callers |-> NoCall]

-----------------------------------------------------------------------------
(***************************************************************************)
(* LogInitialization sets the flag and tests the log with a message of     *)
(* level INFO; DriverEntry lets other threads in only after that.          *)
(***************************************************************************)
LogpIsLogNeeded(level) == level \in flag

(* Mutant: the log is not tested. *)
SkipTest ==
    /\ phase = "off"
    /\ \E f \in Settings : flag' = f /\ setting' = f
    /\ phase' = "on"
    /\ UNCHANGED <<resolved, resolver, call>>

LogInitialization ==
    /\ phase = "off"
    /\ \E f \in Settings : flag' = f /\ setting' = f
    /\ phase' = "test"
    /\ call' = [call EXCEPT ![Control].pc = IF "info" \in flag' THEN "text" ELSE "put"]
    /\ UNCHANGED <<resolved, resolver>>

TestLog ==
    /\ phase = "test"
    /\ call[Control].pc \in Outcomes
    /\ phase' = IF call[Control].pc = "put" THEN "on" ELSE "failed"
    /\ call' = [call EXCEPT ![Control] = NoCall]
    /\ UNCHANGED <<flag, setting, resolved, resolver>>

LogTermination ==
    /\ phase = "on"
    /\ call[Control].pc = "idle"
    /\ phase' = "terminated"
    /\ flag' = {}
    /\ UNCHANGED <<setting, resolved, resolver, call>>

-----------------------------------------------------------------------------
(***************************************************************************)
(* LogpPrint and LogpMakePrefix.  A string fits a buffer that also has     *)
(* room for its '\0', and is truncated if it does not.                     *)
(***************************************************************************)
Fits(length, size) == length < size

Stored(length, size) == IF Fits(length, size) THEN length ELSE size - 1

(* Mutant: log_message is as large as message. *)
MessageSize == 512

LogMessageSize == 412          \* RTL_NUMBER_OF(log_message)

FunctionNameSize == 50         \* RTL_NUMBER_OF(function_name_buffer)

Step(c, from, to, length, function) ==
    /\ call[c].pc = from
    /\ call' = [call EXCEPT ![c] = [pc |-> to, length |-> length, function |-> function]]
    /\ UNCHANGED <<phase, flag, setting>>

LogpPrint(c, level) ==
    /\ phase \in {"on", "terminated"}
    /\ LogpIsLogNeeded(level)
    /\ Step(c, "idle", "text", 0, NoName)
    /\ UNCHANGED <<resolved, resolver>>

(* The first call looks the routine up; the IRQL is PASSIVE_LEVEL during the
   test, whose text is short. *)
FormatText(c, text, irql) ==
    /\ phase = "test" => irql = "passive" /\ text \in 1 .. 40
    /\ resolved' = TRUE
    /\ resolver' = IF resolved THEN resolver ELSE irql
    /\ Step(c, "text", CASE ~ Fits(text, LogMessageSize) -> "tooLong"
                         [] text = 0                     -> "empty"
                         [] OTHER                        -> "time",
            Stored(text, LogMessageSize), NoName)

(* "hh:mm:ss.mmm\t" *)
AddTime(c) ==
    Step(c, "time", "name", call[c].length + (IF "noTime" \in flag THEN 0 ELSE 13), NoName)

(* Mutant: a colon is taken to be a part of what follows it. *)
FromLastColon(name) ==
    LET start[n \in 1 .. Len(name)] ==
            CASE n = 1                   -> 1
              [] n > 1 /\ name[n] = ":"  -> n
              [] OTHER                   -> start[n - 1]
    IN SubSeq(name, start[Len(name)], Len(name))

(* The loop looks at every character but the first. *)
LogpFindBaseFunctionName(name) ==
    LET start[n \in 1 .. Len(name)] ==
            CASE n = 1                   -> 1
              [] n > 1 /\ name[n] = ":"  -> n + 1
              [] OTHER                   -> start[n - 1]
    IN SubSeq(name, start[Len(name)], Len(name))

LengthOf(name) ==
    Len(name) + (NameLength - 1) * Cardinality({n \in 1 .. Len(name) : name[n] = Identifier})

(* "%-40s\t" *)
PaddedLength(name) == (IF LengthOf(name) < 40 THEN 40 ELSE LengthOf(name)) + 1

AddFunctionName(c, name) ==
    LET base     == LogpFindBaseFunctionName(name)
        function == [name |-> name, base |-> base]
    IN
    CASE "noFunctionName" \in flag -> Step(c, "name", "processor", call[c].length, NoName)
      [] "noFunctionName" \notin flag /\ Fits(PaddedLength(base), FunctionNameSize) ->
             Step(c, "name", "processor", call[c].length + PaddedLength(base), function)
      [] OTHER -> Step(c, "name", "noRoom", call[c].length, function)

(* "#%lu\t"; the digits of a processor number fit their buffer. *)
AddProcessor(c, number) ==
    Step(c, "processor", "entry",
         call[c].length + (IF "noProcessor" \in flag THEN 0 ELSE number.cpu + 2),
         call[c].function)

(* The level ("INF\t"), two IDs ("%5Iu\t"), the image name ("%-15s\t", which has
   at most 15 characters) and "\r\n" are added; then LogpPut takes over. *)
MakeEntry(c, number) ==
    LET length == call[c].length + 4 + 2 * (number.id + 1) + 16 + 2 IN
    Step(c, "entry", IF Fits(length, EntrySize) THEN "put" ELSE "noRoom",
         Stored(length, EntrySize), call[c].function)

Return(c) ==
    /\ phase # "test"
    /\ \E outcome \in Outcomes : Step(c, outcome, "idle", 0, NoName)

LogpMakePrefix(c) ==
    /\ \/ AddTime(c)
       \/ \E name \in Names : AddFunctionName(c, name)
       \/ \E number \in Numbers : AddProcessor(c, number) \/ MakeEntry(c, number)
       \/ Return(c)
    /\ UNCHANGED <<resolved, resolver>>

Next ==
    \/ LogInitialization \/ TestLog \/ LogTermination
    \/ \E c \in Callers :
          \/ \E level \in Levels : LogpPrint(c, level)
          \/ \E text \in Texts, irql \in {"passive", "raised"} : FormatText(c, text, irql)
          \/ LogpMakePrefix(c)

Spec == Init /\ [][Next]_vars

-----------------------------------------------------------------------------
(***************************************************************************)
(* Properties.                                                             *)
(***************************************************************************)

(* MmGetSystemRoutineAddress, which must be called at PASSIVE_LEVEL, is never
   called by a thread that logs at a raised IRQL: the message LogInitialization
   tests the log with has looked the routine up before. *)
ResolvedAtPassive == resolver # "raised"

(* With the options of driver.cpp every text log_message has room for also
   finds room in an entry of the log, whatever prefix it gets: no message is
   lost between the two buffers, unless LogTermination clears the options while
   the entry is made. *)
EntriesFit ==
    phase = "on" /\ "noFunctionName" \in setting =>
        \A c \in Callers : call[c].pc # "noRoom"

(* The name in an entry is what follows the last colon of the function's name, or
   all of it if there is none, as the comment of LogpFindBaseFunctionName says;
   only a colon that is the first character is not seen. *)
FollowsLastColon(base, name) ==
    LET colons == {n \in 2 .. Len(name) : name[n] = ":"} IN
    \E k \in {0} \cup colons :
        /\ \A n \in colons : n <= k
        /\ base = SubSeq(name, k + 1, Len(name))

BaseNameIsLast ==
    \A c \in Callers : FollowsLastColon(call[c].function.base, call[c].function.name)
=============================================================================
