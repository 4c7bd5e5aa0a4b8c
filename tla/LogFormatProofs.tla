---------------------------- MODULE LogFormatProofs ----------------------------
(***************************************************************************)
(* Theorems about LogFormat, for any callers, settings, texts, names and   *)
(* processor numbers: the test of the log resolves the formatting routine  *)
(* before any other thread needs it, and no entry is refused for its       *)
(* prefix.                                                                 *)
(***************************************************************************)
EXTENDS LogFormat, FiniteSetTheorems, SequenceTheorems, WellFoundedInduction, TLAPS

(* Nobody but the thread of LogInitialization formats anything before the test
   of the log is over, and after it the routine is known. *)
TestInv ==
    /\ phase \in {"off", "test", "on", "failed", "terminated"}
    /\ call = [c \in Callers |-> call[c]]
    /\ phase \in {"off", "failed"} => \A c \in Callers : call[c] = NoCall
    /\ phase = "test" => \A c \in Callers \ {Control} : call[c] = NoCall
    /\ phase = "test" /\ call[Control].pc # "text" => resolved
    /\ phase \in {"on", "terminated"} => resolved
    /\ phase \in {"test", "on"} => setting \in Settings /\ flag = setting

(* How long an entry without a function name is before each part is added. *)
AtMost(c, pc, n) == call[c].pc = pc => call[c].length \in Nat /\ call[c].length <= n

LengthInv ==
    phase \in {"test", "on"} /\ "noFunctionName" \in setting =>
        \A c \in Callers :
            /\ call[c].pc # "noRoom"
            /\ AtMost(c, "time", 411) /\ AtMost(c, "name", 424)
            /\ AtMost(c, "processor", 424) /\ AtMost(c, "entry", 430)

-----------------------------------------------------------------------------
LEMMA TestInit == Init => TestInv /\ ResolvedAtPassive
  BY DEF Init, TestInv, ResolvedAtPassive, NoCall

(* A part of a call changes nothing but the call. *)
LEMMA StepEffect ==
    ASSUME NEW c \in Callers, NEW from, NEW to, NEW length, NEW function,
           call = [d \in Callers |-> call[d]], Step(c, from, to, length, function)
    PROVE  /\ call[c].pc = from
           /\ call'[c] = [pc |-> to, length |-> length, function |-> function]
           /\ \A d \in Callers \ {c} : call'[d] = call[d]
           /\ call' = [d \in Callers |-> call'[d]]
           /\ UNCHANGED <<phase, flag, setting>>
  BY DEF Step

(* Every part of LogpMakePrefix is a step of one call. *)
LEMMA PrefixSteps ==
    ASSUME NEW c \in Callers, LogpMakePrefix(c)
    PROVE  /\ UNCHANGED <<resolved, resolver>>
           /\ \E from \in {"time", "name", "processor", "entry"} \cup Outcomes,
                 to \in {"name", "processor", "entry", "idle"} \cup Outcomes :
                 /\ \E length, function : Step(c, from, to, length, function)
                 /\ from \in Outcomes => phase # "test"
  <1> DEFINE Steps == \E from \in {"time", "name", "processor", "entry"} \cup Outcomes,
                          to \in {"name", "processor", "entry", "idle"} \cup Outcomes :
                          /\ \E length, function : Step(c, from, to, length, function)
                          /\ from \in Outcomes => phase # "test"
  <1>1. CASE \E name \in Names : AddFunctionName(c, name)
    <2>1. PICK to \in {"processor", "noRoom"} :
              \E length, function : Step(c, "name", to, length, function)
      BY <1>1 DEF AddFunctionName
    <2>2. to \in {"name", "processor", "entry", "idle"} \cup Outcomes
      BY DEF Outcomes
    <2>3. "name" \notin Outcomes
      BY DEF Outcomes
    <2>4. Steps
      BY <2>1, <2>2, <2>3
    <2> QED
      BY <2>4 DEF LogpMakePrefix
  <1>2. CASE ~ \E name \in Names : AddFunctionName(c, name)
    BY <1>2 DEF LogpMakePrefix, AddTime, AddProcessor, MakeEntry, Return, Outcomes
  <1> QED
    BY <1>1, <1>2

LEMMA TestNext ==
    ASSUME TestInv, ResolvedAtPassive, [Next]_vars
    PROVE  TestInv' /\ ResolvedAtPassive'
  <1> USE FormatAssumption DEF TestInv, ResolvedAtPassive
  <1>1. CASE UNCHANGED vars
    BY <1>1 DEF vars
  <1>2. CASE LogInitialization
    <2>1. PICK f \in Settings : flag' = f /\ setting' = f
      BY <1>2 DEF LogInitialization
    <2>2. call' = [call EXCEPT ![Control].pc = "text"] /\ phase' = "test" /\ phase = "off"
      BY <1>2, <2>1 DEF LogInitialization
    <2>3. call' = [c \in Callers |-> call'[c]] /\ call'[Control].pc = "text"
      BY <2>2 DEF NoCall
    <2>4. \A c \in Callers \ {Control} : call'[c] = NoCall
      BY <2>2
    <2> QED
      BY <1>2, <2>1, <2>2, <2>3, <2>4 DEF LogInitialization
  <1>3. CASE TestLog
    <2>1. call[Control].pc # "text" /\ phase = "test"
      BY <1>3 DEF TestLog, Outcomes
    <2>2. \A c \in Callers : call'[c] = NoCall
      BY <1>3, <2>1 DEF TestLog
    <2> QED
      BY <1>3, <2>1, <2>2 DEF TestLog
  <1>4. CASE LogTermination
    BY <1>4 DEF LogTermination
  <1>5. ASSUME NEW c \in Callers, NEW level \in Levels, LogpPrint(c, level)
        PROVE  TestInv' /\ ResolvedAtPassive'
    BY <1>5, StepEffect DEF LogpPrint
  <1>6. ASSUME NEW c \in Callers, NEW text \in Texts, NEW irql \in {"passive", "raised"},
               FormatText(c, text, irql)
        PROVE  TestInv' /\ ResolvedAtPassive'
    <2>1. PICK to, length : Step(c, "text", to, length, NoName)
      BY <1>6 DEF FormatText
    <2>2. /\ call[c].pc = "text"
          /\ \A d \in Callers \ {c} : call'[d] = call[d]
          /\ call' = [d \in Callers |-> call'[d]]
          /\ UNCHANGED <<phase, flag, setting>>
      BY <2>1, StepEffect
    <2>3. phase \in {"test", "on", "terminated"} /\ (phase = "test" => c = Control)
      BY <2>2 DEF NoCall
    <2>4. resolved' /\ resolver' = (IF resolved THEN resolver ELSE irql)
      BY <1>6 DEF FormatText
    <2>5. resolver' # "raised"
      BY <1>6, <2>3, <2>4 DEF FormatText
    <2> QED
      BY <2>2, <2>3, <2>4, <2>5
  <1>7. ASSUME NEW c \in Callers, LogpMakePrefix(c)
        PROVE  TestInv' /\ ResolvedAtPassive'
    <2>1. UNCHANGED <<resolved, resolver>>
      BY <1>7, PrefixSteps
    <2>2. PICK from \in {"time", "name", "processor", "entry"} \cup Outcomes,
               to \in {"name", "processor", "entry", "idle"} \cup Outcomes :
               \E length, function : Step(c, from, to, length, function)
      BY <1>7, PrefixSteps
    <2>3. /\ call[c].pc = from
          /\ \A d \in Callers \ {c} : call'[d] = call[d]
          /\ call' = [d \in Callers |-> call'[d]]
          /\ UNCHANGED <<phase, flag, setting>>
      BY <2>2, StepEffect
    <2>4. call[c].pc \notin {"idle", "text"}
      BY <2>3 DEF Outcomes
    <2>5. phase \in {"test", "on", "terminated"} /\ (phase = "test" => c = Control /\ resolved)
      BY <2>3, <2>4 DEF NoCall
    <2> QED
      BY <2>1, <2>3, <2>5
  <1> QED
    BY <1>1, <1>2, <1>3, <1>4, <1>5, <1>6, <1>7 DEF Next

-----------------------------------------------------------------------------
LEMMA LengthInit == Init => LengthInv
  BY DEF Init, LengthInv

(* The bounds of LengthInv, for a step that keeps the phase and the setting. *)
LEMMA LengthStep ==
    ASSUME TestInv, LengthInv, NEW c \in Callers, NEW from, NEW to, NEW length, NEW function,
           Step(c, from, to, length, function),
           phase \in {"test", "on"} /\ "noFunctionName" \in setting =>
               /\ to # "noRoom"
               /\ to = "time" => length \in Nat /\ length <= 411
               /\ to \in {"name", "processor"} => length \in Nat /\ length <= 424
               /\ to = "entry" => length \in Nat /\ length <= 430
    PROVE  LengthInv'
  <1>1. /\ call'[c] = [pc |-> to, length |-> length, function |-> function]
        /\ \A d \in Callers \ {c} : call'[d] = call[d]
        /\ UNCHANGED <<phase, flag, setting>>
    BY StepEffect DEF TestInv
  <1>2. call'[c].pc = to /\ call'[c].length = length
    BY <1>1
  <1> QED
    BY <1>1, <1>2 DEF LengthInv, AtMost

LEMMA LengthNext ==
    ASSUME TestInv, LengthInv, [Next]_vars PROVE LengthInv'
  <1> USE FormatAssumption
  <1>1. CASE UNCHANGED vars
    BY <1>1 DEF vars, LengthInv, AtMost
  <1>2. CASE LogInitialization
    <2>1. call' = [call EXCEPT ![Control].pc = "text"] /\ phase = "off"
      BY <1>2 DEF LogInitialization
    <2>2. \A c \in Callers : call'[c].pc \in {"idle", "text"}
      BY <2>1 DEF TestInv, NoCall
    <2> QED
      BY <2>2 DEF LengthInv, AtMost
  <1>3. CASE TestLog
    <2>1. \A c \in Callers : call'[c].pc = "idle"
      BY <1>3 DEF TestInv, TestLog, NoCall
    <2> QED
      BY <2>1 DEF LengthInv, AtMost
  <1>4. CASE LogTermination
    BY <1>4 DEF LogTermination, LengthInv
  <1>5. ASSUME NEW c \in Callers, NEW level \in Levels, LogpPrint(c, level)
        PROVE  LengthInv'
    BY <1>5, LengthStep DEF LogpPrint
  <1>6. ASSUME NEW c \in Callers, NEW text \in Texts, NEW irql \in {"passive", "raised"},
               FormatText(c, text, irql)
        PROVE  LengthInv'
    <2>1. text \in Nat
      OBVIOUS
    <2>2. Stored(text, LogMessageSize) \in Nat /\ Stored(text, LogMessageSize) <= 411
      BY <2>1 DEF Stored, Fits, LogMessageSize
    <2>3. PICK to \in {"tooLong", "empty", "time"} :
             Step(c, "text", to, Stored(text, LogMessageSize), NoName)
      BY <1>6 DEF FormatText
    <2> QED
      BY <2>2, <2>3, LengthStep
  <1>7. ASSUME NEW c \in Callers, LogpMakePrefix(c)
        PROVE  LengthInv'
    <2>1. CASE AddTime(c)
      <3> DEFINE n == call[c].length + (IF "noTime" \in flag THEN 0 ELSE 13)
      <3>1. Step(c, "time", "name", n, NoName)
        BY <2>1 DEF AddTime
      <3>2. call[c].pc = "time"
        BY <3>1 DEF Step
      <3>3. phase \in {"test", "on"} /\ "noFunctionName" \in setting => n \in Nat /\ n <= 424
        BY <3>2 DEF LengthInv, AtMost
      <3> HIDE DEF n
      <3> QED
        BY <3>1, <3>3, LengthStep
    <2>2. ASSUME NEW name \in Names, AddFunctionName(c, name)
          PROVE  LengthInv'
      <3>1. CASE "noFunctionName" \in flag
        <4>1. Step(c, "name", "processor", call[c].length, NoName)
          BY <2>2, <3>1 DEF AddFunctionName
        <4>2. call[c].pc = "name"
          BY <4>1 DEF Step
        <4>3. phase \in {"test", "on"} /\ "noFunctionName" \in setting =>
                call[c].length \in Nat /\ call[c].length <= 424
          BY <4>2 DEF LengthInv, AtMost
        <4> QED
          BY <4>1, <4>3, LengthStep
      <3>2. CASE "noFunctionName" \notin flag
        <4>1. ~ (phase \in {"test", "on"} /\ "noFunctionName" \in setting)
          BY <3>2 DEF TestInv
        <4>2. UNCHANGED <<phase, setting>>
          BY <2>2 DEF AddFunctionName, Step
        <4> QED
          BY <4>1, <4>2 DEF LengthInv
      <3> QED
        BY <3>1, <3>2
    <2>3. ASSUME NEW number \in Numbers, AddProcessor(c, number)
          PROVE  LengthInv'
      <3> DEFINE n == call[c].length + (IF "noProcessor" \in flag THEN 0 ELSE number.cpu + 2)
      <3>1. Step(c, "processor", "entry", n, call[c].function)
        BY <2>3 DEF AddProcessor
      <3>2. call[c].pc = "processor"
        BY <3>1 DEF Step
      <3>3. number.cpu \in 1 .. 4
        OBVIOUS
      <3>4. phase \in {"test", "on"} /\ "noFunctionName" \in setting => n \in Nat /\ n <= 430
        BY <3>2, <3>3 DEF LengthInv, AtMost
      <3> HIDE DEF n
      <3> QED
        BY <3>1, <3>4, LengthStep
    <2>4. ASSUME NEW number \in Numbers, MakeEntry(c, number)
          PROVE  LengthInv'
      <3> DEFINE n == call[c].length + 4 + 2 * (number.id + 1) + 16 + 2
      <3>1. Step(c, "entry", IF Fits(n, EntrySize) THEN "put" ELSE "noRoom",
                 Stored(n, EntrySize), call[c].function)
        BY <2>4 DEF MakeEntry
      <3>2. call[c].pc = "entry"
        BY <3>1 DEF Step
      <3>3. number.id \in 5 .. 10
        OBVIOUS
      <3>4. phase \in {"test", "on"} /\ "noFunctionName" \in setting => Fits(n, EntrySize)
        <4> SUFFICES ASSUME phase \in {"test", "on"} /\ "noFunctionName" \in setting
                     PROVE  n < 512
          BY DEF Fits, EntrySize
        <4>1. call[c].length \in Nat /\ call[c].length <= 430
          BY <3>2 DEF LengthInv, AtMost
        <4>2. number.id \in Nat /\ number.id <= 10
          BY <3>3
        <4> QED
          BY <4>1, <4>2
      <3> HIDE DEF n
      <3> QED
        BY <3>1, <3>4, LengthStep
    <2>5. CASE Return(c)
      BY <2>5, LengthStep DEF Return
    <2> QED
      BY <1>7, <2>1, <2>2, <2>3, <2>4, <2>5 DEF LogpMakePrefix
  <1> QED
    BY <1>1, <1>2, <1>3, <1>4, <1>5, <1>6, <1>7 DEF Next

LEMMA Invariance == Spec => [](TestInv /\ ResolvedAtPassive /\ LengthInv)
  <1>1. TestInv /\ ResolvedAtPassive /\ LengthInv /\ [Next]_vars
          => (TestInv /\ ResolvedAtPassive /\ LengthInv)'
    BY TestNext, LengthNext
  <1> QED
    BY <1>1, TestInit, LengthInit, PTL DEF Spec

-----------------------------------------------------------------------------
(* However many threads log, at whatever IRQL, the formatting routine is looked
   up at PASSIVE_LEVEL. *)
THEOREM ResolutionIsPassive == Spec => []ResolvedAtPassive
  BY Invariance, PTL

(* With function names switched off no message is refused for its prefix,
   whatever its length, its processor and its IDs. *)
THEOREM NoEntryIsRefused == Spec => []EntriesFit
  <1>1. LengthInv => EntriesFit
    BY DEF LengthInv, EntriesFit
  <1> QED
    BY <1>1, Invariance, PTL

-----------------------------------------------------------------------------
(***************************************************************************)
(* LogpFindBaseFunctionName.                                               *)
(***************************************************************************)

(* Induction up to n, over a set of indices. *)
LEMMA Upwards ==
    ASSUME NEW S, NEW n \in Nat, 1 \in S, \A k \in 1 .. n - 1 : k \in S => k + 1 \in S
    PROVE  \A k \in 1 .. n : k \in S
  <1> SUFFICES ASSUME NEW k \in 1 .. n, k \notin S PROVE FALSE
    OBVIOUS
  <1> DEFINE D == {j \in 1 .. n : j \notin S}
             R == OpToRel(<, Nat)
  <1>1. D \subseteq Nat /\ D # {}
    OBVIOUS
  <1>2. PICK j \in D : \A i \in D : ~ (<<i, j>> \in R)
    <2> HIDE DEF D, R
    <2> QED
      BY <1>1, WFMin, NatLessThanWellFounded DEF R
  <1>3. j - 1 \in 1 .. n - 1 /\ j - 1 + 1 = j /\ j - 1 < j /\ j - 1 \in Nat
    OBVIOUS
  <1>4. <<j - 1, j>> \in R
    BY <1>3 DEF OpToRel
  <1>5. j - 1 \notin D
    <2> HIDE DEF D, R
    <2> QED
      BY <1>2, <1>4
  <1> QED
    BY <1>3, <1>5

(* Where the function name starts, seen from character n on. *)
Starts(name, start, n) ==
    CASE n = 1                   -> 1
      [] n > 1 /\ name[n] = ":"  -> n + 1
      [] OTHER                   -> start[n - 1]

IsStart(name, start) ==
    /\ start \in [1 .. Len(name) -> Nat]
    /\ \A n \in 1 .. Len(name) : start[n] = Starts(name, start, n)

LEMMA StartExists ==
    ASSUME NEW name \in Seq({Identifier, ":"}), name # <<>>
    PROVE  \E start : IsStart(name, start)
  <1> DEFINE L == Len(name)
             UpTo(k, f) == \A n \in 1 .. k : f[n] = Starts(name, f, n)
             S == {k \in 1 .. L : \E f \in [1 .. L -> Nat] : UpTo(k, f)}
  <1>0. L \in Nat /\ L >= 1
    BY EmptySeq
  <1> HIDE DEF L
  <1>1. 1 \in S
    <2> DEFINE f == [n \in 1 .. L |-> 1]
    <2>1. f \in [1 .. L -> Nat] /\ UpTo(1, f)
      BY <1>0 DEF Starts
    <2> QED
      BY <1>0, <2>1
  <1>2. ASSUME NEW k \in 1 .. L - 1, k \in S PROVE k + 1 \in S
    <2>1. PICK f \in [1 .. L -> Nat] : UpTo(k, f)
      BY <1>2
    <2> DEFINE g == [f EXCEPT ![k + 1] = Starts(name, f, k + 1)]
    <2>2. k + 1 \in 1 .. L /\ k + 1 > 1 /\ k + 1 - 1 = k /\ k \in 1 .. L
      BY <1>0
    <2>3. Starts(name, f, k + 1) \in Nat
      BY <2>2 DEF Starts
    <2>4. /\ g \in [1 .. L -> Nat] /\ g[k + 1] = Starts(name, f, k + 1)
          /\ \A n \in 1 .. k : g[n] = f[n]
      BY <2>2, <2>3
    <2> HIDE DEF g
    <2>5. ASSUME NEW n \in 1 .. k + 1 PROVE Starts(name, g, n) = Starts(name, f, n)
      <3>1. n > 1 => n - 1 \in 1 .. k
        OBVIOUS
      <3> QED
        BY <2>4, <3>1 DEF Starts
    <2>6. UpTo(k + 1, g)
      <3> SUFFICES ASSUME NEW n \in 1 .. k + 1 PROVE g[n] = Starts(name, g, n)
        OBVIOUS
      <3>1. n \in 1 .. k \/ n = k + 1
        OBVIOUS
      <3> QED
        BY <2>1, <2>4, <2>5, <3>1
    <2> HIDE DEF UpTo
    <2> QED
      BY <2>2, <2>4, <2>6
  <1>3. L \in S
    <2> HIDE DEF S
    <2>1. \A k \in 1 .. L : k \in S
      BY <1>0, <1>1, <1>2, Upwards
    <2> QED
      BY <1>0, <2>1
  <1> QED
    BY <1>3 DEF L, IsStart

(* The base name is the end of the name, from its start on. *)
LEMMA BaseOfName ==
    ASSUME NEW name \in Seq({Identifier, ":"}), name # <<>>
    PROVE  \E start :
              /\ IsStart(name, start)
              /\ LogpFindBaseFunctionName(name) = SubSeq(name, start[Len(name)], Len(name))
  <1> DEFINE Whole(f) == f = [n \in 1 .. Len(name) |->
                                CASE n = 1                   -> 1
                                  [] n > 1 /\ name[n] = ":"  -> n + 1
                                  [] OTHER                   -> f[n - 1]]
  <1>1. PICK f : IsStart(name, f)
    BY StartExists
  <1>2. f = [n \in 1 .. Len(name) |-> Starts(name, f, n)]
    BY <1>1 DEF IsStart
  <1>3. Whole(f)
    BY <1>2 DEF Starts
  <1> DEFINE g == CHOOSE h : Whole(h)
  <1>4. LogpFindBaseFunctionName(name) = SubSeq(name, g[Len(name)], Len(name))
    BY DEF LogpFindBaseFunctionName
  <1>5. Whole(g)
    <2> HIDE DEF Whole
    <2> QED
      BY <1>3
  <1> HIDE DEF g
  <1>6. g = [n \in 1 .. Len(name) |-> Starts(name, g, n)]
    BY <1>5 DEF Starts
  <1>7. \A n \in 1 .. Len(name) : g[n] = Starts(name, g, n)
    BY <1>6
  <1>8. \A n \in 1 .. Len(name) : g[n] \in Nat
    <2> DEFINE S == {n \in 1 .. Len(name) : g[n] \in Nat}
    <2>0. Len(name) \in Nat /\ 1 \in 1 .. Len(name)
      BY EmptySeq
    <2>1. 1 \in S
      BY <1>7, <2>0 DEF Starts
    <2>2. ASSUME NEW k \in 1 .. Len(name) - 1, k \in S PROVE k + 1 \in S
      <3>1. k + 1 \in 1 .. Len(name) /\ k + 1 > 1 /\ k + 1 - 1 = k
        BY <2>0
      <3>2. g[k + 1] = Starts(name, g, k + 1)
        BY <1>7, <3>1
      <3> QED
        BY <2>2, <3>1, <3>2 DEF Starts
    <2> HIDE DEF S
    <2>3. \A k \in 1 .. Len(name) : k \in S
      BY <2>0, <2>1, <2>2, Upwards
    <2> QED
      BY <2>3 DEF S
  <1>9. g \in [1 .. Len(name) -> Nat]
    BY <1>6, <1>8
  <1> QED
    BY <1>4, <1>7, <1>9 DEF IsStart

(* The start follows the last colon the loop has seen, if it has seen one. *)
LEMMA StartIsAfterColons ==
    ASSUME NEW name \in Seq({Identifier, ":"}), NEW start, IsStart(name, start)
    PROVE  \A n \in 1 .. Len(name) :
              /\ start[n] \in 1 .. n + 1
              /\ start[n] = 1 \/ (start[n] - 1 \in 2 .. n /\ name[start[n] - 1] = ":")
              /\ \A k \in 2 .. n : name[k] = ":" => k < start[n]
  <1> DEFINE Good(n) == /\ start[n] \in 1 .. n + 1
                        /\ start[n] = 1 \/ (start[n] - 1 \in 2 .. n /\ name[start[n] - 1] = ":")
                        /\ \A k \in 2 .. n : name[k] = ":" => k < start[n]
             S == {n \in 1 .. Len(name) : Good(n)}
  <1> USE DEF IsStart
  <1> SUFFICES ASSUME Len(name) >= 1 PROVE \A n \in 1 .. Len(name) : n \in S
    BY EmptySeq
  <1>0. Len(name) \in Nat /\ 1 \in 1 .. Len(name)
    BY EmptySeq
  <1>1. 1 \in S
    <2>1. start[1] = 1
      BY <1>0 DEF Starts
    <2> QED
      BY <1>0, <2>1
  <1>2. ASSUME NEW n \in 1 .. Len(name) - 1, n \in S PROVE n + 1 \in S
    <2>1. n + 1 \in 1 .. Len(name) /\ n + 1 > 1 /\ n + 1 - 1 = n
      BY <1>0
    <2>2. start[n + 1] = Starts(name, start, n + 1)
      BY <2>1
    <2>3. CASE name[n + 1] = ":"
      <3>1. start[n + 1] = n + 2
        BY <2>1, <2>2, <2>3 DEF Starts
      <3>2. start[n + 1] - 1 = n + 1 /\ n + 1 \in 2 .. n + 1
        BY <3>1
      <3> QED
        BY <2>1, <2>3, <3>1, <3>2
    <2>4. CASE name[n + 1] # ":"
      <3>1. start[n + 1] = start[n]
        BY <2>1, <2>2, <2>4 DEF Starts
      <3>2. Good(n)
        BY <1>2
      <3>3. ASSUME NEW k \in 2 .. n + 1, name[k] = ":" PROVE k < start[n]
        BY <2>4, <3>2, <3>3
      <3> QED
        BY <2>1, <3>1, <3>2, <3>3
    <2> QED
      BY <2>3, <2>4
  <1> HIDE DEF S
  <1>3. \A n \in 1 .. Len(name) : n \in S
    BY <1>0, <1>1, <1>2, Upwards
  <1> QED
    BY <1>3

(* What LogpFindBaseFunctionName returns: the part after the last colon. *)
LEMMA BaseFollowsLastColon ==
    ASSUME NEW name \in Names
    PROVE  /\ name \in Seq({Identifier, ":"})
           /\ LogpFindBaseFunctionName(name) \in Seq({Identifier, ":"})
           /\ FollowsLastColon(LogpFindBaseFunctionName(name), name)
  <1> DEFINE base == LogpFindBaseFunctionName(name)
             colons == {n \in 2 .. Len(name) : name[n] = ":"}
  <1>1. name \in Seq({Identifier, ":"}) /\ name # <<>>
    BY FormatAssumption
  <1>2. PICK L \in Nat : L = Len(name) /\ L >= 1
    BY <1>1, EmptySeq
  <1>3. PICK start : IsStart(name, start) /\ base = SubSeq(name, start[L], L)
    BY <1>1, <1>2, BaseOfName
  <1>4. PICK s \in 1 .. L + 1 :
            /\ s = start[L]
            /\ s = 1 \/ (s - 1 \in 2 .. L /\ name[s - 1] = ":")
            /\ \A k \in 2 .. L : name[k] = ":" => k < s
    <2>1. L \in 1 .. Len(name)
      BY <1>2
    <2> QED
      BY <1>1, <1>2, <1>3, <2>1, StartIsAfterColons
  <1>5. s \in Int /\ L \in Int /\ \A i \in s .. L : name[i] \in {Identifier, ":"}
    BY <1>1, <1>2, <1>4
  <1> HIDE DEF base
  <1>6. base = SubSeq(name, s, L)
    BY <1>3, <1>4
  <1>7. base \in Seq({Identifier, ":"})
    BY <1>5, <1>6, SubSeqProperties
  <1>8. FollowsLastColon(base, name)
    <2>1. PICK k \in {0} \cup colons : k + 1 = s
      <3>1. CASE s = 1
        BY <3>1
      <3>2. CASE s # 1
        <4>1. s - 1 \in colons /\ s - 1 + 1 = s
          BY <1>2, <1>4, <3>2
        <4> QED
          BY <4>1
      <3> QED
        BY <3>1, <3>2
    <2>2. \A n \in colons : n <= k
      BY <1>2, <1>4, <2>1
    <2> QED
      BY <1>2, <1>6, <2>1, <2>2 DEF FollowsLastColon
  <1> QED
    BY <1>1, <1>7, <1>8 DEF base

-----------------------------------------------------------------------------
(***************************************************************************)
(* Lengths and names.                                                      *)
(***************************************************************************)
LEMMA PaddedIsNat ==
    ASSUME NEW name \in Seq({Identifier, ":"})
    PROVE  PaddedLength(name) \in Nat
  <1> DEFINE parts == {n \in 1 .. Len(name) : name[n] = Identifier}
             k == Cardinality(parts)
  <1>1. Len(name) \in Nat
    BY LenProperties
  <1>2. IsFiniteSet(1 .. Len(name))
    BY <1>1, FS_Interval
  <1>3. parts \subseteq 1 .. Len(name)
    OBVIOUS
  <1>4. IsFiniteSet(parts)
    <2> HIDE DEF parts
    <2> QED
      BY <1>2, <1>3, FS_Subset
  <1>5. k \in Nat
    <2> HIDE DEF parts
    <2> QED
      BY <1>4, FS_CardinalityType
  <1>6. NameLength - 1 \in Nat
    BY FormatAssumption
  <1> DEFINE l == NameLength - 1
  <1>7. l * k \in Nat
    <2> HIDE DEF l, k
    <2> SUFFICES l \in Nat /\ k \in Nat
      OBVIOUS
    <2> QED
      BY <1>5, <1>6 DEF l
  <1>8. LengthOf(name) = Len(name) + l * k
    BY DEF LengthOf
  <1> HIDE DEF l, k
  <1>9. LengthOf(name) \in Nat
    BY <1>1, <1>7, <1>8
  <1> QED
    BY <1>9 DEF PaddedLength

(* The longest an entry can be when each part is added, the function's name
   included: log_message, the time, the name and the processor. *)
BoundInv ==
    \A c \in Callers :
        /\ AtMost(c, "time", 411) /\ AtMost(c, "name", 424)
        /\ AtMost(c, "processor", 473) /\ AtMost(c, "entry", 479)

Named(function) ==
    /\ function \in [name : Seq({Identifier, ":"}), base : Seq({Identifier, ":"})]
    /\ FollowsLastColon(function.base, function.name)

LEMMA NoNameIsNamed == Named(NoName)
  <1>1. <<>> \in Seq({Identifier, ":"}) /\ Len(<<>>) = 0
    BY EmptySeq
  <1>2. NoName \in [name : Seq({Identifier, ":"}), base : Seq({Identifier, ":"})]
    BY <1>1 DEF NoName
  <1>3. SubSeq(<<>>, 1, 0) = <<>>
    BY SubSeqEmpty
  <1>4. FollowsLastColon(<<>>, <<>>)
    <2>1. {n \in 2 .. Len(<<>>) : <<>>[n] = ":"} = {}
      BY <1>1
    <2> QED
      BY <1>1, <1>3, <2>1 DEF FollowsLastColon
  <1> QED
    BY <1>2, <1>4 DEF Named, NoName

EntryInv == TypeOK /\ BoundInv /\ BaseNameIsLast

LEMMA EntryInit == Init => EntryInv
  <1> SUFFICES ASSUME Init PROVE EntryInv
    OBVIOUS
  <1>1. NoCall \in Call
    BY NoNameIsNamed DEF NoCall, Call, EntrySize, Named
  <1>2. \A c \in Callers : call[c] = NoCall
    BY DEF Init
  <1>3. TypeOK
    BY <1>1 DEF Init, TypeOK
  <1>4. BoundInv
    BY <1>2 DEF BoundInv, AtMost, NoCall
  <1>5. BaseNameIsLast
    BY <1>2, NoNameIsNamed DEF BaseNameIsLast, NoCall, Named
  <1> QED
    BY <1>3, <1>4, <1>5 DEF EntryInv

PCs == {"idle", "text", "time", "name", "processor", "entry"} \cup Outcomes

Limit == [pc \in PCs |-> CASE pc = "time"      -> 411
                           [] pc = "name"      -> 424
                           [] pc = "processor" -> 473
                           [] pc = "entry"     -> 479
                           [] OTHER            -> 511]

LEMMA EntryStep ==
    ASSUME EntryInv, NEW c \in Callers, NEW from, NEW to \in PCs, NEW length \in Nat, NEW function,
           Step(c, from, to, length, function), length <= Limit[to], Named(function)
    PROVE  /\ call' \in [Callers -> Call] /\ BoundInv' /\ BaseNameIsLast'
           /\ UNCHANGED <<phase, flag, setting>>
  <1>1. call \in [Callers -> Call]
    BY DEF EntryInv, TypeOK
  <1> DEFINE new == [pc |-> to, length |-> length, function |-> function]
  <1>2. new \in Call
    <2>1. length \in 0 .. EntrySize - 1
      BY DEF EntrySize, Limit
    <2>2. to \in {"idle", "text", "time", "name", "processor", "entry"} \cup Outcomes
      BY DEF PCs
    <2> QED
      BY <2>1, <2>2 DEF Call, Named
  <1>3. call' = [call EXCEPT ![c] = new] /\ UNCHANGED <<phase, flag, setting>>
    BY DEF Step
  <1>4. call'[c] = new /\ \A d \in Callers \ {c} : call'[d] = call[d]
    BY <1>1, <1>3
  <1>5. call' \in [Callers -> Call]
    <2> HIDE DEF new
    <2> QED
      BY <1>1, <1>2, <1>3
  <1>6. BoundInv'
    BY <1>4 DEF EntryInv, BoundInv, AtMost, Limit
  <1>7. BaseNameIsLast'
    BY <1>4 DEF EntryInv, BaseNameIsLast, Named
  <1> QED
    BY <1>3, <1>5, <1>6, <1>7

LEMMA EntryNext == ASSUME EntryInv, [Next]_vars PROVE EntryInv'
  <1>a. Named(NoName)
    BY NoNameIsNamed
  <1>b. ASSUME NEW c \in Callers PROVE Named(call[c].function)
    BY DEF EntryInv, TypeOK, Call, BaseNameIsLast, Named
  <1>c. call \in [Callers -> Call] /\ Control \in Callers
    BY FormatAssumption DEF EntryInv, TypeOK
  <1>1. CASE UNCHANGED vars
    BY <1>1 DEF vars, EntryInv, TypeOK, BoundInv, AtMost, BaseNameIsLast
  <1>2. CASE LogInitialization
    <2>1. PICK f \in Settings : flag' = f /\ setting' = f
      BY <1>2 DEF LogInitialization
    <2>2. /\ call' = [call EXCEPT ![Control].pc = "text"] /\ phase' = "test"
          /\ UNCHANGED <<resolved, resolver>>
      BY <1>2, <2>1, FormatAssumption DEF LogInitialization
    <2>3. /\ call'[Control].pc = "text" /\ call'[Control].function = call[Control].function
          /\ \A d \in Callers \ {Control} : call'[d] = call[d]
      BY <1>c, <2>2 DEF Call
    <2>4. call' \in [Callers -> Call]
      BY <1>c, <2>2 DEF Call
    <2>5. f \in SUBSET (Levels \cup Options)
      BY FormatAssumption
    <2>6. TypeOK'
      BY <2>1, <2>2, <2>4, <2>5 DEF EntryInv, TypeOK
    <2>7. BoundInv'
      BY <2>3 DEF EntryInv, BoundInv, AtMost
    <2>8. BaseNameIsLast'
      BY <2>3 DEF EntryInv, BaseNameIsLast
    <2> QED
      BY <2>6, <2>7, <2>8 DEF EntryInv
  <1>3. CASE TestLog
    <2>1. /\ call' = [call EXCEPT ![Control] = NoCall] /\ phase' \in {"on", "failed"}
          /\ UNCHANGED <<flag, setting, resolved, resolver>>
      BY <1>3 DEF TestLog
    <2>2. NoCall \in Call
      BY NoNameIsNamed DEF NoCall, Call, EntrySize, Named
    <2>3. call' \in [Callers -> Call]
      BY <1>c, <2>1, <2>2
    <2>4. call'[Control] = NoCall /\ \A d \in Callers \ {Control} : call'[d] = call[d]
      BY <1>c, <2>1
    <2>5. TypeOK'
      BY <2>1, <2>3 DEF EntryInv, TypeOK
    <2>6. BoundInv' /\ BaseNameIsLast'
      BY <2>4, NoNameIsNamed DEF EntryInv, BoundInv, AtMost, BaseNameIsLast, NoCall, Named
    <2> QED
      BY <2>5, <2>6 DEF EntryInv
  <1>4. CASE LogTermination
    BY <1>4 DEF LogTermination, EntryInv, TypeOK, BoundInv, AtMost, BaseNameIsLast
  <1>5. ASSUME NEW c \in Callers, NEW level \in Levels, LogpPrint(c, level)
        PROVE  EntryInv'
    <2>1. Step(c, "idle", "text", 0, NoName) /\ UNCHANGED <<resolved, resolver>>
      BY <1>5 DEF LogpPrint
    <2>2. "text" \in PCs /\ 0 <= Limit["text"]
      BY DEF PCs, Limit
    <2>3. /\ call' \in [Callers -> Call] /\ BoundInv' /\ BaseNameIsLast'
          /\ UNCHANGED <<phase, flag, setting>>
      BY <1>a, <2>1, <2>2, EntryStep
    <2> QED
      BY <2>1, <2>3 DEF EntryInv, TypeOK
  <1>6. ASSUME NEW c \in Callers, NEW text \in Texts, NEW irql \in {"passive", "raised"},
               FormatText(c, text, irql)
        PROVE  EntryInv'
    <2>1. text \in Nat
      BY FormatAssumption
    <2> DEFINE n == Stored(text, LogMessageSize)
    <2>2. n \in Nat /\ n <= 411
      BY <2>1 DEF Stored, Fits, LogMessageSize
    <2>3. PICK to \in {"tooLong", "empty", "time"} : Step(c, "text", to, n, NoName)
      BY <1>6 DEF FormatText
    <2>4. to \in PCs /\ n <= Limit[to]
      BY <2>2 DEF PCs, Limit, Outcomes
    <2> HIDE DEF n
    <2>5. /\ call' \in [Callers -> Call] /\ BoundInv' /\ BaseNameIsLast'
          /\ UNCHANGED <<phase, flag, setting>>
      BY <1>a, <2>2, <2>3, <2>4, EntryStep
    <2>6. resolved' \in BOOLEAN /\ resolver' \in {"none", "passive", "raised"}
      BY <1>6 DEF FormatText, EntryInv, TypeOK
    <2> QED
      BY <2>5, <2>6 DEF EntryInv, TypeOK
  <1>7. ASSUME NEW c \in Callers, LogpMakePrefix(c)
        PROVE  EntryInv'
    <2>1. UNCHANGED <<resolved, resolver>>
      BY <1>7 DEF LogpMakePrefix
    <2>2. ASSUME NEW from, NEW to \in PCs, NEW length \in Nat, NEW function,
                 Step(c, from, to, length, function), length <= Limit[to], Named(function)
          PROVE  EntryInv'
      <3>1. /\ call' \in [Callers -> Call] /\ BoundInv' /\ BaseNameIsLast'
            /\ UNCHANGED <<phase, flag, setting>>
        BY <2>2, EntryStep
      <3> QED
        BY <2>1, <3>1 DEF EntryInv, TypeOK
    <2>3. call[c].length \in Nat /\ call[c].length <= 511
      <3>1. call[c].length \in 0 .. EntrySize - 1
        BY <1>c DEF Call
      <3> QED
        BY <3>1 DEF EntrySize
    <2>4. CASE AddTime(c)
      <3> DEFINE n == call[c].length + (IF "noTime" \in flag THEN 0 ELSE 13)
      <3>1. Step(c, "time", "name", n, NoName)
        BY <2>4 DEF AddTime
      <3>2. call[c].pc = "time"
        BY <3>1 DEF Step
      <3>3. n \in Nat /\ n <= 424 /\ "name" \in PCs /\ Limit["name"] = 424
        BY <2>3, <3>2 DEF EntryInv, BoundInv, AtMost, PCs, Limit
      <3> HIDE DEF n
      <3> QED
        BY <1>a, <2>2, <3>1, <3>3
    <2>5. ASSUME NEW name \in Names, AddFunctionName(c, name)
          PROVE  EntryInv'
      <3> DEFINE base     == LogpFindBaseFunctionName(name)
                 n        == PaddedLength(base)
                 function == [name |-> name, base |-> base]
      <3>1. call[c].pc = "name"
        BY <2>5 DEF AddFunctionName, Step
      <3>2. call[c].length <= 424
        BY <3>1 DEF EntryInv, BoundInv, AtMost
      <3>3. Named(function) /\ n \in Nat
        BY BaseFollowsLastColon, PaddedIsNat DEF Named
      <3>4. CASE "noFunctionName" \in flag
        <4>1. Step(c, "name", "processor", call[c].length, NoName)
          BY <2>5, <3>4 DEF AddFunctionName
        <4>2. "processor" \in PCs /\ call[c].length <= Limit["processor"]
          BY <2>3, <3>2 DEF PCs, Limit
        <4> QED
          BY <1>a, <2>2, <2>3, <4>1, <4>2
      <3>5. CASE "noFunctionName" \notin flag /\ Fits(n, FunctionNameSize)
        <4>1. Step(c, "name", "processor", call[c].length + n, function)
          BY <2>5, <3>5 DEF AddFunctionName
        <4>2. "processor" \in PCs /\ Limit["processor"] = 473
          BY DEF PCs, Limit
        <4> HIDE DEF base, n, function
        <4>3. call[c].length + n \in Nat /\ call[c].length + n <= 473
          BY <2>3, <3>2, <3>3, <3>5 DEF Fits, FunctionNameSize
        <4> QED
          BY <2>2, <3>3, <4>1, <4>2, <4>3
      <3>6. CASE "noFunctionName" \notin flag /\ ~ Fits(n, FunctionNameSize)
        <4>1. Step(c, "name", "noRoom", call[c].length, function)
          BY <2>5, <3>6 DEF AddFunctionName
        <4>2. "noRoom" \in PCs /\ call[c].length <= Limit["noRoom"]
          BY <2>3 DEF PCs, Limit, Outcomes
        <4> HIDE DEF base, n, function
        <4> QED
          BY <2>2, <2>3, <3>3, <4>1, <4>2
      <3> QED
        BY <3>4, <3>5, <3>6
    <2>6. ASSUME NEW number \in Numbers, AddProcessor(c, number)
          PROVE  EntryInv'
      <3> DEFINE n == call[c].length + (IF "noProcessor" \in flag THEN 0 ELSE number.cpu + 2)
      <3>1. Step(c, "processor", "entry", n, call[c].function)
        BY <2>6 DEF AddProcessor
      <3>2. call[c].pc = "processor"
        BY <3>1 DEF Step
      <3>3. number.cpu \in 1 .. 4
        BY FormatAssumption
      <3>4. n \in Nat /\ n <= 479 /\ "entry" \in PCs /\ Limit["entry"] = 479
        BY <2>3, <3>2, <3>3 DEF EntryInv, BoundInv, AtMost, PCs, Limit
      <3> HIDE DEF n
      <3> QED
        BY <1>b, <2>2, <3>1, <3>4
    <2>7. ASSUME NEW number \in Numbers, MakeEntry(c, number)
          PROVE  EntryInv'
      <3> DEFINE n == call[c].length + 4 + 2 * (number.id + 1) + 16 + 2
      <3>1. number.id \in 5 .. 10
        BY FormatAssumption
      <3>2. n \in Nat
        BY <2>3, <3>1
      <3>3. PICK to \in {"put", "noRoom"} :
                Step(c, "entry", to, Stored(n, EntrySize), call[c].function)
        BY <2>7 DEF MakeEntry
      <3> HIDE DEF n
      <3>4. Stored(n, EntrySize) \in Nat /\ Stored(n, EntrySize) <= 511
        BY <3>2 DEF Stored, Fits, EntrySize
      <3>5. to \in PCs /\ Limit[to] = 511
        BY DEF PCs, Limit, Outcomes
      <3> QED
        BY <1>b, <2>2, <3>3, <3>4, <3>5
    <2>8. CASE Return(c)
      <3>1. PICK outcome \in Outcomes : Step(c, outcome, "idle", 0, NoName)
        BY <2>8 DEF Return
      <3>2. "idle" \in PCs /\ 0 <= Limit["idle"]
        BY DEF PCs, Limit
      <3> QED
        BY <1>a, <2>2, <3>1, <3>2
    <2> QED
      BY <1>7, <2>4, <2>5, <2>6, <2>7, <2>8 DEF LogpMakePrefix
  <1> QED
    BY <1>1, <1>2, <1>3, <1>4, <1>5, <1>6, <1>7 DEF Next

LEMMA Entries == Spec => []EntryInv
  <1>1. EntryInv /\ [Next]_vars => EntryInv'
    BY EntryNext
  <1> QED
    BY <1>1, EntryInit, PTL DEF Spec

-----------------------------------------------------------------------------
(* Every text, prefix and entry stays inside its buffer, whatever the lengths of
   the texts and of the functions' names. *)
THEOREM TypeCorrect == Spec => []TypeOK
  <1>1. EntryInv => TypeOK
    BY DEF EntryInv
  <1> QED
    BY <1>1, Entries, PTL

(* LogpFindBaseFunctionName keeps what follows the last colon, or all of a name
   without one, for names of any length and with colons anywhere. *)
THEOREM BaseNamesAreLast == Spec => []BaseNameIsLast
  <1>1. EntryInv => BaseNameIsLast
    BY DEF EntryInv
  <1> QED
    BY <1>1, Entries, PTL
=============================================================================
