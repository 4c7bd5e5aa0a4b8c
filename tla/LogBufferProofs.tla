--------------------------- MODULE LogBufferProofs ---------------------------
(***************************************************************************)
(* Theorems about LogBuffer, for every number of threads, every set of     *)
(* messages, every message size and every buffer size.                     *)
(***************************************************************************)
EXTENDS LogBuffer, TLAPS

Calls == [msg : Msgs, ctx : AllContexts]

(* The program counters at which a thread cannot go on without its message. *)
HoldingPCs == {"write", "buffer", "copy", "term"}

QuietPCs == (WriterPCs \cup FlushThreadPCs) \ (BusyPCs \cup {"fault"})

(* Every thread is at one of its own program counters and a thread inside
   LogpPut knows its message; only the flush thread also flushes without one. *)
CallInv ==
    /\ pc[FlushThread] \in FlushThreadPCs
    /\ \A t \in Writers :
         /\ pc[t] \in WriterPCs
         /\ pc[t] \in BusyPCs => op[t] \in Calls
    /\ \A t \in Threads :
         /\ pc[t] \in HoldingPCs => op[t] \in Calls
         /\ pc[t] \in QuietPCs => op[t] = NoCall

TypeInv == TypeOK /\ CallInv

-----------------------------------------------------------------------------
(* Any message that is chosen by a step comes with one of the contexts. *)
LEMMA ContextsTyped == ASSUME NEW ctx \in Contexts PROVE ctx \in AllContexts
  BY ConstantsAssumption

(* A call is never taken for none. *)
LEMMA CallsAreCalls == NoCall \notin Calls
  BY ConstantsAssumption DEF NoCall, Calls

LEMMA InitTyped == Init => TypeInv
  <1> SUFFICES ASSUME Init PROVE TypeInv
    OBVIOUS
  <1>1. FreshBuffer \in [Offsets -> Cells]
    BY DEF FreshBuffer, Cells
  <1>2. mem \in [Buffers -> [Offsets -> Cells]]
    BY <1>1 DEF Init
  <1>3. pc \in [Threads -> WriterPCs \cup FlushThreadPCs]
    BY DEF Init, WriterPCs, FlushThreadPCs
  <1>4. CallInv
    BY ConstantsAssumption
    DEF Init, CallInv, Threads, WriterPCs, FlushThreadPCs, BusyPCs, HoldingPCs
  <1>5. file \in Seq(Msgs \cup {Torn})
    BY DEF Init
  <1> QED
    BY <1>2, <1>3, <1>4, <1>5 DEF Init, TypeInv, TypeOK, Buffers, Outcomes

(* A step that appends nothing but a message or a torn string keeps the file a
   sequence of them. *)
LEMMA AppendTyped ==
    ASSUME TypeOK, NEW x \in Msgs \cup {Torn}
    PROVE  Append(file, x) \in Seq(Msgs \cup {Torn})
  BY DEF TypeOK

(* A thread that goes to one of its own program counters, with a message where
   it needs one. *)
LEMMA GotoTyped ==
    ASSUME TypeInv, NEW t \in Threads, NEW where, Goto(t, where), op' = op,
           t = FlushThread => where \in FlushThreadPCs,
           t \in Writers => where \in WriterPCs
                            /\ (where \in BusyPCs => op[t] \in Calls),
           where \in HoldingPCs => op[t] \in Calls,
           where \in QuietPCs => op[t] = NoCall
    PROVE  /\ pc' \in [Threads -> WriterPCs \cup FlushThreadPCs]
           /\ CallInv'
  <1>1. pc \in [Threads -> WriterPCs \cup FlushThreadPCs] /\ FlushThread \in Threads
        /\ \A u \in Writers : u \in Threads /\ u # FlushThread
    BY ConstantsAssumption DEF TypeInv, TypeOK, Threads
  <1>2. t = FlushThread \/ t \in Writers
    BY DEF Threads
  <1>3. pc' = [pc EXCEPT ![t] = where]
    BY DEF Goto
  <1>4. pc'[t] = where /\ \A u \in Threads \ {t} : pc'[u] = pc[u]
    BY <1>1, <1>3
  <1>5. pc' \in [Threads -> WriterPCs \cup FlushThreadPCs]
    BY <1>1, <1>2, <1>3
  <1>6. CallInv'
    BY <1>1, <1>2, <1>4 DEF TypeInv, CallInv
  <1> QED
    BY <1>5, <1>6

LEMMA PutTyped ==
    ASSUME TypeInv, NEW t \in Threads, NEW m \in Msgs, NEW ctx \in AllContexts,
           LogpPut(t, m, ctx), closer' \in Writers \cup {None}
    PROVE  TypeInv'
  <1> USE DEF TypeInv
  <1>1. op' = [op EXCEPT ![t] = [msg |-> m, ctx |-> ctx]]
    BY DEF LogpPut, TakeMessage
  <1>2. PICK where \in {"flush", "buffer"} : pc' = [pc EXCEPT ![t] = where]
    BY DEF LogpPut, Goto
  <1>3. pc \in [Threads -> WriterPCs \cup FlushThreadPCs]
        /\ op \in [Threads -> [msg : Msgs, ctx : AllContexts] \cup {NoCall}]
    BY DEF TypeOK
  <1>4. /\ pc'[t] = where /\ op'[t] \in Calls
        /\ \A u \in Threads \ {t} : pc'[u] = pc[u] /\ op'[u] = op[u]
    BY <1>1, <1>2, <1>3 DEF Calls
  <1>5. pc' \in [Threads -> WriterPCs \cup FlushThreadPCs]
    BY <1>2, <1>3 DEF WriterPCs, BusyPCs
  <1>6. where \in BusyPCs /\ where \in WriterPCs /\ where \in FlushThreadPCs
        /\ where \notin QuietPCs
    BY DEF BusyPCs, WriterPCs, FlushThreadPCs, QuietPCs
  <1>7. CallInv'
    BY <1>4, <1>6 DEF CallInv, Threads
  <1>8. op' \in [Threads -> [msg : Msgs, ctx : AllContexts] \cup {NoCall}]
    BY <1>1, <1>3
  <1>9. outcome' \in [Msgs -> Outcomes]
    BY DEF LogpPut, TypeOK, Outcomes
  <1> QED
    BY <1>5, <1>7, <1>8, <1>9 DEF LogpPut, TypeOK, bufferVars, flushVars

(* Printing edits cells only. *)
LEMMA CutTyped ==
    ASSUME NEW buffer \in [Offsets -> Cells], NEW p
    PROVE  CutAt(buffer, p) \in [Offsets -> Cells]
  BY DEF CutAt, Cells

LEMMA EndsTyped == ASSUME TypeOK, NEW end \in Ends PROVE end \in Nat /\ end >= cursor
  BY ConstantsAssumption DEF Ends, TypeOK

LEMMA EditedTyped ==
    ASSUME NEW buffer \in [Offsets -> Cells], NEW edited \in Edited(buffer)
    PROVE  edited \in [Offsets -> Cells]
  <1> DEFINE cleared == IF buffer[cursor] = Begun
                        THEN [buffer EXCEPT ![cursor] = Torn] ELSE buffer
  <1>1. cleared \in [Offsets -> Cells]
    BY DEF Cells
  <1>2. edited = cleared \/ \E end \in Ends : edited = CutAt(cleared, end - 1)
    BY DEF Edited
  <1> HIDE DEF cleared
  <1> QED
    BY <1>1, <1>2, CutTyped

LEMMA ClearedTyped ==
    ASSUME NEW buffer \in [Offsets -> Cells], NEW o, NEW m \in Msgs
    PROVE  [buffer EXCEPT ![o] = [msg |-> m, printed |-> FALSE]] \in [Offsets -> Cells]
  BY DEF Cells, Entries

(* The steps of a flush keep the types; in each the thread is a thread in a
   call or the flush thread, so its next program counter is one of its own. *)
LEMMA FlushStepTyped ==
    ASSUME TypeInv, NEW t \in Threads, FlushStep(t)
    PROVE  TypeInv'
  <1> USE DEF TypeInv
  <1>0. pc[t] \in BusyPCs /\ pc[t] \notin HoldingPCs
        /\ (t \in Writers => op[t] \in Calls)
    BY DEF FlushStep, AcquireResource, SwitchBuffer, WriteEntry, WriteTornEntry,
           WalkPastEnd, EndOfEntries, WipeAndRelease, BusyPCs, HoldingPCs, CallInv
  <1>9. op[t] \in Calls \cup {NoCall}
    BY DEF TypeOK, Calls
  <1>1. CASE AcquireResource(t)
    <2>1. pc' \in [Threads -> WriterPCs \cup FlushThreadPCs] /\ CallInv'
      BY <1>0, <1>1, GotoTyped
      DEF AcquireResource, callVars, WriterPCs, FlushThreadPCs, BusyPCs, HoldingPCs, QuietPCs
    <2> QED
      BY <1>1, <2>1 DEF AcquireResource, TypeOK, bufferVars, callVars
  <1>2. CASE SwitchBuffer(t)
    <2>1. mem' \in [Buffers -> [Offsets -> Cells]]
      <3>1. CASE EmptyHead
        BY <1>2, <3>1 DEF SwitchBuffer, TypeOK
      <3>2. CASE ~ EmptyHead
        <4>1. mem' = [mem EXCEPT ![head'][0] = Nul]
          BY <1>2, <3>2 DEF SwitchBuffer
        <4> QED
          BY <4>1 DEF TypeOK, Cells
      <3> QED
        BY <3>1, <3>2
    <2>2. head' \in Buffers /\ tail' \in [buf : Buffers, off : Nat]
      BY <1>2 DEF SwitchBuffer, TypeOK, Other, Buffers
    <2>3. pc' \in [Threads -> WriterPCs \cup FlushThreadPCs] /\ CallInv'
      BY <1>0, <1>2, GotoTyped
      DEF SwitchBuffer, callVars, WriterPCs, FlushThreadPCs, BusyPCs, HoldingPCs, QuietPCs
    <2> QED
      BY <1>2, <2>1, <2>2, <2>3 DEF SwitchBuffer, TypeOK, callVars
  <1>3. CASE WriteEntry(t)
    <2> DEFINE m == Current.msg
    <2>1. m \in Msgs /\ Current.printed \in BOOLEAN
      BY <1>3 DEF WriteEntry, Entries
    <2>2. file' \in Seq(Msgs \cup {Torn}) /\ outcome' \in [Msgs -> Outcomes]
      BY <1>3, <2>1, AppendTyped DEF WriteEntry, TypeOK, Outcomes
    <2>3. prints' \in [Msgs -> Nat]
      BY <1>3, <2>1 DEF WriteEntry, CountPrint, TypeOK
    <2>4. mem' \in [Buffers -> [Offsets -> Cells]]
      <3>1. PICK new : mem' = [mem EXCEPT ![old] = new]
                       /\ (\/ new = [mem[old] EXCEPT ![cursor] = [msg |-> m, printed |-> FALSE]]
                           \/ new = CutAt(mem[old], cursor + Size[m] - 2))
        BY <1>3 DEF WriteEntry, TypeOK
      <3>2. mem \in [Buffers -> [Offsets -> Cells]] /\ mem[old] \in [Offsets -> Cells]
        BY DEF TypeOK
      <3>3. new \in [Offsets -> Cells]
        BY <2>1, <3>1, <3>2, CutTyped, ClearedTyped
      <3> QED
        BY <3>1, <3>2, <3>3
    <2>5. cursor' \in Nat
      BY <1>3, <2>1, ConstantsAssumption DEF WriteEntry, StepOver, TypeOK
    <2>6. UNCHANGED <<head, tail, maxUsage, spin, resource, old, callVars, pc>>
      BY <1>3 DEF WriteEntry
    <2> QED
      BY <2>2, <2>3, <2>4, <2>5, <2>6 DEF TypeOK, CallInv, callVars
  <1>4. CASE WriteTornEntry(t)
    <2>1. file' \in Seq(Msgs \cup {Torn})
      BY <1>4, AppendTyped DEF WriteTornEntry
    <2>2. cursor' \in Nat
      <3>1. PICK end \in Ends : cursor' = end + 1
        BY <1>4 DEF WriteTornEntry
      <3>2. end \in Nat
        BY <3>1, EndsTyped
      <3> QED
        BY <3>1, <3>2
    <2>3. mem' \in [Buffers -> [Offsets -> Cells]]
      <3>1. PICK edited \in Edited(mem[old]) : mem' = [mem EXCEPT ![old] = edited]
        BY <1>4 DEF WriteTornEntry
      <3>2. edited \in [Offsets -> Cells]
        BY <3>1, EditedTyped DEF TypeOK
      <3> QED
        BY <3>1, <3>2 DEF TypeOK
    <2>4. UNCHANGED <<head, tail, maxUsage, spin, resource, old, callVars, pc, prints, outcome>>
      BY <1>4 DEF WriteTornEntry
    <2> QED
      BY <2>1, <2>2, <2>3, <2>4 DEF TypeOK, CallInv, callVars
  <1>5. CASE WalkPastEnd(t)
    <2>1. UNCHANGED <<head, tail, maxUsage, spin, flushVars, callVars, prints, outcome>>
      BY <1>5 DEF WalkPastEnd
    <2>2. CASE /\ file' = Append(file, Torn)
               /\ \/ mem' = [mem EXCEPT ![old] = CutAt(@, BufferSize)]
                  \/ UNCHANGED mem
               /\ Goto(t, "wipe")
      <3>1. mem' \in [Buffers -> [Offsets -> Cells]]
        <4>1. CASE mem' = [mem EXCEPT ![old] = CutAt(mem[old], BufferSize)]
          <5>1. CutAt(mem[old], BufferSize) \in [Offsets -> Cells]
            BY CutTyped DEF TypeOK
          <5> QED
            BY <4>1, <5>1 DEF TypeOK
        <4>2. CASE mem' = mem
          BY <4>2 DEF TypeOK
        <4> QED
          BY <2>2, <4>1, <4>2
      <3>2. pc' \in [Threads -> WriterPCs \cup FlushThreadPCs] /\ CallInv'
        BY <1>0, <2>1, <2>2, GotoTyped
        DEF callVars, WriterPCs, FlushThreadPCs, BusyPCs, HoldingPCs, QuietPCs
      <3> QED
        BY <2>1, <2>2, <3>1, <3>2, AppendTyped DEF TypeOK, flushVars, callVars
    <2>3. CASE pc' = [u \in Threads |-> "fault"] /\ UNCHANGED <<file, mem>>
      <3>1. pc' \in [Threads -> WriterPCs \cup FlushThreadPCs]
        BY <2>3 DEF WriterPCs
      <3>2. CallInv'
        BY <2>3
        DEF CallInv, Threads, WriterPCs, FlushThreadPCs, BusyPCs, HoldingPCs, QuietPCs
      <3> QED
        BY <2>1, <2>3, <3>1, <3>2 DEF TypeOK, flushVars, callVars
    <2> QED
      BY <1>5, <2>2, <2>3 DEF WalkPastEnd
  <1>6. CASE EndOfEntries(t)
    <2>1. pc' \in [Threads -> WriterPCs \cup FlushThreadPCs] /\ CallInv'
      BY <1>0, <1>6, GotoTyped
      DEF EndOfEntries, callVars, WriterPCs, FlushThreadPCs, BusyPCs, HoldingPCs, QuietPCs
    <2> QED
      BY <1>6, <2>1 DEF EndOfEntries, TypeOK, bufferVars, flushVars, callVars
  <1>7. CASE WipeAndRelease(t)
    <2>1. mem' \in [Buffers -> [Offsets -> Cells]]
      BY <1>7 DEF WipeAndRelease, TypeOK, Cells
    <2>2. pc' \in [Threads -> WriterPCs \cup FlushThreadPCs] /\ CallInv'
      <3>1. op' = op /\ Goto(t, IF op[t] = NoCall THEN "sleep" ELSE "write")
        BY <1>7 DEF WipeAndRelease, callVars
      <3>2. t \in Writers => op[t] # NoCall
        BY <1>0, CallsAreCalls
      <3> QED
        BY <1>0, <1>9, <3>1, <3>2, GotoTyped
        DEF WriterPCs, FlushThreadPCs, BusyPCs, HoldingPCs, QuietPCs
    <2> QED
      BY <1>7, <2>1, <2>2 DEF WipeAndRelease, TypeOK, Buffers, callVars
  <1> QED
    BY <1>1, <1>2, <1>3, <1>4, <1>5, <1>6, <1>7 DEF FlushStep

(* Returning from a call leaves the thread at one of its own program counters. *)
LEMMA ReturnTyped ==
    ASSUME TypeInv, NEW t \in Threads, Return(t)
    PROVE  /\ pc' \in [Threads -> WriterPCs \cup FlushThreadPCs]
           /\ op' \in [Threads -> Calls \cup {NoCall}]
           /\ CallInv'
  <1>1. /\ pc \in [Threads -> WriterPCs \cup FlushThreadPCs]
        /\ op \in [Threads -> Calls \cup {NoCall}]
    BY DEF TypeInv, TypeOK, Calls
  <1>2. PICK where \in {"sleep", "disable", "idle"} :
           /\ pc' = [pc EXCEPT ![t] = where]
           /\ t = FlushThread <=> where = "sleep"
    BY DEF Return, Goto
  <1>3. op' = [op EXCEPT ![t] = NoCall]
    BY DEF Return
  <1>4. /\ pc'[t] = where /\ op'[t] = NoCall
        /\ \A u \in Threads \ {t} : pc'[u] = pc[u] /\ op'[u] = op[u]
    BY <1>1, <1>2, <1>3
  <1>5. /\ t \in Writers => where \in WriterPCs /\ where \notin BusyPCs
        /\ t = FlushThread => where \in FlushThreadPCs
        /\ where \notin HoldingPCs
    BY <1>2, ConstantsAssumption DEF WriterPCs, BusyPCs, FlushThreadPCs, HoldingPCs
  <1>6. CallInv'
    BY <1>4, <1>5 DEF TypeInv, CallInv, Threads
  <1>7. pc' \in [Threads -> WriterPCs \cup FlushThreadPCs]
    BY <1>1, <1>2 DEF WriterPCs, FlushThreadPCs
  <1> QED
    BY <1>1, <1>3, <1>6, <1>7

(* A string written by LogpBufferMessage leaves a buffer an array of cells. *)
LEMMA OverwriteTyped ==
    ASSUME NEW buffer \in [Offsets -> Cells], NEW o \in Nat, NEW n \in Nat,
           NEW first \in Cells
    PROVE  Overwrite(buffer, o, n, first) \in [Offsets -> Cells]
  BY DEF Overwrite, Cells

LEMMA EntryTyped ==
    ASSUME NEW m \in Msgs, NEW ctx
    PROVE  [msg |-> m, printed |-> DoDbgPrint(ctx)] \in Entries
  <1>1. DoDbgPrint(ctx) \in BOOLEAN
    BY DEF DoDbgPrint
  <1> QED
    BY <1>1 DEF Entries

(* The first byte of a copied string is what was copied, or less. *)
LEMMA SurvivingCells ==
    ASSUME NEW now, NEW cell, NEW first \in Surviving(now, cell)
    PROVE  \/ first \in {cell, Nul, Torn}
           \/ cell \in Entries /\ first = [msg |-> cell.msg, printed |-> FALSE]
  BY DEF Surviving

LEMMA SurvivingTyped ==
    ASSUME NEW now, NEW cell \in Cells, NEW first \in Surviving(now, cell)
    PROVE  first \in Cells
  <1>1. \A e \in Entries : [msg |-> e.msg, printed |-> FALSE] \in Entries
    BY DEF Entries
  <1> QED
    BY <1>1, SurvivingCells DEF Cells

LEMMA CallStepTyped ==
    ASSUME TypeInv, NEW t \in Threads, CallStep(t)
    PROVE  TypeInv'
  <1> USE DEF TypeInv
  <1>0. op[t] \in Calls /\ op[t].msg \in Msgs
    BY DEF CallStep, WriteMessageToFile, StartCopy, FinishCopy, Terminate, CallInv, HoldingPCs,
           Calls
  <1>1. CASE WriteMessageToFile(t)
    <2>2. file' \in Seq(Msgs \cup {Torn}) /\ outcome' \in [Msgs -> Outcomes]
      <3>1. /\ file' = Append(file, op[t].msg) \/ file' = file
            /\ \E result \in Outcomes : outcome' = [outcome EXCEPT ![op[t].msg] = result]
        BY <1>1 DEF WriteMessageToFile, Outcomes
      <3> QED
        BY <1>0, <3>1, AppendTyped DEF TypeOK
    <2>3. prints' \in [Msgs -> Nat]
      BY <1>0, <1>1 DEF WriteMessageToFile, CountPrint, TypeOK
    <2>4. Return(t)
      BY <1>1 DEF WriteMessageToFile
    <2>5. UNCHANGED <<bufferVars, flushVars, closer, enabled, alive>>
      BY <1>1 DEF WriteMessageToFile
    <2> QED
      BY <2>2, <2>3, <2>4, <2>5, ReturnTyped DEF TypeOK, Calls, bufferVars, flushVars
  <1>2. CASE StartCopy(t)
    <2>1. mem' \in [Buffers -> [Offsets -> Cells]]
      BY <1>2 DEF StartCopy, TypeOK, Cells
    <2>2. pc' \in [Threads -> WriterPCs \cup FlushThreadPCs] /\ CallInv'
      BY <1>0, <1>2, GotoTyped
      DEF StartCopy, callVars, WriterPCs, FlushThreadPCs, BusyPCs, QuietPCs
    <2> QED
      BY <1>2, <2>1, <2>2 DEF StartCopy, TypeOK, flushVars, callVars
  <1>3. CASE FinishCopy(t)
    <2> DEFINE m     == op[t].msg
               cell  == IF Fits(tail, m) THEN [msg |-> m, printed |-> DoDbgPrint(op[t].ctx)]
                                         ELSE Torn
    <2>1. m \in Msgs /\ Size[m] \in Nat
      BY <1>0, ConstantsAssumption
    <2>2. pc' \in [Threads -> WriterPCs \cup FlushThreadPCs] /\ CallInv'
      BY <1>0, <1>3, GotoTyped
      DEF FinishCopy, callVars, WriterPCs, FlushThreadPCs, BusyPCs, QuietPCs
    <2>3. mem[tail.buf] \in [Offsets -> Cells] /\ tail.off \in Nat
      BY DEF TypeOK
    <2>4. UNCHANGED <<head, spin, flushVars, callVars, file, prints>>
      BY <1>3 DEF FinishCopy
    <2>5. cell \in Cells
      BY <2>1, EntryTyped DEF Cells
    <2>6. PICK first \in Surviving(mem[tail.buf][tail.off], cell) :
              mem' = IF Avail(tail) > 0
                     THEN [mem EXCEPT ![tail.buf] = Overwrite(@, tail.off, Copied(m), first)]
                     ELSE mem
      BY <1>3 DEF FinishCopy
    <2>7. mem' \in [Buffers -> [Offsets -> Cells]]
      <3>1. CASE Avail(tail) > 0
        <4>1. Copied(m) \in Nat
          BY <2>1, <2>3, <3>1, ConstantsAssumption DEF Copied, Avail, Usable, Used
        <4>2. Overwrite(mem[tail.buf], tail.off, Copied(m), first) \in [Offsets -> Cells]
          <5> HIDE DEF cell
          <5> QED
            BY <2>3, <2>5, <2>6, <4>1, OverwriteTyped, SurvivingTyped
        <4> QED
          BY <2>6, <3>1, <4>2 DEF TypeOK
      <3>2. CASE ~ (Avail(tail) > 0)
        BY <2>6, <3>2 DEF TypeOK
      <3> QED
        BY <3>1, <3>2
    <2>8. tail' \in [buf : Buffers, off : Nat]
      <3>1. tail' \in {tail, [tail EXCEPT !.off = @ + Size[m]]}
        BY <1>3 DEF FinishCopy
      <3>2. tail.off + Size[m] \in Nat
        BY <2>1, <2>3
      <3> HIDE DEF m
      <3> QED
        BY <3>1, <3>2 DEF TypeOK
    <2>9. maxUsage' \in Nat
      <3>1. maxUsage' \in {BufferSize, Used(tail) + Size[m], maxUsage}
        BY <1>3 DEF FinishCopy, UsageAfter
      <3> QED
        BY <2>1, <2>3, <3>1, ConstantsAssumption DEF TypeOK, Used
    <2>10. outcome' \in [Msgs -> Outcomes]
      BY <1>3, <2>1 DEF FinishCopy, TypeOK, Outcomes
    <2> QED
      BY <2>2, <2>4, <2>7, <2>8, <2>9, <2>10 DEF TypeOK, flushVars, callVars
  <1>4. CASE Terminate(t)
    <2>2. mem' \in [Buffers -> [Offsets -> Cells]]
      BY <1>4 DEF Terminate, TypeOK, Cells
    <2>3. prints' \in [Msgs -> Nat]
      BY <1>0, <1>4 DEF Terminate, CountPrint, TypeOK
    <2>4. Return(t)
      BY <1>4 DEF Terminate
    <2> QED
      BY <1>4, <2>2, <2>3, <2>4, ReturnTyped DEF Terminate, TypeOK, Calls, flushVars
  <1> QED
    BY <1>1, <1>2, <1>3, <1>4 DEF CallStep

(* A thread that only moves, with the call it has. *)
LEMMA MoveTyped ==
    ASSUME TypeInv, NEW t \in Threads, NEW where, Goto(t, where), op' = op,
           alive' \in BOOLEAN, enabled' \in BOOLEAN,
           UNCHANGED <<bufferVars, flushVars, closer, file, prints, outcome>>,
           t = FlushThread => where \in FlushThreadPCs,
           t \in Writers => where \in WriterPCs
                            /\ (where \in BusyPCs => op[t] \in Calls),
           where \in HoldingPCs => op[t] \in Calls,
           where \in QuietPCs => op[t] = NoCall
    PROVE  TypeInv'
  <1>1. pc' \in [Threads -> WriterPCs \cup FlushThreadPCs] /\ CallInv'
    BY GotoTyped
  <1> QED
    BY <1>1 DEF TypeInv, TypeOK, bufferVars, flushVars

LEMMA WriterStepTyped ==
    ASSUME TypeInv, NEW t \in Writers, WriterStep(t)
    PROVE  TypeInv'
  <1>0. t \in Threads /\ t # FlushThread /\ alive \in BOOLEAN /\ enabled \in BOOLEAN
        /\ closer \in Writers \cup {None}
    BY ConstantsAssumption DEF Threads, TypeInv, TypeOK
  <1>1. ASSUME NEW m \in Msgs, ReportActivation(t, m) PROVE TypeInv'
    BY <1>0, <1>1, PutTyped DEF ReportActivation, AllContexts
  <1>2. CASE ActivateSilently(t) \/ DisableLog(t) \/ Drained(t)
    <2>1. op[t] = NoCall
      BY <1>0, <1>2
      DEF ActivateSilently, DisableLog, Drained, TypeInv, CallInv, QuietPCs, WriterPCs, BusyPCs
    <2>2. /\ \E where \in {"idle", "drain", "down"} : Goto(t, where)
          /\ op' = op /\ alive' = alive /\ enabled' \in {enabled, FALSE}
          /\ UNCHANGED <<bufferVars, flushVars, closer, file, prints, outcome>>
      BY <1>2 DEF ActivateSilently, DisableLog, Drained, callVars
    <2> QED
      BY <1>0, <2>1, <2>2, MoveTyped DEF WriterPCs, BusyPCs, HoldingPCs
  <1> QED
    BY <1>1, <1>2 DEF WriterStep

LEMMA FlushThreadStepTyped ==
    ASSUME TypeInv, FlushThreadStep
    PROVE  TypeInv'
  <1>0. FlushThread \in Threads /\ FlushThread \notin Writers
        /\ alive \in BOOLEAN /\ enabled \in BOOLEAN /\ closer \in Writers \cup {None}
    BY ConstantsAssumption DEF Threads, TypeInv, TypeOK
  <1>1. ASSUME NEW m \in Msgs, LogThreadStarted(m) PROVE TypeInv'
    BY <1>0, <1>1, PutTyped DEF LogThreadStarted, AllContexts
  <1>2. CASE ThreadStarts \/ StartSilently \/ FlushThreadRound
    <2>1. op[FlushThread] = NoCall
      BY <1>0, <1>2
      DEF ThreadStarts, StartSilently, FlushThreadRound, TypeInv, CallInv, QuietPCs,
          FlushThreadPCs, BusyPCs
    <2>2. /\ \E where \in {"started", "sleep", "flush"} : Goto(FlushThread, where)
          /\ op' = op /\ alive' = alive /\ enabled' = enabled
          /\ UNCHANGED <<bufferVars, flushVars, closer, file, prints, outcome>>
      BY <1>2 DEF ThreadStarts, StartSilently, FlushThreadRound, callVars
    <2> QED
      BY <1>0, <2>1, <2>2, MoveTyped DEF FlushThreadPCs, BusyPCs, HoldingPCs, QuietPCs
  <1> QED
    BY <1>1, <1>2 DEF FlushThreadStep

LEMMA ActivationTyped ==
    ASSUME TypeInv, Activation
    PROVE  TypeInv'
  <1>0. FlushThread \in Threads /\ FlushThread \notin Writers
        /\ pc \in [Threads -> WriterPCs \cup FlushThreadPCs]
    BY ConstantsAssumption DEF Threads, TypeInv, TypeOK
  <1>1. ASSUME NEW t \in Writers, Activate(t) PROVE TypeInv'
    <2>1. t \in Threads /\ t # FlushThread
      BY <1>0 DEF Threads
    <2>2. /\ pc' = [pc EXCEPT ![t] = "await", ![FlushThread] = "start"]
          /\ alive' = TRUE
          /\ UNCHANGED <<bufferVars, flushVars, op, closer, enabled, file, prints, outcome>>
          /\ pc[t] = "idle" /\ pc[FlushThread] = "off"
      BY <1>1 DEF Activate
    <2>3. /\ pc'[t] = "await" /\ pc'[FlushThread] = "start"
          /\ \A u \in Threads \ {t, FlushThread} : pc'[u] = pc[u]
      BY <1>0, <2>1, <2>2
    <2>4. pc' \in [Threads -> WriterPCs \cup FlushThreadPCs]
      BY <1>0, <2>2 DEF WriterPCs, FlushThreadPCs
    <2>5. op[t] = NoCall /\ op[FlushThread] = NoCall
      BY <1>0, <2>1, <2>2 DEF TypeInv, CallInv, QuietPCs, WriterPCs, FlushThreadPCs, BusyPCs
    <2>6. CallInv'
      BY <1>0, <2>1, <2>2, <2>3, <2>5
      DEF TypeInv, CallInv, Threads, WriterPCs, FlushThreadPCs, BusyPCs, HoldingPCs
    <2> QED
      BY <2>2, <2>4, <2>6 DEF TypeInv, TypeOK, bufferVars, flushVars
  <1>2. CASE FailToActivate
    <2>1. /\ pc' = [t \in Threads |-> IF t = FlushThread THEN "never"
                                      ELSE IF pc[t] = "await" THEN "idle" ELSE pc[t]]
          /\ alive' = FALSE
          /\ UNCHANGED <<bufferVars, flushVars, op, closer, enabled, file, prints, outcome>>
          /\ pc[FlushThread] \in {"off", "start"}
      BY <1>2 DEF FailToActivate
    <2>2. pc'[FlushThread] = "never"
          /\ \A u \in Writers : pc'[u] = pc[u] \/ (pc[u] = "await" /\ pc'[u] = "idle")
      BY <1>0, <2>1 DEF Threads
    <2>3. pc' \in [Threads -> WriterPCs \cup FlushThreadPCs]
      BY <1>0, <2>1 DEF WriterPCs, FlushThreadPCs
    <2>4. /\ op[FlushThread] = NoCall
          /\ \A u \in Writers : pc[u] = "await" => op[u] = NoCall
      BY <1>0, <2>1 DEF TypeInv, CallInv, Threads, QuietPCs, WriterPCs, FlushThreadPCs, BusyPCs
    <2>5. CallInv'
      <3>1. pc'[FlushThread] \in FlushThreadPCs
        BY <2>2 DEF FlushThreadPCs
      <3>2. ASSUME NEW u \in Writers
            PROVE  /\ pc'[u] \in WriterPCs
                   /\ pc'[u] \in BusyPCs => op[u] \in Calls
                   /\ pc'[u] \in HoldingPCs => op[u] \in Calls
                   /\ pc'[u] \in QuietPCs => op[u] = NoCall
        BY <2>2, <2>4 DEF TypeInv, CallInv, Threads, WriterPCs, BusyPCs, HoldingPCs
      <3>3. pc'[FlushThread] \notin HoldingPCs
        BY <2>2 DEF HoldingPCs
      <3> QED
        BY <2>1, <2>4, <3>1, <3>2, <3>3 DEF CallInv, Threads
    <2> QED
      BY <2>1, <2>3, <2>5 DEF TypeInv, TypeOK, bufferVars, flushVars
  <1> QED
    BY <1>1, <1>2 DEF Activation

LEMMA NextTyped == TypeInv /\ [Next]_vars => TypeInv'
  <1> SUFFICES ASSUME TypeInv, [Next]_vars PROVE TypeInv'
    OBVIOUS
  <1>1. CASE Activation
    BY <1>1, ActivationTyped
  <1>2. CASE FlushThreadStep
    BY <1>2, FlushThreadStepTyped
  <1>3. ASSUME NEW t \in Threads, FlushStep(t) \/ CallStep(t) PROVE TypeInv'
    BY <1>3, FlushStepTyped, CallStepTyped
  <1>4. ASSUME NEW t \in Writers, WriterStep(t) PROVE TypeInv'
    BY <1>4, WriterStepTyped
  <1>5. ASSUME NEW t \in Writers, NEW m \in Msgs, NEW ctx \in Contexts,
               LogpPrint(t, m, ctx)
        PROVE  TypeInv'
    <2>1. ctx \in AllContexts /\ closer' \in Writers \cup {None} /\ t \in Threads
      BY <1>5, ContextsTyped DEF LogpPrint, TypeInv, TypeOK, Threads
    <2>2. CASE LogpPut(t, m, ctx)
      BY <2>1, <2>2, PutTyped
    <2>3. CASE LogpPutDropped(t, m, ctx)
      BY <2>3 DEF TypeInv, LogpPutDropped, CountPrint, TypeOK, CallInv, Outcomes,
                  bufferVars, flushVars, callVars
    <2> QED
      BY <1>5, <2>2, <2>3 DEF LogpPrint
  <1>6. ASSUME NEW t \in Writers, NEW m \in Msgs, LogIrpShutdownHandler(t, m)
        PROVE  TypeInv'
    BY <1>6, PutTyped DEF LogIrpShutdownHandler, AllContexts, Threads
  <1>7. CASE UNCHANGED vars
    BY <1>7 DEF TypeInv, TypeOK, CallInv, vars
  <1> QED
    BY <1>1, <1>2, <1>3, <1>4, <1>5, <1>6, <1>7 DEF Next

(* Every state variable keeps its type, and every thread inside LogpPut has a
   message: no call site of LogpPut reaches a write without one. *)
THEOREM TypeCorrect == Spec => []TypeOK
  <1>1. Spec => []TypeInv
    BY InitTyped, NextTyped, PTL DEF Spec
  <1> QED
    BY <1>1, PTL DEF TypeInv

-----------------------------------------------------------------------------
(* The parts of BufferBounds, as predicates of the buffers alone. *)
Fitting(buffer) ==
    \A o \in Offsets : buffer[o] \in Entries => o + Size[buffer[o].msg] <= Usable

AllFit == \A b \in Buffers : Fitting(mem[b])

TailInside == tail.buf = head /\ tail.off <= Usable

LEMMA BoundsSplit == BufferBounds <=> TailInside /\ AllFit
  BY DEF BufferBounds, TailInside, AllFit, Fitting

(* Every whole message of a buffer was there before. *)
Within(new, buffer) ==
    \A o \in Offsets :
        new[o] \in Entries => buffer[o] \in Entries /\ new[o].msg = buffer[o].msg

AllWithin == \A b \in Buffers : Within(mem'[b], mem[b])

LEMMA WithinFits ==
    ASSUME AllFit, AllWithin
    PROVE  AllFit'
  BY DEF AllFit, AllWithin, Within, Fitting

(* An end of string, or text that is no message, anywhere in a buffer. *)
LEMMA StoreWithin ==
    ASSUME TypeOK, NEW b \in Buffers, NEW o, NEW c \in {Nul, Torn, Begun},
           mem' = [mem EXCEPT ![b][o] = c]
    PROVE  AllWithin
  BY ConstantsAssumption DEF TypeOK, AllWithin, Within

LEMMA CutWithin ==
    ASSUME NEW buffer \in [Offsets -> Cells], NEW p
    PROVE  Within(CutAt(buffer, p), buffer)
  BY ConstantsAssumption DEF CutAt, Within

LEMMA EditedWithin ==
    ASSUME NEW buffer \in [Offsets -> Cells], NEW edited \in Edited(buffer)
    PROVE  Within(edited, buffer)
  <1> DEFINE cleared == IF buffer[cursor] = Begun
                        THEN [buffer EXCEPT ![cursor] = Torn] ELSE buffer
  <1>1. cleared \in [Offsets -> Cells] /\ Within(cleared, buffer)
    BY ConstantsAssumption DEF Cells, Within
  <1>2. edited = cleared \/ \E end \in Ends : edited = CutAt(cleared, end - 1)
    BY DEF Edited
  <1> HIDE DEF cleared
  <1>3. edited = cleared \/ Within(edited, cleared)
    BY <1>1, <1>2, CutWithin
  <1> QED
    BY <1>1, <1>3 DEF Within

(* The whole messages a step of a flush leaves were there before. *)
LEMMA FlushStepWithin ==
    ASSUME TypeOK, NEW t \in Threads, FlushStep(t)
    PROVE  AllWithin
  <1>0. old \in Buffers /\ mem \in [Buffers -> [Offsets -> Cells]]
        /\ mem[old] \in [Offsets -> Cells]
    BY DEF TypeOK
  <1>1. CASE mem' = mem
    BY <1>1 DEF AllWithin, Within
  <1>2. CASE SwitchBuffer(t)
    <2>1. CASE EmptyHead
      BY <1>1, <1>2, <2>1 DEF SwitchBuffer
    <2>2. CASE ~ EmptyHead
      <3>1. mem' = [mem EXCEPT ![head'][0] = Nul] /\ head' \in Buffers
        BY <1>2, <2>2 DEF SwitchBuffer, Other, Buffers
      <3> QED
        BY <3>1, StoreWithin
    <2> QED
      BY <2>1, <2>2
  <1>3. ASSUME NEW new, mem' = [mem EXCEPT ![old] = new], Within(new, mem[old])
        PROVE  AllWithin
    BY <1>0, <1>3 DEF AllWithin, Within
  <1>4. CASE WriteEntry(t)
    <2>1. PICK new : mem' = [mem EXCEPT ![old] = new]
                     /\ (\/ new = [mem[old] EXCEPT ![cursor] = [msg |-> Current.msg,
                                                                printed |-> FALSE]]
                         \/ new = CutAt(mem[old], cursor + Size[Current.msg] - 2))
      BY <1>0, <1>4 DEF WriteEntry
    <2>2. Current = mem[old][cursor] /\ Current \in Entries
      BY <1>4 DEF WriteEntry, Current
    <2>3. Within([mem[old] EXCEPT ![cursor] = [msg |-> Current.msg, printed |-> FALSE]],
                 mem[old])
      BY <1>0, <2>2 DEF Within
    <2> QED
      BY <1>0, <1>3, <2>1, <2>3, CutWithin
  <1>5. CASE WriteTornEntry(t)
    <2>1. PICK edited \in Edited(mem[old]) : mem' = [mem EXCEPT ![old] = edited]
      BY <1>5 DEF WriteTornEntry
    <2> QED
      BY <1>0, <1>3, <2>1, EditedWithin
  <1>6. CASE WalkPastEnd(t)
    <2>1. mem' = mem \/ mem' = [mem EXCEPT ![old] = CutAt(mem[old], BufferSize)]
      BY <1>6 DEF WalkPastEnd
    <2> QED
      BY <1>0, <1>1, <1>3, <2>1, CutWithin
  <1>7. CASE WipeAndRelease(t)
    BY <1>0, <1>7, StoreWithin DEF WipeAndRelease
  <1>8. CASE AcquireResource(t) \/ EndOfEntries(t)
    BY <1>1, <1>8 DEF AcquireResource, EndOfEntries, bufferVars
  <1> QED
    BY <1>2, <1>4, <1>5, <1>6, <1>7, <1>8 DEF FlushStep

(* What a buffer holds after LogpBufferMessage has copied a string to it. *)
LEMMA OverwriteEntries ==
    ASSUME NEW buffer, NEW o \in Nat, NEW n \in Nat, NEW first,
           NEW p \in Offsets, Overwrite(buffer, o, n, first)[p] \in Entries
    PROVE  \/ p = o /\ Overwrite(buffer, o, n, first)[p] = first
           \/ /\ Overwrite(buffer, o, n, first)[p] = buffer[p]
              /\ p < o \/ p >= o + n
  BY ConstantsAssumption DEF Overwrite, Offsets

(* LogpBufferMessage leaves the messages that were there, and its own if it fits. *)
LEMMA FinishCopyEntries ==
    ASSUME TypeInv, NEW t \in Threads, FinishCopy(t), NEW b \in Buffers, NEW o \in Offsets,
           mem'[b][o] \in Entries
    PROVE  \/ mem[b][o] \in Entries /\ mem'[b][o].msg = mem[b][o].msg
           \/ /\ Fits(tail, op[t].msg) /\ b = tail.buf /\ o = tail.off
              /\ mem'[b][o].msg = op[t].msg
  <1> DEFINE m    == op[t].msg
             cell == IF Fits(tail, m) THEN [msg |-> m, printed |-> DoDbgPrint(op[t].ctx)]
                                      ELSE Torn
  <1>1. m \in Msgs /\ Size[m] \in Nat
    BY ConstantsAssumption DEF FinishCopy, TypeInv, CallInv, HoldingPCs, Calls
  <1>2. PICK first \in Surviving(mem[tail.buf][tail.off], cell) :
            mem' = IF Avail(tail) > 0
                   THEN [mem EXCEPT ![tail.buf] = Overwrite(@, tail.off, Copied(m), first)]
                   ELSE mem
    BY DEF FinishCopy
  <1>3. mem \in [Buffers -> [Offsets -> Cells]] /\ tail.buf \in Buffers /\ tail.off \in Nat
    BY DEF TypeInv, TypeOK
  <1>4. CASE Avail(tail) > 0 /\ b = tail.buf
    <2>1. mem'[b] = Overwrite(mem[b], tail.off, Copied(m), first)
      BY <1>2, <1>3, <1>4
    <2>2. Copied(m) \in Nat
      BY <1>1, <1>3, <1>4, ConstantsAssumption DEF Copied, Avail, Usable, Used
    <2>3. (o = tail.off /\ mem'[b][o] = first) \/ mem'[b][o] = mem[b][o]
      BY <1>3, <2>1, <2>2, OverwriteEntries
    <2>4. first \in Entries => cell \in Entries /\ first.msg = cell.msg
      <3>1. Nul \notin Entries /\ Torn \notin Entries
        BY ConstantsAssumption
      <3> HIDE DEF cell
      <3> QED
        BY <1>2, <3>1, SurvivingCells
    <2>5. cell \in Entries => Fits(tail, m) /\ cell.msg = m
      BY ConstantsAssumption
    <2> HIDE DEF cell
    <2> QED
      BY <1>4, <2>3, <2>4, <2>5
  <1>5. CASE ~ (Avail(tail) > 0 /\ b = tail.buf)
    BY <1>2, <1>3, <1>5
  <1> QED
    BY <1>4, <1>5

LEMMA InitBounds == Init => BufferBounds
  <1> SUFFICES ASSUME Init PROVE BufferBounds
    OBVIOUS
  <1>1. tail.buf = head /\ tail.off <= Usable
    BY ConstantsAssumption DEF Init, Usable
  <1>2. ASSUME NEW b \in Buffers PROVE mem[b] = FreshBuffer
    BY DEF Init
  <1>3. \A o \in Offsets : FreshBuffer[o] \notin Entries
    BY ConstantsAssumption DEF FreshBuffer
  <1> QED
    BY <1>1, <1>2, <1>3 DEF BufferBounds

(* A flush brings no message into a buffer, and moves the tail to the start of one. *)
LEMMA FlushStepBounds ==
    ASSUME TypeOK, BufferBounds, NEW t \in Threads, FlushStep(t)
    PROVE  BufferBounds'
  <1>1. AllFit'
    BY BoundsSplit, FlushStepWithin, WithinFits
  <1>2. TailInside'
    <2>1. CASE SwitchBuffer(t) /\ ~ EmptyHead
      BY <2>1, ConstantsAssumption DEF SwitchBuffer, TailInside, Usable
    <2>2. CASE ~ (SwitchBuffer(t) /\ ~ EmptyHead)
      <3>1. UNCHANGED <<head, tail>>
        BY <2>2 DEF FlushStep, AcquireResource, SwitchBuffer, WriteEntry, WriteTornEntry,
                    WalkPastEnd, EndOfEntries, WipeAndRelease, bufferVars
      <3> QED
        BY <3>1, BoundsSplit DEF TailInside
    <2> QED
      BY <2>1, <2>2
  <1> QED
    BY <1>1, <1>2 DEF BufferBounds, TailInside, AllFit, Fitting

LEMMA CallStepBounds ==
    ASSUME TypeInv, BufferBounds, NEW t \in Threads, CallStep(t)
    PROVE  BufferBounds'
  <1>0. /\ TypeOK /\ TailInside /\ AllFit
        /\ tail.buf \in Buffers /\ tail.off \in Nat
    BY BoundsSplit DEF TypeInv, TypeOK
  <1>1. CASE WriteMessageToFile(t)
    BY <1>1 DEF WriteMessageToFile, bufferVars, BufferBounds
  <1>2. CASE StartCopy(t) \/ Terminate(t)
    <2>1. UNCHANGED <<head, tail>>
      BY <1>2 DEF StartCopy, Terminate
    <2>2. AllWithin
      <3>1. mem' = mem \/ \E c \in {Begun, Nul} :
                               mem' = [mem EXCEPT ![tail.buf][tail.off] = c]
        BY <1>2 DEF StartCopy, Terminate
      <3>2. mem' = mem => AllWithin
        BY DEF AllWithin, Within
      <3> QED
        BY <1>0, <3>1, <3>2, StoreWithin
    <2>3. AllFit'
      BY <1>0, <2>2, WithinFits
    <2> QED
      BY <1>0, <2>1, <2>3 DEF BufferBounds, TailInside, AllFit, Fitting
  <1>3. CASE FinishCopy(t)
    <2>1. op[t].msg \in Msgs /\ Size[op[t].msg] \in Nat
      BY <1>3, ConstantsAssumption DEF FinishCopy, TypeInv, CallInv, HoldingPCs, Calls
    <2>2. /\ head' = head
          /\ tail' = IF Fits(tail, op[t].msg) THEN [tail EXCEPT !.off = @ + Size[op[t].msg]]
                                              ELSE tail
      BY <1>3 DEF FinishCopy
    <2>3. Fits(tail, op[t].msg) => tail.off + Size[op[t].msg] <= Usable
      BY <1>0, <2>1, ConstantsAssumption DEF Fits, Avail, Used, Usable
    <2>4. AllFit'
      <3>1. ASSUME NEW b \in Buffers, NEW o \in Offsets, mem'[b][o] \in Entries
            PROVE  o + Size[mem'[b][o].msg] <= Usable
        <4>1. CASE mem[b][o] \in Entries /\ mem'[b][o].msg = mem[b][o].msg
          BY <1>0, <4>1 DEF AllFit, Fitting
        <4>2. CASE /\ Fits(tail, op[t].msg) /\ b = tail.buf /\ o = tail.off
                   /\ mem'[b][o].msg = op[t].msg
          BY <2>3, <4>2
        <4> QED
          BY <1>3, <3>1, <4>1, <4>2, FinishCopyEntries
      <3> QED
        BY <3>1 DEF AllFit, Fitting
    <2>5. TailInside'
      BY <1>0, <2>2, <2>3 DEF TailInside, TypeOK
    <2> QED
      BY <2>4, <2>5 DEF BufferBounds, TailInside, AllFit, Fitting
  <1> QED
    BY <1>1, <1>2, <1>3 DEF CallStep

LEMMA NextBounds == TypeInv /\ BufferBounds /\ [Next]_vars => BufferBounds'
  <1> SUFFICES ASSUME TypeInv, BufferBounds, [Next]_vars PROVE BufferBounds'
    OBVIOUS
  <1>1. ASSUME UNCHANGED <<mem, head, tail>> PROVE BufferBounds'
    BY <1>1 DEF BufferBounds
  <1>2. ASSUME NEW t \in Threads, FlushStep(t) \/ CallStep(t) PROVE BufferBounds'
    BY <1>2, FlushStepBounds, CallStepBounds DEF TypeInv
  <1>3. ASSUME NEW t, NEW m, NEW ctx, LogpPut(t, m, ctx) \/ LogpPutDropped(t, m, ctx)
        PROVE  UNCHANGED <<mem, head, tail>>
    BY <1>3 DEF LogpPut, LogpPutDropped, bufferVars
  <1>4. CASE Activation \/ FlushThreadStep
    BY <1>1, <1>3, <1>4
    DEF Activation, Activate, FailToActivate, FlushThreadStep, ThreadStarts, LogThreadStarted,
        StartSilently, FlushThreadRound, bufferVars
  <1>5. ASSUME NEW t \in Writers, WriterStep(t) PROVE BufferBounds'
    BY <1>1, <1>3, <1>5
    DEF WriterStep, ReportActivation, ActivateSilently, DisableLog, Drained, bufferVars
  <1>6. CASE UNCHANGED vars
    BY <1>6 DEF vars, BufferBounds
  <1> QED
    BY <1>1, <1>2, <1>3, <1>4, <1>5, <1>6 DEF Next, LogpPrint, LogIrpShutdownHandler

(* The arithmetic of LogpBufferMessage is right for every buffer size, set of
   messages, number of threads and calling context, and whatever flushes do to the
   buffers meanwhile: its writes stay in front of the last byte of the buffer, and
   so does every whole message (the run overlaps, on a small instance).  It says
   nothing of what a walk over torn text reads and edits: see WalkPastEnd. *)
THEOREM BoundsHold == Spec => []BufferBounds
  <1>1. Spec => [](TypeInv /\ BufferBounds)
    BY InitTyped, InitBounds, NextTyped, NextBounds, PTL DEF Spec
  <1> QED
    BY <1>1, PTL

-----------------------------------------------------------------------------
(* The program counters at which the fate of a message is open. *)
OpenPCs == BusyPCs \ {"term"}

IsOpen(t) == pc[t] \in OpenPCs /\ op[t] # NoCall

(* A message belongs to one thread until it is written, buffered or refused, and
   only a message that was buffered is in a buffer. *)
OwnerInv ==
    /\ \A t \in Threads : IsOpen(t) => outcome[op[t].msg] = "put"
    /\ \A t, u \in Threads : IsOpen(t) /\ IsOpen(u) /\ t # u => op[t].msg # op[u].msg

StoredInv ==
    \A b \in Buffers, o \in Offsets :
        mem[b][o] \in Entries => outcome[mem[b][o].msg] \in {"buffered", "failed"}

(* A refusal shows in log_max_usage for ever. *)
UsageInv == UsageIsRecorded /\ maxUsage <= BufferSize

FateInv == OwnerInv /\ StoredInv /\ UsageInv

(* An open call is a call, of a message. *)
LEMMA OpenCalls ==
    ASSUME TypeInv, NEW t \in Threads, IsOpen(t)
    PROVE  op[t] \in Calls /\ op[t].msg \in Msgs
  BY DEF TypeInv, TypeOK, IsOpen, Calls

LEMMA InitFate == Init => FateInv
  <1> SUFFICES ASSUME Init PROVE FateInv
    OBVIOUS
  <1>1. OwnerInv
    BY ConstantsAssumption DEF Init, OwnerInv, IsOpen, OpenPCs, BusyPCs, Threads
  <1>2. StoredInv
    BY ConstantsAssumption DEF Init, StoredInv, FreshBuffer
  <1>3. UsageInv
    BY ConstantsAssumption DEF Init, UsageInv, UsageIsRecorded
  <1> QED
    BY <1>1, <1>2, <1>3 DEF FateInv

(* A step that brings no message into a buffer and takes none back. *)
LEMMA WithinStored ==
    ASSUME TypeOK, StoredInv, AllWithin,
           \A m \in Msgs : outcome[m] \in {"buffered", "failed"} =>
                             outcome'[m] \in {"buffered", "failed"}
    PROVE  StoredInv'
  <1> SUFFICES ASSUME NEW b \in Buffers, NEW o \in Offsets, mem'[b][o] \in Entries
               PROVE  outcome'[mem'[b][o].msg] \in {"buffered", "failed"}
    BY DEF StoredInv
  <1>1. mem[b][o] \in Entries /\ mem'[b][o].msg = mem[b][o].msg /\ mem[b][o].msg \in Msgs
    BY DEF AllWithin, Within, Entries
  <1>2. outcome[mem[b][o].msg] \in {"buffered", "failed"}
    BY <1>1 DEF StoredInv
  <1> QED
    BY <1>1, <1>2

(* The steps of a flush take no message from its thread. *)
LEMMA FlushStepFate ==
    ASSUME TypeInv, FateInv, NEW t \in Threads, FlushStep(t)
    PROVE  FateInv'
  <1> USE DEF FateInv
  <1>0. TypeOK
    BY DEF TypeInv
  <1>1. outcome' = outcome \/ (/\ Current \in Entries /\ cursor \in Offsets
                               /\ outcome' = [outcome EXCEPT ![Current.msg] = "failed"])
    BY DEF FlushStep, AcquireResource, SwitchBuffer, WriteEntry, WriteTornEntry, WalkPastEnd,
           EndOfEntries, WipeAndRelease, Inside
  <1>2. \A m \in Msgs : outcome'[m] = outcome[m]
                        \/ (outcome[m] \in {"buffered", "failed"} /\ outcome'[m] = "failed")
    <2>1. CASE outcome' = outcome
      BY <2>1
    <2>2. CASE /\ Current \in Entries /\ cursor \in Offsets
               /\ outcome' = [outcome EXCEPT ![Current.msg] = "failed"]
      <3>1. outcome[Current.msg] \in {"buffered", "failed"} /\ Current.msg \in Msgs
        BY <1>0, <2>2 DEF StoredInv, Current, TypeOK, Entries
      <3> QED
        BY <1>0, <2>2, <3>1 DEF TypeOK
    <2> QED
      BY <1>1, <2>1, <2>2
  <1>3. OwnerInv'
    <2>1. op' = op
      BY DEF FlushStep, AcquireResource, SwitchBuffer, WriteEntry, WriteTornEntry, WalkPastEnd,
             EndOfEntries, WipeAndRelease, callVars
    <2>2. \A u \in Threads : pc'[u] \in OpenPCs => pc[u] \in OpenPCs
      <3>1. pc[t] \in OpenPCs
        BY DEF FlushStep, AcquireResource, SwitchBuffer, WriteEntry, WriteTornEntry,
               WalkPastEnd, EndOfEntries, WipeAndRelease, OpenPCs, BusyPCs
      <3>2. pc' = pc \/ (\E where : pc' = [pc EXCEPT ![t] = where])
            \/ pc' = [u \in Threads |-> "fault"]
        BY DEF FlushStep, AcquireResource, SwitchBuffer, WriteEntry, WriteTornEntry,
               WalkPastEnd, EndOfEntries, WipeAndRelease, Goto
      <3> QED
        BY <1>0, <3>1, <3>2 DEF TypeOK, OpenPCs, BusyPCs
    <2>3. \A u \in Threads : IsOpen(u)' => IsOpen(u)
      BY <2>1, <2>2 DEF IsOpen
    <2>4. \A u \in Threads : IsOpen(u) => op[u].msg \in Msgs
      BY OpenCalls
    <2> QED
      BY <1>2, <2>1, <2>3, <2>4 DEF OwnerInv
  <1>4. StoredInv'
    BY <1>0, <1>2, FlushStepWithin, WithinStored
  <1>5. UsageInv'
    <2>1. \A m \in Msgs : (outcome'[m] = "overflow") <=> (outcome[m] = "overflow")
      BY <1>2
    <2>2. maxUsage' = maxUsage /\ (tail'.off = tail.off \/ tail'.off = 0) /\ maxUsage \in Nat
      BY <1>0 DEF FlushStep, AcquireResource, SwitchBuffer, WriteEntry, WriteTornEntry,
             WalkPastEnd, EndOfEntries, WipeAndRelease, bufferVars, TypeOK
    <2> QED
      BY <2>1, <2>2 DEF UsageInv, UsageIsRecorded
  <1> QED
    BY <1>3, <1>4, <1>5

(* A thread that settles the fate of its message leaves the others theirs. *)
LEMMA SettleFate ==
    ASSUME TypeInv, FateInv, NEW t \in Threads, IsOpen(t),
           NEW fate \in Outcomes \ {"put"},
           outcome' = [outcome EXCEPT ![op[t].msg] = fate],
           \A u \in Threads \ {t} : op'[u] = op[u] /\ pc'[u] = pc[u],
           ~ IsOpen(t)'
    PROVE  /\ OwnerInv'
           /\ \A m \in Msgs \ {op[t].msg} : outcome'[m] = outcome[m]
           /\ outcome[op[t].msg] = "put" /\ outcome'[op[t].msg] = fate
  <1>1. op[t].msg \in Msgs /\ outcome[op[t].msg] = "put"
    BY OpenCalls DEF FateInv, OwnerInv
  <1>2. \A m \in Msgs \ {op[t].msg} : outcome'[m] = outcome[m]
    BY DEF TypeInv, TypeOK
  <1>3. \A u \in Threads : IsOpen(u)' => u # t /\ IsOpen(u) /\ op'[u] = op[u]
    BY DEF IsOpen
  <1>4. \A u \in Threads : IsOpen(u) => op[u].msg \in Msgs
    BY OpenCalls
  <1>5. OwnerInv'
    BY <1>2, <1>3, <1>4 DEF FateInv, OwnerInv
  <1> QED
    BY <1>1, <1>2, <1>5 DEF TypeInv, TypeOK

(* A step that opens no call keeps the fates. *)
LEMMA MoveFate ==
    ASSUME TypeInv, FateInv, UNCHANGED <<outcome, maxUsage, tail>>,
           \A u \in Threads : IsOpen(u)' => IsOpen(u) /\ op'[u] = op[u]
    PROVE  OwnerInv' /\ UsageInv'
  BY DEF FateInv, OwnerInv, UsageInv, UsageIsRecorded

LEMMA CallStepFate ==
    ASSUME TypeInv, FateInv, BufferBounds, NEW t \in Threads, CallStep(t)
    PROVE  FateInv'
  <1>0. TypeOK
    BY DEF TypeInv
  <1>1. op[t] \in Calls /\ op[t] # NoCall /\ op[t].msg \in Msgs
    BY CallsAreCalls
    DEF CallStep, WriteMessageToFile, StartCopy, FinishCopy, Terminate, TypeInv, CallInv,
        HoldingPCs, Calls
  <1>2. CASE WriteMessageToFile(t)
    <2> DEFINE m == op[t].msg
    <2>1. IsOpen(t) /\ ~ IsOpen(t)'
      BY <1>0, <1>1, <1>2
      DEF WriteMessageToFile, Return, Goto, IsOpen, OpenPCs, BusyPCs, TypeOK
    <2>2. \A u \in Threads \ {t} : op'[u] = op[u] /\ pc'[u] = pc[u]
      BY <1>0, <1>2 DEF WriteMessageToFile, Return, Goto, TypeOK
    <2>3. PICK fate \in {"written", "failed"} : outcome' = [outcome EXCEPT ![m] = fate]
      BY <1>2 DEF WriteMessageToFile
    <2>4. /\ OwnerInv'
          /\ \A n \in Msgs \ {m} : outcome'[n] = outcome[n]
          /\ outcome[m] = "put" /\ outcome'[m] = fate
      BY <2>1, <2>2, <2>3, SettleFate DEF Outcomes
    <2>5. UNCHANGED <<mem, tail, maxUsage>>
      BY <1>2 DEF WriteMessageToFile, bufferVars
    <2> HIDE DEF m
    <2>6. StoredInv'
      BY <2>4, <2>5 DEF FateInv, StoredInv, Entries
    <2>7. UsageInv'
      <3>1. \A n \in Msgs : (outcome'[n] = "overflow") <=> (outcome[n] = "overflow")
        BY <2>4
      <3> QED
        BY <2>5, <3>1 DEF FateInv, UsageInv, UsageIsRecorded
    <2> QED
      BY <2>4, <2>6, <2>7 DEF FateInv
  <1>3. CASE StartCopy(t)
    <2>1. \A u \in Threads : IsOpen(u)' => IsOpen(u) /\ op'[u] = op[u]
      BY <1>0, <1>3 DEF StartCopy, Goto, IsOpen, OpenPCs, BusyPCs, TypeOK, callVars
    <2>2. UNCHANGED <<outcome, maxUsage, tail>>
      BY <1>3 DEF StartCopy
    <2>3. AllWithin
      <3>1. mem' = mem \/ mem' = [mem EXCEPT ![tail.buf][tail.off] = Begun]
        BY <1>3 DEF StartCopy
      <3>2. mem' = mem => AllWithin
        BY DEF AllWithin, Within
      <3> QED
        BY <1>0, <3>1, <3>2, StoreWithin DEF TypeOK
    <2> QED
      BY <1>0, <2>1, <2>2, <2>3, MoveFate, WithinStored DEF FateInv
  <1>4. CASE FinishCopy(t)
    <2> DEFINE m    == op[t].msg
               fate == IF Fits(tail, m) THEN "buffered" ELSE "overflow"
    <2>1. m \in Msgs /\ Size[m] \in Nat
      BY <1>1, ConstantsAssumption
    <2>2. IsOpen(t) /\ ~ IsOpen(t)'
      BY <1>0, <1>1, <1>4 DEF FinishCopy, Goto, IsOpen, OpenPCs, BusyPCs, TypeOK
    <2>3. \A u \in Threads \ {t} : op'[u] = op[u] /\ pc'[u] = pc[u]
      BY <1>0, <1>4 DEF FinishCopy, Goto, TypeOK, callVars
    <2>4. /\ tail.off \in Nat /\ tail.off <= Usable /\ maxUsage \in Nat
          /\ BufferSize \in Nat /\ Usable = BufferSize - 1
      BY <1>0, ConstantsAssumption DEF TypeOK, BufferBounds, Usable
    <2>5. outcome' = [outcome EXCEPT ![m] = fate]
      BY <1>4 DEF FinishCopy
    <2>6. /\ OwnerInv'
          /\ \A n \in Msgs \ {m} : outcome'[n] = outcome[n]
          /\ outcome[m] = "put" /\ outcome'[m] = fate
      <3>1. fate \in Outcomes \ {"put"}
        BY DEF Outcomes
      <3> HIDE DEF fate
      <3> QED
        BY <2>2, <2>3, <2>5, <3>1, SettleFate
    <2>7. StoredInv'
      <3> SUFFICES ASSUME NEW b \in Buffers, NEW o \in Offsets, mem'[b][o] \in Entries
                   PROVE  outcome'[mem'[b][o].msg] \in {"buffered", "failed"}
        BY DEF StoredInv
      <3>1. CASE mem[b][o] \in Entries /\ mem'[b][o].msg = mem[b][o].msg
        <4>1. mem[b][o].msg \in Msgs /\ outcome[mem[b][o].msg] \in {"buffered", "failed"}
          BY <3>1 DEF FateInv, StoredInv, Entries
        <4> HIDE DEF m
        <4> QED
          BY <2>6, <3>1, <4>1
      <3>2. CASE Fits(tail, m) /\ mem'[b][o].msg = m
        BY <2>6, <3>2
      <3> QED
        BY <1>4, <3>1, <3>2, FinishCopyEntries
    <2>8. UsageInv'
      <3>1. CASE Fits(tail, m)
        <4>1. /\ tail'.off = tail.off + Size[m] /\ tail.off + Size[m] <= Usable
              /\ maxUsage' = IF tail.off + Size[m] > maxUsage THEN tail.off + Size[m]
                                                              ELSE maxUsage
          <5>1. tail' = [tail EXCEPT !.off = @ + Size[m]] /\ maxUsage' = UsageAfter(m)
            BY <1>4, <3>1 DEF FinishCopy
          <5> HIDE DEF m
          <5>2. tail'.off = tail.off + Size[m]
            BY <1>0, <5>1 DEF TypeOK
          <5> QED
            BY <2>1, <2>4, <3>1, <5>1, <5>2 DEF Fits, Avail, Used, UsageAfter
        <4>2. \A n \in Msgs : (outcome'[n] = "overflow") <=> (outcome[n] = "overflow")
          BY <2>6, <3>1
        <4> HIDE DEF m
        <4> QED
          BY <2>1, <2>4, <4>1, <4>2 DEF FateInv, UsageInv, UsageIsRecorded
      <3>2. CASE ~ Fits(tail, m)
        <4>1. maxUsage' = BufferSize /\ outcome'[m] = "overflow"
          BY <1>4, <2>6, <3>2 DEF FinishCopy, UsageAfter
        <4> HIDE DEF m
        <4> QED
          BY <2>1, <2>4, <4>1 DEF UsageInv, UsageIsRecorded
      <3> QED
        BY <3>1, <3>2
    <2> QED
      BY <2>6, <2>7, <2>8 DEF FateInv
  <1>5. CASE Terminate(t)
    <2>1. \A u \in Threads : IsOpen(u)' => IsOpen(u) /\ op'[u] = op[u]
      BY <1>0, <1>5 DEF Terminate, Return, Goto, IsOpen, OpenPCs, BusyPCs, TypeOK
    <2>2. UNCHANGED <<outcome, maxUsage, tail>>
      BY <1>5 DEF Terminate
    <2>3. AllWithin
      BY <1>0, <1>5, StoreWithin DEF Terminate, TypeOK
    <2> QED
      BY <1>0, <2>1, <2>2, <2>3, MoveFate, WithinStored DEF FateInv
  <1> QED
    BY <1>2, <1>3, <1>4, <1>5 DEF CallStep

(* A call takes a message nobody has logged before. *)
LEMMA PutFate ==
    ASSUME TypeInv, FateInv, NEW t \in Threads, NEW m \in Msgs, NEW ctx, LogpPut(t, m, ctx)
    PROVE  FateInv'
  <1>1. /\ op' = [op EXCEPT ![t] = [msg |-> m, ctx |-> ctx]]
        /\ outcome' = [outcome EXCEPT ![m] = "put"] /\ outcome[m] = "new"
        /\ UNCHANGED <<mem, tail, maxUsage>>
    BY DEF LogpPut, TakeMessage, bufferVars
  <1>2. op'[t].msg = m /\ outcome'[m] = "put"
    BY <1>1 DEF TypeInv, TypeOK
  <1>3. \A u \in Threads \ {t} : op'[u] = op[u] /\ (IsOpen(u)' <=> IsOpen(u))
    BY <1>1 DEF TypeInv, TypeOK, LogpPut, Goto, IsOpen
  <1>4. \A n \in Msgs \ {m} : outcome'[n] = outcome[n]
    BY <1>1 DEF TypeInv, TypeOK
  <1>5. \A u \in Threads : IsOpen(u) => op[u].msg \in Msgs /\ op[u].msg # m
    BY <1>1, OpenCalls DEF FateInv, OwnerInv
  <1>6. OwnerInv'
    BY <1>2, <1>3, <1>4, <1>5 DEF FateInv, OwnerInv
  <1>7. StoredInv'
    BY <1>1, <1>4 DEF FateInv, StoredInv, Entries
  <1>8. UsageInv'
    <2>1. \A n \in Msgs : (outcome'[n] = "overflow") <=> (outcome[n] = "overflow")
      BY <1>1, <1>2, <1>4
    <2> QED
      BY <1>1, <2>1 DEF FateInv, UsageInv, UsageIsRecorded
  <1> QED
    BY <1>6, <1>7, <1>8 DEF FateInv

(* Nobody is inside LogpPut at a quiet program counter. *)
LEMMA QuietFate ==
    ASSUME TypeInv, FateInv, UNCHANGED <<op, outcome, mem, tail, maxUsage>>,
           \A u \in Threads : pc'[u] \in OpenPCs => pc[u] \in OpenPCs \/ op[u] = NoCall
    PROVE  FateInv'
  BY DEF FateInv, OwnerInv, StoredInv, UsageInv, UsageIsRecorded, IsOpen

LEMMA NextFate == TypeInv /\ BufferBounds /\ FateInv /\ [Next]_vars => FateInv'
  <1> SUFFICES ASSUME TypeInv, BufferBounds, FateInv, [Next]_vars PROVE FateInv'
    OBVIOUS
  <1>0. /\ pc \in [Threads -> WriterPCs \cup FlushThreadPCs]
        /\ FlushThread \in Threads /\ \A t \in Writers : t \in Threads
    BY DEF TypeInv, TypeOK, Threads
  <1>1. ASSUME NEW t \in Threads, NEW m \in Msgs, NEW ctx, LogpPut(t, m, ctx)
        PROVE  FateInv'
    BY <1>1, PutFate
  <1>2. ASSUME NEW t \in Threads, NEW m \in Msgs, NEW ctx, LogpPutDropped(t, m, ctx)
        PROVE  FateInv'
    <2>1. /\ outcome' = [outcome EXCEPT ![m] = "dropped"] /\ outcome[m] = "new"
          /\ UNCHANGED <<op, pc, mem, tail, maxUsage>>
      BY <1>2 DEF LogpPutDropped, bufferVars, callVars
    <2>2. /\ \A n \in Msgs \ {m} : outcome'[n] = outcome[n]
          /\ outcome'[m] = "dropped"
      BY <2>1 DEF TypeInv, TypeOK
    <2>3. \A u \in Threads : IsOpen(u) => op[u].msg \in Msgs /\ op[u].msg # m
      BY <2>1, OpenCalls DEF FateInv, OwnerInv
    <2>4. OwnerInv'
      BY <2>1, <2>2, <2>3 DEF FateInv, OwnerInv, IsOpen
    <2>5. StoredInv'
      BY <2>1, <2>2 DEF FateInv, StoredInv, Entries
    <2>6. UsageInv'
      <3>1. \A n \in Msgs : (outcome'[n] = "overflow") <=> (outcome[n] = "overflow")
        BY <2>1, <2>2
      <3> QED
        BY <2>1, <3>1 DEF FateInv, UsageInv, UsageIsRecorded
    <2> QED
      BY <2>4, <2>5, <2>6 DEF FateInv
  <1>3. CASE Activation
    <2>1. UNCHANGED <<op, outcome, mem, tail, maxUsage>>
      BY <1>3 DEF Activation, Activate, FailToActivate, bufferVars
    <2>2. \A u \in Threads : pc'[u] \in OpenPCs => pc[u] \in OpenPCs
      BY <1>0, <1>3 DEF Activation, Activate, FailToActivate, OpenPCs, BusyPCs
    <2> QED
      BY <2>1, <2>2, QuietFate
  <1>4. CASE ThreadStarts \/ StartSilently \/ FlushThreadRound
    <2>1. UNCHANGED <<op, outcome, mem, tail, maxUsage>>
      BY <1>4 DEF ThreadStarts, StartSilently, FlushThreadRound, bufferVars, callVars
    <2>2. op[FlushThread] = NoCall
      BY <1>0, <1>4
      DEF ThreadStarts, StartSilently, FlushThreadRound, TypeInv, CallInv, QuietPCs,
          FlushThreadPCs, BusyPCs
    <2>3. \A u \in Threads \ {FlushThread} : pc'[u] = pc[u]
      BY <1>0, <1>4 DEF ThreadStarts, StartSilently, FlushThreadRound, Goto
    <2> QED
      BY <2>1, <2>2, <2>3, QuietFate
  <1>5. ASSUME NEW t \in Threads, FlushStep(t) \/ CallStep(t) PROVE FateInv'
    BY <1>5, FlushStepFate, CallStepFate
  <1>6. ASSUME NEW t \in Writers, ActivateSilently(t) \/ DisableLog(t) \/ Drained(t)
        PROVE  FateInv'
    <2>1. UNCHANGED <<op, outcome, mem, tail, maxUsage>>
      BY <1>6 DEF ActivateSilently, DisableLog, Drained, bufferVars, callVars
    <2>2. \A u \in Threads : pc'[u] \in OpenPCs => pc[u] \in OpenPCs
      BY <1>0, <1>6 DEF ActivateSilently, DisableLog, Drained, Goto, OpenPCs, BusyPCs
    <2> QED
      BY <2>1, <2>2, QuietFate
  <1>7. CASE UNCHANGED vars
    BY <1>7, QuietFate DEF vars
  <1>8. CASE FlushThreadStep
    BY <1>0, <1>1, <1>4, <1>8 DEF FlushThreadStep, LogThreadStarted
  <1>9. ASSUME NEW t \in Writers, WriterStep(t) PROVE FateInv'
    BY <1>0, <1>1, <1>6, <1>9 DEF WriterStep, ReportActivation
  <1>10. ASSUME NEW t \in Writers, NEW m \in Msgs, NEW ctx \in Contexts, LogpPrint(t, m, ctx)
         PROVE  FateInv'
    BY <1>0, <1>1, <1>2, <1>10 DEF LogpPrint
  <1>11. ASSUME NEW t \in Writers, NEW m \in Msgs, LogIrpShutdownHandler(t, m)
         PROVE  FateInv'
    BY <1>0, <1>1, <1>11 DEF LogIrpShutdownHandler
  <1> QED
    BY <1>3, <1>5, <1>7, <1>8, <1>9, <1>10, <1>11 DEF Next

LEMMA Fates == Spec => [](TypeInv /\ BufferBounds /\ FateInv)
  <1>1. Init => TypeInv /\ BufferBounds /\ FateInv
    BY InitTyped, InitBounds, InitFate
  <1>2. TypeInv /\ BufferBounds /\ FateInv /\ [Next]_vars => (TypeInv /\ BufferBounds /\ FateInv)'
    BY NextTyped, NextBounds, NextFate
  <1> QED
    BY <1>1, <1>2, PTL DEF Spec

(* log_max_usage tells whether a message was ever refused, and otherwise how
   full a buffer has been, whoever flushes in between. *)
THEOREM UsageStaysRecorded == Spec => []UsageIsRecorded
  BY Fates, PTL DEF FateInv, UsageInv
=============================================================================
