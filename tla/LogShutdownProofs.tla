--------------------------- MODULE LogShutdownProofs ---------------------------
(***************************************************************************)
(* What the buffers held when "Bye!" was logged is not lost, and nothing   *)
(* is written to a file that is being closed: theorems about LogShutdown,  *)
(* for any number of writers, any messages and any buffer size.  The first *)
(* three hold whoever flushes, in every calling context, also where an     *)
(* append overlaps the flush of an empty buffer.                           *)
(***************************************************************************)
EXTENDS LogShutdown, LogSafetyProofs

-----------------------------------------------------------------------------
(***************************************************************************)
(* The invariant.                                                          *)
(***************************************************************************)

(* From lo to hi entries follow one another: one begins at lo, and the next one
   where it ends, up to hi; none begins inside another one. *)
Gapless(buffer, lo, hi) ==
    /\ lo < hi => buffer[lo] \in Entries
    /\ \A o \in lo .. hi - 1 : buffer[o] \in Entries =>
         /\ EndOf(buffer, o) <= hi
         /\ EndOf(buffer, o) = hi \/ buffer[EndOf(buffer, o)] \in Entries
         /\ \A p \in o + 1 .. EndOf(buffer, o) - 1 : buffer[p] \notin Entries

(* One flush at a time, one copy at a time; after a bug check the locks stay. *)
OwnersInv ==
    \A t \in Threads : /\ pc[t] \in {"switch", "walk", "wipe"} => resource = t
                       /\ pc[t] \in {"copy", "term"} => spin = t

(* A bug check ends all threads. *)
CrashInv == \A t, u \in Threads : pc[t] = "fault" => pc[u] = "fault"

(* The head buffer does not look empty, and no flush that found it empty is editing
   it.  Such a flush leaves it looking empty when it ends. *)
Sound == ~ EmptyHead /\ ~ FlushesEmpty /\ ~ Crashed

(* It is full of messages up to the tail then, and the next flush finds them. *)
SoundTail ==
    /\ Gapless(mem[head], 0, tail.off)
    /\ spin = None => mem[head][tail.off] = Nul
    /\ Copying /\ Avail(tail) > 1 => mem[head][tail.off] = Begun

TailInv ==
    /\ Sound => SoundTail
    /\ LeftOver(mem[head], {o \in Offsets : o >= tail.off})

(* A flush writes the buffer that is not the head. *)
RealWalk == old # head /\ Walking

(* It writes all there is up to the end. *)
Ahead(end) ==
    /\ cursor <= end
    /\ Gapless(mem[old], cursor, end)
    /\ mem[old][end] = Nul
    /\ LeftOver(mem[old], {o \in Offsets : o < cursor \/ o >= end})

OtherInv ==
    /\ RealWalk => \E end \in Offsets : Ahead(end)
    /\ ~ RealWalk => LeftOver(mem[Other(head)], Offsets)

BuffersInv == OwnersInv /\ CrashInv /\ TailInv /\ OtherInv

(* LogTermination has logged "Bye!". *)
Byes == {"bye", "join", "close", "freed"}

(* The thread that says "Bye!" stays the same, and waits for the flush thread
   when the buffers are freed. *)
CloserInv ==
    /\ ending \in {"none", "finalizing"} \cup Byes
    /\ due \subseteq Msgs
    /\ closer = None => due = {} /\ ending \notin Byes
    /\ ending \in {"join", "close", "freed"} => pc[closer] \in {"drain", "fault"}
    /\ \A t \in Writers : pc[t] \in {"disable", "drain", "down"} => t = closer

Written(m) == InFile(m) \/ outcome[m] = "failed"

(* A flush will still switch the buffer that has m. *)
Live(m) == InHead(m) /\ ~ FlushesEmpty

(* Where the thread that said "Bye!" may be while a message that was due then is
   in the head buffer, and while it is being written.  In LogTermination it
   flushes itself; in LogIrpShutdownHandler it waits until the head is empty. *)
MayBeLive == \/ pc[closer] \in {"flush", "switch"}
             \/ ending \notin Byes /\ pc[closer] # "down"
MayBeOld  == pc[closer] \in {"flush", "walk"} \/ ending \notin Byes

Tended(m) == \/ Written(m)
             \/ Live(m) /\ MayBeLive
             \/ InOld(m) /\ old # head /\ MayBeOld

DueInv == \A m \in due : Tended(m)

EndInv == BuffersInv /\ CloserInv /\ DueInv

-----------------------------------------------------------------------------
(***************************************************************************)
(* Buffers.                                                                *)
(***************************************************************************)

(* Two buffers have the same messages below hi. *)
SameBelow(new, buffer, hi) ==
    \A o \in Offsets : o < hi =>
        /\ new[o] \in Entries <=> buffer[o] \in Entries
        /\ buffer[o] \in Entries => new[o].msg = buffer[o].msg

LEMMA GaplessSame ==
    ASSUME NEW buffer, NEW new, NEW lo \in Nat, NEW hi \in Nat, hi < BufferSize,
           SameBelow(new, buffer, hi), Gapless(buffer, lo, hi)
    PROVE  Gapless(new, lo, hi)
  <1>1. \A o \in lo .. hi - 1 : o \in Offsets /\ o < hi /\ o \in Nat
    BY ConstantsAssumption DEF Offsets
  <1>2. \A o \in lo .. hi - 1 : buffer[o] \in Entries =>
            Size[buffer[o].msg] \in Nat /\ Size[buffer[o].msg] > 0
    BY ConstantsAssumption DEF Entries
  <1>3. lo < hi => new[lo] \in Entries
    BY <1>1 DEF Gapless, SameBelow
  <1>4. ASSUME NEW o \in lo .. hi - 1, new[o] \in Entries
        PROVE  /\ EndOf(new, o) <= hi
               /\ EndOf(new, o) = hi \/ new[EndOf(new, o)] \in Entries
               /\ \A p \in o + 1 .. EndOf(new, o) - 1 : new[p] \notin Entries
    <2>1. buffer[o] \in Entries /\ EndOf(new, o) = EndOf(buffer, o)
      BY <1>1, <1>4 DEF SameBelow, EndOf
    <2>2. EndOf(buffer, o) \in Nat /\ EndOf(buffer, o) <= hi
      BY <1>1, <1>2, <2>1 DEF Gapless, EndOf
    <2>3. EndOf(buffer, o) = hi \/ new[EndOf(buffer, o)] \in Entries
      <3>1. CASE EndOf(buffer, o) = hi
        BY <3>1
      <3>2. CASE EndOf(buffer, o) # hi
        <4>1. EndOf(buffer, o) \in Offsets /\ EndOf(buffer, o) < hi
          BY <2>2, <3>2, ConstantsAssumption DEF Offsets
        <4>2. buffer[EndOf(buffer, o)] \in Entries
          BY <2>1, <3>2 DEF Gapless
        <4> QED
          BY <4>1, <4>2 DEF SameBelow
      <3> QED
        BY <3>1, <3>2
    <2>4. ASSUME NEW p \in o + 1 .. EndOf(buffer, o) - 1 PROVE new[p] \notin Entries
      <3>1. p \in Offsets /\ p < hi
        BY <1>1, <2>2, ConstantsAssumption DEF Offsets
      <3>2. buffer[p] \notin Entries
        BY <2>1 DEF Gapless
      <3> QED
        BY <3>1, <3>2 DEF SameBelow
    <2> QED
      BY <2>1, <2>2, <2>3, <2>4
  <1> QED
    BY <1>3, <1>4 DEF Gapless

(* Behind the first entry comes the next one. *)
LEMMA GaplessNext ==
    ASSUME NEW buffer, NEW lo \in Nat, NEW hi \in Nat, hi < BufferSize,
           Gapless(buffer, lo, hi), lo < hi
    PROVE  /\ buffer[lo] \in Entries /\ EndOf(buffer, lo) \in Nat
           /\ lo < EndOf(buffer, lo) /\ EndOf(buffer, lo) <= hi
           /\ Gapless(buffer, EndOf(buffer, lo), hi)
           /\ \A p \in Offsets : p > lo /\ buffer[p] \in Entries => p >= EndOf(buffer, lo)
  <1>1. buffer[lo] \in Entries /\ lo \in lo .. hi - 1
    BY DEF Gapless
  <1>2. Size[buffer[lo].msg] \in Nat /\ Size[buffer[lo].msg] > 0
    BY <1>1, ConstantsAssumption DEF Entries
  <1>3. EndOf(buffer, lo) \in Nat /\ lo < EndOf(buffer, lo) /\ EndOf(buffer, lo) <= hi
    BY <1>1, <1>2 DEF Gapless, EndOf
  <1>4. EndOf(buffer, lo) < hi => buffer[EndOf(buffer, lo)] \in Entries
    BY <1>1, <1>3 DEF Gapless
  <1>5. Gapless(buffer, EndOf(buffer, lo), hi)
    <2>1. \A o \in EndOf(buffer, lo) .. hi - 1 : o \in lo .. hi - 1
      BY <1>3
    <2> QED
      BY <1>4, <2>1 DEF Gapless
  <1>6. \A p \in lo + 1 .. EndOf(buffer, lo) - 1 : buffer[p] \notin Entries
    BY <1>1 DEF Gapless
  <1>7. \A p \in Offsets : p > lo /\ p < EndOf(buffer, lo) => p \in lo + 1 .. EndOf(buffer, lo) - 1
    BY <1>3, ConstantsAssumption DEF Offsets
  <1>8. \A p \in Offsets : p > lo /\ buffer[p] \in Entries => p >= EndOf(buffer, lo)
    BY <1>3, <1>6, <1>7, ConstantsAssumption DEF Offsets
  <1> QED
    BY <1>1, <1>3, <1>5, <1>8

(* A message appended at the end is the last one. *)
LEMMA GaplessAppend ==
    ASSUME NEW buffer, NEW new, NEW hi \in Nat, NEW end \in Nat, end < BufferSize, hi < end,
           Gapless(buffer, 0, hi), new[hi] \in Entries, EndOf(new, hi) = end,
           \A p \in Offsets : p < hi => new[p] = buffer[p],
           \A p \in Offsets : p > hi /\ p < end => new[p] \notin Entries
    PROVE  Gapless(new, 0, end)
  <1>1. \A p \in 0 .. end - 1 : p \in Offsets
    BY ConstantsAssumption DEF Offsets
  <1>2. new[0] \in Entries
    <2>1. CASE hi = 0
      BY <2>1
    <2>2. CASE hi > 0
      BY <1>1, <2>2 DEF Gapless
    <2> QED
      BY <2>1, <2>2
  <1>3. ASSUME NEW o \in 0 .. end - 1, new[o] \in Entries
        PROVE  /\ EndOf(new, o) <= end
               /\ EndOf(new, o) = end \/ new[EndOf(new, o)] \in Entries
               /\ \A p \in o + 1 .. EndOf(new, o) - 1 : new[p] \notin Entries
    <2>1. CASE o = hi
      <3>1. \A p \in hi + 1 .. end - 1 : p \in Offsets /\ p > hi /\ p < end
        BY <1>1
      <3> QED
        BY <2>1, <3>1
    <2>2. CASE o < hi
      <3>1. o \in 0 .. hi - 1 /\ buffer[o] \in Entries /\ EndOf(new, o) = EndOf(buffer, o)
        BY <1>1, <1>3, <2>2 DEF EndOf
      <3>2. Size[buffer[o].msg] \in Nat
        BY <3>1, ConstantsAssumption DEF Entries
      <3>3. EndOf(buffer, o) \in Nat /\ EndOf(buffer, o) <= hi
        BY <3>1, <3>2 DEF Gapless, EndOf
      <3>4. new[EndOf(buffer, o)] \in Entries
        <4>1. CASE EndOf(buffer, o) = hi
          BY <4>1
        <4>2. CASE EndOf(buffer, o) # hi
          <5>1. buffer[EndOf(buffer, o)] \in Entries
            BY <3>1, <4>2 DEF Gapless
          <5>2. EndOf(buffer, o) < hi /\ EndOf(buffer, o) \in 0 .. end - 1
            BY <3>3, <4>2
          <5> QED
            BY <1>1, <5>1, <5>2
        <4> QED
          BY <4>1, <4>2
      <3>5. ASSUME NEW p \in o + 1 .. EndOf(buffer, o) - 1 PROVE new[p] \notin Entries
        <4>1. buffer[p] \notin Entries
          BY <3>1 DEF Gapless
        <4>2. p < hi /\ p \in 0 .. end - 1
          BY <3>3
        <4> QED
          BY <1>1, <4>1, <4>2
      <3> QED
        BY <3>1, <3>3, <3>4, <3>5
    <2>3. CASE o > hi
      BY <1>1, <1>3, <2>3
    <2> QED
      BY <2>1, <2>2, <2>3
  <1> QED
    BY <1>2, <1>3 DEF Gapless

-----------------------------------------------------------------------------
(***************************************************************************)
(* Steps that leave the buffers alone.                                     *)
(***************************************************************************)

(* Messages in a buffer that are done with stay so. *)
Stored(m) == \E b \in Buffers, o \in Offsets : BeginsAt(b, o, m)

StoredStayDone == \A m \in Msgs : Stored(m) /\ Done(m) => Done(m)'

WrittenStay == \A m \in Msgs : Written(m) => Written(m)'

LEMMA HistoryGrows ==
    ASSUME BaseInv, file' = file \/ \E x \in Msgs \cup {Torn} : file' = Append(file, x),
           \A m \in Msgs : \/ outcome'[m] = outcome[m]
                           \/ outcome[m] \in {"new", "put"}
                           \/ outcome'[m] = "failed"
    PROVE  StoredStayDone /\ WrittenStay
  <1>1. file \in Seq(Msgs \cup {Torn})
    BY DEF BaseInv, TypeInv, TypeOK
  <1>2. \A i \in 1 .. Len(file) : i \in 1 .. Len(file') /\ file'[i] = file[i]
    <2>1. CASE file' = file
      BY <2>1
    <2>2. CASE \E x \in Msgs \cup {Torn} : file' = Append(file, x)
      BY <1>1, <2>2
    <2> QED
      BY <2>1, <2>2
  <1>3. \A m \in Msgs : InFile(m) => InFile(m)'
    BY <1>2 DEF InFile
  <1>4. WrittenStay
    BY <1>3 DEF WrittenStay, Written
  <1>5. StoredStayDone
    <2>1. \A m \in Msgs : Stored(m) => outcome[m] \in {"buffered", "failed"}
      BY DEF BaseInv, FateInv, StoredInv, Stored, BeginsAt
    <2> QED
      BY <1>3, <2>1 DEF StoredStayDone, Done
  <1> QED
    BY <1>4, <1>5

LEMMA LeftOverStays ==
    ASSUME BaseInv, StoredStayDone, NEW b \in Buffers, NEW S,
           \A o \in Offsets : mem'[b][o] \in Entries =>
               mem[b][o] \in Entries /\ mem'[b][o].msg = mem[b][o].msg,
           LeftOver(mem[b], S)
    PROVE  LeftOver(mem[b], S)'
  <1> SUFFICES ASSUME NEW o \in Offsets \cap S, mem'[b][o] \in Entries
               PROVE  Done(mem[b][o].msg)'
    BY DEF LeftOver
  <1>1. mem[b][o] \in Entries /\ mem'[b][o].msg = mem[b][o].msg
    OBVIOUS
  <1>2. PICK m \in Msgs : m = mem[b][o].msg
    BY <1>1 DEF Entries
  <1>3. Stored(m) /\ Done(m)
    BY <1>1, <1>2 DEF LeftOver, Stored, BeginsAt
  <1> QED
    BY <1>1, <1>2, <1>3 DEF StoredStayDone, Done, InFile

(* A step that leaves the buffers, the spin lock and the walk alone. *)
Still ==
    /\ UNCHANGED <<mem, head, tail, spin, old, cursor>>
    /\ Settled("walk") /\ Settled("wipe") /\ Settled("copy") /\ Settled("fault")

LEMMA StillFlushes ==
    ASSUME BaseInv, Still
    PROVE  /\ Walking' <=> Walking
           /\ FlushesEmpty' <=> FlushesEmpty
           /\ Copying' <=> Copying
           /\ Crashed' <=> Crashed
  BY Basics DEF Still, Settled, Walking, FlushesEmpty, Copying, Crashed

LEMMA StillBuffers ==
    ASSUME BaseInv, BuffersInv, Still, OwnersInv', StoredStayDone
    PROVE  BuffersInv'
  <1> USE Basics DEF BuffersInv
  <1>1. UNCHANGED <<mem, head, tail, spin, old, cursor>>
    BY DEF Still
  <1>2. TailInv'
    <2>1. LeftOver(mem[head], {o \in Offsets : o >= tail.off})'
      BY <1>1, LeftOverStays DEF TailInv
    <2>2. Sound' => Sound
      BY <1>1, StillFlushes DEF Sound, EmptyHead
    <2>3. SoundTail => SoundTail'
      BY <1>1, StillFlushes DEF SoundTail, Gapless, EndOf, Avail, Used, Usable
    <2> QED
      BY <2>1, <2>2, <2>3 DEF TailInv
  <1>3. OtherInv'
    <2>1. RealWalk' <=> RealWalk
      BY <1>1, StillFlushes DEF RealWalk
    <2>2. \A end \in Offsets : Ahead(end) => Ahead(end)'
      <3> SUFFICES ASSUME NEW end \in Offsets, Ahead(end) PROVE Ahead(end)'
        OBVIOUS
      <3>1. LeftOver(mem[old], {o \in Offsets : o < cursor \/ o >= end})'
        BY <1>1, LeftOverStays DEF Ahead
      <3> QED
        BY <1>1, <3>1 DEF Ahead, Gapless, EndOf
    <2>3. LeftOver(mem[Other(head)], Offsets) => LeftOver(mem[Other(head)], Offsets)'
      BY <1>1, LeftOverStays DEF Other
    <2> QED
      BY <2>1, <2>2, <2>3 DEF OtherInv
  <1>4. CrashInv'
    BY DEF Still, Settled, CrashInv
  <1> QED
    BY <1>2, <1>3, <1>4

(* The messages that were due stay where they are. *)
LEMMA StillDue ==
    ASSUME BaseInv, CloserInv, DueInv, Still, due' = due, WrittenStay,
           closer # None /\ ~ EmptyHead /\ MayBeLive => MayBeLive',
           closer # None /\ Walking /\ MayBeOld => MayBeOld'
    PROVE  DueInv'
  <1> SUFFICES ASSUME NEW m \in due PROVE Tended(m)'
    BY DEF DueInv
  <1>1. UNCHANGED <<mem, head, tail, old, cursor>>
    BY DEF Still
  <1>2. m \in Msgs /\ closer # None /\ Tended(m)
    BY DEF CloserInv, DueInv
  <1>3. CASE Written(m)
    BY <1>2, <1>3 DEF WrittenStay, Tended
  <1>4. CASE Live(m) /\ MayBeLive
    <2>1. Live(m)' /\ ~ EmptyHead
      BY <1>1, <1>4, StillFlushes DEF Live, InHead, EmptyHead, BeginsAt
    <2> QED
      BY <1>2, <1>4, <2>1 DEF Tended
  <1>5. CASE InOld(m) /\ old # head /\ MayBeOld
    <2>1. InOld(m)' /\ Walking
      BY <1>1, <1>5, StillFlushes DEF InOld, BeginsAt
    <2> QED
      BY <1>1, <1>2, <1>5, <2>1 DEF Tended
  <1> QED
    BY <1>2, <1>3, <1>4, <1>5 DEF Tended

LEMMA StillStep ==
    ASSUME BaseInv, EndInv, Still, OwnersInv', CloserInv', due' = due,
           StoredStayDone, WrittenStay,
           closer # None /\ ~ EmptyHead /\ MayBeLive => MayBeLive',
           closer # None /\ Walking /\ MayBeOld => MayBeOld'
    PROVE  EndInv'
  BY StillBuffers, StillDue DEF EndInv

LEMMA OwnersKeep ==
    ASSUME BaseInv, OwnersInv, NEW t \in Threads, NEW where, Goto(t, where),
           where \in {"switch", "walk", "wipe"} => resource' = t,
           where \in {"copy", "term"} => spin' = t,
           resource' = resource \/ resource \in {None, t},
           spin' = spin \/ spin \in {None, t}
    PROVE  OwnersInv'
  <1> USE Basics
  <1>1. pc' = [pc EXCEPT ![t] = where] /\ pc'[t] = where
    BY DEF Goto
  <1>2. \A u \in Threads \ {t} : pc'[u] = pc[u] /\ u # None
    BY <1>1
  <1>3. ASSUME NEW u \in Threads, pc'[u] \in {"switch", "walk", "wipe"} PROVE resource' = u
    BY <1>1, <1>2, <1>3 DEF OwnersInv
  <1>4. ASSUME NEW u \in Threads, pc'[u] \in {"copy", "term"} PROVE spin' = u
    BY <1>1, <1>2, <1>4 DEF OwnersInv
  <1> QED
    BY <1>3, <1>4 DEF OwnersInv

LEMMA CloserTyped == ASSUME BaseInv, closer # None
                     PROVE  closer \in Writers /\ closer \in Threads /\ closer # FlushThread
  BY Basics DEF BaseInv, TypeInv, TypeOK

LEMMA CloserKeeps ==
    ASSUME BaseInv, CloserInv, NEW t \in Threads, NEW where, Goto(t, where),
           pc[t] \notin {"drain", "fault"} \/ (closer # None => closer # t),
           where \notin {"disable", "drain", "down"} \/ t = closer,
           UNCHANGED <<closer, ending, due>>
    PROVE  CloserInv'
  <1> USE Basics
  <1>1. pc' = [pc EXCEPT ![t] = where] /\ pc'[t] = where
    BY DEF Goto
  <1>2. \A u \in Threads \ {t} : pc'[u] = pc[u]
    BY <1>1
  <1>3. ending \in {"join", "close", "freed"} => pc'[closer] \in {"drain", "fault"}
    BY <1>2, CloserTyped DEF CloserInv, Byes
  <1>4. \A u \in Writers : pc'[u] \in {"disable", "drain", "down"} => u = closer
    BY <1>1, <1>2 DEF CloserInv
  <1> QED
    BY <1>3, <1>4 DEF CloserInv

(* The places of a thread that neither flushes nor appends. *)
MovingPCs == {"walk", "wipe", "copy", "fault"}

(* One thread moves outside of the walk and of an append. *)
LEMMA OneMoves ==
    ASSUME BaseInv, EndInv, NEW t \in Threads, NEW where, Goto(t, where),
           pc[t] \notin MovingPCs, where \notin MovingPCs \cup {"term"},
           UNCHANGED <<mem, head, tail, spin, old, cursor, closer, due>>,
           IF where = "switch" THEN resource = None /\ resource' = t
                               ELSE UNCHANGED resource,
           StoredStayDone, WrittenStay,
           where \in {"disable", "drain", "down"} => t = closer,
           t = closer /\ MayBeLive /\ ~ EmptyHead => MayBeLive',
           t = closer /\ MayBeOld /\ Walking => MayBeOld',
           ending' \in Byes <=> ending \in Byes, ending' \in {"none", "finalizing"} \cup Byes,
           closer # None /\ ending' \in {"join", "close", "freed"} =>
               pc'[closer] \in {"drain", "fault"}
    PROVE  EndInv'
  <1> USE Basics
  <1>1. pc' = [pc EXCEPT ![t] = where] /\ pc'[t] = where
    BY DEF Goto
  <1>2. \A u \in Threads \ {t} : pc'[u] = pc[u]
    BY <1>1
  <1>3. Still
    BY <1>1, <1>2 DEF Still, Settled, MovingPCs
  <1>4. OwnersInv'
    BY OwnersKeep DEF EndInv, BuffersInv, MovingPCs
  <1>5. CloserInv'
    <2>1. \A u \in Writers : pc'[u] \in {"disable", "drain", "down"} => u = closer
      BY <1>1, <1>2 DEF EndInv, CloserInv
    <2>2. closer = None => ending' \notin {"join", "close", "freed"}
      BY DEF EndInv, CloserInv, Byes
    <2> QED
      BY <2>1, <2>2 DEF EndInv, CloserInv
  <1>6. closer # None /\ closer # t => pc'[closer] = pc[closer]
    BY <1>2, CloserTyped
  <1>7. closer # None /\ ~ EmptyHead /\ MayBeLive => MayBeLive'
    BY <1>6 DEF MayBeLive
  <1>8. closer # None /\ Walking /\ MayBeOld => MayBeOld'
    BY <1>6 DEF MayBeOld
  <1> QED
    BY <1>3, <1>4, <1>5, <1>7, <1>8, StillStep

-----------------------------------------------------------------------------
(***************************************************************************)
(* The steps of a flush.                                                   *)
(***************************************************************************)

(* An action of LogBuffer other than "Bye!". *)
Unended == UNCHANGED <<closer, ending, due>>

LEMMA OnlyOneFlushes ==
    ASSUME OwnersInv, NEW t \in Threads, pc[t] \in {"switch", "walk", "wipe"}
    PROVE  \A u \in Threads \ {t} : pc[u] \notin {"switch", "walk", "wipe"}
  BY DEF OwnersInv

(* As long as one thread goes on there has been no bug check. *)
LEMMA NoCrash ==
    ASSUME BaseInv, CrashInv, NEW t \in Threads, pc[t] # "fault"
    PROVE  ~ Crashed /\ \A u \in Threads : pc[u] # "fault"
  BY Basics DEF CrashInv, Crashed

LEMMA CrashKeeps ==
    ASSUME BaseInv, CrashInv, NEW t \in Threads, NEW where, Goto(t, where), pc[t] # "fault",
           where # "fault"
    PROVE  CrashInv' /\ ~ Crashed'
  <1>1. pc' = [pc EXCEPT ![t] = where] /\ pc'[t] = where
    BY Basics DEF Goto
  <1>2. \A u \in Threads : pc'[u] # "fault"
    BY <1>1, NoCrash, Basics
  <1> QED
    BY <1>2, Basics DEF CrashInv, Crashed

(* What a walk finds in a buffer that is not the head. *)
LEMMA WalkFinds ==
    ASSUME BaseInv, NEW end \in Offsets, Ahead(end)
    PROVE  /\ Inside /\ cursor \in Offsets /\ Current = mem[old][cursor]
           /\ cursor < end => Current \in Entries
           /\ cursor = end => Current = Nul
  BY Basics DEF Ahead, Offsets, Inside, Current, Gapless

LEMMA SwitchKeeps ==
    ASSUME BaseInv, EndInv, NEW t \in Threads, SwitchBuffer(t), Unended
    PROVE  EndInv'
  <1> USE Basics DEF EndInv, BuffersInv, Unended
  <1>1. /\ pc[t] = "switch" /\ spin = None /\ old' = head /\ cursor' = 0 /\ Goto(t, "walk")
        /\ UNCHANGED <<spin, resource, closer, file, outcome>>
    BY DEF SwitchBuffer, callVars
  <1>2. pc' = [pc EXCEPT ![t] = "walk"] /\ pc'[t] = "walk" /\ resource = t
    BY <1>1 DEF Goto, OwnersInv
  <1>3. ~ Walking /\ Walking' /\ ~ FlushesEmpty
    BY <1>1, <1>2, OnlyOneFlushes DEF Walking, FlushesEmpty
  <1>4. StoredStayDone /\ WrittenStay
    BY <1>1, HistoryGrows
  <1>5. OwnersInv' /\ CloserInv' /\ CrashInv' /\ ~ Crashed
    BY <1>1, <1>2, OwnersKeep, CloserKeeps, CrashKeeps, NoCrash
  <1>6. LeftOver(mem[Other(head)], Offsets)
    <2> HIDE Basics
    <2> QED
      BY <1>3 DEF OtherInv, RealWalk
  <1>7. CASE EmptyHead
    <2>1. UNCHANGED <<mem, head, tail>>
      BY <1>7 DEF SwitchBuffer
    <2>2. TailInv'
      <3>1. LeftOver(mem[head], {o \in Offsets : o >= tail.off})'
        BY <1>4, <2>1, LeftOverStays DEF TailInv
      <3>2. EmptyHead'
        BY <1>7, <2>1 DEF EmptyHead
      <3> QED
        BY <3>1, <3>2 DEF TailInv, Sound
    <2>3. OtherInv'
      <3>1. LeftOver(mem[Other(head)], Offsets)'
        BY <1>4, <1>6, <2>1, LeftOverStays DEF Other
      <3> QED
        BY <1>1, <2>1, <3>1 DEF OtherInv, RealWalk
    <2>4. DueInv'
      <3> SUFFICES ASSUME NEW m \in due PROVE Tended(m)'
        BY DEF DueInv
      <3>1. m \in Msgs /\ Written(m)
        BY <1>3, <1>7 DEF CloserInv, DueInv, Tended, Live, InHead, InOld
      <3> QED
        BY <1>4, <3>1 DEF WrittenStay, Tended
    <2> QED
      BY <1>5, <2>2, <2>3, <2>4
  <1>8. CASE ~ EmptyHead
    <2>1. /\ head' = Other(head) /\ mem' = [mem EXCEPT ![Other(head)][0] = Nul]
          /\ tail' = [buf |-> Other(head), off |-> 0]
      BY <1>8 DEF SwitchBuffer
    <2>2. mem'[Other(head)][0] = Nul /\ mem'[head] = mem[head]
          /\ Thinner(mem'[Other(head)], mem[Other(head)])
      BY <2>1, StoreThinner
    <2>3. TailInv'
      <3>1. PICK b \in Buffers : b = Other(head)
        OBVIOUS
      <3>2. \A o \in Offsets : mem'[b][o] \in Entries =>
                mem[b][o] \in Entries /\ mem'[b][o].msg = mem[b][o].msg
        BY <2>2, <3>1 DEF Thinner
      <3>3. LeftOver(mem[b], Offsets)'
        BY <1>4, <1>6, <3>1, <3>2, LeftOverStays
      <3>4. EmptyHead'
        BY <2>1, <2>2 DEF EmptyHead
      <3> QED
        BY <2>1, <3>1, <3>3, <3>4 DEF TailInv, Sound, LeftOver
    <2>4. OtherInv'
      <3>1. PICK end \in Offsets : end = tail.off
        OBVIOUS
      <3>2. LeftOver(mem[head], {o \in Offsets : o >= end})
        BY <3>1 DEF TailInv
      <3>3. Ahead(end)'
        <4>1. Gapless(mem[head], 0, end) /\ mem[head][end] = Nul
          BY <1>1, <1>3, <1>5, <1>8, <3>1 DEF TailInv, Sound, SoundTail
        <4>2. \A o \in Offsets : mem[head][o] \in Entries /\ o >= end => Done(mem[head][o].msg)
          BY <3>2 DEF LeftOver
        <4>3. \A o \in Offsets : mem[head][o] \in Entries /\ o >= end => Done(mem[old][o].msg)'
          BY <1>1, <2>2, <4>2 DEF Done, InFile
        <4> QED
          BY <1>1, <2>2, <4>1, <4>3 DEF Ahead, LeftOver, Offsets, Gapless, EndOf
      <3>4. RealWalk'
        BY <1>1, <1>3, <2>1 DEF RealWalk
      <3> QED
        BY <3>3, <3>4 DEF OtherInv
    <2>5. DueInv'
      <3> SUFFICES ASSUME NEW m \in due PROVE Tended(m)'
        BY DEF DueInv
      <3>1. m \in Msgs /\ Tended(m) /\ closer # None
        BY DEF CloserInv, DueInv
      <3>2. CASE Written(m)
        BY <1>4, <3>1, <3>2 DEF WrittenStay, Tended
      <3>3. CASE Live(m) /\ MayBeLive
        <4>1. PICK o \in 0 .. tail.off - 1 : BeginsAt(head, o, m)
          BY <3>3 DEF Live, InHead
        <4>2. o \in Offsets /\ o >= 0
          BY DEF Offsets, Usable
        <4>3. InOld(m)'
          BY <1>1, <1>3, <2>2, <4>1, <4>2 DEF InOld, BeginsAt
        <4>4. MayBeOld'
          <5>1. closer \in Threads
            BY <3>1, CloserTyped
          <5> QED
            BY <1>1, <1>2, <3>3, <5>1, OnlyOneFlushes DEF MayBeLive, MayBeOld
        <4> QED
          BY <1>1, <2>1, <4>3, <4>4 DEF Tended
      <3>4. CASE InOld(m)
        BY <1>3, <3>4 DEF InOld
      <3> QED
        BY <3>1, <3>2, <3>3, <3>4 DEF Tended
    <2> QED
      BY <1>5, <2>3, <2>4, <2>5
  <1> QED
    BY <1>7, <1>8

(* A step of a walk that goes on: it edits its own buffer only. *)
LEMMA EditKeeps ==
    ASSUME BaseInv, EndInv, UNCHANGED <<head, tail, spin, resource, old, pc>>, Unended, Walking,
           AllWithin, \A b \in Buffers \ {old} : mem'[b] = mem[b], StoredStayDone
    PROVE  /\ OwnersInv' /\ CrashInv' /\ TailInv' /\ CloserInv'
           /\ Walking' /\ (RealWalk' <=> RealWalk) /\ (FlushesEmpty' <=> FlushesEmpty)
           /\ ~ RealWalk => OtherInv'
  <1> USE Basics DEF EndInv, BuffersInv, Unended
  <1>1. OwnersInv' /\ CrashInv' /\ CloserInv'
    BY DEF OwnersInv, CrashInv, CloserInv
  <1>2. /\ Walking' /\ (RealWalk' <=> RealWalk) /\ (FlushesEmpty' <=> FlushesEmpty)
        /\ (Copying' <=> Copying) /\ (Crashed' <=> Crashed)
    BY DEF Walking, RealWalk, FlushesEmpty, Copying, Crashed
  <1>3. \A b \in Buffers, o \in Offsets : mem'[b][o] \in Entries =>
            mem[b][o] \in Entries /\ mem'[b][o].msg = mem[b][o].msg
    BY DEF AllWithin, Within
  <1>4. TailInv'
    <2>1. LeftOver(mem[head], {o \in Offsets : o >= tail.off})'
      BY <1>3, LeftOverStays DEF TailInv
    <2>2. ASSUME Sound' PROVE SoundTail'
      <3>1. old # head
        BY <1>2, <2>2 DEF Sound, Walking, FlushesEmpty
      <3>2. mem'[head] = mem[head]
        BY <3>1
      <3>3. Sound
        BY <1>2, <2>2, <3>2 DEF Sound, EmptyHead
      <3> QED
        BY <1>2, <3>2, <3>3 DEF TailInv, SoundTail, Gapless, EndOf, Avail, Used, Usable
    <2> QED
      BY <2>1, <2>2 DEF TailInv
  <1>5. ASSUME ~ RealWalk PROVE OtherInv'
    <2>1. LeftOver(mem[Other(head)], Offsets)'
      BY <1>3, <1>5, LeftOverStays DEF OtherInv, Other
    <2> QED
      BY <1>2, <1>5, <2>1 DEF OtherInv
  <1> QED
    BY <1>1, <1>2, <1>4, <1>5

(* An iteration on a message changes nothing behind it. *)
LEMMA WriteBehind ==
    ASSUME BaseInv, NEW t \in Threads, WriteEntry(t)
    PROVE  /\ cursor \in Offsets /\ mem[old][cursor] \in Entries
           /\ cursor' = EndOf(mem[old], cursor) /\ cursor' \in Nat /\ cursor' > cursor
           /\ \A b \in Buffers \ {old} : mem'[b] = mem[b]
           /\ \A o \in Offsets : o >= cursor' => mem'[old][o] = mem[old][o]
  <1> USE Basics
  <1>1. cursor \in Offsets /\ mem[old][cursor] \in Entries
    BY DEF WriteEntry, Inside, Current
  <1>2. PICK m \in Msgs : m = mem[old][cursor].msg
    BY <1>1 DEF Entries
  <1>3. cursor' = cursor + Size[m] /\ EndOf(mem[old], cursor) = cursor + Size[m]
    BY <1>2 DEF WriteEntry, StepOver, Current, EndOf
  <1>4. CASE mem[old][cursor].printed
    <2>1. mem' = [mem EXCEPT ![old][cursor] = [msg |-> m, printed |-> FALSE]]
      BY <1>2, <1>4 DEF WriteEntry, Current
    <2> QED
      BY <1>1, <1>2, <1>3, <2>1 DEF Offsets
  <1>5. CASE ~ mem[old][cursor].printed
    <2>1. PICK p \in Nat : p = cursor + Size[m] - 2
      BY <1>1, <1>2 DEF Offsets
    <2>2. PICK new : new = CutAt(mem[old], p)
      OBVIOUS
    <2>3. mem' = [mem EXCEPT ![old] = new]
      BY <1>2, <1>5, <2>1, <2>2 DEF WriteEntry, Current
    <2>4. \A o \in Offsets : o >= cursor' => new[o] = mem[old][o]
      BY <1>2, <1>3, <2>1, <2>2 DEF CutAt, Offsets
    <2> HIDE DEF WriteEntry
    <2> QED
      BY <1>1, <1>2, <1>3, <2>3, <2>4 DEF Offsets
  <1> QED
    BY <1>4, <1>5

(* What lies from lo on does not depend on what lies below. *)
LEMMA GaplessAbove ==
    ASSUME NEW buffer, NEW new, NEW lo \in Nat, NEW hi \in Nat, hi < BufferSize,
           \A o \in Offsets : o >= lo => new[o] = buffer[o], Gapless(buffer, lo, hi)
    PROVE  Gapless(new, lo, hi)
  <1>1. \A o \in lo .. hi - 1 : o \in Offsets /\ o >= lo /\ new[o] = buffer[o]
    BY ConstantsAssumption DEF Offsets
  <1>2. lo < hi => new[lo] \in Entries
    BY <1>1 DEF Gapless
  <1>3. ASSUME NEW o \in lo .. hi - 1, new[o] \in Entries
        PROVE  /\ EndOf(new, o) <= hi
               /\ EndOf(new, o) = hi \/ new[EndOf(new, o)] \in Entries
               /\ \A p \in o + 1 .. EndOf(new, o) - 1 : new[p] \notin Entries
    <2>1. buffer[o] \in Entries /\ EndOf(new, o) = EndOf(buffer, o)
      BY <1>1, <1>3 DEF EndOf
    <2>2. Size[buffer[o].msg] \in Nat
      BY <2>1, ConstantsAssumption DEF Entries
    <2>3. EndOf(buffer, o) \in Nat /\ EndOf(buffer, o) <= hi /\ EndOf(buffer, o) >= o
      BY <2>1, <2>2 DEF Gapless, EndOf
    <2>4. EndOf(buffer, o) = hi \/ new[EndOf(buffer, o)] \in Entries
      <3>1. EndOf(buffer, o) = hi \/ EndOf(buffer, o) \in lo .. hi - 1
        BY <2>3
      <3>2. EndOf(buffer, o) = hi \/ buffer[EndOf(buffer, o)] \in Entries
        BY <2>1 DEF Gapless
      <3> QED
        BY <1>1, <3>1, <3>2
    <2>5. ASSUME NEW p \in o + 1 .. EndOf(buffer, o) - 1 PROVE new[p] \notin Entries
      <3>1. p \in lo .. hi - 1
        BY <2>3
      <3> QED
        BY <1>1, <2>1, <3>1 DEF Gapless
    <2> QED
      BY <2>1, <2>3, <2>4, <2>5
  <1> QED
    BY <1>2, <1>3 DEF Gapless

LEMMA WriteKeeps ==
    ASSUME BaseInv, EndInv, NEW t \in Threads, WriteEntry(t), Unended
    PROVE  EndInv'
  <1> USE Basics DEF EndInv, BuffersInv, Unended
  <1>1. /\ pc[t] = "walk" /\ Walking
        /\ UNCHANGED <<head, tail, spin, resource, old, closer, pc>>
    BY DEF WriteEntry, Walking, callVars
  <1>2. /\ cursor \in Offsets /\ mem[old][cursor] \in Entries
        /\ cursor' = EndOf(mem[old], cursor) /\ cursor' \in Nat /\ cursor' > cursor
        /\ \A b \in Buffers \ {old} : mem'[b] = mem[b]
        /\ \A o \in Offsets : o >= cursor' => mem'[old][o] = mem[old][o]
    BY WriteBehind
  <1>3. PICK m \in Msgs : m = mem[old][cursor].msg
    BY <1>2 DEF Entries
  <1>4. \/ file' = Append(file, m) /\ outcome' = outcome
        \/ file' = file /\ outcome' = [outcome EXCEPT ![m] = "failed"]
    BY <1>3 DEF WriteEntry, Current
  <1>5. StoredStayDone /\ WrittenStay
    BY <1>4, HistoryGrows DEF BaseInv, TypeInv, TypeOK
  <1>6. Written(m)'
    <2>1. CASE file' = Append(file, m)
      <3>1. Len(file') \in 1 .. Len(file') /\ file'[Len(file')] = m
        BY <2>1 DEF BaseInv, TypeInv, TypeOK
      <3> QED
        BY <3>1 DEF Written, InFile
    <2>2. CASE outcome' = [outcome EXCEPT ![m] = "failed"]
      BY <2>2 DEF Written, BaseInv, TypeInv, TypeOK
    <2> QED
      BY <1>4, <2>1, <2>2
  <1>7. AllWithin
    BY FlushStepWithin DEF FlushStep, BaseInv, TypeInv
  <1>8. /\ OwnersInv' /\ CrashInv' /\ TailInv' /\ CloserInv'
        /\ Walking' /\ (RealWalk' <=> RealWalk) /\ (FlushesEmpty' <=> FlushesEmpty)
        /\ ~ RealWalk => OtherInv'
    BY <1>1, <1>2, <1>5, <1>7, EditKeeps
  <1>9. ASSUME RealWalk
        PROVE  /\ \E end \in Offsets : Ahead(end)'
               /\ \A o \in Offsets : o > cursor /\ mem[old][o] \in Entries => o >= cursor'
    <2>1. PICK end \in Offsets : Ahead(end)
      BY <1>9 DEF OtherInv
    <2>2. end \in Nat /\ end < BufferSize /\ cursor < end
      BY <1>2, <2>1 DEF Offsets, Ahead
    <2>3. /\ cursor' <= end /\ Gapless(mem[old], cursor', end)
          /\ \A o \in Offsets : o > cursor /\ mem[old][o] \in Entries => o >= cursor'
      BY <1>2, <2>1, <2>2, GaplessNext DEF Ahead
    <2>4. Gapless(mem'[old], cursor', end) /\ mem'[old][end] = Nul
      <3>1. PICK next \in Nat : next = cursor'
        BY <1>2
      <3>2. \A o \in Offsets : o >= next => mem'[old][o] = mem[old][o]
        BY <1>2, <3>1
      <3>3. Gapless(mem'[old], next, end)
        BY <2>2, <2>3, <3>1, <3>2, GaplessAbove
      <3>4. mem'[old][end] = Nul
        BY <2>1, <2>3, <3>1, <3>2 DEF Ahead
      <3> QED
        BY <3>1, <3>3, <3>4
    <2>5. ASSUME NEW o \in Offsets, o < cursor' \/ o >= end, mem'[old][o] \in Entries
          PROVE  Done(mem[old][o].msg)'
      <3>1. mem[old][o] \in Entries /\ mem'[old'][o].msg = mem[old][o].msg
        BY <1>1, <1>7, <2>5 DEF AllWithin, Within
      <3>2. CASE o = cursor
        BY <1>1, <1>3, <1>6, <3>1, <3>2 DEF Written, Done, InFile
      <3>3. CASE o # cursor
        <4>1. o < cursor \/ o >= end
          <5>1. o > cursor => o >= cursor'
            BY <2>3, <3>1
          <5> HIDE Basics
          <5> QED
            BY <1>2, <2>2, <2>5, <3>3, <5>1, ConstantsAssumption DEF Offsets
        <4>2. PICK d \in Msgs : d = mem[old][o].msg
          BY <3>1 DEF Entries
        <4>3. Stored(d) /\ Done(d)
          BY <2>1, <3>1, <4>1, <4>2 DEF Ahead, LeftOver, Stored, BeginsAt
        <4> QED
          BY <1>5, <3>1, <4>2, <4>3 DEF StoredStayDone, Done, InFile
      <3> QED
        BY <3>2, <3>3
    <2>6. LeftOver(mem[old], {o \in Offsets : o < cursor \/ o >= end})'
      BY <1>1, <2>5 DEF LeftOver
    <2>7. Ahead(end)'
      BY <1>1, <2>3, <2>4, <2>6 DEF Ahead, Gapless, EndOf
    <2> QED
      BY <2>3, <2>7
  <1>10. OtherInv'
    BY <1>8, <1>9 DEF OtherInv
  <1>11. DueInv'
    <2> SUFFICES ASSUME NEW d \in due PROVE Tended(d)'
      BY DEF DueInv
    <2>1. d \in Msgs /\ Tended(d)
      BY DEF CloserInv, DueInv
    <2>2. CASE Written(d)
      BY <1>5, <2>1, <2>2 DEF WrittenStay, Tended
    <2>3. CASE Live(d) /\ MayBeLive
      <3>1. old # head
        BY <1>1, <2>3 DEF Live, FlushesEmpty
      <3>2. mem'[head] = mem[head]
        BY <1>2, <3>1
      <3>3. Live(d)' /\ MayBeLive'
        BY <1>1, <1>8, <2>3, <3>2 DEF Live, InHead, EmptyHead, BeginsAt, MayBeLive
      <3> QED
        BY <3>3 DEF Tended
    <2>4. CASE InOld(d) /\ old # head /\ MayBeOld
      <3>1. PICK o \in Offsets : o >= cursor /\ BeginsAt(old, o, d)
        BY <2>4 DEF InOld
      <3>2. CASE o = cursor
        BY <1>3, <1>6, <3>1, <3>2 DEF BeginsAt, Tended
      <3>3. CASE o # cursor
        <4>1. RealWalk /\ o > cursor
          BY <1>1, <2>4, <3>1, <3>3 DEF RealWalk, Offsets
        <4>2. o >= cursor'
          BY <1>9, <3>1, <4>1 DEF BeginsAt
        <4>3. InOld(d)'
          BY <1>1, <1>2, <1>8, <3>1, <4>2 DEF InOld, BeginsAt
        <4>4. MayBeOld'
          BY <1>1, <2>4 DEF MayBeOld
        <4> QED
          BY <1>1, <2>4, <4>3, <4>4 DEF Tended
      <3> QED
        BY <3>2, <3>3
    <2> QED
      BY <2>1, <2>2, <2>3, <2>4 DEF Tended
  <1> QED
    BY <1>8, <1>10, <1>11

(* A walk over torn text, or past the end, is that of a flush of an empty buffer. *)
LEMMA OverTorn ==
    ASSUME BaseInv, EndInv, NEW t \in Threads, pc[t] = "walk",
           ~ Inside \/ Current \in {Torn, Begun}
    PROVE  ~ RealWalk /\ old = head /\ FlushesEmpty /\ \A m \in due : m \in Msgs /\ Written(m)
  <1>1. ~ RealWalk
    <2> SUFFICES ASSUME RealWalk PROVE FALSE
      OBVIOUS
    <2>1. PICK end \in Offsets : Ahead(end)
      BY DEF EndInv, BuffersInv, OtherInv
    <2>2. cursor = end \/ cursor < end
      BY <2>1, Basics DEF Ahead, Offsets
    <2> QED
      BY <2>1, <2>2, WalkFinds, Basics
  <1>2. old = head /\ FlushesEmpty
    BY <1>1 DEF RealWalk, Walking, FlushesEmpty
  <1> QED
    BY <1>1, <1>2 DEF EndInv, CloserInv, DueInv, Tended, Live

LEMMA TornKeeps ==
    ASSUME BaseInv, EndInv, NEW t \in Threads, WriteTornEntry(t), Unended
    PROVE  EndInv'
  <1>1. /\ pc[t] = "walk" /\ Walking /\ Current \in {Torn, Begun} /\ file' = Append(file, Torn)
        /\ UNCHANGED <<head, tail, spin, resource, old, pc, outcome>>
    BY DEF WriteTornEntry, Walking, callVars
  <1>2. StoredStayDone /\ WrittenStay
    BY <1>1, HistoryGrows
  <1>3. AllWithin
    BY FlushStepWithin DEF FlushStep, BaseInv, TypeInv
  <1>4. \A b \in Buffers \ {old} : mem'[b] = mem[b]
    <2>1. PICK edited : mem' = [mem EXCEPT ![old] = edited]
      BY DEF WriteTornEntry
    <2> QED
      BY <2>1, Basics
  <1>5. ~ RealWalk /\ \A m \in due : m \in Msgs /\ Written(m)
    BY <1>1, OverTorn
  <1>6. OwnersInv' /\ CrashInv' /\ TailInv' /\ CloserInv' /\ OtherInv'
    BY <1>1, <1>2, <1>3, <1>4, <1>5, EditKeeps
  <1>7. DueInv'
    BY <1>2, <1>5 DEF DueInv, WrittenStay, Tended, Unended
  <1> QED
    BY <1>6, <1>7 DEF EndInv, BuffersInv

(* A step that ends a walk of its own thread, at a '\0' or past the end. *)
LEMMA WalkEnds ==
    ASSUME BaseInv, EndInv, NEW t \in Threads, pc[t] = "walk", Goto(t, "wipe"), Unended,
           UNCHANGED <<head, tail, spin, resource, old, cursor>>, AllWithin,
           \A b \in Buffers \ {old} : mem'[b] = mem[b], mem' = mem \/ old = head, StoredStayDone,
           LeftOver(mem[Other(head)], Offsets)
    PROVE  BuffersInv' /\ CloserInv' /\ ~ Walking' /\ (FlushesEmpty' <=> FlushesEmpty)
  <1> USE Basics DEF EndInv, BuffersInv, Unended
  <1>1. pc' = [pc EXCEPT ![t] = "wipe"] /\ pc'[t] = "wipe" /\ resource = t
    BY DEF Goto, OwnersInv
  <1>2. \A u \in Threads \ {t} : pc'[u] = pc[u] /\ pc[u] \notin {"switch", "walk", "wipe"}
    BY <1>1, OnlyOneFlushes
  <1>3. ~ Walking' /\ (FlushesEmpty' <=> FlushesEmpty) /\ (Copying' <=> Copying)
    BY <1>1, <1>2 DEF Walking, FlushesEmpty, Copying
  <1>4. OwnersInv' /\ CloserInv' /\ CrashInv' /\ ~ Crashed' /\ ~ Crashed
    BY <1>1, OwnersKeep, CloserKeeps, CrashKeeps, NoCrash
  <1>5. \A b \in Buffers, o \in Offsets : mem'[b][o] \in Entries =>
            mem[b][o] \in Entries /\ mem'[b][o].msg = mem[b][o].msg
    BY DEF AllWithin, Within
  <1>6. TailInv'
    <2>1. LeftOver(mem[head], {o \in Offsets : o >= tail.off})'
      BY <1>5, LeftOverStays DEF TailInv
    <2>2. ASSUME Sound' PROVE SoundTail'
      <3>1. mem' = mem
        BY <1>1, <2>2 DEF Sound, FlushesEmpty
      <3>2. Sound
        BY <1>3, <1>4, <2>2, <3>1 DEF Sound, EmptyHead
      <3> QED
        BY <1>3, <3>1, <3>2 DEF TailInv, SoundTail, Gapless, EndOf, Avail, Used, Usable
    <2> QED
      BY <2>1, <2>2 DEF TailInv
  <1>7. OtherInv'
    <2>1. LeftOver(mem[Other(head)], Offsets)'
      BY <1>5, LeftOverStays DEF Other
    <2> QED
      BY <1>3, <2>1 DEF OtherInv, RealWalk
  <1> QED
    BY <1>3, <1>4, <1>6, <1>7

LEMMA PastEndKeeps ==
    ASSUME BaseInv, EndInv, NEW t \in Threads, WalkPastEnd(t), Unended
    PROVE  EndInv'
  <1>1. /\ pc[t] = "walk" /\ ~ Inside
        /\ UNCHANGED <<head, tail, spin, resource, old, cursor, closer, ending, due, outcome>>
        /\ file' = file \/ file' = Append(file, Torn)
        /\ Goto(t, "wipe") \/ (mem' = mem /\ pc' = [u \in Threads |-> "fault"])
    BY DEF WalkPastEnd, flushVars, callVars, Unended
  <1>2. StoredStayDone /\ WrittenStay
    BY <1>1, HistoryGrows
  <1>3. AllWithin
    BY FlushStepWithin DEF FlushStep, BaseInv, TypeInv
  <1>4. \A b \in Buffers \ {old} : mem'[b] = mem[b]
    <2>1. mem' = mem \/ \E new : mem' = [mem EXCEPT ![old] = new]
      BY DEF WalkPastEnd
    <2> QED
      BY <2>1, Basics
  <1>5. ~ RealWalk /\ old = head /\ \A m \in due : m \in Msgs /\ Written(m)
    BY <1>1, OverTorn
  <1>6. LeftOver(mem[Other(head)], Offsets)
    BY <1>5 DEF EndInv, BuffersInv, OtherInv
  <1>7. DueInv'
    BY <1>1, <1>2, <1>5 DEF DueInv, WrittenStay, Tended
  <1>8. CASE Goto(t, "wipe")
    BY <1>1, <1>2, <1>3, <1>4, <1>5, <1>6, <1>7, <1>8, WalkEnds DEF EndInv
  <1>9. CASE mem' = mem /\ pc' = [u \in Threads |-> "fault"]
    <2>1. \A u \in Threads : pc'[u] = "fault"
      BY <1>9
    <2>2. OwnersInv' /\ CrashInv' /\ Crashed' /\ ~ Walking'
      BY <2>1, Basics DEF OwnersInv, CrashInv, Crashed, Walking
    <2>3. CloserInv'
      <3>1. \A u \in Writers : pc'[u] = "fault"
        BY <2>1, Basics
      <3>2. ending \in {"join", "close", "freed"} => pc'[closer] \in {"drain", "fault"}
        BY <2>1, CloserTyped DEF EndInv, CloserInv, Byes
      <3> QED
        BY <1>1, <3>1, <3>2 DEF EndInv, CloserInv
    <2>4. TailInv'
      <3>1. LeftOver(mem[head], {o \in Offsets : o >= tail.off})'
        BY <1>1, <1>2, <1>9, LeftOverStays, Basics DEF EndInv, BuffersInv, TailInv
      <3> QED
        BY <2>2, <3>1 DEF TailInv, Sound
    <2>5. OtherInv'
      <3>1. LeftOver(mem[Other(head)], Offsets)'
        BY <1>1, <1>2, <1>6, <1>9, LeftOverStays, Basics DEF Other
      <3> QED
        BY <2>2, <3>1 DEF OtherInv, RealWalk
    <2> QED
      BY <1>7, <2>2, <2>3, <2>4, <2>5 DEF EndInv, BuffersInv
  <1> QED
    BY <1>1, <1>8, <1>9

LEMMA EndKeeps ==
    ASSUME BaseInv, EndInv, NEW t \in Threads, EndOfEntries(t), Unended
    PROVE  EndInv'
  <1> USE Basics DEF EndInv, Unended
  <1>1. /\ pc[t] = "walk" /\ (Inside => Current = Nul) /\ Goto(t, "wipe")
        /\ UNCHANGED <<mem, head, tail, spin, resource, old, cursor, file, outcome, closer>>
    BY DEF EndOfEntries, bufferVars, flushVars, callVars
  <1>2. StoredStayDone /\ WrittenStay
    BY <1>1, HistoryGrows
  <1>3. RealWalk => LeftOver(mem[old], Offsets) /\ old = Other(head)
    <2> SUFFICES ASSUME RealWalk PROVE LeftOver(mem[old], Offsets) /\ old = Other(head)
      OBVIOUS
    <2>1. PICK end \in Offsets : Ahead(end)
      BY DEF BuffersInv, OtherInv
    <2>2. cursor = end
      BY <1>1, <2>1, WalkFinds DEF Ahead, Offsets
    <2>3. LeftOver(mem[old], Offsets)
      BY <2>1, <2>2 DEF Ahead, LeftOver, Offsets
    <2>4. old = Other(head)
      BY DEF RealWalk, Other, Buffers
    <2> QED
      BY <2>3, <2>4
  <1>4. LeftOver(mem[Other(head)], Offsets)
    BY <1>3 DEF BuffersInv, OtherInv
  <1>5. BuffersInv' /\ CloserInv' /\ ~ Walking' /\ (FlushesEmpty' <=> FlushesEmpty)
    <2>1. AllWithin /\ \A b \in Buffers \ {old} : mem'[b] = mem[b]
      BY <1>1 DEF AllWithin, Within
    <2> QED
      BY <1>1, <1>2, <1>4, <2>1, WalkEnds
  <1>6. DueInv'
    <2> SUFFICES ASSUME NEW m \in due PROVE Tended(m)'
      BY DEF DueInv
    <2>1. m \in Msgs /\ Tended(m) /\ closer # None
      BY DEF CloserInv, DueInv
    <2>2. CASE Written(m)
      BY <1>2, <2>1, <2>2 DEF WrittenStay, Tended
    <2>3. CASE Live(m) /\ MayBeLive
      <3>1. MayBeLive'
        BY <1>1, <2>1, <2>3, CloserTyped DEF MayBeLive, Goto
      <3>2. Live(m)'
        BY <1>1, <1>5, <2>3 DEF Live, InHead, EmptyHead, BeginsAt
      <3> QED
        BY <3>1, <3>2 DEF Tended
    <2>4. CASE InOld(m) /\ old # head
      <3>1. RealWalk
        BY <2>4 DEF InOld, RealWalk
      <3>2. PICK o \in Offsets : BeginsAt(old, o, m)
        BY <2>4 DEF InOld
      <3>3. Done(m) /\ outcome[m] \in {"buffered", "failed"}
        BY <1>3, <3>1, <3>2 DEF LeftOver, BeginsAt, BaseInv, FateInv, StoredInv
      <3> QED
        BY <1>2, <2>1, <3>3 DEF Done, Written, WrittenStay, Tended
    <2> QED
      BY <2>1, <2>2, <2>3, <2>4 DEF Tended
  <1> QED
    BY <1>5, <1>6

LEMMA WipeKeeps ==
    ASSUME BaseInv, EndInv, NEW t \in Threads, WipeAndRelease(t), Unended
    PROVE  EndInv'
  <1> USE Basics DEF EndInv, BuffersInv, Unended
  <1>1. /\ pc[t] = "wipe" /\ mem' = [mem EXCEPT ![old][0] = Nul] /\ resource' = None
        /\ UNCHANGED <<head, tail, spin, file, outcome, closer>>
    BY DEF WipeAndRelease, callVars
  <1>2. PICK where \in {"sleep", "write"} : Goto(t, where)
    BY DEF WipeAndRelease
  <1>3. pc' = [pc EXCEPT ![t] = where] /\ pc'[t] = where /\ resource = t
    BY <1>1, <1>2 DEF Goto, OwnersInv
  <1>4. \A u \in Threads \ {t} : pc'[u] = pc[u] /\ pc[u] \notin {"switch", "walk", "wipe"}
    BY <1>1, <1>3, OnlyOneFlushes
  <1>5. ~ Walking /\ ~ Walking' /\ ~ FlushesEmpty' /\ (Copying' <=> Copying)
    BY <1>1, <1>3, <1>4 DEF Walking, FlushesEmpty, Copying
  <1>6. StoredStayDone /\ WrittenStay
    BY <1>1, HistoryGrows
  <1>7. OwnersInv' /\ CloserInv' /\ CrashInv' /\ ~ Crashed' /\ ~ Crashed
    BY <1>1, <1>2, <1>3, OwnersKeep, CloserKeeps, CrashKeeps, NoCrash
  <1>8. /\ \A d \in Buffers : Thinner(mem'[d], mem[d])
        /\ mem'[old][0] = Nul
        /\ \A d \in Buffers \ {old} : mem'[d] = mem[d]
    <2>1. mem' = [mem EXCEPT ![old][0] = Nul]
      BY <1>1
    <2> QED
      BY <2>1, StoreThinner
  <1>9. \A b \in Buffers, o \in Offsets : mem'[b][o] \in Entries =>
            mem[b][o] \in Entries /\ mem'[b][o].msg = mem[b][o].msg
    BY <1>8 DEF Thinner
  <1>10. TailInv'
    <2>1. LeftOver(mem[head], {o \in Offsets : o >= tail.off})'
      <3>1. PICK S : S = {o \in Offsets : o >= tail.off}
        OBVIOUS
      <3>2. PICK b \in Buffers : b = head
        OBVIOUS
      <3>3. LeftOver(mem[b], S)
        BY <3>1, <3>2 DEF TailInv
      <3>4. LeftOver(mem[b], S)'
        <4>1. \A o \in Offsets : mem'[b][o] \in Entries =>
                  mem[b][o] \in Entries /\ mem'[b][o].msg = mem[b][o].msg
          BY <1>9
        <4> HIDE Basics
        <4> QED
          BY <1>6, <3>3, <4>1, LeftOverStays
      <3> QED
        BY <1>1, <3>1, <3>2, <3>4
    <2>2. ASSUME Sound' PROVE SoundTail'
      <3>1. old # head
        BY <1>1, <1>8, <2>2 DEF Sound, EmptyHead
      <3>2. mem'[head] = mem[head]
        BY <1>8, <3>1
      <3>3. Sound
        BY <1>1, <1>7, <2>2, <3>1, <3>2 DEF Sound, EmptyHead, FlushesEmpty
      <3> QED
        BY <1>1, <1>5, <3>2, <3>3 DEF TailInv, SoundTail, Gapless, EndOf, Avail, Used, Usable
    <2> QED
      BY <1>1, <2>1, <2>2 DEF TailInv
  <1>11. OtherInv'
    <2>1. LeftOver(mem[Other(head)], Offsets)'
      BY <1>1, <1>5, <1>6, <1>9, LeftOverStays DEF OtherInv, RealWalk, Other
    <2> QED
      BY <1>5, <2>1 DEF OtherInv, RealWalk
  <1>12. DueInv'
    <2> SUFFICES ASSUME NEW m \in due PROVE Tended(m)'
      BY DEF DueInv
    <2>1. m \in Msgs /\ Tended(m) /\ closer # None
      BY DEF CloserInv, DueInv
    <2>2. CASE Written(m)
      BY <1>6, <2>1, <2>2 DEF WrittenStay, Tended
    <2>3. CASE Live(m) /\ MayBeLive
      <3>1. MayBeLive'
        BY <1>1, <1>3, <1>4, <2>1, <2>3, CloserTyped DEF MayBeLive
      <3>2. old # head
        BY <1>1, <2>3 DEF Live, FlushesEmpty
      <3>3. mem'[head] = mem[head]
        BY <1>8, <3>2
      <3>4. Live(m)'
        BY <1>1, <1>5, <2>3, <3>3 DEF Live, InHead, EmptyHead, BeginsAt
      <3> QED
        BY <3>1, <3>4 DEF Tended
    <2>4. CASE InOld(m)
      BY <1>5, <2>4 DEF InOld
    <2> QED
      BY <2>1, <2>2, <2>3, <2>4 DEF Tended
  <1> QED
    BY <1>7, <1>10, <1>11, <1>12

-----------------------------------------------------------------------------
(***************************************************************************)
(* The steps of LogpBufferMessage.                                         *)
(***************************************************************************)

(* The head buffer below the tail stays as it is, and so does the other buffer;
   the tail moves only behind a message of its own. *)
BelowStays ==
    /\ UNCHANGED <<head, old, cursor, resource>>
    /\ mem'[Other(head)] = mem[Other(head)]
    /\ tail'.off \in Nat /\ tail'.off >= tail.off
    /\ \A o \in Offsets : o < tail.off => mem'[head][o] = mem[head][o]
    /\ \A o \in Offsets : o >= tail'.off /\ mem'[head][o] \in Entries =>
         mem[head][o] \in Entries /\ mem'[head][o].msg = mem[head][o].msg

LEMMA CopyKeeps ==
    ASSUME BaseInv, EndInv, NEW t \in Threads, NEW where, Goto(t, where), Unended,
           pc[t] \in {"buffer", "copy", "term"},
           where \in {"copy", "term", "idle", "sleep", "disable"},
           where = "disable" => t = closer,
           where \in {"copy", "term"} => spin' = t,
           spin' = spin \/ spin \in {None, t}, spin' \in {spin, None, t},
           BelowStays, Sound' => SoundTail', StoredStayDone, WrittenStay
    PROVE  EndInv'
  <1> USE Basics DEF EndInv, BuffersInv, Unended
  <1>1. /\ UNCHANGED <<head, old, cursor, resource, closer, ending, due>>
        /\ mem'[Other(head)] = mem[Other(head)]
        /\ tail'.off \in Nat /\ tail'.off >= tail.off
        /\ \A o \in Offsets : o < tail.off => mem'[head][o] = mem[head][o]
        /\ \A o \in Offsets : o >= tail'.off /\ mem'[head][o] \in Entries =>
               mem[head][o] \in Entries /\ mem'[head][o].msg = mem[head][o].msg
    BY DEF BelowStays
  <1>2. pc' = [pc EXCEPT ![t] = where] /\ pc'[t] = where
    BY DEF Goto
  <1>3. \A u \in Threads \ {t} : pc'[u] = pc[u]
    BY <1>2
  <1>4. (Walking' <=> Walking) /\ (FlushesEmpty' <=> FlushesEmpty)
    BY <1>1, <1>2, <1>3 DEF Walking, FlushesEmpty
  <1>5. OwnersInv' /\ CloserInv' /\ CrashInv'
    BY <1>1, OwnersKeep, CloserKeeps, CrashKeeps
  <1>6. tail.off > 0 => (EmptyHead' <=> EmptyHead)
    BY <1>1 DEF EmptyHead
  <1>7. TailInv'
    <2>1. ASSUME NEW o \in Offsets, o >= tail'.off, mem'[head][o] \in Entries
          PROVE  Done(mem[head][o].msg)'
      <3>1. mem[head][o] \in Entries /\ mem'[head][o].msg = mem[head][o].msg /\ o >= tail.off
        BY <1>1, <2>1 DEF Offsets
      <3>2. PICK m \in Msgs : m = mem[head][o].msg
        BY <3>1 DEF Entries
      <3>3. Stored(m) /\ Done(m)
        BY <3>1, <3>2 DEF TailInv, LeftOver, Stored, BeginsAt
      <3> QED
        BY <1>1, <3>1, <3>2, <3>3 DEF StoredStayDone, Done, InFile
    <2>2. LeftOver(mem[head], {o \in Offsets : o >= tail.off})'
      BY <1>1, <2>1 DEF LeftOver
    <2> QED
      BY <2>2 DEF TailInv
  <1>8. RealWalk' <=> RealWalk
    BY <1>1, <1>4 DEF RealWalk
  <1>9. OtherInv'
    <2>1. PICK b \in Buffers : b = Other(head)
      OBVIOUS
    <2>2. \A o \in Offsets : mem'[b][o] \in Entries =>
              mem[b][o] \in Entries /\ mem'[b][o].msg = mem[b][o].msg
      BY <1>1, <2>1
    <2>3. CASE RealWalk
      <3>1. old = b
        BY <2>1, <2>3 DEF RealWalk, Other, Buffers
      <3>2. PICK end \in Offsets : Ahead(end)
        BY <2>3 DEF OtherInv
      <3>3. PICK S : S = {o \in Offsets : o < cursor \/ o >= end}
        OBVIOUS
      <3>4. LeftOver(mem[b], S)
        BY <3>1, <3>2, <3>3 DEF Ahead
      <3>5. LeftOver(mem[b], S)'
        BY <2>2, <3>4, LeftOverStays
      <3>6. Ahead(end)'
        BY <1>1, <2>1, <3>1, <3>2, <3>3, <3>5 DEF Ahead, Gapless, EndOf
      <3> QED
        BY <1>8, <2>3, <3>6 DEF OtherInv
    <2>4. CASE ~ RealWalk
      <3>1. LeftOver(mem[b], Offsets)'
        BY <2>1, <2>2, <2>4, LeftOverStays DEF OtherInv
      <3> QED
        BY <1>1, <1>8, <2>1, <2>4, <3>1 DEF OtherInv
    <2> QED
      BY <2>3, <2>4
  <1>10. DueInv'
    <2> SUFFICES ASSUME NEW m \in due PROVE Tended(m)'
      BY DEF DueInv
    <2>1. m \in Msgs /\ Tended(m) /\ closer # None
      BY DEF CloserInv, DueInv
    <2>2. closer \in Threads
      BY <2>1, CloserTyped
    <2>3. CASE Written(m)
      BY <2>1, <2>3 DEF WrittenStay, Tended
    <2>4. CASE Live(m) /\ MayBeLive
      <3>1. PICK o \in 0 .. tail.off - 1 : BeginsAt(head, o, m)
        BY <2>4 DEF Live, InHead
      <3>2. o \in Offsets /\ o < tail.off /\ tail.off > 0 /\ o \in 0 .. tail'.off - 1
        BY <1>1 DEF Offsets
      <3>3. InHead(m)'
        BY <1>1, <1>6, <2>4, <3>1, <3>2 DEF Live, InHead, BeginsAt
      <3>4. MayBeLive'
        BY <1>1, <1>2, <1>3, <2>2, <2>4 DEF MayBeLive
      <3> QED
        BY <1>4, <2>4, <3>3, <3>4 DEF Live, Tended
    <2>5. CASE InOld(m) /\ old # head /\ MayBeOld
      <3>1. old = Other(head)
        BY <2>5 DEF Other, Buffers
      <3>2. InOld(m)'
        BY <1>1, <1>4, <2>5, <3>1 DEF InOld, BeginsAt
      <3>3. MayBeOld'
        BY <1>1, <1>2, <1>3, <2>2, <2>5 DEF MayBeOld
      <3> QED
        BY <1>1, <2>5, <3>2, <3>3 DEF Tended
    <2> QED
      BY <2>1, <2>3, <2>4, <2>5 DEF Tended
  <1> QED
    BY <1>5, <1>7, <1>9, <1>10

(* What lies below the tail does not change. *)
LEMMA TailSame ==
    ASSUME BaseInv, UNCHANGED <<head, tail>>,
           \A o \in Offsets : o < tail.off => mem'[head][o] = mem[head][o],
           Gapless(mem[head], 0, tail.off)
    PROVE  Gapless(mem[head], 0, tail.off)'
  <1> USE Basics
  <1>1. SameBelow(mem'[head], mem[head], tail.off) /\ tail.off < BufferSize
    BY DEF SameBelow, Offsets
  <1>2. Gapless(mem'[head], 0, tail.off)
    BY <1>1, GaplessSame
  <1> QED
    BY <1>2 DEF Gapless, EndOf

(* The one thread that copies. *)
LEMMA OneCopies ==
    ASSUME BaseInv, OwnersInv, NEW t \in Threads, spin \in {None, t}
    PROVE  \A u \in Threads \ {t} : pc[u] \notin {"copy", "term"}
  BY Basics DEF OwnersInv

(* A step of an append is not one of a flush. *)
LEMMA CopyMoves ==
    ASSUME BaseInv, EndInv, NEW t \in Threads, NEW where, Goto(t, where), UNCHANGED <<old, head>>,
           pc[t] \in {"buffer", "copy", "term"}, where \in {"copy", "term", "idle", "sleep", "disable"},
           spin \in {None, t}
    PROVE  /\ FlushesEmpty' <=> FlushesEmpty
           /\ ~ Crashed' /\ ~ Crashed
           /\ Copying <=> pc[t] = "copy"
           /\ Copying' <=> where = "copy"
  <1> USE Basics DEF EndInv, BuffersInv
  <1>1. pc' = [pc EXCEPT ![t] = where] /\ pc'[t] = where
    BY DEF Goto
  <1>2. \A u \in Threads \ {t} : pc'[u] = pc[u] /\ pc[u] \notin {"copy", "term"}
    BY <1>1, OneCopies
  <1>3. ~ Crashed' /\ ~ Crashed
    BY CrashKeeps, NoCrash
  <1> QED
    BY <1>1, <1>2, <1>3 DEF FlushesEmpty, Copying

LEMMA StartKeeps ==
    ASSUME BaseInv, EndInv, NEW t \in Threads, StartCopy(t), Unended
    PROVE  EndInv'
  <1> USE Basics
  <1>1. /\ pc[t] = "buffer" /\ spin = None /\ spin' = t /\ Goto(t, "copy")
        /\ UNCHANGED <<head, tail, old, cursor, resource, file, outcome>>
        /\ mem' = IF Avail(tail) > 1 THEN [mem EXCEPT ![head][tail.off] = Begun] ELSE mem
    BY DEF StartCopy, flushVars
  <1>2. /\ \A b \in Buffers : Thinner(mem'[b], mem[b])
        /\ mem'[Other(head)] = mem[Other(head)]
        /\ \A p \in Offsets : p < tail.off => mem'[head][p] = mem[head][p]
        /\ Avail(tail) > 1 => mem'[head][tail.off] = Begun
    <2>1. CASE Avail(tail) > 1
      <3>1. mem' = [mem EXCEPT ![head][tail.off] = Begun]
        BY <1>1, <2>1
      <3>2. /\ \A b \in Buffers : Thinner(mem'[b], mem[b])
            /\ mem'[head][tail.off] = Begun
            /\ \A p \in Offsets \ {tail.off} : mem'[head][p] = mem[head][p]
            /\ \A b \in Buffers \ {head} : mem'[b] = mem[b]
        BY <3>1, StoreThinner
      <3> QED
        BY <3>2
    <2>2. CASE ~ Avail(tail) > 1
      BY <1>1, <2>2 DEF Thinner
    <2> QED
      BY <2>1, <2>2
  <1>3. StoredStayDone /\ WrittenStay
    BY <1>1, HistoryGrows
  <1>4. BelowStays
    BY <1>1, <1>2 DEF BelowStays, Thinner
  <1>5. ASSUME Sound' PROVE SoundTail'
    <2>1. (FlushesEmpty' <=> FlushesEmpty) /\ ~ Crashed
      BY <1>1, CopyMoves
    <2>2. Gapless(mem[head], 0, tail.off)
      <3>1. CASE tail.off = 0
        BY <3>1 DEF Gapless
      <3>2. CASE tail.off > 0
        BY <1>1, <1>2, <1>5, <2>1, <3>2
        DEF Sound, EmptyHead, EndInv, BuffersInv, TailInv, SoundTail
      <3> QED
        BY <3>1, <3>2
    <2>3. Gapless(mem[head], 0, tail.off)'
      BY <1>1, <1>2, <2>2, TailSame
    <2> QED
      BY <1>1, <1>2, <2>3 DEF SoundTail, Avail, Used
  <1> QED
    BY <1>1, <1>3, <1>4, <1>5, CopyKeeps

LEMMA TerminateKeeps ==
    ASSUME BaseInv, EndInv, NEW t \in Threads, Terminate(t), Unended
    PROVE  EndInv'
  <1> USE Basics
  <1>1. /\ pc[t] = "term" /\ spin' = None
        /\ mem' = [mem EXCEPT ![head][tail.off] = Nul]
        /\ UNCHANGED <<head, tail, old, cursor, resource, file, outcome>>
    BY DEF Terminate, flushVars
  <1>2. PICK where \in {"idle", "sleep", "disable"} :
            Goto(t, where) /\ (where = "disable" => t = closer)
    BY DEF Terminate, Return
  <1>3. /\ \A b \in Buffers : Thinner(mem'[b], mem[b])
        /\ mem'[Other(head)] = mem[Other(head)]
        /\ \A p \in Offsets : p < tail.off => mem'[head][p] = mem[head][p]
        /\ mem'[head][tail.off] = Nul
    <2>1. mem' = [mem EXCEPT ![head][tail.off] = Nul]
      BY <1>1
    <2>2. /\ \A b \in Buffers : Thinner(mem'[b], mem[b])
          /\ mem'[head][tail.off] = Nul
          /\ \A p \in Offsets \ {tail.off} : mem'[head][p] = mem[head][p]
          /\ \A b \in Buffers \ {head} : mem'[b] = mem[b]
      BY <2>1, StoreThinner
    <2> QED
      BY <2>2
  <1>4. spin = t
    BY <1>1 DEF EndInv, BuffersInv, OwnersInv
  <1>5. StoredStayDone /\ WrittenStay
    BY <1>1, HistoryGrows
  <1>6. BelowStays
    BY <1>1, <1>3 DEF BelowStays, Thinner
  <1>7. ASSUME Sound' PROVE SoundTail'
    <2>1. (FlushesEmpty' <=> FlushesEmpty) /\ ~ Crashed /\ ~ Copying'
      BY <1>1, <1>2, <1>4, CopyMoves
    <2>2. tail.off > 0
      BY <1>1, <1>3, <1>7 DEF Sound, EmptyHead
    <2>3. Gapless(mem[head], 0, tail.off)
      BY <1>1, <1>3, <1>7, <2>1, <2>2 DEF Sound, EmptyHead, EndInv, BuffersInv, TailInv, SoundTail
    <2>4. Gapless(mem[head], 0, tail.off)'
      BY <1>1, <1>3, <2>3, TailSame
    <2> QED
      BY <1>1, <1>3, <2>1, <2>4 DEF SoundTail
  <1> QED
    BY <1>1, <1>2, <1>4, <1>5, <1>6, <1>7, CopyKeeps

(* What the end of a copy does to the fate of the message, and where it leaves the
   buffers if they looked empty. *)
LEMMA CopyFinishes ==
    ASSUME BaseInv, EndInv, NEW t \in Threads, FinishCopy(t)
    PROVE  /\ pc[t] = "copy" /\ Goto(t, "term") /\ spin = t /\ op[t].msg \in Msgs
           /\ UNCHANGED <<head, spin, old, cursor, resource, file>>
           /\ StoredStayDone /\ WrittenStay
           /\ mem'[Other(head)] = mem[Other(head)]
           /\ \A p \in Offsets : p < tail.off => mem'[head][p] = mem[head][p]
           /\ EmptyHead => EmptyHead'
  <1> USE Basics
  <1>1. /\ pc[t] = "copy" /\ Goto(t, "term")
        /\ UNCHANGED <<head, spin, old, cursor, resource, file>>
    BY DEF FinishCopy, flushVars
  <1>2. spin = t
    BY <1>1 DEF EndInv, BuffersInv, OwnersInv
  <1>3. PICK m \in Msgs : m = op[t].msg /\ outcome[m] = "put"
    <2>1. op[t] \in Calls
      BY <1>1 DEF BaseInv, TypeInv, CallInv, HoldingPCs
    <2> QED
      BY <1>1, <2>1, CallsAreCalls DEF BaseInv, FateInv, OwnerInv, IsOpen, OpenPCs, BusyPCs, Calls
  <1>4. StoredStayDone /\ WrittenStay
    <2>1. \A d \in Msgs : outcome'[d] = outcome[d] \/ outcome[d] = "put"
      BY <1>3 DEF FinishCopy, BaseInv, TypeInv, TypeOK
    <2> QED
      BY <1>1, <2>1, HistoryGrows
  <1>5. CASE mem' = mem
    BY <1>1, <1>2, <1>3, <1>4, <1>5 DEF EmptyHead
  <1>6. CASE mem' # mem
    <2>1. PICK cell, first :
              /\ first \in Surviving(mem[head][tail.off], cell)
              /\ mem' = [mem EXCEPT ![head] = Overwrite(@, tail.off, Copied(op[t].msg), first)]
      BY <1>6 DEF FinishCopy
    <2>2. PICK n \in Nat : n = Copied(op[t].msg) /\ n > 0
      BY <1>3, <1>6 DEF FinishCopy, Copied, Avail, Used
    <2>3. PICK new : new = Overwrite(mem[head], tail.off, n, first)
      OBVIOUS
    <2>4. mem'[head] = new /\ mem'[Other(head)] = mem[Other(head)]
      BY <2>1, <2>2, <2>3
    <2>5. \A p \in Offsets : p < tail.off => new[p] = mem[head][p]
      BY <2>2, <2>3 DEF Overwrite, Offsets
    <2>6. tail.off = 0 /\ mem[head][0] = Nul => new[0] = Nul
      <3>1. mem[head][tail.off] = Nul => first = Nul
        BY <2>1 DEF Surviving
      <3> QED
        BY <2>2, <2>3, <3>1 DEF Overwrite, Offsets
    <2>7. EmptyHead => EmptyHead'
      BY <1>1, <2>4, <2>5, <2>6 DEF EmptyHead, Offsets
    <2> QED
      BY <1>1, <1>2, <1>3, <1>4, <2>4, <2>5, <2>7
  <1> QED
    BY <1>5, <1>6

(* A message that does not fit is cut off. *)
LEMMA CutOffKeeps ==
    ASSUME BaseInv, EndInv, NEW t \in Threads, FinishCopy(t), ~ Fits(tail, op[t].msg), Unended
    PROVE  EndInv'
  <1> USE Basics
  <1>1. /\ pc[t] = "copy" /\ Goto(t, "term") /\ spin = t
        /\ UNCHANGED <<head, spin, old, cursor, resource, file>>
        /\ StoredStayDone /\ WrittenStay
        /\ mem'[Other(head)] = mem[Other(head)]
        /\ \A p \in Offsets : p < tail.off => mem'[head][p] = mem[head][p]
        /\ EmptyHead => EmptyHead'
    BY CopyFinishes
  <1>2. tail' = tail
    BY DEF FinishCopy
  <1>3. \A b \in Buffers : Thinner(mem'[b], mem[b])
    BY CutOffThins
  <1>4. BelowStays
    BY <1>1, <1>2, <1>3 DEF BelowStays, Thinner
  <1>5. ASSUME Sound' PROVE SoundTail'
    <2>1. (FlushesEmpty' <=> FlushesEmpty) /\ ~ Crashed /\ ~ Copying'
      BY <1>1, CopyMoves
    <2>2. Gapless(mem[head], 0, tail.off)
      BY <1>1, <1>5, <2>1 DEF Sound, EndInv, BuffersInv, TailInv, SoundTail
    <2>3. Gapless(mem[head], 0, tail.off)'
      BY <1>1, <1>2, <2>2, TailSame
    <2> QED
      BY <1>1, <2>1, <2>3 DEF SoundTail
  <1> QED
    BY <1>1, <1>4, <1>5, CopyKeeps

(* A message that fits follows the ones before it. *)
LEMMA AppendKeeps ==
    ASSUME BaseInv, EndInv, NEW t \in Threads, FinishCopy(t), Fits(tail, op[t].msg), Unended
    PROVE  EndInv'
  <1> USE Basics
  <1>1. /\ pc[t] = "copy" /\ Goto(t, "term") /\ spin = t
        /\ UNCHANGED <<head, spin, old, cursor, resource, file>>
        /\ StoredStayDone /\ WrittenStay
        /\ mem'[Other(head)] = mem[Other(head)]
        /\ \A p \in Offsets : p < tail.off => mem'[head][p] = mem[head][p]
        /\ EmptyHead => EmptyHead'
    BY CopyFinishes
  <1>2. PICK m \in Msgs, off \in Nat : m = op[t].msg /\ off = tail.off
    BY CopyFinishes
  <1>3. /\ tail' = [tail EXCEPT !.off = @ + Size[m]]
        /\ tail'.off = off + Size[m] /\ off + Size[m] <= Usable
    <2>1. tail' = [tail EXCEPT !.off = @ + Size[m]]
      BY <1>2 DEF FinishCopy
    <2> QED
      BY <1>2, <2>1 DEF BaseInv, TypeInv, TypeOK, Fits, Avail, Used
  <1>4. BelowStays
    <2>1. \A o \in Offsets : mem'[head][o] \in Entries =>
              o = off \/ (mem[head][o] \in Entries /\ mem'[head][o].msg = mem[head][o].msg)
      BY <1>2, FinishCopyEntries DEF BaseInv
    <2>2. \A o \in Offsets : o >= off + Size[m] => o # off
      BY <1>2 DEF Offsets
    <2> QED
      BY <1>1, <1>2, <1>3, <2>1, <2>2 DEF BelowStays
  <1>5. ASSUME Sound' PROVE SoundTail'
    <2>1. (FlushesEmpty' <=> FlushesEmpty) /\ ~ Crashed /\ ~ Copying' /\ Copying
      BY <1>1, CopyMoves
    <2>2. Gapless(mem[head], 0, off) /\ (Avail(tail) > 1 => mem[head][tail.off] = Begun)
      BY <1>1, <1>2, <1>5, <2>1 DEF Sound, EndInv, BuffersInv, TailInv, SoundTail
    <2>3. /\ mem'[head][off] \in Entries /\ EndOf(mem'[head], off) = off + Size[m]
          /\ \A p \in Offsets : mem'[head][p] \in Entries =>
                p = off \/ (mem'[head][p] = mem[head][p] /\ (p < off \/ p >= off + Size[m]))
      BY <1>2, <2>2, WholeAppend
    <2>4. PICK end \in Nat : end = off + Size[m] /\ end < BufferSize /\ off < end
      BY <1>2, <1>3
    <2>5. Gapless(mem'[head], 0, end)
      <3>1. \A p \in Offsets : p > off /\ p < end => mem'[head][p] \notin Entries
        BY <1>2, <2>3, <2>4 DEF Offsets
      <3>2. \A p \in Offsets : p < off => mem'[head][p] = mem[head][p]
        BY <1>1, <1>2
      <3> HIDE Basics
      <3> QED
        BY <2>2, <2>3, <2>4, <3>1, <3>2, GaplessAppend
    <2>6. Gapless(mem[head], 0, tail.off)'
      BY <1>1, <1>3, <2>4, <2>5 DEF Gapless, EndOf
    <2> QED
      BY <1>1, <2>1, <2>6 DEF SoundTail
  <1> QED
    BY <1>1, <1>4, <1>5, CopyKeeps

-----------------------------------------------------------------------------
(***************************************************************************)
(* Steps that leave the buffers alone, again.                              *)
(***************************************************************************)

LEMMA AcquireKeeps ==
    ASSUME BaseInv, EndInv, NEW t \in Threads, AcquireResource(t), Unended
    PROVE  EndInv'
  <1> USE Basics
  <1>1. /\ UNCHANGED <<mem, head, tail, spin, old, cursor, closer, ending, due, file, outcome>>
        /\ pc[t] = "flush" /\ resource = None /\ resource' = t /\ Goto(t, "switch")
    BY DEF AcquireResource, bufferVars, callVars, Unended
  <1>2. pc' = [pc EXCEPT ![t] = "switch"] /\ pc'[t] = "switch"
    BY <1>1 DEF Goto
  <1>3. ~ Walking
    BY <1>1 DEF Walking, EndInv, BuffersInv, OwnersInv
  <1>4. StoredStayDone /\ WrittenStay
    BY <1>1, HistoryGrows
  <1>5. /\ ending \in {"none", "finalizing"} \cup Byes
        /\ closer # None /\ ending \in {"join", "close", "freed"} =>
               pc'[closer] \in {"drain", "fault"}
    BY <1>1, <1>2, CloserTyped DEF EndInv, CloserInv
  <1>6. t = closer => MayBeLive'
    BY <1>1, <1>2 DEF MayBeLive
  <1> QED
    BY <1>1, <1>3, <1>4, <1>5, <1>6, OneMoves DEF MovingPCs

(* A step of a thread before or after its turn at the buffers. *)
LEMMA PlainMoves ==
    ASSUME BaseInv, EndInv, NEW t \in Threads, NEW where, Goto(t, where),
           UNCHANGED <<mem, head, tail, spin, resource, old, cursor, closer, due>>,
           ending' = ending \/ (closer = None /\ ending' = "finalizing"),
           pc[t] \in {"idle", "await", "start", "started", "sleep", "write", "disable", "drain"},
           pc[t] = "drain" => ending = "none",
           where \in {"idle", "started", "sleep", "flush", "buffer", "disable", "drain", "down"},
           where \in {"disable", "drain", "down"} => t = closer,
           where = "down" => EmptyHead,
           file' = file \/ \E x \in Msgs \cup {Torn} : file' = Append(file, x),
           \A m \in Msgs : outcome'[m] = outcome[m] \/ outcome[m] \in {"new", "put"}
    PROVE  EndInv'
  <1> USE Basics
  <1>1. pc' = [pc EXCEPT ![t] = where] /\ pc'[t] = where
    BY DEF Goto
  <1>2. StoredStayDone /\ WrittenStay
    BY HistoryGrows
  <1>3. closer = None => ending \notin Byes /\ "finalizing" \notin Byes
    BY DEF EndInv, CloserInv, Byes
  <1>4. /\ ending' \in Byes <=> ending \in Byes
        /\ ending' \in {"none", "finalizing"} \cup Byes
    BY <1>3 DEF EndInv, CloserInv
  <1>5. closer # None /\ ending' \in {"join", "close", "freed"} =>
            pc'[closer] \in {"drain", "fault"}
    <2> SUFFICES ASSUME closer # None, ending' \in {"join", "close", "freed"}
                 PROVE  pc'[closer] \in {"drain", "fault"}
      OBVIOUS
    <2>1. ending' = ending /\ pc[closer] \in {"drain", "fault"}
      BY DEF EndInv, CloserInv
    <2>2. closer # t
      BY <2>1
    <2> QED
      BY <1>1, <2>1, <2>2, CloserTyped
  <1>6. t = closer /\ MayBeLive /\ ~ EmptyHead => MayBeLive'
    BY <1>1, <1>4 DEF MayBeLive
  <1>7. t = closer /\ MayBeOld /\ Walking => MayBeOld'
    BY <1>1, <1>4 DEF MayBeOld
  <1> QED
    BY <1>2, <1>4, <1>5, <1>6, <1>7, OneMoves DEF MovingPCs

(* Several threads at once leave places that have nothing to do with the log, for
   others of that kind. *)
LEMMA AsideMove ==
    ASSUME BaseInv, EndInv, Unended,
           UNCHANGED <<mem, head, tail, spin, resource, old, cursor, file, outcome>>,
           \A u \in Threads : \/ pc'[u] = pc[u]
                              \/ /\ pc[u] \in {"idle", "await", "off", "start"}
                                 /\ pc'[u] \in {"idle", "await", "start", "never"}
    PROVE  EndInv'
  <1> USE Basics DEF Unended
  <1>1. Still
    BY DEF Still, Settled
  <1>2. StoredStayDone /\ WrittenStay
    BY HistoryGrows
  <1>3. OwnersInv'
    BY DEF EndInv, BuffersInv, OwnersInv
  <1>4. CloserInv'
    <2>1. ending \in {"join", "close", "freed"} => pc'[closer] \in {"drain", "fault"}
      BY CloserTyped DEF EndInv, CloserInv, Byes
    <2>2. \A u \in Writers : pc'[u] \in {"disable", "drain", "down"} => u = closer
      BY DEF EndInv, CloserInv
    <2> QED
      BY <2>1, <2>2 DEF EndInv, CloserInv
  <1>5. closer # None /\ MayBeLive => MayBeLive'
    BY CloserTyped DEF MayBeLive
  <1>6. closer # None /\ MayBeOld => MayBeOld'
    BY CloserTyped DEF MayBeOld
  <1> QED
    BY <1>1, <1>2, <1>3, <1>4, <1>5, <1>6, StillStep

LEMMA ActivationKeeps ==
    ASSUME BaseInv, EndInv, Activation, Unended
    PROVE  EndInv'
  <1> USE Basics
  <1>1. CASE FailToActivate
    <2>1. \A u \in Threads : \/ pc'[u] = pc[u]
                             \/ /\ pc[u] \in {"idle", "await", "off", "start"}
                                /\ pc'[u] \in {"idle", "await", "start", "never"}
      BY <1>1 DEF FailToActivate
    <2> QED
      BY <1>1, <2>1, AsideMove DEF FailToActivate, bufferVars, flushVars
  <1>2. ASSUME NEW t \in Writers, Activate(t) PROVE EndInv'
    <2>1. \A u \in Threads : \/ pc'[u] = pc[u]
                             \/ /\ pc[u] \in {"idle", "await", "off", "start"}
                                /\ pc'[u] \in {"idle", "await", "start", "never"}
      BY <1>2 DEF Activate
    <2> QED
      BY <1>2, <2>1, AsideMove DEF Activate, bufferVars, flushVars
  <1> QED
    BY <1>1, <1>2 DEF Activation

(* What a call of LogpPut does at once. *)
LEMMA PutIs ==
    ASSUME BaseInv, NEW t \in Threads, NEW m \in Msgs, NEW ctx, LogpPut(t, m, ctx)
    PROVE  /\ UNCHANGED <<mem, head, tail, spin, resource, old, cursor, file, alive>>
           /\ Goto(t, IF CanLogToFileNow(ctx) THEN "flush" ELSE "buffer")
           /\ \A d \in Msgs : outcome'[d] = outcome[d] \/ outcome[d] = "new"
  BY DEF LogpPut, TakeMessage, bufferVars, flushVars, BaseInv, TypeInv, TypeOK

LEMMA PutKeeps ==
    ASSUME BaseInv, EndInv, NEW t \in Threads, NEW m \in Msgs, NEW ctx, LogpPut(t, m, ctx),
           pc[t] \in {"idle", "await", "started"}, UNCHANGED <<closer, due>>,
           ending' = ending \/ (closer = None /\ ending' = "finalizing")
    PROVE  EndInv'
  <1>1. PICK where \in {"flush", "buffer"} : Goto(t, where)
    BY PutIs
  <1> QED
    BY <1>1, PutIs, PlainMoves

LEMMA FlushThreadKeeps ==
    ASSUME BaseInv, EndInv, FlushThreadStep, Unended
    PROVE  EndInv'
  <1> USE Basics
  <1>1. CASE ThreadStarts \/ StartSilently \/ FlushThreadRound
    <2>1. PICK where \in {"started", "sleep", "flush"} : Goto(FlushThread, where)
      BY <1>1 DEF ThreadStarts, StartSilently, FlushThreadRound
    <2>2. /\ pc[FlushThread] \in {"start", "started", "sleep"}
          /\ UNCHANGED <<mem, head, tail, spin, resource, old, cursor, file, outcome>>
      BY <1>1 DEF ThreadStarts, StartSilently, FlushThreadRound, bufferVars, flushVars
    <2> QED
      BY <2>1, <2>2, PlainMoves DEF Unended
  <1>2. ASSUME NEW m \in Msgs, LogThreadStarted(m) PROVE EndInv'
    BY <1>2, PutKeeps DEF LogThreadStarted, Unended
  <1> QED
    BY <1>1, <1>2 DEF FlushThreadStep

LEMMA MessageKeeps ==
    ASSUME BaseInv, EndInv, NEW t \in Threads, WriteMessageToFile(t), Unended
    PROVE  EndInv'
  <1> USE Basics
  <1>1. pc[t] = "write" /\ op[t].msg \in Msgs /\ outcome[op[t].msg] = "put"
    <2>1. op[t] \in Calls /\ pc[t] = "write"
      BY DEF WriteMessageToFile, BaseInv, TypeInv, CallInv, HoldingPCs
    <2> QED
      BY <2>1, CallsAreCalls DEF BaseInv, FateInv, OwnerInv, IsOpen, OpenPCs, BusyPCs, Calls
  <1>2. UNCHANGED <<mem, head, tail, spin, resource, old, cursor, closer, ending, due>>
    BY DEF WriteMessageToFile, bufferVars, flushVars, Unended
  <1>3. file' = file \/ \E x \in Msgs \cup {Torn} : file' = Append(file, x)
    BY <1>1 DEF WriteMessageToFile
  <1>4. \A m \in Msgs : outcome'[m] = outcome[m] \/ outcome[m] \in {"new", "put"}
    BY <1>1 DEF WriteMessageToFile, BaseInv, TypeInv, TypeOK
  <1>5. PICK where \in {"idle", "sleep", "disable"} :
            Goto(t, where) /\ (where = "disable" => t = closer)
    BY DEF WriteMessageToFile, Return
  <1> QED
    BY <1>1, <1>2, <1>3, <1>4, <1>5, PlainMoves

LEMMA WriterKeeps ==
    ASSUME BaseInv, EndInv, NEW t \in Writers, WriterStep(t), Unended,
           Drained(t) => ending = "none"
    PROVE  EndInv'
  <1> USE Basics
  <1>1. ASSUME NEW m \in Msgs, ReportActivation(t, m) PROVE EndInv'
    BY <1>1, PutKeeps DEF ReportActivation, Unended
  <1>2. CASE ActivateSilently(t) \/ DisableLog(t) \/ Drained(t)
    <2>1. /\ UNCHANGED <<mem, head, tail, spin, resource, old, cursor, file, outcome>>
          /\ \/ pc[t] = "await" /\ Goto(t, "idle")
             \/ pc[t] = "disable" /\ Goto(t, "drain")
             \/ pc[t] = "drain" /\ Goto(t, "down") /\ EmptyHead /\ ending = "none"
      BY <1>2 DEF ActivateSilently, DisableLog, Drained, bufferVars, flushVars
    <2>2. pc[t] \in {"disable", "drain"} => t = closer
      BY DEF EndInv, CloserInv
    <2> QED
      BY <2>1, <2>2, PlainMoves DEF Unended
  <1> QED
    BY <1>1, <1>2 DEF WriterStep

LEMMA PrintKeeps ==
    ASSUME BaseInv, EndInv, NEW t \in Writers, NEW m \in Msgs, NEW ctx,
           LogpPrint(t, m, ctx), Unended
    PROVE  EndInv'
  <1> USE Basics
  <1>1. CASE LogpPut(t, m, ctx)
    BY <1>1, PutKeeps DEF LogpPrint, Unended
  <1>2. CASE LogpPutDropped(t, m, ctx)
    <2>1. /\ UNCHANGED <<mem, head, tail, spin, resource, old, cursor, file, pc>>
          /\ pc[t] = "idle"
          /\ \A d \in Msgs : outcome'[d] = outcome[d] \/ outcome[d] = "new"
      BY <1>2 DEF LogpPrint, LogpPutDropped, bufferVars, flushVars, BaseInv, TypeInv, TypeOK
    <2>2. Goto(t, "idle")
      BY <2>1 DEF Goto
    <2> QED
      BY <2>1, <2>2, PlainMoves DEF Unended
  <1> QED
    BY <1>1, <1>2 DEF LogpPrint

LEMMA FinalizingKeeps ==
    ASSUME BaseInv, EndInv, NEW t \in Writers, NEW m \in Msgs, LogFinalizing(t, m)
    PROVE  EndInv'
  BY PutKeeps, Basics DEF LogFinalizing, CanTerminate

-----------------------------------------------------------------------------
(***************************************************************************)
(* "Bye!" and the steps that end the log.                                  *)
(***************************************************************************)

(* What LogTermination leaves to the flush of its own message, or
   LogIrpShutdownHandler to that of its own. *)
LEMMA ByeKeeps ==
    ASSUME BaseInv, EndInv, NEW t \in Writers, NEW m \in Msgs, LogpPut(t, m, "passive"),
           pc[t] = "idle", closer = None, closer' = t, due' \subseteq Unwritten,
           ending' = ending \/ (ending' = "bye" /\ (alive \/ due' = {}))
    PROVE  EndInv'
  <1> USE Basics
  <1>1. /\ UNCHANGED <<mem, head, tail, spin, resource, old, cursor, file>>
        /\ Goto(t, IF alive THEN "flush" ELSE "buffer")
        /\ \A d \in Msgs : outcome'[d] = outcome[d] \/ outcome[d] = "new"
    BY PutIs DEF CanLogToFileNow
  <1>2. PICK where \in {"flush", "buffer"} : Goto(t, where) /\ (alive => where = "flush")
    BY <1>1
  <1>3. pc' = [pc EXCEPT ![t] = where] /\ pc'[t] = where
    BY <1>2 DEF Goto
  <1>4. \A u \in Threads \ {t} : pc'[u] = pc[u]
    BY <1>3
  <1>5. StoredStayDone /\ WrittenStay
    BY <1>1, HistoryGrows
  <1>6. Still
    BY <1>1, <1>3, <1>4 DEF Still, Settled
  <1>7. BuffersInv'
    <2>1. OwnersInv'
      BY <1>1, <1>2, OwnersKeep DEF EndInv, BuffersInv
    <2> QED
      BY <1>5, <1>6, <2>1, StillBuffers DEF EndInv
  <1>8. CloserInv'
    <2>1. due' \subseteq Msgs
      BY DEF Unwritten
    <2>2. /\ ending \in {"none", "finalizing"}
          /\ \A u \in Writers : pc[u] \notin {"disable", "drain", "down"}
      BY DEF EndInv, CloserInv, Byes
    <2>3. \A u \in Writers : pc'[u] \notin {"disable", "drain", "down"}
      BY <1>2, <1>3, <1>4, <2>2
    <2> QED
      BY <2>1, <2>2, <2>3 DEF CloserInv, Byes
  <1>9. (Walking' <=> Walking) /\ (FlushesEmpty' <=> FlushesEmpty)
    BY <1>6, StillFlushes
  <1>10. DueInv'
    <2> SUFFICES ASSUME NEW d \in due' PROVE Tended(d)'
      BY DEF DueInv
    <2>1. ~ FlushesEmpty /\ (InHead(d) \/ InOld(d))
      BY DEF Unwritten
    <2>2. ending' \notin Byes \/ pc'[t] = "flush"
      BY <1>2, <1>3 DEF EndInv, CloserInv
    <2>3. MayBeLive' /\ MayBeOld'
      BY <1>2, <1>3, <2>2 DEF MayBeLive, MayBeOld
    <2>4. CASE InHead(d)
      <3>1. Live(d)'
        BY <1>1, <1>9, <2>1, <2>4 DEF Live, InHead, EmptyHead, BeginsAt
      <3> QED
        BY <2>3, <3>1 DEF Tended
    <2>5. CASE InOld(d)
      <3>1. InOld(d)' /\ old' # head'
        BY <1>1, <1>9, <2>1, <2>5 DEF InOld, BeginsAt, Walking, FlushesEmpty
      <3> QED
        BY <2>3, <3>1 DEF Tended
    <2> QED
      BY <2>1, <2>4, <2>5
  <1> QED
    BY <1>7, <1>8, <1>10 DEF EndInv

LEMMA EndStepKeeps ==
    ASSUME BaseInv, EndInv, Termination
    PROVE  EndInv'
  <1> USE Basics
  <1>1. /\ UNCHANGED <<mem, head, tail, spin, resource, old, cursor, closer, file, outcome, due>>
        /\ ending \in Byes /\ ending' \in Byes /\ pc[closer] = "drain" /\ closer # None
    BY DEF Termination, StopFlushThread, JoinFlushThread, FreeBuffers, EndStep, bufferVars,
           flushVars, Byes
  <1>2. closer \in Threads /\ closer # FlushThread
    BY <1>1, CloserTyped
  <1>3. StoredStayDone /\ WrittenStay
    BY <1>1, HistoryGrows
  <1>4. ~ MayBeLive /\ ~ MayBeOld
    BY <1>1 DEF MayBeLive, MayBeOld
  <1>5. CASE StopFlushThread \/ FreeBuffers
    <2>1. UNCHANGED pc
      BY <1>5 DEF StopFlushThread, FreeBuffers
    <2>2. Goto(closer, "drain")
      BY <1>1, <1>2, <2>1 DEF Goto
    <2> QED
      BY <1>1, <1>2, <1>3, <1>4, <2>1, <2>2, OneMoves DEF MovingPCs
  <1>6. CASE JoinFlushThread
    <2>1. pc[FlushThread] = "sleep" /\ Goto(FlushThread, "never")
      BY <1>6 DEF JoinFlushThread
    <2>2. pc'[closer] = pc[closer]
      BY <1>2, <2>1 DEF Goto
    <2> QED
      BY <1>1, <1>2, <1>3, <1>4, <2>1, <2>2, OneMoves DEF MovingPCs
  <1> QED
    BY <1>5, <1>6 DEF Termination

-----------------------------------------------------------------------------
(***************************************************************************)
(* The invariant holds.                                                    *)
(***************************************************************************)
LEMMA InitEnd == EndingInit => BaseInv /\ EndInv
  <1> SUFFICES ASSUME EndingInit PROVE BaseInv /\ EndInv
    OBVIOUS
  <1>1. BaseInv
    BY InitTyped, InitBounds, InitFate DEF EndingInit, BaseInv
  <1> USE Basics DEF EndingInit
  <1>2. /\ mem[head][0] = Nul /\ tail.off = 0
        /\ \A b \in Buffers, o \in Offsets : mem[b][o] \notin Entries
    BY <1>1 DEF Init, FreshBuffer
  <1>3. \A t \in Threads : pc[t] \in {"off", "idle"}
    BY <1>1 DEF Init
  <1>4. OwnersInv /\ CrashInv /\ ~ Walking
    BY <1>1, <1>3 DEF OwnersInv, CrashInv, Walking
  <1>5. TailInv
    BY <1>1, <1>2 DEF TailInv, Sound, EmptyHead, LeftOver
  <1>6. OtherInv
    BY <1>1, <1>2, <1>4 DEF OtherInv, RealWalk, LeftOver
  <1>7. CloserInv
    <2>1. \A u \in Writers : pc[u] \notin {"disable", "drain", "down"}
      BY <1>1, <1>3
    <2> QED
      BY <2>1 DEF CloserInv, Byes, Init
  <1>8. DueInv
    BY DEF DueInv
  <1> QED
    BY <1>1, <1>4, <1>5, <1>6, <1>7, <1>8 DEF EndInv, BuffersInv

(* A call of LogpPut by a thread that ends the log. *)
LEMMA PutBase ==
    ASSUME BaseInv, NEW t \in Writers, NEW m \in Msgs, LogpPut(t, m, "passive"),
           closer' \in {closer, t}
    PROVE  BaseInv'
  <1>1. "passive" \in AllContexts /\ closer' \in Writers \cup {None} /\ t \in Threads
    BY DEF AllContexts, BaseInv, TypeInv, TypeOK, Threads
  <1>2. TypeInv'
    BY <1>1, PutTyped DEF BaseInv
  <1>3. BufferBounds'
    BY DEF LogpPut, bufferVars, BaseInv, BufferBounds
  <1>4. FateInv'
    BY <1>1, PutFate DEF BaseInv
  <1> QED
    BY <1>2, <1>3, <1>4 DEF BaseInv

LEMMA NextBase == ASSUME BaseInv, [EndingNext]_endVars PROVE BaseInv'
  <1>1. CASE [Next]_vars
    BY <1>1, NextTyped, NextBounds, NextFate DEF BaseInv
  <1>2. ASSUME NEW t \in Writers, NEW m \in Msgs, LogFinalizing(t, m) \/ LogTermination(t, m)
        PROVE  BaseInv'
    <2>1. LogpPut(t, m, "passive") /\ closer' \in {closer, t}
      BY <1>2 DEF LogFinalizing, LogTermination
    <2> QED
      BY <2>1, PutBase
  <1>3. CASE Termination
    <2>1. /\ UNCHANGED <<bufferVars, flushVars, op, closer, enabled, file, prints, outcome>>
          /\ UNCHANGED pc \/ (pc[FlushThread] = "sleep" /\ Goto(FlushThread, "never"))
          /\ UNCHANGED alive \/ alive' = FALSE
      BY <1>3 DEF Termination, StopFlushThread, JoinFlushThread, FreeBuffers, EndStep
    <2>2. /\ pc' \in [Threads -> WriterPCs \cup FlushThreadPCs]
          /\ pc'[FlushThread] \in FlushThreadPCs
          /\ \A w \in Threads : \/ pc'[w] = pc[w]
                                \/ pc[w] = "sleep" /\ pc'[w] = "never"
          /\ \A w \in Writers : pc'[w] = pc[w]
      BY <2>1, Basics DEF Goto, FlushThreadPCs, BaseInv, TypeInv, CallInv
    <2>3. TypeInv'
      <3>1. \A w \in Threads : pc'[w] \in HoldingPCs => pc'[w] = pc[w]
        BY <2>2 DEF HoldingPCs
      <3>2. \A w \in Threads : pc'[w] \in QuietPCs => op[w] = NoCall
        BY <2>2 DEF BaseInv, TypeInv, CallInv, QuietPCs, BusyPCs, FlushThreadPCs
      <3> QED
        BY <2>1, <2>2, <3>1, <3>2
        DEF BaseInv, TypeInv, TypeOK, CallInv, bufferVars, flushVars
    <2>4. BufferBounds'
      BY <2>1 DEF BaseInv, BufferBounds, bufferVars
    <2>5. FateInv'
      <3>1. \A u \in Threads : pc'[u] \in OpenPCs => pc[u] \in OpenPCs \/ op[u] = NoCall
        BY <2>2 DEF OpenPCs, BusyPCs
      <3> QED
        BY <2>1, <3>1, QuietFate DEF BaseInv, bufferVars
    <2> QED
      BY <2>3, <2>4, <2>5 DEF BaseInv
  <1>4. CASE UNCHANGED endVars
    BY <1>1, <1>4 DEF endVars
  <1> QED
    BY <1>1, <1>2, <1>3, <1>4 DEF EndingNext, Log

(* An action of LogBuffer before the buffers are freed. *)
LEMMA LogKeeps == ASSUME BaseInv, EndInv, Log(Next) PROVE EndInv'
  <1> USE DEF Log
  <1>1. closer' = closer => Unended
    BY DEF Unended
  <1>2. CASE Activation \/ FlushThreadStep
    <2>1. closer' = closer
      BY <1>2 DEF Activation, Activate, FailToActivate, FlushThreadStep, ThreadStarts,
                  LogThreadStarted, StartSilently, FlushThreadRound, callVars
    <2> QED
      BY <1>1, <1>2, <2>1, ActivationKeeps, FlushThreadKeeps
  <1>3. ASSUME NEW t \in Threads, FlushStep(t) PROVE EndInv'
    <2>1. Unended
      BY <1>1, <1>3 DEF FlushStep, AcquireResource, SwitchBuffer, WriteEntry, WriteTornEntry,
                        WalkPastEnd, EndOfEntries, WipeAndRelease, callVars
    <2> QED
      BY <1>3, <2>1, AcquireKeeps, SwitchKeeps, WriteKeeps, TornKeeps, PastEndKeeps, EndKeeps,
         WipeKeeps
      DEF FlushStep
  <1>4. ASSUME NEW t \in Threads, CallStep(t) PROVE EndInv'
    <2>1. Unended
      BY <1>1, <1>4 DEF CallStep, WriteMessageToFile, StartCopy, FinishCopy, Terminate, callVars
    <2> QED
      BY <1>4, <2>1, MessageKeeps, StartKeeps, AppendKeeps, CutOffKeeps, TerminateKeeps
      DEF CallStep
  <1>5. ASSUME NEW t \in Writers, WriterStep(t) PROVE EndInv'
    <2>1. Unended
      BY <1>1, <1>5 DEF WriterStep, ReportActivation, ActivateSilently, DisableLog, Drained,
                        callVars
    <2>2. Drained(t) => ending = "none"
      BY Basics DEF Drained, Goto
    <2> QED
      BY <1>5, <2>1, <2>2, WriterKeeps
  <1>6. ASSUME NEW t \in Writers, NEW m \in Msgs, NEW ctx \in Contexts, LogpPrint(t, m, ctx)
        PROVE  EndInv'
    BY <1>1, <1>6, PrintKeeps DEF LogpPrint
  <1>7. ASSUME NEW t \in Writers, NEW m \in Msgs, LogIrpShutdownHandler(t, m) PROVE EndInv'
    <2>1. /\ LogpPut(t, m, "passive") /\ pc[t] = "idle" /\ closer = None /\ closer' = t
          /\ t # None
      BY <1>7, Basics DEF LogIrpShutdownHandler
    <2> QED
      BY <2>1, ByeKeeps
  <1> QED
    BY <1>2, <1>3, <1>4, <1>5, <1>6, <1>7 DEF Next

LEMMA NextEnd == ASSUME BaseInv, EndInv, [EndingNext]_endVars PROVE EndInv'
  <1>1. CASE Log(Next)
    BY <1>1, LogKeeps
  <1>2. ASSUME NEW t \in Writers, NEW m \in Msgs, LogFinalizing(t, m) PROVE EndInv'
    BY <1>2, FinalizingKeeps
  <1>3. ASSUME NEW t \in Writers, NEW m \in Msgs, LogTermination(t, m) PROVE EndInv'
    BY <1>3, ByeKeeps DEF LogTermination, CanTerminate
  <1>4. CASE Termination
    BY <1>4, EndStepKeeps
  <1>5. CASE UNCHANGED endVars
    BY <1>5
    DEF endVars, vars, EndInv, BuffersInv, CloserInv, DueInv, OwnersInv, CrashInv, TailInv, Sound,
        SoundTail, Copying, Crashed, Avail, Used, OtherInv, RealWalk, Walking, Ahead, Gapless,
        EndOf, LeftOver, Done, InFile, EmptyHead, Tended, Written, Live, InHead, InOld, BeginsAt,
        FlushesEmpty, MayBeLive, MayBeOld
  <1> QED
    BY <1>1, <1>2, <1>3, <1>4, <1>5 DEF EndingNext

LEMMA EndAlways == EndingSpec => [](BaseInv /\ EndInv)
  <1>1. BaseInv /\ EndInv /\ [EndingNext]_endVars => (BaseInv /\ EndInv)'
    BY NextBase, NextEnd
  <1> QED
    BY InitEnd, <1>1, PTL DEF EndingSpec

(* Whatever ends the log, the bounds of LogpBufferMessage hold meanwhile and every
   variable of LogBuffer keeps its type. *)
THEOREM EndKeepsBounds == EndingSpec => [](TypeOK /\ BufferBounds)
  <1>1. BaseInv => TypeOK /\ BufferBounds
    BY DEF BaseInv, TypeInv
  <1> QED
    BY <1>1, EndAlways, PTL

(* What the buffers held when LogTermination said "Bye!" has been written when
   they are freed, or its write has failed: no matter how many threads log in which
   context, no message that a flush had still to come to when the end began is freed
   with its buffer. *)
THEOREM LastMessagesAreWritten == EndingSpec => []TerminationFlushes
  <1>1. BaseInv /\ EndInv => TerminationFlushes
    <2> SUFFICES ASSUME BaseInv, EndInv, ending = "freed", NEW m \in due
                 PROVE  InFile(m) \/ outcome[m] = "failed"
      BY DEF TerminationFlushes
    <2>1. pc[closer] \in {"drain", "fault"} /\ ending \in Byes
      BY DEF EndInv, CloserInv, Byes
    <2> QED
      BY <2>1 DEF EndInv, DueInv, Tended, Written, MayBeLive, MayBeOld
  <1> QED
    BY <1>1, EndAlways, PTL

(* LogIrpShutdownHandler returns only when what the buffers held when it said
   "Bye!" has been written, or is being written by a flush that has left the head
   buffer behind: the first byte it polls cannot be the '\0' of a buffer that some
   flush has still to come to. *)
THEOREM ShutdownLosesNothing == EndingSpec => []ShutdownDrains
  <1>1. BaseInv /\ EndInv => ShutdownDrains
    <2> SUFFICES ASSUME BaseInv, EndInv, NEW t \in Writers, pc[t] = "down", NEW m \in due
                 PROVE  InFile(m) \/ InOld(m) \/ outcome[m] = "failed"
      BY DEF ShutdownDrains
    <2>1. t = closer
      BY DEF EndInv, CloserInv
    <2> QED
      BY <2>1 DEF EndInv, DueInv, Tended, Written, MayBeLive
  <1> QED
    BY <1>1, EndAlways, PTL

-----------------------------------------------------------------------------
(***************************************************************************)
(* The file is quiet when it is closed.                                    *)
(***************************************************************************)

(* The other threads log above PASSIVE_LEVEL or with *_SAFE macros; LogLifecycle
   has those that do not. *)
OthersOnlyBuffer == Contexts \subseteq {"raised", "safe"}

(* From "Bye!" on only the thread that has said it writes to the file itself, and
   until LogTermination has waited for it the flush thread runs exactly while its
   flag is set. *)
FileWritersInv ==
    /\ closer # None /\ ending \in Byes =>
         \A w \in Writers \ {closer} : pc[w] \notin FilePCs \cup {"await"}
    /\ Crashed \/ (ending \in {"none", "finalizing", "bye"} =>
                     (alive <=> pc[FlushThread] \notin {"off", "never"}))
    /\ ending # "none" => pc[FlushThread] \notin {"off", "start"}
    /\ ending \in {"close", "freed"} => pc[FlushThread] = "never"

QuietInv == ContextInv /\ FileWritersInv

LEMMA InitQuiet == ASSUME EndingInit, BaseInv PROVE QuietInv
  BY Basics DEF EndingInit, Init, QuietInv, FileWritersInv, ContextInv, FilePCs, Byes

(* The places of the flush thread while it runs. *)
RunningPCs == FlushThreadPCs \ {"off", "start", "never", "fault"}

(* A step of one thread that does not create or end the flush thread. *)
LEMMA WritersMove ==
    ASSUME BaseInv, FileWritersInv, NEW t \in Threads, NEW where, Goto(t, where),
           pc[t] # "fault", where # "fault", UNCHANGED <<closer, alive, ending>>,
           t = FlushThread => \/ pc[t] \in RunningPCs /\ where \in RunningPCs
                              \/ pc[t] = "start" /\ where = "started",
           t # FlushThread /\ where \in FilePCs \cup {"await"} =>
               pc[t] \in FilePCs \cup {"await"} \/ (closer # None /\ ending \in Byes => t = closer)
    PROVE  FileWritersInv'
  <1> USE Basics
  <1>1. pc' = [pc EXCEPT ![t] = where] /\ pc'[t] = where
    BY DEF Goto
  <1>2. \A u \in Threads \ {t} : pc'[u] = pc[u]
    BY <1>1
  <1>3. closer # None /\ ending \in Byes =>
            \A w \in Writers \ {closer} : pc'[w] \notin FilePCs \cup {"await"}
    BY <1>1, <1>2 DEF FileWritersInv
  <1>4. Crashed' <=> Crashed
    BY <1>1, <1>2 DEF Crashed
  <1>5. CASE t = FlushThread
    BY <1>1, <1>3, <1>4, <1>5 DEF FileWritersInv, RunningPCs
  <1>6. CASE t # FlushThread
    BY <1>2, <1>3, <1>4, <1>6 DEF FileWritersInv
  <1> QED
    BY <1>5, <1>6

(* At the end nobody can write to the file. *)
LEMMA EndFiles ==
    ASSUME BaseInv, EndInv, FileWritersInv, ending \in {"close", "freed"}
    PROVE  \A t \in Threads : pc[t] \notin FilePCs
  <1>1. closer # None /\ pc[closer] \in {"drain", "fault"}
    BY DEF EndInv, CloserInv, Byes
  <1>2. \A w \in Writers \ {closer} : pc[w] \notin FilePCs
    BY <1>1 DEF FileWritersInv, Byes
  <1>3. pc[FlushThread] = "never"
    BY DEF FileWritersInv
  <1> QED
    BY <1>1, <1>2, <1>3 DEF Threads, FilePCs

LEMMA FlushStepWriters ==
    ASSUME BaseInv, EndInv, FileWritersInv, NEW t \in Threads, FlushStep(t), UNCHANGED ending
    PROVE  FileWritersInv'
  <1> USE Basics
  <1>1. pc[t] \in FilePCs /\ UNCHANGED <<closer, alive>>
    BY DEF FlushStep, AcquireResource, SwitchBuffer, WriteEntry, WriteTornEntry, WalkPastEnd,
           EndOfEntries, WipeAndRelease, callVars, FilePCs
  <1>2. \/ UNCHANGED pc
        \/ \E where \in FilePCs \cup {"sleep"} : Goto(t, where) /\ (where = "sleep" => op[t] = NoCall)
        \/ pc' = [u \in Threads |-> "fault"]
    BY DEF FlushStep, AcquireResource, SwitchBuffer, WriteEntry, WriteTornEntry, WalkPastEnd,
           EndOfEntries, WipeAndRelease, FilePCs
  <1>3. CASE UNCHANGED pc
    BY <1>1, <1>3 DEF FileWritersInv, Crashed
  <1>4. ASSUME NEW where \in FilePCs \cup {"sleep"}, Goto(t, where) PROVE FileWritersInv'
    BY <1>1, <1>4, WritersMove DEF FilePCs, RunningPCs, FlushThreadPCs, BusyPCs
  <1>5. CASE pc' = [u \in Threads |-> "fault"]
    <2>1. \A u \in Threads : pc'[u] = "fault"
      BY <1>5
    <2>2. ending \notin {"close", "freed"}
      BY <1>1, EndFiles
    <2> QED
      BY <1>1, <2>1, <2>2 DEF FileWritersInv, Crashed, FilePCs
  <1> QED
    BY <1>2, <1>3, <1>4, <1>5

LEMMA CallStepWriters ==
    ASSUME BaseInv, FileWritersInv, NEW t \in Threads, CallStep(t), UNCHANGED ending
    PROVE  FileWritersInv'
  <1> USE Basics
  <1>1. /\ pc[t] \in BusyPCs /\ UNCHANGED <<closer, alive>>
        /\ t # FlushThread \/ \E where \in {"sleep", "copy", "term"} : Goto(t, where)
        /\ \E where \in {"sleep", "idle", "copy", "term", "disable"} : Goto(t, where)
    BY DEF CallStep, WriteMessageToFile, StartCopy, FinishCopy, Terminate, Return, callVars, BusyPCs
  <1>2. CASE t = FlushThread
    <2>1. PICK where \in {"sleep", "copy", "term"} : Goto(t, where)
      BY <1>1, <1>2
    <2> QED
      BY <1>1, <1>2, <2>1, WritersMove DEF RunningPCs, FlushThreadPCs, BusyPCs
  <1>3. CASE t # FlushThread
    <2>1. PICK where \in {"sleep", "idle", "copy", "term", "disable"} : Goto(t, where)
      BY <1>1
    <2> QED
      BY <1>1, <1>3, <2>1, WritersMove DEF FilePCs, BusyPCs
  <1> QED
    BY <1>2, <1>3

(* A call of LogpPut, before "Bye!", by the thread that has said it, by the flush
   thread, or from a context that never writes to the file. *)
LEMMA PutWriters ==
    ASSUME BaseInv, FileWritersInv, NEW t \in Threads, NEW m \in Msgs, NEW ctx, LogpPut(t, m, ctx),
           pc[t] # "fault", t = FlushThread => pc[t] \in RunningPCs,
           \/ ctx \in {"raised", "safe"} \/ pc[t] = "await" \/ t = FlushThread
           \/ closer = None \/ ending \notin Byes,
           UNCHANGED <<closer, ending>>
    PROVE  FileWritersInv'
  <1> USE Basics
  <1>1. UNCHANGED alive
    BY PutIs
  <1>2. PICK where \in {"flush", "buffer"} :
            Goto(t, where) /\ (where = "flush" => ctx \notin {"raised", "safe"})
    BY PutIs DEF CanLogToFileNow
  <1> QED
    BY <1>1, <1>2, WritersMove DEF FilePCs, RunningPCs, FlushThreadPCs, BusyPCs

(* LogFinalizing, LogIrpShutdownHandler and LogTermination. *)
LEMMA EndingPutWriters ==
    ASSUME BaseInv, QuietInv, NEW t \in Writers, NEW m \in Msgs, LogpPut(t, m, "passive"),
           pc[t] = "idle", closer = None, ending \in {"none", "finalizing"},
           \/ closer' = t /\ ending' = ending
           \/ CanTerminate(t) /\ closer' = closer /\ ending' = "finalizing"
           \/ CanTerminate(t) /\ closer' = t /\ ending' = "bye"
    PROVE  FileWritersInv'
  <1> USE Basics
  <1>1. UNCHANGED alive
    BY PutIs
  <1>2. PICK where \in {"flush", "buffer"} : Goto(t, where)
    BY PutIs
  <1>3. pc' = [pc EXCEPT ![t] = where] /\ pc'[t] = where
    BY <1>2 DEF Goto
  <1>4. \A u \in Threads \ {t} : pc'[u] = pc[u]
    BY <1>3
  <1>5. pc'[FlushThread] = pc[FlushThread] /\ (Crashed' <=> Crashed)
    BY <1>4 DEF Crashed
  <1>6. ending' \in {"none", "finalizing", "bye"}
    OBVIOUS
  <1>7. closer' # None /\ ending' \in Byes =>
            \A w \in Writers \ {closer'} : pc'[w] \notin FilePCs \cup {"await"}
    <2> SUFFICES ASSUME closer' = t, ending' = "bye", CanTerminate(t), NEW w \in Writers \ {t}
                 PROVE  pc'[w] \notin FilePCs \cup {"await"}
      BY DEF Byes
    <2>1. pc[w] # "await" /\ op[w].ctx # "passive"
      BY DEF CanTerminate
    <2>2. pc[w] \notin FilePCs
      <3> SUFFICES ASSUME pc[w] \in FilePCs PROVE FALSE
        OBVIOUS
      <3>1. op[w] # NoCall
        BY CallsAreCalls DEF BaseInv, TypeInv, CallInv, FilePCs, BusyPCs
      <3> QED
        BY <2>1, <3>1 DEF QuietInv, ContextInv
    <2> QED
      BY <1>4, <2>1, <2>2
  <1>8. CanTerminate(t) => pc[FlushThread] \notin {"off", "start"}
    BY DEF CanTerminate
  <1> QED
    BY <1>1, <1>5, <1>6, <1>7, <1>8 DEF QuietInv, FileWritersInv

LEMMA NextWriters ==
    ASSUME OthersOnlyBuffer, BaseInv, EndInv, QuietInv, [EndingNext]_endVars
    PROVE  FileWritersInv'
  <1> USE Basics DEF QuietInv
  <1>1. ASSUME Log(Next) PROVE FileWritersInv'
    <2> USE <1>1 DEF Log
    <2>1. CASE FailToActivate
      <3>1. /\ pc[FlushThread] \in {"off", "start"} /\ UNCHANGED <<closer, ending>>
            /\ alive' = FALSE /\ pc'[FlushThread] = "never"
            /\ \A w \in Writers : pc'[w] = pc[w] \/ pc'[w] = "idle"
        BY <2>1 DEF FailToActivate
      <3>2. ending = "none"
        BY <3>1 DEF FileWritersInv
      <3> QED
        BY <3>1, <3>2 DEF FileWritersInv, FilePCs, Byes
    <2>2. ASSUME NEW t \in Writers, Activate(t) PROVE FileWritersInv'
      <3>1. /\ pc[FlushThread] = "off" /\ UNCHANGED <<closer, ending>>
            /\ alive' = TRUE /\ pc'[FlushThread] = "start"
        BY <2>2 DEF Activate
      <3>2. ending = "none"
        BY <3>1 DEF FileWritersInv
      <3> QED
        BY <3>1, <3>2 DEF FileWritersInv, Byes
    <2>3. CASE ThreadStarts \/ StartSilently \/ FlushThreadRound
      <3>1. /\ pc[FlushThread] \in {"start", "started", "sleep"} /\ UNCHANGED <<closer, alive, ending>>
            /\ \E where \in {"started", "sleep", "flush"} : Goto(FlushThread, where)
            /\ pc[FlushThread] = "start" => Goto(FlushThread, "started")
        BY <2>3 DEF ThreadStarts, StartSilently, FlushThreadRound, callVars
      <3>2. CASE pc[FlushThread] = "start"
        BY <3>1, <3>2, WritersMove
      <3>3. CASE pc[FlushThread] # "start"
        <4>1. PICK where \in {"started", "sleep", "flush"} : Goto(FlushThread, where)
          BY <3>1
        <4> QED
          BY <3>1, <3>3, <4>1, WritersMove DEF RunningPCs, FlushThreadPCs, BusyPCs
      <3> QED
        BY <3>2, <3>3
    <2>4. ASSUME NEW m \in Msgs, LogThreadStarted(m) PROVE FileWritersInv'
      BY <2>4, PutWriters DEF LogThreadStarted, RunningPCs, FlushThreadPCs
    <2>5. ASSUME NEW t \in Threads, FlushStep(t) PROVE FileWritersInv'
      BY <2>5, FlushStepWriters
    <2>6. ASSUME NEW t \in Threads, CallStep(t) PROVE FileWritersInv'
      BY <2>6, CallStepWriters
    <2>7. ASSUME NEW t \in Writers, WriterStep(t) PROVE FileWritersInv'
      <3>1. ASSUME NEW m \in Msgs, ReportActivation(t, m) PROVE FileWritersInv'
        BY <3>1, PutWriters DEF ReportActivation
      <3>2. CASE ActivateSilently(t) \/ DisableLog(t) \/ Drained(t)
        <4>1. /\ pc[t] # "fault" /\ UNCHANGED <<closer, alive, ending>>
              /\ \E where \in {"idle", "drain", "down"} : Goto(t, where)
          BY <3>2 DEF ActivateSilently, DisableLog, Drained, callVars
        <4>2. PICK where \in {"idle", "drain", "down"} : Goto(t, where)
          BY <4>1
        <4> QED
          BY <4>1, <4>2, WritersMove DEF FilePCs
      <3> QED
        BY <2>7, <3>1, <3>2 DEF WriterStep
    <2>8. ASSUME NEW t \in Writers, NEW m \in Msgs, NEW ctx \in Contexts, LogpPrint(t, m, ctx)
          PROVE  FileWritersInv'
      <3>1. ctx \in {"raised", "safe"}
        BY DEF OthersOnlyBuffer
      <3>2. LogpPut(t, m, ctx) /\ closer' = closer /\ pc[t] = "idle"
        BY <2>8, <3>1 DEF LogpPrint, LogpPutDropped, CanLogToFileNow
      <3> QED
        BY <3>1, <3>2, PutWriters
    <2>9. ASSUME NEW t \in Writers, NEW m \in Msgs, LogIrpShutdownHandler(t, m)
          PROVE  FileWritersInv'
      <3>1. LogpPut(t, m, "passive") /\ pc[t] = "idle" /\ closer = None /\ closer' = t
        BY <2>9 DEF LogIrpShutdownHandler
      <3>2. ending \in {"none", "finalizing"}
        BY <3>1 DEF EndInv, CloserInv
      <3> QED
        BY <3>1, <3>2, EndingPutWriters
    <2> QED
      BY <2>1, <2>2, <2>3, <2>4, <2>5, <2>6, <2>7, <2>8, <2>9
      DEF Next, Activation, FlushThreadStep
  <1>2. ASSUME NEW t \in Writers, NEW m \in Msgs, LogFinalizing(t, m) \/ LogTermination(t, m)
        PROVE  FileWritersInv'
    <2>1. CanTerminate(t) /\ pc[t] = "idle" /\ closer = None /\ LogpPut(t, m, "passive")
      BY <1>2 DEF LogFinalizing, LogTermination, CanTerminate
    <2> QED
      BY <1>2, <2>1, EndingPutWriters DEF LogFinalizing, LogTermination
  <1>3. ASSUME Termination
        PROVE  closer # None /\ pc[closer] = "drain" /\ closer \in Threads /\ ~ Crashed
               /\ UNCHANGED closer /\ ending \in Byes
    <2>1. closer # None /\ pc[closer] = "drain" /\ UNCHANGED closer /\ ending \in Byes
      BY <1>3 DEF Termination, StopFlushThread, JoinFlushThread, FreeBuffers, EndStep, Byes
    <2> QED
      BY <2>1, CloserTyped, NoCrash DEF EndInv, BuffersInv
  <1>4. CASE StopFlushThread
    <2>1. /\ UNCHANGED <<pc, closer>> /\ ending = "bye" /\ alive' = FALSE
          /\ ending' = IF alive THEN "join" ELSE "close"
      BY <1>4 DEF StopFlushThread, EndStep
    <2>2. ~ Crashed
      BY <1>3, <1>4 DEF Termination
    <2>3. alive <=> pc[FlushThread] \notin {"off", "never"}
      BY <2>1, <2>2 DEF FileWritersInv
    <2> QED
      BY <2>1, <2>3 DEF FileWritersInv, Byes
  <1>5. CASE JoinFlushThread
    <2>1. /\ Goto(FlushThread, "never") /\ ending = "join" /\ ending' = "close"
          /\ UNCHANGED <<closer, alive>>
      BY <1>5 DEF JoinFlushThread, EndStep
    <2>2. pc'[FlushThread] = "never" /\ \A w \in Writers : pc'[w] = pc[w]
      BY <2>1 DEF Goto
    <2> QED
      BY <2>1, <2>2 DEF FileWritersInv, Byes
  <1>6. CASE FreeBuffers
    BY <1>6 DEF FreeBuffers, EndStep, FileWritersInv, Byes
  <1>7. CASE UNCHANGED endVars
    BY <1>7 DEF endVars, vars, FileWritersInv, Crashed
  <1> QED
    BY <1>1, <1>2, <1>4, <1>5, <1>6, <1>7 DEF EndingNext, Termination

LEMMA NextQuiet ==
    ASSUME OthersOnlyBuffer, BaseInv, EndInv, QuietInv, [EndingNext]_endVars
    PROVE  QuietInv'
  <1>1. FileWritersInv'
    BY NextWriters
  <1>2. ContextInv'
    <2>1. CASE [Next]_vars
      BY <2>1, NextContext DEF QuietInv
    <2>2. ASSUME NEW t \in Writers, NEW m \in Msgs, LogFinalizing(t, m) \/ LogTermination(t, m)
          PROVE  ContextInv'
      <3>1. LogpPut(t, m, "passive") /\ t \in Threads
        BY <2>2 DEF LogFinalizing, LogTermination, Threads
      <3> QED
        BY <3>1, PutContext DEF QuietInv
    <2>3. CASE Termination
      <3>1. UNCHANGED op /\ (UNCHANGED pc \/ Goto(FlushThread, "never"))
        BY <2>3 DEF Termination, StopFlushThread, JoinFlushThread, FreeBuffers, EndStep
      <3>2. \A t \in Threads : pc'[t] \in FilePCs => pc[t] \in FilePCs
        BY <3>1, Basics DEF Goto, FilePCs
      <3> QED
        BY <3>1, <3>2 DEF QuietInv, ContextInv
    <2>4. CASE UNCHANGED endVars
      BY <2>1, <2>4 DEF endVars
    <2> QED
      BY <2>1, <2>2, <2>3, <2>4 DEF EndingNext, Log
  <1> QED
    BY <1>1, <1>2 DEF QuietInv

(* Whoever could write has been waited for. *)
LEMMA QuietAtTheEnd ==
    ASSUME BaseInv, EndInv, QuietInv, [EndingNext]_endVars, ending \in {"close", "freed"}
    PROVE  file' = file
  <1>1. \A t \in Threads : pc[t] \notin {"walk", "write"}
    BY EndFiles DEF QuietInv, FilePCs
  <1>2. CASE Next
    BY <1>1, <1>2
    DEF Next, Activation, Activate, FailToActivate, FlushThreadStep, ThreadStarts, LogThreadStarted,
        StartSilently, FlushThreadRound, FlushStep, AcquireResource, SwitchBuffer, WriteEntry,
        WriteTornEntry, WalkPastEnd, EndOfEntries, WipeAndRelease, CallStep, WriteMessageToFile,
        StartCopy, FinishCopy, Terminate, WriterStep, ReportActivation, ActivateSilently, DisableLog,
        Drained, LogpPrint, LogpPut, LogpPutDropped, LogIrpShutdownHandler
  <1>3. CASE Termination
    BY <1>3 DEF Termination, StopFlushThread, JoinFlushThread, FreeBuffers, EndStep
  <1>4. CASE UNCHANGED endVars
    BY <1>4 DEF endVars, vars
  <1> QED
    BY <1>2, <1>3, <1>4 DEF EndingNext, Log, LogFinalizing, LogTermination, LogpPut

(* From the moment the log file is being closed nobody writes to it: LogTermination
   waits for the flush thread, which runs as long as its flag is set, and the one
   other thread that flushes is its own. *)
THEOREM NothingIsWrittenLate == ASSUME OthersOnlyBuffer PROVE EndingSpec => FileIsQuiet
  <1>1. EndingInit => BaseInv /\ EndInv /\ QuietInv
    BY InitEnd, InitQuiet
  <1>2. BaseInv /\ EndInv /\ QuietInv /\ [EndingNext]_endVars => (BaseInv /\ EndInv /\ QuietInv)'
    BY NextBase, NextEnd, NextQuiet
  <1>3. BaseInv /\ EndInv /\ QuietInv /\ [EndingNext]_endVars
        => [(ending \in {"close", "freed"}) => file' = file]_endVars
    BY QuietAtTheEnd
  <1> QED
    BY <1>1, <1>2, <1>3, PTL DEF EndingSpec, FileIsQuiet
=============================================================================
