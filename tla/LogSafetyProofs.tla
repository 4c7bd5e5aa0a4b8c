---------------------------- MODULE LogSafetyProofs ----------------------------
(***************************************************************************)
(* As long as no append begins while a flush of an empty buffer is under   *)
(* way, LogBuffer loses no buffered message, writes and prints each once,  *)
(* walks over whole messages only and implements LogQueue (the safety part *)
(* of ImplementsQueue).  For any number of threads in any contexts, any    *)
(* messages, any buffer size and any failing writes.                       *)
(***************************************************************************)
EXTENDS LogBufferProofs, LogBufferRefinement, SequenceTheorems, WellFoundedInduction

-----------------------------------------------------------------------------
(***************************************************************************)
(* What a buffer holds.                                                    *)
(***************************************************************************)
EndOf(buffer, o) == o + Size[buffer[o].msg]

(* The entries of a buffer follow one another without a gap from lo to hi. *)
Covers(buffer, lo, hi) ==
    \A p \in lo .. hi - 1 : \E q \in lo .. p :
        /\ buffer[q] \in Entries
        /\ p < EndOf(buffer, q) /\ EndOf(buffer, q) <= hi

(* No entry begins inside another one. *)
Apart(buffer) ==
    \A q, r \in Offsets :
        q < r /\ buffer[q] \in Entries /\ buffer[r] \in Entries => EndOf(buffer, q) <= r

(* Nothing has to be done for a message any more. *)
Done(m) == InFile(m) \/ outcome[m] # "buffered"

(* The entries of a buffer that begin in S are left over from earlier uses. *)
LeftOver(buffer, S) ==
    \A o \in Offsets \cap S : buffer[o] \in Entries => Done(buffer[o].msg)

(* Those that begin in S have still to be written. *)
Waiting(buffer, S) ==
    \A o \in Offsets \cap S : buffer[o] \in Entries => ~ Done(buffer[o].msg)

(* One buffer has no entry that the other one does not have. *)
Thinner(new, buffer) ==
    \A o \in Offsets : new[o] \in Entries => new[o] = buffer[o]

LEMMA ThinnerWithin ==
    ASSUME \A b \in Buffers : Thinner(mem'[b], mem[b])
    PROVE  AllWithin
  BY DEF Thinner, AllWithin, Within

LEMMA WithinApart ==
    ASSUME NEW buffer, NEW new, Within(new, buffer), Apart(buffer)
    PROVE  Apart(new)
  BY DEF Within, Apart, EndOf

(* What lies below hi does not depend on what lies above. *)
LEMMA CoversSame ==
    ASSUME NEW buffer, NEW new, NEW hi \in Nat, \A o \in 0 .. hi - 1 : new[o] = buffer[o],
           Covers(buffer, 0, hi)
    PROVE  Covers(new, 0, hi)
  BY DEF Covers, EndOf

(* An entry begins wherever the entries before it end. *)
LEMMA CoversStart ==
    ASSUME NEW buffer, NEW lo \in Nat, NEW hi \in Nat, Covers(buffer, lo, hi), lo < hi
    PROVE  buffer[lo] \in Entries /\ EndOf(buffer, lo) <= hi
  <1>1. lo \in lo .. hi - 1
    OBVIOUS
  <1>2. PICK q \in lo .. lo : buffer[q] \in Entries /\ EndOf(buffer, q) <= hi
    BY <1>1 DEF Covers
  <1>3. q = lo
    OBVIOUS
  <1> QED
    BY <1>2, <1>3

-----------------------------------------------------------------------------
(***************************************************************************)
(* The invariant.                                                          *)
(***************************************************************************)

(* One flush and one append at a time. *)
LocksInv ==
    \A t \in Threads : /\ pc[t] \in {"switch", "walk", "wipe"} <=> resource = t
                       /\ pc[t] \in {"copy", "term"} <=> spin = t

Copying == \E t \in Threads : pc[t] = "copy"

(* A flush that found messages is walking over them. *)
WalksOld == Walking /\ old # head

(* The messages of the head buffer fill it up to the tail, where a '\0' ends them
   unless there is an append under way. *)
HeadInv ==
    /\ Covers(mem[head], 0, tail.off)
    /\ \A o \in 0 .. tail.off - 1 : mem[head][o] \in Entries => EndOf(mem[head], o) <= tail.off
    /\ spin = None => mem[head][tail.off] = Nul
    /\ Copying /\ Avail(tail) > 1 => mem[head][tail.off] = Begun
    /\ Waiting(mem[head], {o \in Offsets : o < tail.off})
    /\ LeftOver(mem[head], {o \in Offsets : o >= tail.off})

ApartInv == \A b \in Buffers : Apart(mem[b])

(* A message is at one place at most. *)
PlaceInv ==
    \A b, c \in Buffers, o, p \in Offsets :
        /\ mem[b][o] \in Entries /\ mem[c][p] \in Entries
        /\ mem[b][o].msg = mem[c][p].msg
        => b = c /\ o = p

OneOfEach ==
    \A i \in 1 .. Len(file) :
        file[i] \in Msgs /\ \A j \in 1 .. Len(file) : file[i] = file[j] => i = j

(* The file holds only messages that have been in a buffer or were written
   directly. *)
FileInv ==
    OneOfEach /\ \A i \in 1 .. Len(file) : outcome[file[i]] \in {"buffered", "written"}

(* What the walk has still to write lies between the cursor and the end. *)
WalkInv(end) ==
    /\ end \in Offsets /\ cursor <= end
    /\ Covers(mem[old], cursor, end)
    /\ mem[old][end] = Nul
    /\ Waiting(mem[old], {o \in Offsets : cursor <= o /\ o < end})
    /\ LeftOver(mem[old], {o \in Offsets : o < cursor \/ o >= end})

(* A flush that found nothing has the head buffer for itself; one that found
   something is done with a buffer before that becomes the head again. *)
FlushInv ==
    /\ FlushesEmpty => spin = None /\ tail.off = 0 /\ cursor = 0
    /\ WalksOld => \E end \in Offsets : WalkInv(end)
    /\ ~ WalksOld => LeftOver(mem[Other(head)], Offsets)

KeptInv ==
    \A m \in Msgs : outcome[m] = "buffered" =>
        \/ InFile(m)
        \/ \E o \in 0 .. tail.off - 1 : BeginsAt(head, o, m)
        \/ WalksOld /\ \E o \in Offsets : o >= cursor /\ BeginsAt(old, o, m)

SafeInv ==
    LocksInv /\ HeadInv /\ ApartInv /\ PlaceInv /\ FlushInv /\ KeptInv /\ FileInv

(* The invariants of LogBufferProofs. *)
BaseInv == TypeInv /\ BufferBounds /\ FateInv

(* The facts about the variables that every step uses. *)
LEMMA Basics ==
    ASSUME BaseInv
    PROVE  /\ head \in Buffers /\ Other(head) \in Buffers /\ Other(head) # head
           /\ Other(Other(head)) = head /\ old \in Buffers
           /\ \A b \in Buffers : b = head \/ b = Other(head)
           /\ tail.buf = head /\ tail.off \in Nat /\ tail.off <= Usable /\ tail.off \in Offsets
           /\ cursor \in Nat
           /\ mem \in [Buffers -> [Offsets -> Cells]]
           /\ pc \in [Threads -> WriterPCs \cup FlushThreadPCs]
           /\ 0 \in Offsets /\ BufferSize \in Nat /\ Usable = BufferSize - 1
           /\ FlushThread \in Threads /\ FlushThread \notin Writers
           /\ \A w \in Writers : w \in Threads /\ w # FlushThread /\ w # None
           /\ None \notin Threads
           /\ Nul \notin Entries /\ Torn \notin Entries /\ Begun \notin Entries
           /\ Nul # Torn /\ Nul # Begun /\ Torn # Begun
           /\ \A m \in Msgs : Size[m] \in Nat /\ Size[m] >= 3
  BY ConstantsAssumption
  DEF BaseInv, TypeInv, TypeOK, BufferBounds, Buffers, Other, Offsets, Usable, Threads

(* Storing what is no message makes a buffer thinner. *)
LEMMA StoreThinner ==
    ASSUME BaseInv, NEW b \in Buffers, NEW o \in Offsets, NEW c \in {Nul, Torn, Begun},
           mem' = [mem EXCEPT ![b][o] = c]
    PROVE  /\ \A d \in Buffers : Thinner(mem'[d], mem[d])
           /\ mem'[b][o] = c
           /\ \A p \in Offsets \ {o} : mem'[b][p] = mem[b][p]
           /\ \A d \in Buffers \ {b} : mem'[d] = mem[d]
  BY Basics DEF Thinner

LEMMA WithinAll ==
    ASSUME ApartInv, AllWithin
    PROVE  ApartInv'
  BY WithinApart DEF ApartInv, AllWithin

LEMMA WithinPlaces ==
    ASSUME PlaceInv, AllWithin
    PROVE  PlaceInv'
  BY DEF PlaceInv, AllWithin, Within

LEMMA InitSafe == Init => SafeInv
  <1> SUFFICES ASSUME Init PROVE SafeInv
    OBVIOUS
  <1>1. BaseInv
    BY InitTyped, InitBounds, InitFate DEF BaseInv
  <1>2. \A b \in Buffers, o \in Offsets : mem[b][o] \notin Entries
    BY <1>1, Basics DEF Init, FreshBuffer
  <1>3. mem[head][0] = Nul /\ tail.off = 0
    BY <1>1, Basics DEF Init, FreshBuffer
  <1>4. \A t \in Threads : pc[t] \in {"off", "idle"} /\ t # None
    BY <1>1, Basics DEF Init
  <1>5. LocksInv
    BY <1>4 DEF Init, LocksInv
  <1>6. HeadInv
    <2>1. Covers(mem[head], 0, 0)
      BY DEF Covers
    <2>2. ~ Copying
      BY <1>4 DEF Copying
    <2> QED
      BY <1>1, <1>2, <1>3, <2>1, <2>2, Basics DEF HeadInv, LeftOver, Waiting
  <1>7. ApartInv /\ PlaceInv
    BY <1>2 DEF ApartInv, Apart, PlaceInv
  <1>8. FlushInv
    <2>1. ~ FlushesEmpty /\ ~ WalksOld
      BY <1>4 DEF FlushesEmpty, WalksOld, Walking
    <2> QED
      BY <1>1, <1>2, <2>1, Basics DEF FlushInv, LeftOver
  <1>9. KeptInv /\ FileInv
    BY DEF Init, KeptInv, FileInv, OneOfEach
  <1> QED
    BY <1>5, <1>6, <1>7, <1>8, <1>9 DEF SafeInv

-----------------------------------------------------------------------------
(***************************************************************************)
(* Steps that leave the buffers alone.                                     *)
(***************************************************************************)

(* A message that is done with stays so. *)
DoneStays == \A m \in Msgs : Done(m) => Done(m)'

LEMMA NothingBuffered ==
    ASSUME BaseInv, file' = file \/ \E x \in Msgs \cup {Torn} : file' = Append(file, x),
           \A m \in Msgs : outcome'[m] = "buffered" => outcome[m] = "buffered"
    PROVE  DoneStays /\ \A m \in Msgs : InFile(m) => InFile(m)'
  <1>1. file \in Seq(Msgs \cup {Torn})
    BY DEF BaseInv, TypeInv, TypeOK
  <1>2. ASSUME NEW m \in Msgs, InFile(m) PROVE InFile(m)'
    <2>1. PICK i \in 1 .. Len(file) : file[i] = m
      BY <1>2 DEF InFile
    <2>2. CASE file' = file
      BY <2>1, <2>2 DEF InFile
    <2>3. ASSUME NEW x \in Msgs \cup {Torn}, file' = Append(file, x) PROVE InFile(m)'
      <3>1. i \in 1 .. Len(file') /\ file'[i] = m
        BY <1>1, <2>1, <2>3
      <3> QED
        BY <3>1 DEF InFile
    <2> QED
      BY <2>2, <2>3
  <1> QED
    BY <1>2 DEF DoneStays, Done

(* Nothing but m is appended to the file. *)
LEMMA OnlyAppended ==
    ASSUME BaseInv, NEW m, file' = file \/ file' = Append(file, m)
    PROVE  \A n : n # m => (InFile(n)' <=> InFile(n))
  <1>1. file \in Seq(Msgs \cup {Torn})
    BY DEF BaseInv, TypeInv, TypeOK
  <1> SUFFICES ASSUME NEW n, n # m PROVE InFile(n)' <=> InFile(n)
    OBVIOUS
  <1>2. CASE file' = file
    BY <1>2 DEF InFile
  <1>3. CASE file' = Append(file, m)
    <2>1. /\ \A i \in 1 .. Len(file) : i \in 1 .. Len(file') /\ file'[i] = file[i]
          /\ \A i \in 1 .. Len(file') : i \in 1 .. Len(file) \/ file'[i] = m
      BY <1>1, <1>3
    <2> QED
      BY <2>1 DEF InFile
  <1> QED
    BY <1>2, <1>3

(* One more message, which was not in the file. *)
LEMMA AppendOne ==
    ASSUME BaseInv, FileInv, NEW m \in Msgs, ~ InFile(m), file' = Append(file, m),
           \A n \in Msgs \ {m} : outcome'[n] = outcome[n],
           outcome'[m] \in {"buffered", "written"}
    PROVE  FileInv' /\ InFile(m)'
  <1>1. file \in Seq(Msgs \cup {Torn})
    BY DEF BaseInv, TypeInv, TypeOK
  <1>2. /\ Len(file') = Len(file) + 1 /\ file'[Len(file')] = m
        /\ \A i \in 1 .. Len(file) : file'[i] = file[i]
        /\ 1 .. Len(file') = 1 .. Len(file) \cup {Len(file')}
        /\ Len(file') \notin 1 .. Len(file)
    BY <1>1
  <1>3. \A i \in 1 .. Len(file) : file[i] # m /\ file[i] \in Msgs
    BY DEF InFile, FileInv, OneOfEach
  <1>4. OneOfEach'
    BY <1>2, <1>3 DEF FileInv, OneOfEach
  <1>5. \A i \in 1 .. Len(file') : outcome'[file'[i]] \in {"buffered", "written"}
    BY <1>2, <1>3 DEF FileInv
  <1> QED
    BY <1>2, <1>4, <1>5 DEF FileInv, InFile

(* The program counters that the invariant speaks of. *)
Settled(k) == \A t \in Threads : pc'[t] = k <=> pc[t] = k

(* The buffers and what is done with their messages stay. *)
LEMMA QuietStep ==
    ASSUME BaseInv, SafeInv, UNCHANGED <<mem, head, tail, old, cursor, spin>>,
           \A m \in Msgs : outcome'[m] = "buffered" <=> outcome[m] = "buffered",
           \A m \in Msgs : outcome[m] = "buffered" => (InFile(m)' <=> InFile(m)),
           Settled("copy"), Settled("walk"), Settled("wipe")
    PROVE  HeadInv' /\ ApartInv' /\ PlaceInv' /\ FlushInv' /\ KeptInv'
  <1>1. \A m \in Msgs : Done(m)' <=> Done(m)
    BY DEF Done
  <1>2. \A b \in Buffers, o \in Offsets : mem[b][o] \in Entries => mem[b][o].msg \in Msgs
    BY DEF Entries
  <1>3. (Copying' <=> Copying) /\ (Walking' <=> Walking) /\ (FlushesEmpty' <=> FlushesEmpty)
        /\ (WalksOld' <=> WalksOld)
    BY DEF Copying, Walking, FlushesEmpty, WalksOld, Settled
  <1>4. HeadInv'
    <2>1. \A b \in Buffers, S \in SUBSET Offsets :
              /\ Waiting(mem[b], S) => Waiting(mem[b], S)'
              /\ LeftOver(mem[b], S) => LeftOver(mem[b], S)'
      BY <1>1, <1>2 DEF LeftOver, Waiting
    <2>2. Waiting(mem[head], {o \in Offsets : o < tail.off})'
          /\ LeftOver(mem[head], {o \in Offsets : o >= tail.off})'
      BY <1>1, <1>2, Basics DEF SafeInv, HeadInv, LeftOver, Waiting
    <2> QED
      BY <1>3, <2>2 DEF SafeInv, HeadInv, Covers, EndOf, Avail, Used, Usable
  <1>5. ApartInv' /\ PlaceInv'
    BY DEF SafeInv, ApartInv, Apart, PlaceInv, EndOf
  <1>6. FlushInv'
    <2>1. ASSUME NEW end \in Offsets, WalkInv(end) PROVE WalkInv(end)'
      BY <1>1, <1>2, <2>1, Basics DEF WalkInv, LeftOver, Waiting, Covers, EndOf
    <2>2. ASSUME NEW b \in Buffers, LeftOver(mem[b], Offsets) PROVE LeftOver(mem[b], Offsets)'
      BY <1>1, <1>2, <2>2 DEF LeftOver
    <2> QED
      BY <1>3, <2>1, <2>2, Basics DEF SafeInv, FlushInv
  <1>7. KeptInv'
    BY <1>3 DEF SafeInv, KeptInv, BeginsAt
  <1> QED
    BY <1>4, <1>5, <1>6, <1>7

(* Nothing is written either, and the locks stay where they are. *)
HeldPCs == {"switch", "walk", "wipe", "copy", "term"}

LEMMA MoveStep ==
    ASSUME BaseInv, SafeInv, UNCHANGED <<mem, head, tail, old, cursor, spin, resource, file>>,
           \A m \in Msgs : /\ outcome'[m] = "buffered" <=> outcome[m] = "buffered"
                           /\ outcome[m] = "written" => outcome'[m] = "written",
           \A t \in Threads : pc[t] \in HeldPCs \/ pc'[t] \in HeldPCs => pc'[t] = pc[t]
    PROVE  SafeInv'
  <1>1. Settled("copy") /\ Settled("walk") /\ Settled("wipe")
    BY DEF Settled, HeldPCs
  <1>2. \A m \in Msgs : InFile(m)' <=> InFile(m)
    BY DEF InFile
  <1>3. HeadInv' /\ ApartInv' /\ PlaceInv' /\ FlushInv' /\ KeptInv'
    BY <1>1, <1>2, QuietStep
  <1>4. LocksInv'
    BY DEF SafeInv, LocksInv, HeldPCs
  <1>5. FileInv'
    BY DEF SafeInv, FileInv, OneOfEach
  <1> QED
    BY <1>3, <1>4, <1>5 DEF SafeInv

(* A call of LogpPrint is open, dropped, or goes on. *)
LEMMA PutStep ==
    ASSUME BaseInv, SafeInv, NEW t \in Threads, NEW m \in Msgs, NEW ctx,
           \/ LogpPut(t, m, ctx) /\ pc[t] \notin HeldPCs
           \/ LogpPutDropped(t, m, ctx)
    PROVE  SafeInv'
  <1>1. UNCHANGED <<mem, head, tail, old, cursor, spin, resource, file>>
    BY DEF LogpPut, LogpPutDropped, bufferVars, flushVars
  <1>2. outcome[m] = "new" /\ outcome' \in {[outcome EXCEPT ![m] = "put"],
                                           [outcome EXCEPT ![m] = "dropped"]}
    BY DEF LogpPut, LogpPutDropped, TakeMessage
  <1>3. outcome \in [Msgs -> Outcomes]
    BY DEF BaseInv, TypeInv, TypeOK
  <1>4. \A n \in Msgs : /\ outcome'[n] = "buffered" <=> outcome[n] = "buffered"
                        /\ outcome[n] = "written" => outcome'[n] = "written"
    BY <1>2, <1>3
  <1>5. \A u \in Threads : pc[u] \in HeldPCs \/ pc'[u] \in HeldPCs => pc'[u] = pc[u]
    <2>1. CASE LogpPut(t, m, ctx) /\ pc[t] \notin HeldPCs
      <3>1. PICK where \in {"flush", "buffer"} : pc' = [pc EXCEPT ![t] = where]
        BY <2>1 DEF LogpPut, Goto
      <3> QED
        BY <2>1, <3>1, Basics DEF HeldPCs
    <2>2. CASE LogpPutDropped(t, m, ctx)
      BY <2>2 DEF LogpPutDropped
    <2> QED
      BY <2>1, <2>2
  <1> QED
    BY <1>1, <1>4, <1>5, MoveStep

(* The steps of the threads between their calls. *)
LEMMA BetweenCalls ==
    ASSUME BaseInv, SafeInv,
           \/ Activation \/ ThreadStarts \/ StartSilently \/ FlushThreadRound
           \/ \E t \in Writers : ActivateSilently(t) \/ DisableLog(t) \/ Drained(t)
    PROVE  SafeInv'
  <1>1. UNCHANGED <<mem, head, tail, old, cursor, spin, resource, file, outcome>>
    BY DEF Activation, Activate, FailToActivate, ThreadStarts, StartSilently, FlushThreadRound,
           ActivateSilently, DisableLog, Drained, bufferVars, flushVars, callVars
  <1>2. \A t \in Threads : pc[t] \in HeldPCs \/ pc'[t] \in HeldPCs => pc'[t] = pc[t]
    <2>1. CASE Activation
      BY <2>1, Basics DEF Activation, Activate, FailToActivate, HeldPCs
    <2>2. CASE ~ Activation
      <3>1. PICK t \in Threads, k \in {"started", "sleep", "flush", "idle", "drain", "down"} :
                pc[t] \notin HeldPCs /\ pc' = [pc EXCEPT ![t] = k]
        BY <2>2, Basics
        DEF ThreadStarts, StartSilently, FlushThreadRound, ActivateSilently, DisableLog,
            Drained, Goto, HeldPCs
      <3> QED
        BY <3>1, Basics DEF HeldPCs
    <2> QED
      BY <2>1, <2>2
  <1> QED
    BY <1>1, <1>2, MoveStep

LEMMA AcquireStep ==
    ASSUME BaseInv, SafeInv, NEW t \in Threads, AcquireResource(t)
    PROVE  SafeInv'
  <1>1. /\ UNCHANGED <<mem, head, tail, old, cursor, spin, file, outcome>>
        /\ pc[t] = "flush" /\ resource = None /\ resource' = t
        /\ pc' = [pc EXCEPT ![t] = "switch"]
    BY DEF AcquireResource, bufferVars, Goto
  <1>2. pc'[t] = "switch" /\ \A u \in Threads \ {t} : pc'[u] = pc[u]
    BY <1>1, Basics
  <1>3. Settled("copy") /\ Settled("walk") /\ Settled("wipe")
    BY <1>1, <1>2 DEF Settled
  <1>4. \A m \in Msgs : InFile(m)' <=> InFile(m)
    BY <1>1 DEF InFile
  <1>5. LocksInv'
    BY <1>1, <1>2, Basics DEF SafeInv, LocksInv
  <1>6. FileInv'
    BY <1>1 DEF SafeInv, FileInv, OneOfEach
  <1> QED
    BY <1>1, <1>3, <1>4, <1>5, <1>6, QuietStep DEF SafeInv


-----------------------------------------------------------------------------
(***************************************************************************)
(* The steps of a flush.                                                   *)
(***************************************************************************)

(* A flush walks over whole messages and stops at the '\0' that ends them. *)
LEMMA WalkMeets ==
    ASSUME BaseInv, SafeInv, Walking
    PROVE  /\ Inside /\ Current \in Entries \cup {Nul}
           /\ Current \in Entries => WalksOld
  <1>1. CASE old = head
    <2>1. FlushesEmpty
      BY <1>1 DEF Walking, FlushesEmpty
    <2>2. cursor = 0 /\ mem[old][0] = Nul
      BY <1>1, <2>1 DEF SafeInv, FlushInv, HeadInv
    <2> QED
      BY <2>2, Basics DEF Inside, Current
  <1>2. CASE old # head
    <2>1. PICK end \in Offsets : WalkInv(end)
      BY <1>2 DEF SafeInv, FlushInv, WalksOld
    <2>2. cursor \in Offsets
      BY <2>1, Basics DEF WalkInv, Offsets
    <2>3. mem[old][cursor] \in Entries \cup {Nul}
      BY <2>1, CoversStart, Basics DEF WalkInv, Offsets
    <2> QED
      BY <1>2, <2>2, <2>3 DEF Inside, Current, WalksOld
  <1> QED
    BY <1>1, <1>2

(* Only the owner of the resource is flushing. *)
LEMMA OneFlush ==
    ASSUME BaseInv, SafeInv, NEW t \in Threads, pc[t] \in {"switch", "walk", "wipe"}
    PROVE  /\ resource = t
           /\ \A u \in Threads \ {t} : pc[u] \notin {"switch", "walk", "wipe"}
  BY DEF SafeInv, LocksInv

(* Only the owner of the spin lock is appending. *)
LEMMA OneAppend ==
    ASSUME BaseInv, SafeInv, NEW t \in Threads, pc[t] \in {"copy", "term"}
    PROVE  /\ spin = t /\ ~ FlushesEmpty
           /\ \A u \in Threads \ {t} : pc[u] \notin {"copy", "term"}
  BY Basics DEF SafeInv, LocksInv, FlushInv

(* The head buffer is found empty. *)
LEMMA SwitchEmptyStep ==
    ASSUME BaseInv, SafeInv, NEW t \in Threads, SwitchBuffer(t), EmptyHead
    PROVE  HeadInv' /\ ApartInv' /\ PlaceInv' /\ FlushInv' /\ KeptInv'
  <1> USE Basics
  <1>1. /\ pc[t] = "switch" /\ spin = None /\ old' = head /\ cursor' = 0
        /\ pc' = [pc EXCEPT ![t] = "walk"]
        /\ UNCHANGED <<mem, head, tail, spin, file, outcome>>
    BY DEF SwitchBuffer, callVars, Goto
  <1>2. /\ pc'[t] = "walk" /\ \A u \in Threads \ {t} : pc'[u] = pc[u]
        /\ \A u \in Threads : pc[u] \notin {"walk", "wipe"}
    BY <1>1, OneFlush
  <1>3. tail.off = 0
    BY CoversStart DEF SafeInv, HeadInv, EmptyHead
  <1>4. ~ Walking /\ ~ WalksOld /\ ~ WalksOld' /\ (Copying' <=> Copying)
    BY <1>1, <1>2 DEF Walking, WalksOld, Copying
  <1>5. \A m : (Done(m)' <=> Done(m)) /\ (InFile(m)' <=> InFile(m))
    BY <1>1 DEF Done, InFile
  <1>6. HeadInv'
    BY <1>1, <1>4, <1>5 DEF SafeInv, HeadInv, LeftOver, Waiting, Covers, EndOf, Avail, Used, Usable
  <1>7. ApartInv' /\ PlaceInv'
    BY <1>1 DEF SafeInv, ApartInv, Apart, PlaceInv, EndOf
  <1>8. FlushInv'
    BY <1>1, <1>3, <1>4, <1>5 DEF SafeInv, FlushInv, LeftOver
  <1>9. KeptInv'
    BY <1>1, <1>4, <1>5 DEF SafeInv, KeptInv, BeginsAt
  <1> QED
    BY <1>6, <1>7, <1>8, <1>9

(* The head buffer is not empty, so the last append to it is complete: it becomes
   the old one, and the other one, whose messages are all written, the head. *)
LEMMA SwitchFullStep ==
    ASSUME BaseInv, SafeInv, NEW t \in Threads, SwitchBuffer(t), ~ EmptyHead
    PROVE  HeadInv' /\ ApartInv' /\ PlaceInv' /\ FlushInv' /\ KeptInv'
  <1> USE Basics
  <1>1. /\ pc[t] = "switch" /\ spin = None /\ old' = head /\ cursor' = 0
        /\ pc' = [pc EXCEPT ![t] = "walk"]
        /\ head' = Other(head) /\ tail' = [buf |-> head', off |-> 0]
        /\ mem' = [mem EXCEPT ![Other(head)][0] = Nul]
        /\ UNCHANGED <<spin, file, outcome>>
    BY DEF SwitchBuffer, callVars, Goto
  <1>2. /\ pc'[t] = "walk" /\ \A u \in Threads \ {t} : pc'[u] = pc[u]
        /\ \A u \in Threads : pc[u] \notin {"walk", "wipe"}
        /\ \A u \in Threads : pc[u] # "copy"
    <2>1. \A u \in Threads : pc[u] # "copy"
      BY <1>1 DEF SafeInv, LocksInv
    <2> QED
      BY <1>1, <2>1, OneFlush
  <1>3. mem[head][tail.off] = Nul /\ tail.off > 0
    BY <1>1 DEF SafeInv, HeadInv, EmptyHead
  <1>4. ~ Walking /\ ~ WalksOld /\ WalksOld' /\ ~ FlushesEmpty' /\ ~ Copying'
    BY <1>1, <1>2 DEF Walking, WalksOld, FlushesEmpty, Copying
  <1>5. /\ \A b \in Buffers : Thinner(mem'[b], mem[b])
        /\ mem'[Other(head)][0] = Nul /\ mem'[head] = mem[head]
    BY <1>1, StoreThinner
  <1>6. /\ \A m : (Done(m)' <=> Done(m)) /\ (InFile(m)' <=> InFile(m))
        /\ \A b \in Buffers, o \in Offsets : mem[b][o] \in Entries => mem[b][o].msg \in Msgs
    BY <1>1 DEF Done, InFile, Entries
  <1>7. LeftOver(mem[Other(head)], Offsets)
    BY <1>4 DEF SafeInv, FlushInv
  <1>8. HeadInv'
    <2>1. tail'.off = 0 /\ mem'[head'][0] = Nul
      BY <1>1, <1>5
    <2>2. Covers(mem'[head'], 0, 0) /\ \A o \in 0 .. tail'.off - 1 : FALSE
      BY <2>1 DEF Covers
    <2>3. LeftOver(mem[head], {o \in Offsets : o >= tail.off})'
      BY <1>1, <1>5, <1>6, <1>7 DEF LeftOver, Thinner
    <2>4. Waiting(mem[head], {o \in Offsets : o < tail.off})'
      BY <2>1 DEF Waiting, Offsets
    <2> QED
      BY <1>4, <2>1, <2>2, <2>3, <2>4 DEF HeadInv, Covers, EndOf
  <1>9. ApartInv' /\ PlaceInv'
    BY <1>5, ThinnerWithin, WithinAll, WithinPlaces DEF SafeInv
  <1>10. FlushInv'
    <2>1. PICK end \in Offsets : end = tail.off
      OBVIOUS
    <2>2. WalkInv(end)'
      <3>1. mem'[old'] = mem[head]
        BY <1>1, <1>5
      <3>2. Covers(mem[old], cursor, end)'
        BY <1>1, <2>1, <3>1 DEF SafeInv, HeadInv, Covers, EndOf
      <3>3. LeftOver(mem[old], {o \in Offsets : o < cursor \/ o >= end})'
        BY <1>1, <1>6, <2>1, <3>1 DEF SafeInv, HeadInv, LeftOver, Offsets
      <3>4. Waiting(mem[old], {o \in Offsets : cursor <= o /\ o < end})'
        BY <1>1, <1>6, <2>1, <3>1 DEF SafeInv, HeadInv, Waiting
      <3> QED
        BY <1>1, <1>3, <2>1, <3>1, <3>2, <3>3, <3>4 DEF WalkInv, Offsets
    <2> QED
      BY <1>4, <2>2 DEF FlushInv
  <1>11. KeptInv'
    <2>1. ASSUME NEW m \in Msgs, NEW o \in 0 .. tail.off - 1, BeginsAt(head, o, m)
          PROVE  o \in Offsets /\ o >= cursor' /\ BeginsAt(old, o, m)'
      BY <1>1, <1>5, <2>1 DEF BeginsAt, Offsets
    <2> QED
      BY <1>1, <1>4, <1>6, <2>1 DEF SafeInv, KeptInv
  <1> QED
    BY <1>8, <1>9, <1>10, <1>11

(* The part of the invariant that no step of a flush but its writes affects. *)
LEMMA LocksAndFile ==
    ASSUME BaseInv, SafeInv, NEW t \in Threads,
           NEW k \in {"walk", "wipe"}, pc[t] \in {"switch", "walk"}, pc' = [pc EXCEPT ![t] = k],
           UNCHANGED <<spin, resource, file, outcome>>
    PROVE  LocksInv' /\ FileInv'
  <1>1. pc'[t] = k /\ \A u \in Threads \ {t} : pc'[u] = pc[u]
    BY Basics
  <1> QED
    BY <1>1 DEF SafeInv, LocksInv, FileInv, OneOfEach

LEMMA SwitchStep ==
    ASSUME BaseInv, SafeInv, NEW t \in Threads, SwitchBuffer(t)
    PROVE  SafeInv'
  <1>1. LocksInv' /\ FileInv'
    BY LocksAndFile DEF SwitchBuffer, callVars, Goto
  <1> QED
    BY <1>1, SwitchEmptyStep, SwitchFullStep DEF SafeInv

(* The walk ends where the messages end: all of them are written. *)
LEMMA EndWalkStep ==
    ASSUME BaseInv, SafeInv, NEW t \in Threads, EndOfEntries(t)
    PROVE  SafeInv'
  <1> USE Basics
  <1>1. /\ pc[t] = "walk" /\ pc' = [pc EXCEPT ![t] = "wipe"]
        /\ UNCHANGED <<mem, head, tail, old, cursor, spin, resource, file, outcome>>
        /\ Inside => Current = Nul
    BY DEF EndOfEntries, bufferVars, flushVars, callVars, Goto
  <1>2. /\ pc'[t] = "wipe" /\ \A u \in Threads \ {t} : pc'[u] = pc[u]
        /\ \A u \in Threads \ {t} : pc[u] \notin {"walk", "wipe"}
    BY <1>1, OneFlush
  <1>3. /\ Walking /\ ~ Walking' /\ ~ WalksOld' /\ (Copying' <=> Copying)
        /\ (FlushesEmpty' => FlushesEmpty)
    BY <1>1, <1>2 DEF Walking, WalksOld, Copying, FlushesEmpty
  <1>4. LeftOver(mem[Other(head)], Offsets)
    <2>1. CASE ~ WalksOld
      BY <2>1 DEF SafeInv, FlushInv
    <2>2. CASE WalksOld
      <3>1. PICK end \in Offsets : WalkInv(end)
        BY <2>2 DEF SafeInv, FlushInv
      <3>2. mem[old][cursor] = Nul /\ old = Other(head)
        BY <1>1, <1>3, <2>2, WalkMeets DEF Current, WalksOld
      <3>3. cursor = end
        BY <3>1, <3>2, CoversStart DEF WalkInv, Offsets
      <3> QED
        BY <3>1, <3>2, <3>3 DEF WalkInv, LeftOver, Offsets
    <2> QED
      BY <2>1, <2>2
  <1>5. \A m : (Done(m)' <=> Done(m)) /\ (InFile(m)' <=> InFile(m))
    BY <1>1 DEF Done, InFile
  <1>6. LocksInv' /\ FileInv'
    BY <1>1, LocksAndFile
  <1>7. HeadInv'
    BY <1>1, <1>3, <1>5 DEF SafeInv, HeadInv, LeftOver, Waiting, Covers, EndOf, Avail, Used, Usable
  <1>8. ApartInv' /\ PlaceInv'
    BY <1>1 DEF SafeInv, ApartInv, Apart, PlaceInv, EndOf
  <1>9. FlushInv'
    BY <1>1, <1>3, <1>4, <1>5 DEF SafeInv, FlushInv, LeftOver
  <1>10. KeptInv'
    <2> SUFFICES ASSUME NEW m \in Msgs, outcome[m] = "buffered", ~ InFile(m)
                 PROVE  \E o \in 0 .. tail.off - 1 : BeginsAt(head, o, m)
      BY <1>1, <1>5 DEF KeptInv, BeginsAt
    <2>1. \A o \in Offsets : ~ BeginsAt(Other(head), o, m)
      BY <1>4 DEF LeftOver, BeginsAt, Done
    <2> QED
      BY <2>1 DEF SafeInv, KeptInv, WalksOld
  <1> QED
    BY <1>6, <1>7, <1>8, <1>9, <1>10 DEF SafeInv

(* The first byte of the old buffer becomes '\0'; if that is the head buffer, it is
   one already. *)
LEMMA WipeStep ==
    ASSUME BaseInv, SafeInv, NEW t \in Threads, WipeAndRelease(t)
    PROVE  SafeInv'
  <1> USE Basics
  <1>1. /\ pc[t] = "wipe" /\ mem' = [mem EXCEPT ![old][0] = Nul]
        /\ resource' = None /\ old' = 1 /\ cursor' = 0
        /\ UNCHANGED <<head, tail, spin, file, outcome>>
    BY DEF WipeAndRelease, callVars
  <1>2. PICK k \in {"sleep", "write"} : pc' = [pc EXCEPT ![t] = k]
    BY DEF WipeAndRelease, Goto
  <1>3. /\ pc'[t] = k /\ \A u \in Threads \ {t} : pc'[u] = pc[u]
        /\ \A u \in Threads \ {t} : pc[u] \notin {"switch", "walk", "wipe"}
    BY <1>1, <1>2, OneFlush
  <1>4. /\ ~ WalksOld /\ ~ WalksOld' /\ (Copying' <=> Copying) /\ ~ FlushesEmpty'
    BY <1>1, <1>2, <1>3 DEF Walking, WalksOld, Copying, FlushesEmpty
  <1>5. mem'[head] = mem[head]
    <2>1. CASE old = head
      <3>1. FlushesEmpty
        BY <1>1, <2>1 DEF FlushesEmpty
      <3>2. mem[head][0] = Nul
        BY <3>1 DEF SafeInv, FlushInv, HeadInv
      <3> QED
        BY <1>1, <2>1, <3>2
    <2>2. CASE old # head
      BY <1>1, <2>2
    <2> QED
      BY <2>1, <2>2
  <1>6. \A b \in Buffers : Thinner(mem'[b], mem[b])
    BY <1>1, StoreThinner
  <1>7. \A m : (Done(m)' <=> Done(m)) /\ (InFile(m)' <=> InFile(m))
    BY <1>1 DEF Done, InFile
  <1>8. LocksInv'
    BY <1>1, <1>3 DEF SafeInv, LocksInv
  <1>9. FileInv'
    BY <1>1 DEF SafeInv, FileInv, OneOfEach
  <1>10. HeadInv'
    BY <1>1, <1>4, <1>5, <1>7
    DEF SafeInv, HeadInv, LeftOver, Waiting, Covers, EndOf, Avail, Used, Usable
  <1>11. ApartInv' /\ PlaceInv'
    BY <1>6, ThinnerWithin, WithinAll, WithinPlaces DEF SafeInv
  <1>12. FlushInv'
    <2>1. LeftOver(mem[Other(head)], Offsets)
      BY <1>4 DEF SafeInv, FlushInv
    <2>2. LeftOver(mem[Other(head)], Offsets)'
      BY <1>1, <1>6, <1>7, <2>1 DEF Thinner, LeftOver
    <2> QED
      BY <1>4, <2>2 DEF FlushInv
  <1>13. KeptInv'
    BY <1>1, <1>4, <1>5, <1>7 DEF SafeInv, KeptInv, BeginsAt
  <1> QED
    BY <1>8, <1>9, <1>10, <1>11, <1>12, <1>13 DEF SafeInv

(* What an iteration on the message at the cursor does to its buffer: the message
   stays, with its printed bit cleared, or is cut; nothing else is touched. *)
LEMMA WriteEffect ==
    ASSUME BaseInv, ApartInv, NEW t \in Threads, WriteEntry(t)
    PROVE  /\ cursor' = EndOf(mem[old], cursor) /\ cursor' \in Nat /\ cursor' > cursor
           /\ \A b \in Buffers \ {old} : mem'[b] = mem[b]
           /\ \A o \in Offsets : o < cursor \/ o >= cursor' => mem'[old][o] = mem[old][o]
           /\ \A o \in Offsets : o > cursor /\ mem[old][o] \in Entries => o >= cursor'
           /\ mem'[old][cursor] \in Entries =>
                 mem[old][cursor].printed /\ mem'[old][cursor].printed = FALSE
  <1> USE Basics
  <1>1. cursor \in Offsets /\ mem[old][cursor] \in Entries
    BY DEF WriteEntry, Inside, Current
  <1>2. PICK m \in Msgs : m = mem[old][cursor].msg
    BY <1>1 DEF Entries
  <1>3. cursor' = cursor + Size[m] /\ EndOf(mem[old], cursor) = cursor + Size[m]
    BY <1>2 DEF WriteEntry, StepOver, Current, EndOf
  <1>4. Apart(mem[old])
    BY DEF ApartInv
  <1>5. \A o \in Offsets : o > cursor /\ mem[old][o] \in Entries => o >= cursor'
    BY <1>1, <1>3, <1>4 DEF Apart
  <1>6. CASE mem[old][cursor].printed
    <2>1. mem' = [mem EXCEPT ![old][cursor] = [msg |-> m, printed |-> FALSE]]
      BY <1>2, <1>6 DEF WriteEntry, Current
    <2> QED
      BY <1>1, <1>2, <1>3, <1>5, <1>6, <2>1 DEF Offsets
  <1>7. CASE ~ mem[old][cursor].printed
    <2>1. PICK p \in Nat : p = cursor + Size[m] - 2
      BY <1>1, <1>2 DEF Offsets
    <2>2. PICK new : new = CutAt(mem[old], p)
      OBVIOUS
    <2>3. mem' = [mem EXCEPT ![old] = new]
      BY <1>2, <1>7, <2>1, <2>2 DEF WriteEntry, Current
    <2>4. \A o \in Offsets : o >= cursor' => new[o] = mem[old][o]
      BY <1>2, <1>3, <2>1, <2>2 DEF CutAt, Offsets
    <2>5. ASSUME NEW o \in Offsets, o < cursor PROVE new[o] = mem[old][o]
      <3>1. mem[old][o] \in Entries => o + Size[mem[old][o].msg] <= cursor
        BY <1>1, <1>4, <2>5 DEF Apart, EndOf
      <3>2. o # p /\ o # p - 1 /\ cursor < p
        BY <1>1, <1>2, <2>1, <2>5 DEF Offsets
      <3>3. mem[old][o] \in Entries => ~ (p <= o + Size[mem[old][o].msg])
        BY <1>1, <3>1, <3>2 DEF Entries, Offsets
      <3> QED
        BY <2>2, <3>2, <3>3 DEF CutAt
    <2>6. new[cursor] \notin Entries
      BY <1>1, <1>2, <2>1, <2>2 DEF CutAt, Offsets
    <2> HIDE DEF WriteEntry
    <2> QED
      BY <1>1, <1>2, <1>3, <1>5, <2>3, <2>4, <2>5, <2>6 DEF Offsets
  <1> QED
    BY <1>6, <1>7

(* The flush writes the message at the cursor and steps to the next one. *)
LEMMA WriteStep ==
    ASSUME BaseInv, SafeInv, NEW t \in Threads, WriteEntry(t)
    PROVE  SafeInv'
  <1> USE Basics
  <1>1. /\ pc[t] = "walk" /\ UNCHANGED <<head, tail, spin, resource, old, pc>>
        /\ cursor \in Offsets /\ mem[old][cursor] \in Entries
    BY DEF WriteEntry, Inside, Current, callVars
  <1>2. PICK m \in Msgs : m = mem[old][cursor].msg
    BY <1>1 DEF Entries
  <1>3. \/ file' = Append(file, m) /\ outcome' = outcome
        \/ file' = file /\ outcome' = [outcome EXCEPT ![m] = "failed"]
    BY <1>2 DEF WriteEntry, Current
  <1>4. WalksOld /\ old = Other(head)
    BY <1>1, WalkMeets DEF Walking, Current, WalksOld
  <1>5. PICK end \in Offsets : WalkInv(end)
    BY <1>4 DEF SafeInv, FlushInv
  <1>6. /\ cursor' = EndOf(mem[old], cursor) /\ cursor' \in Nat /\ cursor' > cursor
        /\ mem'[head] = mem[head]
        /\ \A o \in Offsets : o < cursor \/ o >= cursor' => mem'[old][o] = mem[old][o]
        /\ \A o \in Offsets : o > cursor /\ mem[old][o] \in Entries => o >= cursor'
    BY <1>4, WriteEffect DEF SafeInv
  <1>7. AllWithin
    BY FlushStepWithin DEF BaseInv, TypeInv, FlushStep
  <1>8. \A b \in Buffers, o \in Offsets :
            /\ mem[b][o] \in Entries => mem[b][o].msg \in Msgs
            /\ mem'[b][o] \in Entries =>
                   mem[b][o] \in Entries /\ mem'[b][o].msg = mem[b][o].msg
    BY <1>7 DEF AllWithin, Within, Entries
  <1>9. file \in Seq(Msgs \cup {Torn}) /\ outcome \in [Msgs -> Outcomes]
    BY DEF BaseInv, TypeInv, TypeOK
  <1>10. \A n \in Msgs : n # m => (InFile(n)' <=> InFile(n)) /\ outcome'[n] = outcome[n]
    <2>1. file' = file \/ file' = Append(file, m)
      BY <1>3
    <2>2. \A n : n # m => (InFile(n)' <=> InFile(n))
      BY <2>1, OnlyAppended
    <2>3. \A n \in Msgs : n # m => outcome'[n] = outcome[n]
      BY <1>3, <1>9
    <2> QED
      BY <2>2, <2>3
  <1>11. \A n \in Msgs \ {m} : Done(n)' <=> Done(n)
    BY <1>10 DEF Done
  <1>12. Done(m)'
    <2>1. CASE file' = Append(file, m)
      <3>1. Len(file') \in 1 .. Len(file') /\ file'[Len(file')] = m
        BY <1>9, <2>1
      <3> QED
        BY <3>1 DEF Done, InFile
    <2>2. CASE outcome' = [outcome EXCEPT ![m] = "failed"]
      BY <1>9, <2>2 DEF Done
    <2> QED
      BY <1>3, <2>1, <2>2
  <1>13. \A b \in Buffers, o \in Offsets :
            mem[b][o] \in Entries /\ (b # old \/ o # cursor) => mem[b][o].msg \in Msgs \ {m}
    BY <1>1, <1>2, <1>8 DEF SafeInv, PlaceInv
  <1>14. cursor < end /\ cursor' <= end
    <2>1. cursor < end
      BY <1>1, <1>5 DEF WalkInv, Offsets
    <2> QED
      BY <1>1, <1>5, <1>6, <2>1, CoversStart DEF WalkInv, Offsets
  <1>15. LocksInv'
    BY <1>1 DEF SafeInv, LocksInv
  <1>16. HeadInv'
    <2>1. Waiting(mem[head], {o \in Offsets : o < tail.off})'
      BY <1>1, <1>4, <1>6, <1>11, <1>13 DEF SafeInv, HeadInv, Waiting
    <2>2. LeftOver(mem[head], {o \in Offsets : o >= tail.off})'
      BY <1>1, <1>4, <1>6, <1>11, <1>13 DEF SafeInv, HeadInv, LeftOver
    <2> QED
      BY <1>1, <1>6, <2>1, <2>2 DEF SafeInv, HeadInv, Copying, Covers, EndOf, Avail, Used, Usable
  <1>17. ApartInv' /\ PlaceInv'
    BY <1>7, WithinAll, WithinPlaces DEF SafeInv
  <1>18. WalkInv(end)'
    <2>1. Covers(mem[old], cursor, end)'
      <3> SUFFICES ASSUME NEW p \in cursor' .. end - 1
                   PROVE  \E q \in cursor' .. p :
                              /\ mem'[old][q] \in Entries
                              /\ p < EndOf(mem'[old], q) /\ EndOf(mem'[old], q) <= end
        BY <1>1 DEF Covers, EndOf
      <3>1. PICK q \in cursor .. p : /\ mem[old][q] \in Entries
                                     /\ p < EndOf(mem[old], q) /\ EndOf(mem[old], q) <= end
        BY <1>5, <1>6 DEF WalkInv, Covers
      <3>2. q \in Offsets /\ q # cursor
        BY <1>6, <1>14, <3>1 DEF Offsets
      <3>3. q \in cursor' .. p
        BY <1>6, <3>1, <3>2
      <3>4. mem'[old][q] = mem[old][q]
        BY <1>6, <3>2, <3>3
      <3> QED
        BY <3>1, <3>3, <3>4 DEF EndOf
    <2>2. ASSUME NEW o \in Offsets, o < cursor' \/ o >= end, mem'[old][o] \in Entries
          PROVE  Done(mem[old][o].msg)'
      <3>1. PICK n \in Msgs : mem[old][o].msg = n /\ mem'[old'][o].msg = n
        BY <1>1, <1>8, <2>2
      <3>2. CASE o = cursor
        BY <1>2, <1>12, <3>1, <3>2
      <3>3. CASE o # cursor
        <4>1. o < cursor \/ o >= end
          BY <1>1, <1>6, <1>8, <1>14, <2>2, <3>3 DEF Offsets
        <4>2. Done(n)
          BY <1>5, <1>8, <2>2, <3>1, <4>1 DEF WalkInv, LeftOver
        <4>3. n # m
          BY <1>8, <1>13, <2>2, <3>1, <3>3
        <4> QED
          BY <1>11, <3>1, <4>2, <4>3
      <3> QED
        BY <3>2, <3>3
    <2>3. mem'[old][end] = Nul
      BY <1>5, <1>6, <1>14 DEF WalkInv
    <2>4. ASSUME NEW o \in Offsets, cursor' <= o, o < end, mem'[old][o] \in Entries
          PROVE  ~ Done(mem[old][o].msg)'
      <3>1. PICK n \in Msgs \ {m} : mem[old][o].msg = n /\ mem'[old'][o].msg = n
        BY <1>1, <1>6, <1>8, <1>13, <2>4 DEF Offsets
      <3>2. ~ Done(n)
        BY <1>1, <1>5, <1>6, <1>8, <2>4, <3>1 DEF WalkInv, Waiting, Offsets
      <3> QED
        BY <1>11, <3>1, <3>2
    <2> QED
      BY <1>1, <1>14, <2>1, <2>2, <2>3, <2>4 DEF WalkInv, LeftOver, Waiting
  <1>19. FlushInv'
    <2>1. WalksOld' /\ ~ FlushesEmpty'
      BY <1>1, <1>4 DEF WalksOld, Walking, FlushesEmpty
    <2> QED
      BY <1>18, <2>1 DEF FlushInv
  <1>20. KeptInv'
    <2> SUFFICES ASSUME NEW n \in Msgs, outcome'[n] = "buffered", ~ InFile(n)'
                 PROVE  \/ \E o \in 0 .. tail.off - 1 : BeginsAt(head, o, n)'
                        \/ \E o \in Offsets : o >= cursor' /\ BeginsAt(old, o, n)'
      BY <1>1, <1>4 DEF KeptInv, WalksOld, Walking
    <2>1. outcome[n] = "buffered" /\ ~ InFile(n) /\ n # m
      BY <1>10, <1>12 DEF Done
    <2>2. ASSUME NEW o \in 0 .. tail.off - 1, BeginsAt(head, o, n)
          PROVE  BeginsAt(head, o, n)'
      BY <1>1, <1>6, <2>2 DEF BeginsAt
    <2>3. ASSUME NEW o \in Offsets, o >= cursor, BeginsAt(old, o, n)
          PROVE  o >= cursor' /\ BeginsAt(old, o, n)'
      <3>1. o # cursor
        BY <1>2, <2>1, <2>3 DEF BeginsAt
      <3>2. o >= cursor' /\ mem'[old][o] = mem[old][o]
        BY <1>1, <1>6, <2>3, <3>1 DEF BeginsAt, Offsets
      <3> QED
        BY <1>1, <2>3, <3>2 DEF BeginsAt
    <2> QED
      BY <2>1, <2>2, <2>3 DEF SafeInv, KeptInv
  <1>21. FileInv'
    <2>1. ~ InFile(m) /\ outcome[m] = "buffered"
      BY <1>1, <1>2, <1>5, <1>14 DEF WalkInv, Waiting, Done
    <2>2. CASE file' = Append(file, m) /\ outcome' = outcome
      BY <2>1, <2>2, AppendOne DEF SafeInv
    <2>3. CASE file' = file /\ outcome' = [outcome EXCEPT ![m] = "failed"]
      BY <1>9, <2>1, <2>3 DEF SafeInv, FileInv, OneOfEach, InFile
    <2> QED
      BY <1>3, <2>2, <2>3
  <1> QED
    BY <1>15, <1>16, <1>17, <1>19, <1>20, <1>21 DEF SafeInv

-----------------------------------------------------------------------------
(***************************************************************************)
(* The steps of an append.                                                 *)
(***************************************************************************)

(* A step that changes nothing below the tail, and adds no message above it. *)
LEMMA AboveTheTail ==
    ASSUME BaseInv, SafeInv, UNCHANGED <<head, tail, old, cursor, file>>,
           \A b \in Buffers : Thinner(mem'[b], mem[b]),
           \A p \in Offsets : p < tail.off => mem'[head][p] = mem[head][p],
           mem'[Other(head)] = mem[Other(head)],
           \A m \in Msgs : /\ outcome'[m] = "buffered" <=> outcome[m] = "buffered"
                           /\ outcome[m] = "written" => outcome'[m] = "written",
           spin' = None => mem'[head][tail.off] = Nul,
           Copying' /\ Avail(tail) > 1 => mem'[head][tail.off] = Begun,
           ~ FlushesEmpty, Settled("walk"), Settled("wipe")
    PROVE  HeadInv' /\ ApartInv' /\ PlaceInv' /\ FlushInv' /\ KeptInv' /\ FileInv'
  <1> USE Basics
  <1>1. \A m \in Msgs : (Done(m)' <=> Done(m)) /\ (InFile(m)' <=> InFile(m))
    BY DEF Done, InFile
  <1>2. \A b \in Buffers, o \in Offsets : mem[b][o] \in Entries => mem[b][o].msg \in Msgs
    BY DEF Entries
  <1>3. /\ (Walking' <=> Walking) /\ (WalksOld' <=> WalksOld) /\ ~ FlushesEmpty'
        /\ WalksOld => old = Other(head)
    BY DEF Walking, WalksOld, FlushesEmpty, Settled
  <1>4. HeadInv'
    <2>1. \A o \in 0 .. tail.off - 1 : mem'[head][o] = mem[head][o]
      BY DEF Offsets
    <2>2. Covers(mem'[head], 0, tail.off)
      BY <2>1, CoversSame DEF SafeInv, HeadInv
    <2>3. \A o \in 0 .. tail.off - 1 :
             mem'[head][o] \in Entries => EndOf(mem'[head], o) <= tail.off
      BY <2>1 DEF SafeInv, HeadInv, EndOf
    <2>4. LeftOver(mem[head], {o \in Offsets : o >= tail.off})'
      BY <1>1, <1>2 DEF SafeInv, HeadInv, LeftOver, Thinner
    <2>5. Waiting(mem[head], {o \in Offsets : o < tail.off})'
      BY <1>1, <1>2 DEF SafeInv, HeadInv, Waiting
    <2> QED
      BY <2>2, <2>3, <2>4, <2>5 DEF HeadInv, Covers, EndOf, Avail, Used, Usable
  <1>5. ApartInv' /\ PlaceInv'
    BY ThinnerWithin, WithinAll, WithinPlaces DEF SafeInv
  <1>6. FlushInv'
    <2>1. ASSUME NEW end \in Offsets, WalkInv(end), WalksOld
          PROVE  WalkInv(end)'
      BY <1>1, <1>2, <1>3, <2>1 DEF WalkInv, LeftOver, Waiting, Covers, EndOf
    <2>2. ASSUME LeftOver(mem[Other(head)], Offsets) PROVE LeftOver(mem[Other(head)], Offsets)'
      BY <1>1, <1>2, <2>2 DEF LeftOver
    <2> QED
      BY <1>3, <2>1, <2>2 DEF SafeInv, FlushInv
  <1>7. KeptInv'
    <2>1. ASSUME NEW m \in Msgs, NEW o \in 0 .. tail.off - 1, BeginsAt(head, o, m)
          PROVE  BeginsAt(head, o, m)'
      <3>1. o \in Offsets /\ o < tail.off
        BY <2>1 DEF Offsets
      <3> QED
        BY <2>1, <3>1 DEF BeginsAt
    <2>2. ASSUME NEW m \in Msgs, NEW o \in Offsets, WalksOld, BeginsAt(old, o, m)
          PROVE  BeginsAt(old, o, m)'
      BY <1>3, <2>2 DEF BeginsAt
    <2> QED
      BY <1>1, <1>3, <2>1, <2>2 DEF SafeInv, KeptInv
  <1>8. FileInv'
    BY DEF SafeInv, FileInv, OneOfEach
  <1> QED
    BY <1>4, <1>5, <1>6, <1>7, <1>8

(* An append that begins while no flush takes the head buffer for an empty one. *)
LEMMA StartStep ==
    ASSUME BaseInv, SafeInv, NEW t \in Threads, StartCopy(t), ~ FlushesEmpty
    PROVE  SafeInv'
  <1> USE Basics
  <1>1. /\ pc[t] = "buffer" /\ spin = None /\ spin' = t
        /\ pc' = [pc EXCEPT ![t] = "copy"]
        /\ UNCHANGED <<head, tail, old, cursor, resource, file, outcome>>
    BY DEF StartCopy, flushVars, callVars, Goto
  <1>2. pc'[t] = "copy" /\ \A u \in Threads \ {t} : pc'[u] = pc[u]
    BY <1>1
  <1>3. LocksInv'
    BY <1>1, <1>2 DEF SafeInv, LocksInv
  <1>4. Settled("walk") /\ Settled("wipe")
    BY <1>1, <1>2 DEF Settled
  <1>5. CASE Avail(tail) > 1
    <2>1. mem' = [mem EXCEPT ![head][tail.off] = Begun]
      BY <1>5 DEF StartCopy
    <2>2. /\ \A b \in Buffers : Thinner(mem'[b], mem[b])
          /\ \A p \in Offsets : p < tail.off => mem'[head][p] = mem[head][p]
          /\ mem'[Other(head)] = mem[Other(head)] /\ mem'[head][tail.off] = Begun
      <3>1. /\ \A b \in Buffers : Thinner(mem'[b], mem[b])
            /\ mem'[head][tail.off] = Begun
            /\ \A p \in Offsets \ {tail.off} : mem'[head][p] = mem[head][p]
            /\ \A b \in Buffers \ {head} : mem'[b] = mem[b]
        BY <2>1, StoreThinner
      <3> QED
        BY <3>1
    <2>3. HeadInv' /\ ApartInv' /\ PlaceInv' /\ FlushInv' /\ KeptInv' /\ FileInv'
      BY <1>1, <1>4, <2>2, AboveTheTail
    <2> QED
      BY <1>3, <2>3 DEF SafeInv
  <1>6. CASE ~ (Avail(tail) > 1)
    <2>1. mem' = mem
      BY <1>6 DEF StartCopy
    <2>2. \A b \in Buffers : Thinner(mem'[b], mem[b])
      BY <2>1 DEF Thinner
    <2>3. HeadInv' /\ ApartInv' /\ PlaceInv' /\ FlushInv' /\ KeptInv' /\ FileInv'
      BY <1>1, <1>4, <1>6, <2>1, <2>2, AboveTheTail
    <2> QED
      BY <1>3, <2>3 DEF SafeInv
  <1> QED
    BY <1>5, <1>6

(* A call that returns leaves its thread outside of any flush and append. *)
LEMMA ReturnSettles ==
    ASSUME BaseInv, NEW t \in Threads, Return(t), pc[t] \in {"term", "write"}
    PROVE  /\ pc'[t] \notin HeldPCs /\ \A u \in Threads \ {t} : pc'[u] = pc[u]
           /\ Settled("walk") /\ Settled("wipe") /\ Settled("copy")
  <1>1. PICK k \in {"sleep", "disable", "idle"} : pc' = [pc EXCEPT ![t] = k]
    BY DEF Return, Goto
  <1>2. pc'[t] = k /\ \A u \in Threads \ {t} : pc'[u] = pc[u]
    BY <1>1, Basics
  <1> QED
    BY <1>2 DEF Settled, HeldPCs

LEMMA TerminateStep ==
    ASSUME BaseInv, SafeInv, NEW t \in Threads, Terminate(t)
    PROVE  SafeInv'
  <1> USE Basics
  <1>1. /\ pc[t] = "term" /\ spin' = None /\ Return(t)
        /\ mem' = [mem EXCEPT ![head][tail.off] = Nul]
        /\ UNCHANGED <<head, tail, old, cursor, resource, file, outcome>>
    BY DEF Terminate, flushVars
  <1>2. /\ pc'[t] \notin HeldPCs /\ \A u \in Threads \ {t} : pc'[u] = pc[u]
        /\ Settled("walk") /\ Settled("wipe") /\ Settled("copy")
    BY <1>1, ReturnSettles
  <1>3. spin = t /\ ~ FlushesEmpty /\ ~ Copying'
    <2>1. \A u \in Threads \ {t} : pc[u] \notin {"copy", "term"}
      BY <1>1, OneAppend
    <2> QED
      BY <1>1, <1>2, <2>1, OneAppend DEF Copying, Settled
  <1>4. /\ \A b \in Buffers : Thinner(mem'[b], mem[b])
        /\ \A p \in Offsets : p < tail.off => mem'[head][p] = mem[head][p]
        /\ mem'[Other(head)] = mem[Other(head)] /\ mem'[head][tail.off] = Nul
    <2>1. mem' = [mem EXCEPT ![head][tail.off] = Nul]
      BY <1>1
    <2>2. /\ \A b \in Buffers : Thinner(mem'[b], mem[b])
          /\ mem'[head][tail.off] = Nul
          /\ \A p \in Offsets \ {tail.off} : mem'[head][p] = mem[head][p]
          /\ \A b \in Buffers \ {head} : mem'[b] = mem[b]
      BY <2>1, StoreThinner
    <2> QED
      BY <2>2
  <1>5. LocksInv'
    BY <1>1, <1>2, <1>3 DEF SafeInv, LocksInv, HeldPCs
  <1>6. HeadInv' /\ ApartInv' /\ PlaceInv' /\ FlushInv' /\ KeptInv' /\ FileInv'
    BY <1>1, <1>2, <1>3, <1>4, AboveTheTail
  <1> QED
    BY <1>5, <1>6 DEF SafeInv

(* The end of a copy: where its thread is, and that no flush is in its way. *)
LEMMA CopyEnds ==
    ASSUME BaseInv, SafeInv, NEW t \in Threads, FinishCopy(t)
    PROVE  /\ pc[t] = "copy" /\ pc'[t] = "term" /\ \A u \in Threads \ {t} : pc'[u] = pc[u]
           /\ op[t].msg \in Msgs /\ outcome[op[t].msg] = "put"
           /\ ~ FlushesEmpty /\ Copying /\ ~ Copying'
           /\ Settled("walk") /\ Settled("wipe") /\ LocksInv'
           /\ UNCHANGED <<head, spin, old, cursor, resource, file>> /\ spin' # None
           /\ Avail(tail) > 1 => mem[head][tail.off] = Begun
  <1> USE Basics
  <1>1. /\ pc[t] = "copy" /\ pc' = [pc EXCEPT ![t] = "term"]
        /\ UNCHANGED <<head, spin, old, cursor, resource, file>>
    BY DEF FinishCopy, flushVars, callVars, Goto
  <1>2. pc'[t] = "term" /\ \A u \in Threads \ {t} : pc'[u] = pc[u]
    BY <1>1
  <1>3. /\ spin = t /\ ~ FlushesEmpty
        /\ \A u \in Threads \ {t} : pc[u] \notin {"copy", "term"}
    BY <1>1, OneAppend
  <1>4. op[t] \in Calls
    BY <1>1 DEF BaseInv, TypeInv, CallInv, HoldingPCs
  <1>5. outcome[op[t].msg] = "put" /\ op[t].msg \in Msgs
    BY <1>1, <1>4, CallsAreCalls
    DEF BaseInv, FateInv, OwnerInv, IsOpen, OpenPCs, BusyPCs, Calls
  <1>6. Copying /\ ~ Copying'
    BY <1>1, <1>2, <1>3 DEF Copying
  <1>7. LocksInv'
    BY <1>1, <1>2, <1>3 DEF SafeInv, LocksInv
  <1>8. Settled("walk") /\ Settled("wipe")
    BY <1>1, <1>2 DEF Settled
  <1> QED
    BY <1>1, <1>2, <1>3, <1>5, <1>6, <1>7, <1>8 DEF SafeInv, HeadInv

(* The text of a message that does not fit is no message. *)
LEMMA CutOffThins ==
    ASSUME BaseInv, NEW t \in Threads, FinishCopy(t), ~ Fits(tail, op[t].msg)
    PROVE  /\ \A b \in Buffers : Thinner(mem'[b], mem[b])
           /\ \A p \in Offsets : p < tail.off => mem'[head][p] = mem[head][p]
           /\ mem'[Other(head)] = mem[Other(head)]
  <1> USE Basics
  <1>1. CASE mem' = mem
    BY <1>1 DEF Thinner
  <1>2. CASE mem' # mem
    <2>1. PICK first \in Surviving(mem[head][tail.off], Torn) :
              mem' = [mem EXCEPT ![head] = Overwrite(@, tail.off, Avail(tail), first)]
      BY <1>2 DEF FinishCopy, Copied
    <2>2. PICK new : new = Overwrite(mem[head], tail.off, Avail(tail), first)
      OBVIOUS
    <2>3. Avail(tail) \in Nat /\ Avail(tail) > 0 /\ mem' = [mem EXCEPT ![head] = new]
      <3>1. Avail(tail) > 0
        BY <1>2 DEF FinishCopy
      <3> QED
        BY <2>1, <2>2, <3>1 DEF Avail, Used
    <2>4. first \notin Entries
      BY SurvivingCells
    <2>5. \A p \in Offsets : new[p] \in Entries => new[p] = mem[head][p]
      BY <2>2, <2>3, <2>4, OverwriteEntries
    <2>6. \A p \in Offsets : p < tail.off => new[p] = mem[head][p]
      BY <2>2, <2>3 DEF Overwrite, Offsets
    <2> QED
      BY <2>3, <2>5, <2>6 DEF Thinner
  <1> QED
    BY <1>1, <1>2

(* A message that does not fit is cut off. *)
LEMMA CutOffStep ==
    ASSUME BaseInv, SafeInv, NEW t \in Threads, FinishCopy(t), ~ Fits(tail, op[t].msg)
    PROVE  SafeInv'
  <1> USE Basics
  <1>1. /\ op[t].msg \in Msgs /\ outcome[op[t].msg] = "put" /\ ~ FlushesEmpty /\ ~ Copying'
        /\ Settled("walk") /\ Settled("wipe") /\ LocksInv'
        /\ UNCHANGED <<head, spin, old, cursor, resource, file>> /\ spin' # None
    BY CopyEnds
  <1>2. tail' = tail /\ outcome' = [outcome EXCEPT ![op[t].msg] = "overflow"]
    BY DEF FinishCopy
  <1>3. /\ \A b \in Buffers : Thinner(mem'[b], mem[b])
        /\ \A p \in Offsets : p < tail.off => mem'[head][p] = mem[head][p]
        /\ mem'[Other(head)] = mem[Other(head)]
    BY CutOffThins
  <1>4. \A m \in Msgs : /\ outcome'[m] = "buffered" <=> outcome[m] = "buffered"
                        /\ outcome[m] = "written" => outcome'[m] = "written"
    BY <1>1, <1>2 DEF BaseInv, TypeInv, TypeOK
  <1>5. HeadInv' /\ ApartInv' /\ PlaceInv' /\ FlushInv' /\ KeptInv' /\ FileInv'
    BY <1>1, <1>2, <1>3, <1>4, AboveTheTail
  <1> QED
    BY <1>1, <1>5 DEF SafeInv

(* What the append of a message that fits leaves in the head buffer, if its first
   byte has been left alone: the message at the tail, and what was there below it
   and above its end. *)
LEMMA WholeAppend ==
    ASSUME BaseInv, NEW t \in Threads, FinishCopy(t), Fits(tail, op[t].msg),
           Avail(tail) > 1 => mem[head][tail.off] = Begun,
           NEW m \in Msgs, m = op[t].msg, NEW off \in Nat, off = tail.off
    PROVE  /\ off + Size[m] <= Usable
           /\ tail'.off = off + Size[m] /\ tail'.buf = head
           /\ outcome' = [outcome EXCEPT ![m] = "buffered"]
           /\ mem'[Other(head)] = mem[Other(head)]
           /\ mem'[head][off].printed <=> DoDbgPrint(op[t].ctx)
           /\ mem'[head][off] \in Entries /\ mem'[head][off].msg = m
           /\ EndOf(mem'[head], off) = off + Size[m]
           /\ \A p \in Offsets : p < off => mem'[head][p] = mem[head][p]
           /\ \A p \in Offsets : mem'[head][p] \in Entries =>
                 p = off \/ (mem'[head][p] = mem[head][p] /\ (p < off \/ p >= off + Size[m]))
  <1> USE Basics
  <1>1. PICK entry \in Entries :
            /\ entry = [msg |-> m, printed |-> DoDbgPrint(op[t].ctx)]
            /\ entry.msg = m /\ (entry.printed <=> DoDbgPrint(op[t].ctx))
    <2>1. /\ [msg |-> m, printed |-> DoDbgPrint(op[t].ctx)].msg = m
          /\ [msg |-> m, printed |-> DoDbgPrint(op[t].ctx)].printed = DoDbgPrint(op[t].ctx)
      OBVIOUS
    <2> QED
      BY <2>1, EntryTyped
  <1>2. PICK new : new = Overwrite(mem[head], off, Size[m], entry)
    OBVIOUS
  <1>3. off + Size[m] <= Usable /\ Avail(tail) > 1 /\ Avail(tail) > 0
    BY DEF Fits, Avail, Used
  <1>4. mem[head][off] = Begun
    BY <1>3
  <1>5. Surviving(mem[head][off], entry) = {entry}
    BY <1>4 DEF Surviving
  <1>6. mem' = [mem EXCEPT ![head] = new]
    <2>1. PICK first \in Surviving(mem[head][off], entry) :
              mem' = [mem EXCEPT ![head] = Overwrite(@, off, Copied(m), first)]
      <3>1. PICK first \in Surviving(mem[tail.buf][tail.off],
                                     [msg |-> op[t].msg, printed |-> DoDbgPrint(op[t].ctx)]) :
                mem' = IF Avail(tail) > 0
                       THEN [mem EXCEPT ![tail.buf] = Overwrite(@, tail.off, Copied(op[t].msg), first)]
                       ELSE mem
        BY DEF FinishCopy
      <3>2. first \in Surviving(mem[head][off], entry)
        BY <1>1, <3>1
      <3> QED
        BY <1>3, <3>1, <3>2
    <2>2. first = entry /\ Copied(m) = Size[m]
      BY <1>5 DEF Copied
    <2> QED
      BY <1>2, <2>1, <2>2
  <1>7. outcome' = [outcome EXCEPT ![m] = "buffered"] /\ tail' = [tail EXCEPT !.off = @ + Size[m]]
    BY DEF FinishCopy
  <1>8. mem'[head] = new /\ mem'[Other(head)] = mem[Other(head)]
    BY <1>6
  <1>9. tail'.off = off + Size[m] /\ tail'.buf = head
    BY <1>7 DEF BaseInv, TypeInv, TypeOK
  <1>10. new[off] = entry /\ \A p \in Offsets : p < off => new[p] = mem[head][p]
    BY <1>2, <1>3 DEF Overwrite, Offsets
  <1>11. \A p \in Offsets : new[p] \in Entries =>
            p = off \/ (new[p] = mem[head][p] /\ (p < off \/ p >= off + Size[m]))
    BY <1>2, OverwriteEntries
  <1>12. EndOf(new, off) = off + Size[m]
    BY <1>1, <1>10 DEF EndOf
  <1> QED
    BY <1>1, <1>3, <1>7, <1>8, <1>9, <1>10, <1>11, <1>12

LEMMA AppendEffect ==
    ASSUME BaseInv, SafeInv, NEW t \in Threads, FinishCopy(t), Fits(tail, op[t].msg),
           NEW m \in Msgs, m = op[t].msg, NEW off \in Nat, off = tail.off
    PROVE  /\ off + Size[m] <= Usable
           /\ tail'.off = off + Size[m] /\ tail'.buf = head
           /\ outcome' = [outcome EXCEPT ![m] = "buffered"]
           /\ mem'[Other(head)] = mem[Other(head)]
           /\ mem'[head][off].printed <=> DoDbgPrint(op[t].ctx)
           /\ mem'[head][off] \in Entries /\ mem'[head][off].msg = m
           /\ EndOf(mem'[head], off) = off + Size[m]
           /\ \A p \in Offsets : p < off => mem'[head][p] = mem[head][p]
           /\ \A p \in Offsets : mem'[head][p] \in Entries =>
                 p = off \/ (mem'[head][p] = mem[head][p] /\ (p < off \/ p >= off + Size[m]))
  <1>1. Avail(tail) > 1 => mem[head][tail.off] = Begun
    BY CopyEnds
  <1> QED
    BY <1>1, WholeAppend

(* A message that fits follows the ones before it; it was in no buffer before. *)
LEMMA AppendStep ==
    ASSUME BaseInv, SafeInv, NEW t \in Threads, FinishCopy(t), Fits(tail, op[t].msg)
    PROVE  SafeInv'
  <1> USE Basics
  <1>1. /\ op[t].msg \in Msgs /\ outcome[op[t].msg] = "put" /\ ~ FlushesEmpty /\ ~ Copying'
        /\ Settled("walk") /\ Settled("wipe") /\ LocksInv'
        /\ UNCHANGED <<head, spin, old, cursor, resource, file>> /\ spin' # None
    BY CopyEnds
  <1>2. PICK m \in Msgs : m = op[t].msg
    BY <1>1
  <1>3. PICK off \in Nat : off = tail.off
    OBVIOUS
  <1>4. PICK new : new = mem'[head]
    OBVIOUS
  <1>5. /\ off + Size[m] <= Usable /\ tail'.off = off + Size[m]
        /\ outcome' = [outcome EXCEPT ![m] = "buffered"]
        /\ mem'[Other(head)] = mem[Other(head)]
        /\ new[off] \in Entries /\ new[off].msg = m /\ EndOf(new, off) = off + Size[m]
        /\ \A p \in Offsets : p < off => new[p] = mem[head][p]
        /\ \A p \in Offsets : new[p] \in Entries =>
              p = off \/ (new[p] = mem[head][p] /\ (p < off \/ p >= off + Size[m]))
    <2> HIDE DEF SafeInv, BaseInv
    <2>1. Fits(tail, m)
      BY <1>2
    <2>2. /\ off + Size[m] <= Usable /\ tail'.off = off + Size[m]
          /\ outcome' = [outcome EXCEPT ![m] = "buffered"]
          /\ mem'[Other(head)] = mem[Other(head)]
          /\ mem'[head][off] \in Entries /\ mem'[head][off].msg = m
          /\ EndOf(mem'[head], off) = off + Size[m]
          /\ \A p \in Offsets : p < off => mem'[head][p] = mem[head][p]
          /\ \A p \in Offsets : mem'[head][p] \in Entries =>
                p = off \/ (mem'[head][p] = mem[head][p] /\ (p < off \/ p >= off + Size[m]))
      BY <1>2, <1>3, AppendEffect
    <2> QED
      BY <1>4, <2>2
  <1>6. /\ (Walking' <=> Walking) /\ (WalksOld' <=> WalksOld) /\ ~ FlushesEmpty'
        /\ WalksOld => old = Other(head)
    BY <1>1 DEF Walking, WalksOld, FlushesEmpty, Settled
  <1>7. off \in Offsets
    BY <1>3
  <1>10. /\ \A n \in Msgs \ {m} : outcome'[n] = outcome[n] /\ (Done(n)' <=> Done(n))
         /\ \A n : InFile(n)' <=> InFile(n)
         /\ \A b \in Buffers, o \in Offsets : mem[b][o] \in Entries =>
               mem[b][o].msg \in Msgs \ {m}
         /\ ~ Done(m)'
    <2>1. \A b \in Buffers, o \in Offsets : mem[b][o] \in Entries => mem[b][o].msg \in Msgs
      BY DEF Entries
    <2>2. outcome'[m] = "buffered" /\ \A n \in Msgs \ {m} : outcome'[n] = outcome[n]
      BY <1>5 DEF BaseInv, TypeInv, TypeOK
    <2>3. ~ InFile(m)
      BY <1>1, <1>2 DEF SafeInv, FileInv, InFile
    <2> QED
      BY <1>1, <1>2, <2>1, <2>2, <2>3 DEF BaseInv, FateInv, StoredInv, Done, InFile
  <1>12. HeadInv'
    <2>1. Covers(new, 0, off + Size[m])
      <3> SUFFICES ASSUME NEW p \in 0 .. off + Size[m] - 1
                   PROVE  \E q \in 0 .. p : /\ new[q] \in Entries
                                            /\ p < EndOf(new, q) /\ EndOf(new, q) <= off + Size[m]
        BY DEF Covers
      <3>1. CASE p < off
        <4>1. Covers(new, 0, off)
          <5>1. \A o \in 0 .. off - 1 : o \in Offsets /\ o < off
            BY <1>7 DEF Offsets
          <5>2. \A o \in 0 .. off - 1 : new[o] = mem[head][o]
            BY <1>5, <5>1
          <5> QED
            BY <1>3, <5>2, CoversSame DEF SafeInv, HeadInv
        <4>2. PICK q \in 0 .. p : new[q] \in Entries /\ p < EndOf(new, q) /\ EndOf(new, q) <= off
          BY <3>1, <4>1 DEF Covers
        <4>3. EndOf(new, q) \in Nat
          BY <4>2 DEF EndOf, Entries
        <4> QED
          BY <4>2, <4>3
      <3>2. CASE p >= off
        BY <1>5, <3>2
      <3> QED
        BY <3>1, <3>2
    <2>2. ASSUME NEW o \in 0 .. off + Size[m] - 1, new[o] \in Entries
          PROVE  EndOf(new, o) <= off + Size[m]
      <3>1. o \in Offsets
        BY <1>5 DEF Offsets
      <3>2. CASE o = off
        BY <1>5, <3>2
      <3>3. CASE o # off
        <4>1. o \in 0 .. off - 1 /\ new[o] = mem[head][o]
          BY <1>5, <2>2, <3>1, <3>3
        <4>2. EndOf(mem[head], o) <= off /\ EndOf(mem[head], o) \in Nat
          BY <1>3, <2>2, <4>1 DEF SafeInv, HeadInv, EndOf, Entries
        <4> QED
          BY <4>1, <4>2 DEF EndOf
      <3> QED
        BY <3>2, <3>3
    <2>3. ASSUME NEW o \in Offsets, o >= tail'.off, new[o] \in Entries
          PROVE  Done(new[o].msg)'
      <3>1. o # off /\ o >= off /\ new[o] = mem[head][o]
        BY <1>5, <2>3 DEF Offsets
      <3>2. PICK n \in Msgs \ {m} : n = mem[head][o].msg
        BY <1>10, <2>3, <3>1
      <3>3. Done(n)'
        BY <1>3, <1>10, <2>3, <3>1, <3>2 DEF SafeInv, HeadInv, LeftOver
      <3> QED
        BY <3>1, <3>2, <3>3
    <2>4. ASSUME NEW o \in Offsets, o < tail'.off, new[o] \in Entries
          PROVE  ~ Done(new[o].msg)'
      <3>1. CASE o = off
        BY <1>5, <1>10, <3>1
      <3>2. CASE o # off
        <4>1. o < off /\ new[o] = mem[head][o]
          BY <1>5, <2>4, <3>2 DEF Offsets
        <4>2. PICK n \in Msgs \ {m} : n = mem[head][o].msg
          BY <1>10, <2>4, <4>1
        <4>3. ~ Done(n)
          BY <1>3, <2>4, <4>1, <4>2 DEF SafeInv, HeadInv, Waiting
        <4> QED
          BY <1>10, <4>1, <4>2, <4>3
      <3> QED
        BY <3>1, <3>2
    <2>5. mem'[head'] = new /\ spin' # None
      BY <1>1, <1>4
    <2>6. LeftOver(mem[head], {o \in Offsets : o >= tail.off})'
          /\ Waiting(mem[head], {o \in Offsets : o < tail.off})'
      BY <2>3, <2>4, <2>5 DEF LeftOver, Waiting
    <2> QED
      BY <1>1, <1>5, <2>1, <2>2, <2>5, <2>6 DEF HeadInv, Covers, EndOf
  <1>13. ApartInv'
    <2>1. Apart(mem[head]) /\ Apart(mem[Other(head)])
      BY DEF SafeInv, ApartInv
    <2>2. Apart(new)
      <3> SUFFICES ASSUME NEW q \in Offsets, NEW r \in Offsets, q < r,
                          new[q] \in Entries, new[r] \in Entries
                   PROVE  EndOf(new, q) <= r
        BY DEF Apart
      <3>1. CASE q = off
        <4>1. r >= off + Size[m]
          BY <1>5, <3>1 DEF Offsets
        <4> QED
          BY <1>5, <3>1, <4>1
      <3>2. CASE r = off
        <4>1. q \in 0 .. off - 1
          BY <3>2 DEF Offsets
        <4>2. new[q] = mem[head][q]
          BY <1>5, <3>2
        <4> QED
          BY <1>3, <3>2, <4>1, <4>2 DEF SafeInv, HeadInv, EndOf
      <3>3. CASE q # off /\ r # off
        <4>1. new[q] = mem[head][q] /\ new[r] = mem[head][r]
          BY <1>5, <3>3
        <4> QED
          BY <2>1, <4>1 DEF Apart, EndOf
      <3> QED
        BY <3>1, <3>2, <3>3
    <2> QED
      BY <1>4, <1>5, <2>1, <2>2 DEF ApartInv, Apart, EndOf
  <1>14. PlaceInv'
    <2>1. ASSUME NEW b \in Buffers, NEW o \in Offsets, mem'[b][o] \in Entries
          PROVE  \/ b = head /\ o = off /\ mem'[b][o].msg = m
                 \/ mem'[b][o] = mem[b][o] /\ mem[b][o].msg # m
      <3>1. CASE b = head
        BY <1>4, <1>5, <1>10, <2>1, <3>1
      <3>2. CASE b # head
        BY <1>5, <1>10, <2>1, <3>2
      <3> QED
        BY <3>1, <3>2
    <2> QED
      BY <2>1 DEF SafeInv, PlaceInv
  <1>15. FlushInv'
    <2>1. ASSUME NEW end \in Offsets, WalkInv(end), WalksOld PROVE WalkInv(end)'
      <3>1. mem'[old'] = mem[old] /\ old' = old
        BY <1>1, <1>5, <1>6, <2>1
      <3> QED
        BY <1>1, <1>10, <2>1, <3>1 DEF WalkInv, LeftOver, Waiting, Covers, EndOf
    <2>2. ASSUME LeftOver(mem[Other(head)], Offsets)
          PROVE  LeftOver(mem[Other(head)], Offsets)'
      BY <1>1, <1>5, <1>10, <2>2 DEF LeftOver
    <2> QED
      BY <1>6, <2>1, <2>2 DEF SafeInv, FlushInv
  <1>16. KeptInv'
    <2> SUFFICES ASSUME NEW n \in Msgs, outcome'[n] = "buffered", ~ InFile(n)'
                 PROVE  \/ \E o \in 0 .. tail'.off - 1 : BeginsAt(head, o, n)'
                        \/ WalksOld' /\ \E o \in Offsets : o >= cursor' /\ BeginsAt(old, o, n)'
      BY DEF KeptInv
    <2>1. CASE n = m
      <3>1. off \in 0 .. tail'.off - 1 /\ BeginsAt(head, off, n)'
        BY <1>1, <1>4, <1>5, <2>1 DEF BeginsAt
      <3> QED
        BY <3>1
    <2>2. CASE n # m
      <3>1. outcome[n] = "buffered" /\ ~ InFile(n)
        BY <1>10, <2>2
      <3>2. ASSUME NEW o \in 0 .. tail.off - 1, BeginsAt(head, o, n)
            PROVE  o \in 0 .. tail'.off - 1 /\ BeginsAt(head, o, n)'
        <4>1. o \in Offsets /\ o < off /\ o \in 0 .. tail'.off - 1
          BY <1>3, <1>5 DEF Offsets
        <4> QED
          BY <1>1, <1>4, <1>5, <3>2, <4>1 DEF BeginsAt
      <3>3. ASSUME NEW o \in Offsets, WalksOld, BeginsAt(old, o, n)
            PROVE  BeginsAt(old, o, n)'
        BY <1>1, <1>5, <1>6, <3>3 DEF BeginsAt
      <3> QED
        BY <1>1, <1>6, <3>1, <3>2, <3>3 DEF SafeInv, KeptInv
    <2> QED
      BY <2>1, <2>2
  <1>17. FileInv'
    BY <1>1, <1>2, <1>10 DEF SafeInv, FileInv, OneOfEach
  <1> QED
    BY <1>1, <1>12, <1>13, <1>14, <1>15, <1>16, <1>17 DEF SafeInv

(* A message that is written directly was in no buffer and not in the file. *)
LEMMA DirectStep ==
    ASSUME BaseInv, SafeInv, NEW t \in Threads, WriteMessageToFile(t)
    PROVE  SafeInv'
  <1> USE Basics
  <1>1. /\ pc[t] = "write" /\ Return(t)
        /\ UNCHANGED <<mem, head, tail, old, cursor, resource, spin>>
    BY DEF WriteMessageToFile, bufferVars, flushVars
  <1>2. op[t] \in Calls
    BY <1>1 DEF BaseInv, TypeInv, CallInv, HoldingPCs
  <1>3. PICK m \in Msgs : m = op[t].msg
    BY <1>2 DEF Calls
  <1>4. outcome[m] = "put" /\ outcome \in [Msgs -> Outcomes]
    BY <1>1, <1>2, <1>3, CallsAreCalls
    DEF BaseInv, TypeInv, TypeOK, FateInv, OwnerInv, IsOpen, OpenPCs, BusyPCs
  <1>5. \/ file' = Append(file, m) /\ outcome' = [outcome EXCEPT ![m] = "written"]
        \/ file' = file /\ outcome' = [outcome EXCEPT ![m] = "failed"]
    BY <1>3 DEF WriteMessageToFile
  <1>6. /\ \A n \in Msgs \ {m} : outcome'[n] = outcome[n]
        /\ outcome'[m] \in {"written", "failed"}
    BY <1>4, <1>5
  <1>7. /\ pc'[t] \notin HeldPCs /\ \A u \in Threads \ {t} : pc'[u] = pc[u]
        /\ Settled("walk") /\ Settled("wipe") /\ Settled("copy")
    BY <1>1, ReturnSettles
  <1>8. \A n : n # m => (InFile(n)' <=> InFile(n))
    BY <1>5, OnlyAppended
  <1>9. HeadInv' /\ ApartInv' /\ PlaceInv' /\ FlushInv' /\ KeptInv'
    <2>1. \A n \in Msgs : outcome'[n] = "buffered" <=> outcome[n] = "buffered"
      BY <1>4, <1>6
    <2>2. \A n \in Msgs : outcome[n] = "buffered" => (InFile(n)' <=> InFile(n))
      BY <1>4, <1>8
    <2> QED
      BY <1>1, <1>7, <2>1, <2>2, QuietStep
  <1>10. LocksInv'
    BY <1>1, <1>7 DEF SafeInv, LocksInv, HeldPCs
  <1>11. FileInv'
    <2>1. ~ InFile(m)
      BY <1>4 DEF SafeInv, FileInv, InFile
    <2>2. CASE file' = Append(file, m) /\ outcome' = [outcome EXCEPT ![m] = "written"]
      <3>1. outcome'[m] = "written"
        BY <1>4, <2>2
      <3> QED
        BY <1>6, <2>1, <2>2, <3>1, AppendOne DEF SafeInv
    <2>3. CASE file' = file /\ outcome' = [outcome EXCEPT ![m] = "failed"]
      BY <1>6, <2>1, <2>3 DEF SafeInv, FileInv, OneOfEach, InFile
    <2> QED
      BY <1>5, <2>2, <2>3
  <1> QED
    BY <1>9, <1>10, <1>11 DEF SafeInv

-----------------------------------------------------------------------------
(***************************************************************************)
(* Every step.                                                             *)
(***************************************************************************)
LEMMA NextSafe ==
    ASSUME BaseInv, SafeInv, [Next]_vars, ~ (FlushesEmpty /\ AppendBegins)
    PROVE  SafeInv'
  <1> USE Basics
  <1>1. CASE Activation
    BY <1>1, BetweenCalls
  <1>2. CASE FlushThreadStep
    <2>1. ASSUME NEW m \in Msgs, LogThreadStarted(m) PROVE SafeInv'
      <3>1. pc[FlushThread] \notin HeldPCs /\ LogpPut(FlushThread, m, "passive")
        BY <2>1 DEF LogThreadStarted, HeldPCs
      <3> QED
        BY <3>1, PutStep
    <2> QED
      BY <1>2, <2>1, BetweenCalls DEF FlushThreadStep
  <1>3. ASSUME NEW t \in Threads, FlushStep(t) PROVE SafeInv'
    <2>1. ~ WriteTornEntry(t) /\ ~ WalkPastEnd(t)
      <3>1. pc[t] = "walk" => Inside /\ Current \in Entries \cup {Nul}
        BY WalkMeets DEF Walking
      <3> QED
        BY <3>1 DEF WriteTornEntry, WalkPastEnd
    <2> QED
      BY <1>3, <2>1, AcquireStep, SwitchStep, WriteStep, EndWalkStep, WipeStep DEF FlushStep
  <1>4. ASSUME NEW t \in Threads, CallStep(t) PROVE SafeInv'
    <2>1. CASE StartCopy(t)
      <3>1. AppendBegins
        BY <2>1 DEF StartCopy, AppendBegins
      <3> QED
        BY <2>1, <3>1, StartStep
    <2>2. CASE FinishCopy(t)
      BY <2>2, CutOffStep, AppendStep
    <2> QED
      BY <1>4, <2>1, <2>2, DirectStep, TerminateStep DEF CallStep
  <1>5. ASSUME NEW t \in Writers, WriterStep(t) PROVE SafeInv'
    <2>1. ASSUME NEW m \in Msgs, ReportActivation(t, m) PROVE SafeInv'
      <3>1. t \in Threads /\ pc[t] \notin HeldPCs /\ LogpPut(t, m, "passive")
        BY <2>1 DEF ReportActivation, HeldPCs
      <3> QED
        BY <3>1, PutStep
    <2> QED
      BY <1>5, <2>1, BetweenCalls DEF WriterStep
  <1>6. ASSUME NEW t \in Writers, NEW m \in Msgs, NEW ctx \in Contexts, LogpPrint(t, m, ctx)
        PROVE  SafeInv'
    <2>1. /\ t \in Threads /\ pc[t] \notin HeldPCs
          /\ LogpPut(t, m, ctx) \/ LogpPutDropped(t, m, ctx)
      BY <1>6 DEF LogpPrint, HeldPCs
    <2> QED
      BY <2>1, PutStep
  <1>7. ASSUME NEW t \in Writers, NEW m \in Msgs, LogIrpShutdownHandler(t, m)
        PROVE  SafeInv'
    <2>1. t \in Threads /\ pc[t] \notin HeldPCs /\ LogpPut(t, m, "passive")
      BY <1>7 DEF LogIrpShutdownHandler, HeldPCs
    <2> QED
      BY <2>1, PutStep
  <1>8. CASE UNCHANGED vars
    BY <1>8, MoveStep DEF vars
  <1> QED
    BY <1>1, <1>2, <1>3, <1>4, <1>5, <1>6, <1>7, <1>8 DEF Next

(* A step of the log that is followed up to the first overlap. *)
LEMMA FollowedSteps ==
    ASSUME [Followed(Next)]_historyVars
    PROVE  /\ [Next]_vars
           /\ UNCHANGED historyVars \/ overlapped' = (FlushesEmpty /\ AppendBegins)
           /\ overlapped => UNCHANGED historyVars
  BY DEF Followed, historyVars

LEMMA HistoryBase == BaseInv /\ [Followed(Next)]_historyVars => BaseInv'
  BY FollowedSteps, NextTyped, NextBounds, NextFate DEF BaseInv

HistoryInv == BaseInv /\ (overlapped \/ SafeInv)

LEMMA HistorySafe == HistoryInv /\ [Followed(Next)]_historyVars => HistoryInv'
  <1> SUFFICES ASSUME BaseInv, overlapped \/ SafeInv, [Followed(Next)]_historyVars
               PROVE  HistoryInv'
    BY DEF HistoryInv
  <1>1. BaseInv'
    BY HistoryBase
  <1>2. CASE UNCHANGED historyVars
    <2>1. UNCHANGED vars /\ overlapped' = overlapped
      BY <1>2 DEF historyVars
    <2>2. overlapped' \/ SafeInv'
      <3>1. CASE overlapped
        BY <2>1, <3>1
      <3>2. CASE SafeInv
        BY <2>1, <3>2, MoveStep DEF vars
      <3> QED
        BY <3>1, <3>2
    <2> QED
      BY <1>1, <2>2 DEF HistoryInv
  <1>3. CASE Followed(Next)
    <2>1. ~ overlapped /\ Next /\ overlapped' = (FlushesEmpty /\ AppendBegins)
      BY <1>3 DEF Followed
    <2>2. CASE FlushesEmpty /\ AppendBegins
      BY <1>1, <2>1, <2>2 DEF HistoryInv
    <2>3. CASE ~ (FlushesEmpty /\ AppendBegins)
      BY <1>1, <2>1, <2>3, NextSafe DEF HistoryInv
    <2> QED
      BY <2>2, <2>3
  <1> QED
    BY <1>2, <1>3

LEMMA SafeAlways == HistorySpec => []HistoryInv
  <1>1. HistoryInit => HistoryInv
    BY InitTyped, InitBounds, InitFate, InitSafe DEF HistoryInit, HistoryInv, BaseInv
  <1> QED
    BY <1>1, HistorySafe, PTL DEF HistorySpec

LEMMA SafeKeeps == BaseInv /\ SafeInv => BufferedNotLost /\ FileIsClean /\ WalkStaysInside
  <1> SUFFICES ASSUME BaseInv, SafeInv PROVE BufferedNotLost /\ FileIsClean /\ WalkStaysInside
    OBVIOUS
  <1> USE Basics DEF SafeInv
  <1>1. WalkStaysInside
    BY WalkMeets DEF WalkStaysInside
  <1>2. FileIsClean
    BY DEF FileIsClean, FileInv, OneOfEach
  <1>3. ASSUME NEW m \in Msgs, outcome[m] = "buffered"
        PROVE  InFile(m) \/ InHead(m) \/ InOld(m)
    <2>1. ASSUME NEW o \in 0 .. tail.off - 1, BeginsAt(head, o, m)
          PROVE  InHead(m)
      <3>1. tail.off > 0
        OBVIOUS
      <3>2. mem[head][0] \in Entries
        BY <3>1, CoversStart DEF HeadInv
      <3> QED
        BY <2>1, <3>2 DEF InHead, EmptyHead
    <2>2. ASSUME WalksOld, NEW o \in Offsets, o >= cursor, BeginsAt(old, o, m)
          PROVE  InOld(m)
      BY <2>2 DEF InOld, WalksOld
    <2> QED
      BY <1>3, <2>1, <2>2 DEF KeptInv
  <1> QED
    BY <1>1, <1>2, <1>3 DEF BufferedNotLost

(* A message that was accepted into a buffer is in the file, or a flush will still
   come to it: the flush under way, or the next one, for the head does not look
   empty.  It holds up to the first append that begins while a flush reads the
   head buffer it has found empty. *)
THEOREM NoBufferedMessageIsLost == HistorySpec => []BufferedNotLost
  <1>1. HistoryInv => BufferedNotLost
    BY SafeKeeps DEF HistoryInv, BufferedNotLost
  <1> QED
    BY <1>1, SafeAlways, PTL

(* Up to the first such append no flush writes torn text, and nothing is written
   twice, by whichever flushes and direct writes. *)
THEOREM FileStaysClean == HistorySpec => []FileIsClean
  <1>1. HistoryInv => FileIsClean
    BY SafeKeeps DEF HistoryInv, FileIsClean
  <1> QED
    BY <1>1, SafeAlways, PTL

(* Up to then a walk meets whole messages only and ends inside its buffer. *)
THEOREM WalksStayInside == HistorySpec => []WalkStaysInside
  <1>1. HistoryInv => WalkStaysInside
    BY SafeKeeps DEF HistoryInv, WalkStaysInside
  <1> QED
    BY <1>1, SafeAlways, PTL

-----------------------------------------------------------------------------
(***************************************************************************)
(* Who prints a message.                                                   *)
(***************************************************************************)
FilePCs == {"flush", "switch", "walk", "wipe", "write"}

(* LogpPut flushes and writes to the file for an ordinary call at PASSIVE_LEVEL,
   which prints its message. *)
ContextInv ==
    \A t \in Threads : pc[t] \in FilePCs /\ op[t] # NoCall => op[t].ctx = "passive"

LEMMA PutContext ==
    ASSUME BaseInv, ContextInv, NEW t \in Threads, NEW m \in Msgs, NEW ctx, LogpPut(t, m, ctx)
    PROVE  ContextInv'
  <1>1. op \in [Threads -> Calls \cup {NoCall}]
    BY DEF BaseInv, TypeInv, TypeOK, Calls
  <1>2. PICK k \in {"flush", "buffer"} :
            /\ pc' = [pc EXCEPT ![t] = k] /\ op' = [op EXCEPT ![t] = [msg |-> m, ctx |-> ctx]]
            /\ k = "flush" => ctx = "passive"
    BY DEF LogpPut, TakeMessage, Goto, CanLogToFileNow
  <1>3. /\ pc'[t] = k /\ op'[t].ctx = ctx
        /\ \A u \in Threads \ {t} : pc'[u] = pc[u] /\ op'[u] = op[u]
    BY <1>1, <1>2, Basics
  <1> QED
    BY <1>2, <1>3 DEF ContextInv, FilePCs

LEMMA NextContext ==
    ASSUME BaseInv, ContextInv, [Next]_vars
    PROVE  ContextInv'
  <1> USE Basics
  <1>1. ASSUME UNCHANGED op, \A t \in Threads : pc'[t] \in FilePCs => pc[t] \in FilePCs
        PROVE  ContextInv'
    BY <1>1 DEF ContextInv
  <1>2. op \in [Threads -> Calls \cup {NoCall}]
    BY DEF BaseInv, TypeInv, TypeOK, Calls
  <1>3. ASSUME NEW t \in Threads, NEW m \in Msgs, NEW ctx, LogpPut(t, m, ctx)
        PROVE  ContextInv'
    BY <1>3, PutContext
  <1>4. ASSUME NEW t \in Threads, Return(t) PROVE ContextInv'
    <2>1. PICK k \in {"sleep", "disable", "idle"} : pc' = [pc EXCEPT ![t] = k]
      BY <1>4 DEF Return, Goto
    <2>2. /\ pc'[t] = k /\ \A u \in Threads \ {t} : pc'[u] = pc[u] /\ op'[u] = op[u]
      BY <1>2, <1>4, <2>1 DEF Return
    <2> QED
      BY <2>2 DEF ContextInv, FilePCs
  <1>5. CASE Activation
    BY <1>1, <1>5 DEF Activation, Activate, FailToActivate, FilePCs
  <1>6. CASE FlushThreadStep
    <2>1. CASE ThreadStarts \/ StartSilently
      BY <1>1, <2>1 DEF ThreadStarts, StartSilently, Goto, callVars, FilePCs
    <2>2. CASE FlushThreadRound
      <3>1. op[FlushThread] = NoCall
        BY <2>2 DEF FlushThreadRound, BaseInv, TypeInv, CallInv, QuietPCs, FlushThreadPCs, BusyPCs
      <3>2. op' = op /\ \A u \in Threads \ {FlushThread} : pc'[u] = pc[u]
        BY <2>2 DEF FlushThreadRound, callVars, Goto
      <3> QED
        BY <3>1, <3>2 DEF ContextInv
    <2> QED
      BY <1>3, <1>6, <2>1, <2>2 DEF FlushThreadStep, LogThreadStarted
  <1>7. ASSUME NEW t \in Threads, FlushStep(t) PROVE ContextInv'
    <2>1. UNCHANGED op
      BY <1>7 DEF FlushStep, AcquireResource, SwitchBuffer, WriteEntry, WriteTornEntry,
                  WalkPastEnd, EndOfEntries, WipeAndRelease, callVars
    <2>2. pc[t] \in FilePCs
      BY <1>7 DEF FlushStep, AcquireResource, SwitchBuffer, WriteEntry, WriteTornEntry,
                  WalkPastEnd, EndOfEntries, WipeAndRelease, FilePCs
    <2>3. \A u \in Threads \ {t} : pc'[u] \in FilePCs => pc'[u] = pc[u]
      BY <1>7 DEF FlushStep, AcquireResource, SwitchBuffer, WriteEntry, WriteTornEntry,
                  WalkPastEnd, EndOfEntries, WipeAndRelease, Goto, FilePCs
    <2> QED
      BY <1>1, <2>1, <2>2, <2>3
  <1>8. ASSUME NEW t \in Threads, CallStep(t) PROVE ContextInv'
    <2>1. CASE WriteMessageToFile(t) \/ Terminate(t)
      BY <1>4, <2>1 DEF WriteMessageToFile, Terminate
    <2>2. CASE StartCopy(t) \/ FinishCopy(t)
      <3>1. PICK k \in {"copy", "term"} : pc' = [pc EXCEPT ![t] = k] /\ op' = op
        BY <2>2 DEF StartCopy, FinishCopy, Goto, callVars
      <3> QED
        BY <1>1, <3>1 DEF FilePCs
    <2> QED
      BY <1>8, <2>1, <2>2 DEF CallStep
  <1>9. ASSUME NEW t \in Writers, WriterStep(t) PROVE ContextInv'
    <2>1. CASE ActivateSilently(t) \/ DisableLog(t) \/ Drained(t)
      <3>1. PICK k \in {"idle", "drain", "down"} : pc' = [pc EXCEPT ![t] = k] /\ op' = op
        BY <2>1 DEF ActivateSilently, DisableLog, Drained, Goto, callVars
      <3> QED
        BY <1>1, <3>1 DEF FilePCs
    <2> QED
      BY <1>3, <1>9, <2>1 DEF WriterStep, ReportActivation
  <1>10. ASSUME NEW t \in Writers, NEW m \in Msgs, NEW ctx \in Contexts, LogpPrint(t, m, ctx)
        PROVE  ContextInv'
    BY <1>1, <1>3, <1>10 DEF LogpPrint, LogpPutDropped, callVars
  <1>11. ASSUME NEW t \in Writers, NEW m \in Msgs, LogIrpShutdownHandler(t, m)
        PROVE  ContextInv'
    BY <1>3, <1>11 DEF LogIrpShutdownHandler
  <1>12. CASE UNCHANGED vars
    BY <1>1, <1>12 DEF vars
  <1> QED
    BY <1>5, <1>6, <1>7, <1>8, <1>9, <1>10, <1>11, <1>12 DEF Next

(* The call that buffered m has still to print it. *)
Owing(m) ==
    \E t \in Threads : pc[t] = "term" /\ op[t].msg = m /\ DoDbgPrint(op[t].ctx)

(* A message belongs to one call, which has decided about it before it prints. *)
HoldInv ==
    \A t \in Threads : op[t].msg \in Msgs =>
        /\ outcome[op[t].msg] # "new"
        /\ pc[t] = "term" => outcome[op[t].msg] # "put"
        /\ \A u \in Threads : op[u].msg = op[t].msg => u = t

(* The printed bit of a message that waits in a buffer tells who prints it. *)
BitInv(m) ==
    \A b \in Buffers, o \in Offsets : BeginsAt(b, o, m) /\ ~ Done(m) =>
        /\ mem[b][o].printed = TRUE => Owing(m) \/ prints[m] = 1
        /\ mem[b][o].printed = FALSE => ~ Owing(m) /\ prints[m] = 0

CountInv(m) ==
    /\ outcome[m] \in {"new", "put"} \/ Owing(m) => prints[m] = 0
    /\ prints[m] \in {0, 1}
    /\ Done(m) /\ outcome[m] \in {"buffered", "written"} => Owing(m) \/ prints[m] = 1

PrintInv == ContextInv /\ HoldInv /\ \A m \in Msgs : CountInv(m) /\ BitInv(m)

LEMMA InitPrint == Init => PrintInv
  <1> SUFFICES ASSUME Init PROVE PrintInv
    OBVIOUS
  <1>1. \A t \in Threads : op[t].msg = None /\ pc[t] \in {"off", "idle"}
    BY ConstantsAssumption DEF Init, NoCall, Threads
  <1>2. HoldInv /\ ContextInv
    BY <1>1, ConstantsAssumption DEF HoldInv, ContextInv, FilePCs
  <1>3. \A m \in Msgs : prints[m] = 0 /\ outcome[m] = "new" /\ ~ Owing(m)
    BY <1>1 DEF Init, Owing
  <1>4. \A b \in Buffers, o \in Offsets : mem[b][o] \notin Entries
    BY ConstantsAssumption DEF Init, FreshBuffer
  <1> QED
    BY <1>2, <1>3, <1>4 DEF PrintInv, CountInv, BitInv, BeginsAt

(* What a step does to the messages it is not about. *)
Untouched(n) ==
    /\ prints'[n] = prints[n] /\ outcome'[n] = outcome[n]
    /\ Done(n)' <=> Done(n)
    /\ Owing(n)' <=> Owing(n)
    /\ \A b \in Buffers, o \in Offsets :
          BeginsAt(b, o, n)' /\ ~ Done(n)' => mem'[b][o] = mem[b][o]

LEMMA UntouchedPrint ==
    ASSUME PrintInv, NEW n \in Msgs, Untouched(n)
    PROVE  CountInv(n)' /\ BitInv(n)'
  <1>1. CountInv(n)'
    BY DEF PrintInv, CountInv, Untouched
  <1>2. BitInv(n)'
    <2> SUFFICES ASSUME NEW b \in Buffers, NEW o \in Offsets, BeginsAt(b, o, n)', ~ Done(n)'
                 PROVE  /\ mem'[b][o].printed = TRUE => Owing(n)' \/ prints'[n] = 1
                        /\ mem'[b][o].printed = FALSE => ~ Owing(n)' /\ prints'[n] = 0
      BY DEF BitInv
    <2>1. mem'[b][o] = mem[b][o] /\ BeginsAt(b, o, n) /\ ~ Done(n)
      BY DEF BeginsAt, Untouched
    <2> QED
      BY <2>1 DEF PrintInv, BitInv, Untouched
  <1> QED
    BY <1>1, <1>2

(* A step that neither prints a message nor decides about one. *)
LEMMA PrintQuietStep ==
    ASSUME BaseInv, PrintInv, ContextInv', UNCHANGED <<op, prints, outcome, file>>,
           \A b \in Buffers : Thinner(mem'[b], mem[b]), Settled("term")
    PROVE  PrintInv'
  <1>1. HoldInv'
    BY DEF PrintInv, HoldInv, Settled
  <1>2. ASSUME NEW m \in Msgs PROVE Untouched(m)
    BY DEF Untouched, Owing, Done, InFile, Settled, BeginsAt, Thinner
  <1> QED
    BY <1>1, <1>2, UntouchedPrint DEF PrintInv

(* The steps of a flush but the writes, and those of the threads between calls. *)
LEMMA MovePrint ==
    ASSUME BaseInv, PrintInv, ContextInv',
           \/ Activation \/ ThreadStarts \/ StartSilently \/ FlushThreadRound
           \/ \E t \in Writers : ActivateSilently(t) \/ DisableLog(t) \/ Drained(t)
           \/ \E t \in Threads : \/ AcquireResource(t) \/ SwitchBuffer(t)
                                 \/ EndOfEntries(t) \/ WipeAndRelease(t)
    PROVE  PrintInv'
  <1> USE Basics
  <1>1. UNCHANGED <<op, prints, outcome, file>>
    BY DEF Activation, Activate, FailToActivate, ThreadStarts, StartSilently, FlushThreadRound,
           ActivateSilently, DisableLog, Drained, AcquireResource, SwitchBuffer, EndOfEntries,
           WipeAndRelease, callVars
  <1>2. mem' = mem \/ \E b \in Buffers : mem' = [mem EXCEPT ![b][0] = Nul]
    BY DEF Activation, Activate, FailToActivate, ThreadStarts, StartSilently, FlushThreadRound,
           ActivateSilently, DisableLog, Drained, AcquireResource, SwitchBuffer, EndOfEntries,
           WipeAndRelease, bufferVars
  <1>3. \A b \in Buffers : Thinner(mem'[b], mem[b])
    BY <1>2, StoreThinner DEF Thinner
  <1>4. Settled("term")
    <2>1. CASE Activation
      BY <2>1 DEF Activation, Activate, FailToActivate, Settled
    <2>2. CASE ~ Activation
      <3>1. PICK t \in Threads, k \in {"started", "sleep", "flush", "idle", "drain", "down",
                                       "switch", "walk", "wipe", "write"} :
                pc[t] # "term" /\ pc' = [pc EXCEPT ![t] = k]
        BY <2>2
        DEF ThreadStarts, StartSilently, FlushThreadRound, ActivateSilently, DisableLog,
            Drained, AcquireResource, SwitchBuffer, EndOfEntries, WipeAndRelease, Goto
      <3>2. pc'[t] = k /\ \A u \in Threads \ {t} : pc'[u] = pc[u]
        BY <3>1
      <3> QED
        BY <3>1, <3>2 DEF Settled
    <2> QED
      BY <2>1, <2>2
  <1> QED
    BY <1>1, <1>3, <1>4, PrintQuietStep

(* The flush prints a message if its caller does not. *)
LEMMA WritePrint ==
    ASSUME BaseInv, SafeInv, PrintInv, ContextInv', NEW t \in Threads, WriteEntry(t)
    PROVE  PrintInv'
  <1> USE Basics
  <1>1. /\ pc[t] = "walk" /\ UNCHANGED <<op, pc, old>>
        /\ cursor \in Offsets /\ mem[old][cursor] \in Entries
    BY DEF WriteEntry, Inside, Current, callVars
  <1>2. PICK m \in Msgs : m = mem[old][cursor].msg
    BY <1>1 DEF Entries
  <1>3. /\ \/ file' = Append(file, m) /\ outcome' = outcome
           \/ file' = file /\ outcome' = [outcome EXCEPT ![m] = "failed"]
        /\ prints' = IF ~ mem[old][cursor].printed THEN [prints EXCEPT ![m] = @ + 1] ELSE prints
    BY <1>2 DEF WriteEntry, CountPrint, Current
  <1>4. /\ file \in Seq(Msgs \cup {Torn}) /\ outcome \in [Msgs -> Outcomes]
        /\ prints \in [Msgs -> Nat] /\ mem[old][cursor].printed \in BOOLEAN
    BY <1>1 DEF BaseInv, TypeInv, TypeOK, Entries
  <1>5. ~ Done(m) /\ outcome[m] = "buffered"
    <2>1. WalksOld
      BY <1>1, WalkMeets DEF Walking, Current
    <2>2. PICK end \in Offsets : WalkInv(end)
      BY <2>1 DEF SafeInv, FlushInv
    <2>3. cursor < end
      BY <1>1, <2>2 DEF WalkInv, Offsets
    <2> QED
      BY <1>1, <1>2, <2>2, <2>3 DEF WalkInv, Waiting, Done
  <1>6. \A n \in Msgs : Owing(n)' <=> Owing(n)
    BY <1>1 DEF Owing
  <1>7. Done(m)' /\ outcome'[m] \in {"buffered", "failed"}
    <2>1. CASE file' = Append(file, m) /\ outcome' = outcome
      <3>1. Len(file') \in 1 .. Len(file') /\ file'[Len(file')] = m
        BY <1>4, <2>1
      <3> QED
        BY <1>5, <2>1, <3>1 DEF Done, InFile
    <2>2. CASE outcome' = [outcome EXCEPT ![m] = "failed"]
      BY <1>4, <2>2 DEF Done
    <2> QED
      BY <1>3, <2>1, <2>2
  <1>8. /\ prints'[m] \in {0, 1} /\ (Owing(m) => prints'[m] = 0)
        /\ Owing(m) \/ prints'[m] = 1
    <2>1. BeginsAt(old, cursor, m)
      BY <1>1, <1>2 DEF BeginsAt
    <2>2. CASE mem[old][cursor].printed = TRUE
      <3>1. Owing(m) \/ prints[m] = 1
        BY <1>1, <1>5, <2>1, <2>2 DEF PrintInv, BitInv
      <3> QED
        BY <1>3, <2>2, <3>1 DEF PrintInv, CountInv
    <2>3. CASE mem[old][cursor].printed = FALSE
      <3>1. ~ Owing(m) /\ prints[m] = 0
        BY <1>1, <1>5, <2>1, <2>3 DEF PrintInv, BitInv
      <3>2. prints' = [prints EXCEPT ![m] = @ + 1]
        BY <1>3, <2>3
      <3> QED
        BY <1>4, <3>1, <3>2
    <2> QED
      BY <1>4, <2>2, <2>3
  <1>9. ASSUME NEW n \in Msgs, n # m PROVE Untouched(n)
    <2>1. file' = file \/ file' = Append(file, m)
      BY <1>3
    <2>2. InFile(n)' <=> InFile(n)
      BY <1>9, <2>1, OnlyAppended
    <2>3. prints'[n] = prints[n] /\ outcome'[n] = outcome[n]
      BY <1>3, <1>4, <1>9
    <2>4. ASSUME NEW b \in Buffers, NEW o \in Offsets, BeginsAt(b, o, n)'
          PROVE  mem'[b][o] = mem[b][o]
      <3>1. mem[b][o] \in Entries /\ mem[b][o].msg = n
        BY <2>4, FlushStepWithin
        DEF BaseInv, TypeInv, FlushStep, AllWithin, Within, BeginsAt
      <3>2. b # old \/ o # cursor
        BY <1>2, <1>9, <3>1
      <3>3. /\ b # old => mem'[b] = mem[b]
            /\ o < cursor \/ o >= cursor' => mem'[old][o] = mem[old][o]
            /\ o > cursor /\ mem[old][o] \in Entries => o >= cursor'
        BY WriteEffect DEF SafeInv
      <3>4. o # cursor => o < cursor \/ o > cursor
        BY DEF Offsets
      <3> QED
        BY <3>1, <3>2, <3>3, <3>4
    <2> QED
      BY <1>6, <2>2, <2>3, <2>4 DEF Untouched, Done
  <1>10. HoldInv'
    <2>1. \A n \in Msgs : outcome'[n] = outcome[n] \/ outcome'[n] = "failed"
      BY <1>3, <1>4
    <2> QED
      BY <1>1, <2>1 DEF PrintInv, HoldInv
  <1>11. CountInv(m)' /\ BitInv(m)'
    BY <1>6, <1>7, <1>8 DEF CountInv, BitInv
  <1> QED
    BY <1>9, <1>10, <1>11, UntouchedPrint DEF PrintInv

(* A message gets its call. *)
LEMMA PutPrint ==
    ASSUME BaseInv, SafeInv, PrintInv, ContextInv',
           NEW t \in Threads, NEW m \in Msgs, NEW ctx, LogpPut(t, m, ctx), pc[t] # "term"
    PROVE  PrintInv'
  <1> USE Basics
  <1>1. /\ outcome[m] = "new" /\ outcome' = [outcome EXCEPT ![m] = "put"]
        /\ op' = [op EXCEPT ![t] = [msg |-> m, ctx |-> ctx]]
        /\ UNCHANGED <<mem, prints, file>>
    BY DEF LogpPut, TakeMessage, bufferVars
  <1>2. PICK k \in {"flush", "buffer"} : pc' = [pc EXCEPT ![t] = k]
    BY DEF LogpPut, Goto
  <1>3. /\ op'[t].msg = m /\ pc'[t] = k
        /\ \A u \in Threads \ {t} : op'[u] = op[u] /\ pc'[u] = pc[u]
    BY <1>1, <1>2 DEF BaseInv, TypeInv, TypeOK
  <1>4. \A u \in Threads : op[u].msg # m
    BY <1>1 DEF PrintInv, HoldInv
  <1>5. outcome'[m] = "put" /\ \A n \in Msgs \ {m} : outcome'[n] = outcome[n]
    BY <1>1 DEF BaseInv, TypeInv, TypeOK
  <1>6. HoldInv'
    <2> SUFFICES ASSUME NEW w \in Threads, op'[w].msg \in Msgs
                 PROVE  /\ outcome'[op'[w].msg] # "new"
                        /\ pc'[w] = "term" => outcome'[op'[w].msg] # "put"
                        /\ \A u \in Threads : op'[u].msg = op'[w].msg => u = w
      BY DEF HoldInv
    <2>1. CASE w = t
      BY <1>3, <1>4, <1>5, <2>1
    <2>2. CASE w # t
      BY <1>3, <1>4, <1>5, <2>2 DEF PrintInv, HoldInv
    <2> QED
      BY <2>1, <2>2
  <1>7. \A n \in Msgs : Owing(n)' <=> Owing(n)
    BY <1>3 DEF Owing
  <1>8. \A b \in Buffers, o \in Offsets : ~ BeginsAt(b, o, m)
    BY <1>1 DEF BaseInv, FateInv, StoredInv, BeginsAt
  <1>9. CountInv(m)' /\ BitInv(m)'
    BY <1>1, <1>5, <1>7, <1>8 DEF PrintInv, CountInv, BitInv, BeginsAt
  <1>10. ASSUME NEW n \in Msgs, n # m PROVE Untouched(n)
    BY <1>1, <1>5, <1>7, <1>10 DEF Untouched, Done, InFile
  <1> QED
    BY <1>6, <1>9, <1>10, UntouchedPrint DEF PrintInv

(* A message that goes nowhere is printed at once. *)
LEMMA DropPrint ==
    ASSUME BaseInv, PrintInv, ContextInv', NEW t \in Threads, NEW m \in Msgs, NEW ctx,
           LogpPutDropped(t, m, ctx)
    PROVE  PrintInv'
  <1>1. /\ outcome[m] = "new" /\ outcome' = [outcome EXCEPT ![m] = "dropped"]
        /\ prints' = [prints EXCEPT ![m] = @ + 1]
        /\ UNCHANGED <<mem, op, pc, file>>
    BY DEF LogpPutDropped, bufferVars, callVars, CountPrint, DoDbgPrint
  <1>2. /\ outcome \in [Msgs -> Outcomes] /\ prints \in [Msgs -> Nat]
    BY DEF BaseInv, TypeInv, TypeOK
  <1>3. ~ Owing(m) /\ prints[m] = 0
    BY <1>1 DEF PrintInv, HoldInv, CountInv, Owing
  <1>4. \A n \in Msgs : Owing(n)' <=> Owing(n)
    BY <1>1 DEF Owing
  <1>5. outcome'[m] = "dropped" /\ prints'[m] = 1
    BY <1>1, <1>2, <1>3
  <1>6. \A b \in Buffers, o \in Offsets : ~ BeginsAt(b, o, m)
    BY <1>1 DEF BaseInv, FateInv, StoredInv, BeginsAt
  <1>7. CountInv(m)' /\ BitInv(m)'
    BY <1>1, <1>3, <1>4, <1>5, <1>6 DEF CountInv, BitInv, BeginsAt
  <1>8. ASSUME NEW n \in Msgs, n # m PROVE Untouched(n)
    BY <1>1, <1>2, <1>4, <1>8 DEF Untouched, Done, InFile
  <1>9. HoldInv'
    BY <1>1, <1>2 DEF PrintInv, HoldInv
  <1> QED
    BY <1>7, <1>8, <1>9, UntouchedPrint DEF PrintInv

LEMMA StartPrint ==
    ASSUME BaseInv, PrintInv, ContextInv', NEW t \in Threads, StartCopy(t)
    PROVE  PrintInv'
  <1> USE Basics
  <1>1. /\ pc[t] = "buffer" /\ pc' = [pc EXCEPT ![t] = "copy"]
        /\ UNCHANGED <<op, prints, outcome, file>>
        /\ mem' = mem \/ mem' = [mem EXCEPT ![head][tail.off] = Begun]
    BY DEF StartCopy, callVars, Goto
  <1>2. Settled("term")
    BY <1>1 DEF Settled
  <1>3. \A b \in Buffers : Thinner(mem'[b], mem[b])
    BY <1>1, StoreThinner DEF Thinner
  <1> QED
    BY <1>1, <1>2, <1>3, PrintQuietStep

(* The call that has copied its message has still to print it, unless the flush
   is told to. *)
LEMMA FinishPrint ==
    ASSUME BaseInv, SafeInv, PrintInv, ContextInv', NEW t \in Threads, FinishCopy(t)
    PROVE  PrintInv'
  <1> USE Basics
  <1>1. /\ pc[t] = "copy" /\ pc'[t] = "term" /\ \A u \in Threads \ {t} : pc'[u] = pc[u]
        /\ op[t].msg \in Msgs /\ outcome[op[t].msg] = "put"
        /\ UNCHANGED <<head, file>>
    BY CopyEnds
  <1>2. PICK m \in Msgs : m = op[t].msg
    BY <1>1
  <1>3. UNCHANGED <<op, prints>>
    BY DEF FinishCopy, callVars
  <1>4. prints[m] = 0
    BY <1>1, <1>2 DEF PrintInv, CountInv
  <1>5. /\ outcome'[m] = (IF Fits(tail, m) THEN "buffered" ELSE "overflow")
        /\ \A n \in Msgs \ {m} : outcome'[n] = outcome[n]
    BY <1>2 DEF FinishCopy, BaseInv, TypeInv, TypeOK
  <1>6. \A n \in Msgs \ {m} : (Owing(n)' <=> Owing(n)) /\ (Done(n)' <=> Done(n))
    BY <1>1, <1>2, <1>3, <1>5 DEF Owing, Done, InFile
  <1>7. Owing(m)' <=> DoDbgPrint(op[t].ctx)
    <2>1. \A u \in Threads : op[u].msg = m => u = t
      BY <1>2 DEF PrintInv, HoldInv
    <2> QED
      BY <1>1, <1>2, <1>3, <2>1 DEF Owing
  <1>8. outcome'[m] = "buffered" => ~ Done(m)'
    <2>1. ~ InFile(m)
      BY <1>1, <1>2 DEF SafeInv, FileInv, InFile
    <2> QED
      BY <1>1, <2>1 DEF Done, InFile
  <1>9. /\ Fits(tail, m) => mem'[head][tail.off].msg = m
                            /\ (mem'[head][tail.off].printed <=> DoDbgPrint(op[t].ctx))
        /\ \A b \in Buffers, o \in Offsets : mem'[b][o] \in Entries =>
              \/ mem'[b][o] = mem[b][o]
              \/ Fits(tail, m) /\ b = head /\ o = tail.off
    <2>1. CASE Fits(tail, m)
      <3>1. PICK off \in Nat : off = tail.off
        OBVIOUS
      <3>2. /\ mem'[head][off].msg = m
            /\ mem'[head][off].printed <=> DoDbgPrint(op[t].ctx)
            /\ mem'[Other(head)] = mem[Other(head)]
            /\ \A p \in Offsets : mem'[head][p] \in Entries =>
                  p = off \/ mem'[head][p] = mem[head][p]
        BY <1>2, <2>1, <3>1, AppendEffect
      <3> QED
        BY <2>1, <3>1, <3>2
    <2>2. CASE ~ Fits(tail, m)
      <3>1. \A b \in Buffers : Thinner(mem'[b], mem[b])
        BY <1>2, <2>2, CutOffThins
      <3> QED
        BY <2>2, <3>1 DEF Thinner
    <2> QED
      BY <2>1, <2>2
  <1>10. \A b \in Buffers, o \in Offsets : ~ BeginsAt(b, o, m)
    BY <1>1, <1>2 DEF BaseInv, FateInv, StoredInv, BeginsAt
  <1>11. HoldInv'
    BY <1>1, <1>2, <1>3, <1>5 DEF PrintInv, HoldInv
  <1>12. CountInv(m)'
    BY <1>3, <1>4, <1>5, <1>8 DEF CountInv
  <1>13. BitInv(m)'
    <2> SUFFICES ASSUME NEW b \in Buffers, NEW o \in Offsets, BeginsAt(b, o, m)'
                 PROVE  /\ mem'[b][o].printed = TRUE => Owing(m)' \/ prints'[m] = 1
                        /\ mem'[b][o].printed = FALSE => ~ Owing(m)' /\ prints'[m] = 0
      BY DEF BitInv
    <2>1. Fits(tail, m) /\ b = head /\ o = tail.off
      BY <1>9, <1>10 DEF BeginsAt
    <2>2. mem'[b][o].printed <=> DoDbgPrint(op[t].ctx)
      BY <1>9, <2>1
    <2>3. prints'[m] = 0
      BY <1>3, <1>4
    <2> QED
      BY <1>7, <2>2, <2>3
  <1>14. ASSUME NEW n \in Msgs, n # m PROVE Untouched(n)
    <2>1. ASSUME NEW b \in Buffers, NEW o \in Offsets, BeginsAt(b, o, n)'
          PROVE  mem'[b][o] = mem[b][o]
      BY <1>9, <1>14, <2>1 DEF BeginsAt
    <2> QED
      BY <1>3, <1>5, <1>6, <1>14, <2>1 DEF Untouched
  <1> QED
    BY <1>11, <1>12, <1>13, <1>14, UntouchedPrint DEF PrintInv

(* A call that returns lets its message go; nobody else has that message. *)
LEMMA ReturnHolds ==
    ASSUME BaseInv, PrintInv, NEW t \in Threads, Return(t), pc[t] \in {"term", "write"},
           NEW m, m = op[t].msg
    PROVE  /\ op[t] \in Calls /\ m \in Msgs /\ op'[t].msg = None
           /\ \A u \in Threads \ {t} : op'[u] = op[u] /\ pc'[u] = pc[u] /\ op[u].msg # m
           /\ ~ Owing(m)'
           /\ Owing(m) <=> pc[t] = "term" /\ DoDbgPrint(op[t].ctx)
           /\ \A n \in Msgs : n # m => (Owing(n)' <=> Owing(n))
  <1> USE Basics
  <1>1. op[t] \in Calls /\ m \in Msgs
    BY DEF BaseInv, TypeInv, CallInv, HoldingPCs, Calls
  <1>2. op' = [op EXCEPT ![t] = NoCall] /\ op \in [Threads -> Calls \cup {NoCall}]
    BY DEF Return, BaseInv, TypeInv, TypeOK, Calls
  <1>3. op'[t].msg = None
    BY <1>2 DEF NoCall
  <1>4. \A u \in Threads \ {t} : op'[u] = op[u] /\ pc'[u] = pc[u]
    BY <1>2, ReturnSettles
  <1>5. \A u \in Threads \ {t} : op[u].msg # m
    BY <1>1 DEF PrintInv, HoldInv
  <1>6. None \notin Msgs
    BY ConstantsAssumption
  <1>7. ~ Owing(m)'
    BY <1>1, <1>3, <1>4, <1>5, <1>6 DEF Owing
  <1>8. Owing(m) <=> pc[t] = "term" /\ DoDbgPrint(op[t].ctx)
    BY <1>5 DEF Owing
  <1>9. ASSUME NEW n \in Msgs, n # m PROVE Owing(n)' <=> Owing(n)
    BY <1>3, <1>4, <1>6, <1>9 DEF Owing
  <1> QED
    BY <1>1, <1>3, <1>4, <1>5, <1>7, <1>8, <1>9

LEMMA TerminatePrint ==
    ASSUME BaseInv, PrintInv, ContextInv', NEW t \in Threads, Terminate(t)
    PROVE  PrintInv'
  <1> USE Basics
  <1>1. /\ pc[t] = "term" /\ Return(t) /\ CountPrint(op[t].msg, DoDbgPrint(op[t].ctx))
        /\ mem' = [mem EXCEPT ![head][tail.off] = Nul]
        /\ UNCHANGED <<file, outcome>>
    BY DEF Terminate
  <1>2. PICK m \in Msgs : m = op[t].msg
    BY <1>1 DEF BaseInv, TypeInv, CallInv, HoldingPCs, Calls
  <1>3. /\ op'[t].msg = None
        /\ \A u \in Threads \ {t} : op'[u] = op[u] /\ pc'[u] = pc[u]
        /\ ~ Owing(m)' /\ (Owing(m) <=> DoDbgPrint(op[t].ctx))
        /\ \A n \in Msgs : n # m => (Owing(n)' <=> Owing(n))
    BY <1>1, <1>2, ReturnHolds
  <1>4. /\ prints'[m] = (IF Owing(m) THEN prints[m] + 1 ELSE prints[m])
        /\ \A n \in Msgs \ {m} : prints'[n] = prints[n]
    <2>1. prints' = IF DoDbgPrint(op[t].ctx) THEN [prints EXCEPT ![m] = @ + 1] ELSE prints
      BY <1>1, <1>2 DEF CountPrint
    <2>2. prints \in [Msgs -> Nat]
      BY DEF BaseInv, TypeInv, TypeOK
    <2> QED
      BY <1>3, <2>1, <2>2
  <1>5. \A n \in Msgs : Done(n)' <=> Done(n)
    BY <1>1 DEF Done, InFile
  <1>6. outcome[m] \notin {"new", "put"}
    BY <1>1, <1>2 DEF PrintInv, HoldInv
  <1>7. \A b \in Buffers : Thinner(mem'[b], mem[b])
    BY <1>1, StoreThinner
  <1>8. HoldInv'
    BY <1>1, <1>3, ConstantsAssumption DEF PrintInv, HoldInv
  <1>9. CountInv(m)'
    BY <1>1, <1>3, <1>4, <1>5, <1>6 DEF PrintInv, CountInv
  <1>10. BitInv(m)'
    <2> SUFFICES ASSUME NEW b \in Buffers, NEW o \in Offsets, BeginsAt(b, o, m)', ~ Done(m)'
                 PROVE  /\ mem'[b][o].printed = TRUE => Owing(m)' \/ prints'[m] = 1
                        /\ mem'[b][o].printed = FALSE => ~ Owing(m)' /\ prints'[m] = 0
      BY DEF BitInv
    <2>1. mem'[b][o] = mem[b][o] /\ BeginsAt(b, o, m) /\ ~ Done(m)
      BY <1>5, <1>7 DEF BeginsAt, Thinner
    <2> QED
      BY <1>3, <1>4, <2>1 DEF PrintInv, BitInv, CountInv
  <1>11. ASSUME NEW n \in Msgs, n # m PROVE Untouched(n)
    BY <1>1, <1>3, <1>4, <1>5, <1>7, <1>11 DEF Untouched, BeginsAt, Thinner
  <1> QED
    BY <1>8, <1>9, <1>10, <1>11, UntouchedPrint DEF PrintInv

(* A message that is written directly is printed by its call. *)
LEMMA DirectPrint ==
    ASSUME BaseInv, PrintInv, ContextInv', NEW t \in Threads, WriteMessageToFile(t)
    PROVE  PrintInv'
  <1> USE Basics
  <1>1. /\ pc[t] = "write" /\ Return(t) /\ CountPrint(op[t].msg, DoDbgPrint(op[t].ctx))
        /\ UNCHANGED mem
    BY DEF WriteMessageToFile, bufferVars
  <1>2. PICK m \in Msgs : m = op[t].msg
    BY <1>1 DEF BaseInv, TypeInv, CallInv, HoldingPCs, Calls
  <1>3. /\ op[t] \in Calls /\ op'[t].msg = None
        /\ \A u \in Threads \ {t} : op'[u] = op[u] /\ pc'[u] = pc[u] /\ op[u].msg # m
        /\ ~ Owing(m)' /\ ~ Owing(m)
        /\ \A n \in Msgs : n # m => (Owing(n)' <=> Owing(n))
    BY <1>1, <1>2, ReturnHolds
  <1>4. DoDbgPrint(op[t].ctx)
    BY <1>1, <1>3, CallsAreCalls DEF PrintInv, ContextInv, FilePCs, DoDbgPrint
  <1>5. /\ outcome[m] = "put" /\ prints[m] = 0
        /\ outcome \in [Msgs -> Outcomes] /\ prints \in [Msgs -> Nat]
    BY <1>1, <1>2, <1>3, CallsAreCalls
    DEF BaseInv, TypeInv, TypeOK, FateInv, OwnerInv, IsOpen, OpenPCs, BusyPCs, PrintInv, CountInv
  <1>6. /\ prints' = [prints EXCEPT ![m] = @ + 1]
        /\ \/ file' = Append(file, m) /\ outcome' = [outcome EXCEPT ![m] = "written"]
           \/ file' = file /\ outcome' = [outcome EXCEPT ![m] = "failed"]
    BY <1>1, <1>2, <1>4 DEF WriteMessageToFile, CountPrint
  <1>7. /\ prints'[m] = 1 /\ \A n \in Msgs \ {m} : prints'[n] = prints[n]
        /\ outcome'[m] \in {"written", "failed"}
        /\ \A n \in Msgs \ {m} : outcome'[n] = outcome[n]
    BY <1>5, <1>6
  <1>8. \A n : n # m => (InFile(n)' <=> InFile(n))
    <2>1. file' = file \/ file' = Append(file, m)
      BY <1>6
    <2> QED
      BY <2>1, OnlyAppended
  <1>9. \A b \in Buffers, o \in Offsets : ~ BeginsAt(b, o, m)
    BY <1>5 DEF BaseInv, FateInv, StoredInv, BeginsAt
  <1>10. HoldInv'
    BY <1>3, <1>7, ConstantsAssumption DEF PrintInv, HoldInv
  <1>11. CountInv(m)' /\ BitInv(m)'
    BY <1>1, <1>3, <1>7, <1>9 DEF CountInv, BitInv, BeginsAt
  <1>12. ASSUME NEW n \in Msgs, n # m PROVE Untouched(n)
    BY <1>1, <1>3, <1>7, <1>8, <1>12 DEF Untouched, Done
  <1> QED
    BY <1>10, <1>11, <1>12, UntouchedPrint DEF PrintInv

LEMMA NextPrint ==
    ASSUME BaseInv, SafeInv, PrintInv, [Next]_vars
    PROVE  PrintInv'
  <1> USE Basics
  <1>1. ContextInv'
    BY NextContext DEF PrintInv
  <1>2. ASSUME NEW t \in Threads, NEW m \in Msgs, NEW ctx, LogpPut(t, m, ctx), pc[t] # "term"
        PROVE  PrintInv'
    BY <1>1, <1>2, PutPrint
  <1>3. CASE Activation
    BY <1>1, <1>3, MovePrint
  <1>4. CASE FlushThreadStep
    BY <1>1, <1>2, <1>4, MovePrint DEF FlushThreadStep, LogThreadStarted
  <1>5. ASSUME NEW t \in Threads, FlushStep(t) PROVE PrintInv'
    <2>1. ~ WriteTornEntry(t) /\ ~ WalkPastEnd(t)
      BY WalkMeets DEF Walking, WriteTornEntry, WalkPastEnd
    <2> QED
      BY <1>1, <1>5, <2>1, MovePrint, WritePrint DEF FlushStep
  <1>6. ASSUME NEW t \in Threads, CallStep(t) PROVE PrintInv'
    BY <1>1, <1>6, StartPrint, FinishPrint, TerminatePrint, DirectPrint DEF CallStep
  <1>7. ASSUME NEW t \in Writers, WriterStep(t) PROVE PrintInv'
    BY <1>1, <1>2, <1>7, MovePrint DEF WriterStep, ReportActivation
  <1>8. ASSUME NEW t \in Writers, NEW m \in Msgs, NEW ctx \in Contexts, LogpPrint(t, m, ctx)
        PROVE  PrintInv'
    BY <1>1, <1>2, <1>8, DropPrint DEF LogpPrint
  <1>9. ASSUME NEW t \in Writers, NEW m \in Msgs, LogIrpShutdownHandler(t, m)
        PROVE  PrintInv'
    BY <1>2, <1>9 DEF LogIrpShutdownHandler
  <1>10. CASE UNCHANGED vars
    BY <1>1, <1>10, PrintQuietStep DEF vars, Thinner, Settled
  <1> QED
    BY <1>3, <1>4, <1>5, <1>6, <1>7, <1>8, <1>9, <1>10 DEF Next

HistoryPrint == overlapped \/ PrintInv

LEMMA HistoryPrints ==
    HistoryInv /\ HistoryPrint /\ [Followed(Next)]_historyVars => HistoryPrint'
  <1> SUFFICES ASSUME HistoryInv, HistoryPrint, [Followed(Next)]_historyVars PROVE HistoryPrint'
    OBVIOUS
  <1>1. CASE UNCHANGED historyVars
    <2>1. UNCHANGED vars /\ overlapped' = overlapped
      BY <1>1 DEF historyVars
    <2>2. CASE overlapped
      BY <2>1, <2>2 DEF HistoryPrint
    <2>3. CASE ~ overlapped
      BY <2>1, <2>3, NextPrint DEF HistoryInv, HistoryPrint
    <2> QED
      BY <2>2, <2>3
  <1>2. CASE Followed(Next)
    BY <1>2, NextPrint DEF Followed, HistoryInv, HistoryPrint
  <1> QED
    BY <1>1, <1>2

(* The printed bit keeps the caller and the flush from both printing a message, and
   from both leaving it to the other, up to the first append that begins while a flush
   reads the head buffer it has found empty. *)
THEOREM EachIsPrintedOnce == HistorySpec => []PrintedOnce
  <1>1. HistoryInit => HistoryPrint
    BY InitPrint DEF HistoryInit, HistoryPrint
  <1>2. HistoryInv /\ HistoryPrint => PrintedOnce
    <2> SUFFICES ASSUME SafeInv, PrintInv, NEW m \in Msgs
                 PROVE  /\ prints[m] <= 1
                        /\ InFile(m) /\ (\A t \in Threads : op[t].msg # m) => prints[m] = 1
      BY DEF PrintedOnce, HistoryInv, HistoryPrint
    <2>1. prints[m] <= 1
      BY DEF PrintInv, CountInv
    <2>2. ASSUME InFile(m), \A t \in Threads : op[t].msg # m PROVE prints[m] = 1
      <3>1. Done(m) /\ outcome[m] \in {"buffered", "written"}
        BY <2>2 DEF SafeInv, FileInv, Done, InFile
      <3>2. ~ Owing(m)
        BY <2>2 DEF Owing
      <3> QED
        BY <3>1, <3>2 DEF PrintInv, CountInv
    <2> QED
      BY <2>1, <2>2
  <1> QED
    BY <1>1, <1>2, HistoryPrints, SafeAlways, PTL DEF HistorySpec

-----------------------------------------------------------------------------
(***************************************************************************)
(* Chains of messages.                                                     *)
(***************************************************************************)

(* A set of offsets that holds whatever lies beyond some bound, and an offset
   whenever it holds all that are greater, holds them all. *)
LEMMA Downwards ==
    ASSUME NEW S, NEW n \in Nat, \A o \in Nat : o >= n => o \in S,
           \A o \in Nat : (\A p \in Nat : p > o => p \in S) => o \in S
    PROVE  \A o \in Nat : o \in S
  <1> SUFFICES ASSUME NEW o \in Nat, o \notin S PROVE FALSE
    OBVIOUS
  <1> DEFINE D == {d \in Nat : d <= n /\ n - d \notin S}
             R == OpToRel(<, Nat)
  <1>1. D \subseteq Nat /\ D # {}
    <2>1. o < n /\ n - o \in Nat /\ n - (n - o) = o
      OBVIOUS
    <2>2. n - o \in D
      BY <2>1
    <2> QED
      BY <2>2
  <1>2. PICK d \in D : \A e \in D : ~ (<<e, d>> \in R)
    <2> HIDE DEF D, R
    <2> QED
      BY <1>1, WFMin, NatLessThanWellFounded DEF R
  <1>3. \A e \in Nat : e < d => <<e, d>> \in R
    BY <1>1 DEF OpToRel
  <1>4. ASSUME NEW p \in Nat, p > n - d PROVE p \in S
    <2>1. CASE p >= n
      BY <2>1
    <2>2. CASE p < n
      <3>1. n - p \in Nat /\ n - p < d /\ n - p <= n /\ n - (n - p) = p
        BY <2>2, <1>4
      <3>2. n - p \notin D
        <4> HIDE DEF D, R
        <4> QED
          BY <1>2, <1>3, <3>1
      <3> QED
        BY <3>1, <3>2
    <2> QED
      BY <2>1, <2>2
  <1>5. n - d \in Nat /\ n - d \notin S
    OBVIOUS
  <1> QED
    BY <1>4, <1>5

(* A message is at offset o, and o is before the limit. *)
OnChain(buffer, limit, o) == o < limit /\ o \in Offsets /\ buffer[o] \in Entries

(* One step of a chain that goes on as f. *)
Link(buffer, limit, f, o) ==
    IF OnChain(buffer, limit, o) THEN <<buffer[o].msg>> \o f[o + Size[buffer[o].msg]]
                                 ELSE <<>>

LEMMA OnChainBasics ==
    ASSUME NEW buffer, NEW limit, NEW o, OnChain(buffer, limit, o)
    PROVE  /\ buffer[o].msg \in Msgs /\ Size[buffer[o].msg] \in Nat /\ Size[buffer[o].msg] >= 2
           /\ o \in Nat /\ o < BufferSize
           /\ o + Size[buffer[o].msg] \in Nat /\ o + Size[buffer[o].msg] > o
           /\ EndOf(buffer, o) = o + Size[buffer[o].msg]
  BY ConstantsAssumption DEF OnChain, Entries, Offsets, EndOf

LEMMA ChainExists ==
    ASSUME NEW buffer, NEW limit
    PROVE  \E f \in [Nat -> Seq(Msgs)] : \A o \in Nat : f[o] = Link(buffer, limit, f, o)
  <1> DEFINE From(k, f) == \A o \in Nat : o >= k => f[o] = Link(buffer, limit, f, o)
             S == {k \in Nat : \E f \in [Nat -> Seq(Msgs)] : From(k, f)}
  <1>1. ASSUME NEW k \in Nat, k >= BufferSize PROVE k \in S
    <2> DEFINE f == [o \in Nat |-> <<>>]
    <2>1. f \in [Nat -> Seq(Msgs)]
      OBVIOUS
    <2>2. ASSUME NEW o \in Nat, o >= k PROVE f[o] = Link(buffer, limit, f, o)
      BY <1>1, <2>2, ConstantsAssumption DEF Link, OnChain, Offsets
    <2> QED
      BY <2>1, <2>2
  <1>2. ASSUME NEW k \in Nat, \A p \in Nat : p > k => p \in S PROVE k \in S
    <2>1. PICK f \in [Nat -> Seq(Msgs)] : From(k + 1, f)
      BY <1>2
    <2> DEFINE g == [f EXCEPT ![k] = Link(buffer, limit, f, k)]
    <2>2. Link(buffer, limit, f, k) \in Seq(Msgs)
      <3>1. CASE OnChain(buffer, limit, k)
        <4>1. <<buffer[k].msg>> \in Seq(Msgs) /\ f[k + Size[buffer[k].msg]] \in Seq(Msgs)
          BY <3>1, OnChainBasics
        <4> QED
          BY <3>1, <4>1, ConcatProperties DEF Link
      <3>2. CASE ~ OnChain(buffer, limit, k)
        BY <3>2 DEF Link
      <3> QED
        BY <3>1, <3>2
    <2>3. g \in [Nat -> Seq(Msgs)] /\ g[k] = Link(buffer, limit, f, k)
          /\ \A o \in Nat : o # k => g[o] = f[o]
      BY <2>2
    <2>4. ASSUME NEW o \in Nat, o >= k PROVE Link(buffer, limit, g, o) = Link(buffer, limit, f, o)
      <3>1. CASE OnChain(buffer, limit, o)
        <4>1. o + Size[buffer[o].msg] \in Nat /\ o + Size[buffer[o].msg] # k
          BY <3>1, <2>4, OnChainBasics
        <4>2. g[o + Size[buffer[o].msg]] = f[o + Size[buffer[o].msg]]
          BY <2>3, <4>1
        <4> HIDE DEF g
        <4> QED
          BY <3>1, <4>2 DEF Link
      <3>2. CASE ~ OnChain(buffer, limit, o)
        BY <3>2 DEF Link
      <3> QED
        BY <3>1, <3>2
    <2>5. ASSUME NEW o \in Nat, o >= k PROVE g[o] = Link(buffer, limit, g, o)
      <3> HIDE DEF g
      <3>1. CASE o = k
        BY <3>1, <2>3, <2>4
      <3>2. CASE o # k
        BY <3>2, <2>1, <2>3, <2>4, <2>5
      <3> QED
        BY <3>1, <3>2
    <2> HIDE DEF g
    <2> QED
      BY <2>3, <2>5
  <1>3. \A k \in Nat : k \in S
    <2> HIDE DEF S
    <2> QED
      BY <1>1, <1>2, Downwards, ConstantsAssumption
  <1>4. 0 \in S
    BY <1>3
  <1> QED
    BY <1>4

(* A chain is what its recursive definition says. *)
LEMMA ChainLink ==
    ASSUME NEW buffer, NEW limit
    PROVE  \A o \in Nat : Chain(buffer, limit)[o] = Link(buffer, limit, Chain(buffer, limit), o)
  <1> DEFINE Whole(f) == f = [o \in Nat |-> IF o < limit /\ o \in Offsets /\ buffer[o] \in Entries
                                            THEN <<buffer[o].msg>> \o f[o + Size[buffer[o].msg]]
                                            ELSE <<>>]
  <1>1. PICK f \in [Nat -> Seq(Msgs)] : \A o \in Nat : f[o] = Link(buffer, limit, f, o)
    BY ChainExists
  <1>2. f = [o \in Nat |-> Link(buffer, limit, f, o)]
    BY <1>1
  <1>3. Whole(f)
    BY <1>2 DEF Link, OnChain
  <1>4. Chain(buffer, limit) = CHOOSE g : Whole(g)
    BY DEF Chain
  <1>5. Whole(Chain(buffer, limit))
    <2> HIDE DEF Whole
    <2> QED
      BY <1>3, <1>4
  <1> DEFINE c == Chain(buffer, limit)
  <1>6. c = [o \in Nat |-> Link(buffer, limit, c, o)]
    <2> HIDE DEF c
    <2>1. Whole(c)
      BY <1>5 DEF c
    <2> QED
      BY <2>1 DEF Link, OnChain
  <1> HIDE DEF c
  <1>7. \A o \in Nat : c[o] = Link(buffer, limit, c, o)
    BY <1>6
  <1> QED
    BY <1>7 DEF c

LEMMA ChainTyped ==
    ASSUME NEW buffer, NEW limit
    PROVE  \A o \in Nat : Chain(buffer, limit)[o] \in Seq(Msgs)
  <1> DEFINE c == Chain(buffer, limit)
             S == {o \in Nat : c[o] \in Seq(Msgs)}
  <1>1. ASSUME NEW o \in Nat, \A p \in Nat : p > o => p \in S PROVE o \in S
    <2>1. c[o] = Link(buffer, limit, c, o)
      BY ChainLink
    <2>2. CASE OnChain(buffer, limit, o)
      <3>1. c[o + Size[buffer[o].msg]] \in Seq(Msgs) /\ <<buffer[o].msg>> \in Seq(Msgs)
        BY <1>1, <2>2, OnChainBasics
      <3> HIDE DEF c
      <3> QED
        BY <2>1, <2>2, <3>1, ConcatProperties DEF Link
    <2>3. CASE ~ OnChain(buffer, limit, o)
      <3> HIDE DEF c
      <3>1. c[o] = <<>>
        BY <2>1, <2>3 DEF Link
      <3> QED
        BY <3>1, EmptySeq
    <2> QED
      BY <2>2, <2>3
  <1>2. ASSUME NEW o \in Nat, o >= BufferSize PROVE o \in S
    <2>1. c[o] = Link(buffer, limit, c, o) /\ ~ OnChain(buffer, limit, o)
      BY <1>2, ChainLink, ConstantsAssumption DEF OnChain, Offsets
    <2> HIDE DEF c
    <2>2. c[o] = <<>>
      BY <2>1 DEF Link
    <2> QED
      BY <2>2, EmptySeq
  <1>3. \A o \in Nat : o \in S
    <2> HIDE DEF S
    <2> QED
      BY <1>1, <1>2, Downwards, ConstantsAssumption
  <1> QED
    BY <1>3

(* Two buffers have the same messages from k up to the limit. *)
SameFrom(k, buffer, other, limit) ==
    \A o \in Nat : o >= k =>
        /\ OnChain(buffer, limit, o) <=> OnChain(other, limit, o)
        /\ OnChain(buffer, limit, o) => buffer[o].msg = other[o].msg

LEMMA ChainSame ==
    ASSUME NEW buffer, NEW other, NEW limit, NEW k \in Nat, SameFrom(k, buffer, other, limit)
    PROVE  Chain(buffer, limit)[k] = Chain(other, limit)[k]
  <1> DEFINE c == Chain(buffer, limit)
             d == Chain(other, limit)
             S == {o \in Nat : o >= k => c[o] = d[o]}
  <1>1. ASSUME NEW o \in Nat, \A p \in Nat : p > o => p \in S PROVE o \in S
    <2> SUFFICES ASSUME o >= k PROVE c[o] = d[o]
      OBVIOUS
    <2>1. c[o] = Link(buffer, limit, c, o) /\ d[o] = Link(other, limit, d, o)
      BY ChainLink
    <2>2. CASE OnChain(buffer, limit, o)
      <3> DEFINE p == o + Size[buffer[o].msg]
      <3>1. p \in Nat /\ p > o
        BY <2>2, OnChainBasics
      <3>2. c[p] = d[p]
        BY <1>1, <3>1
      <3> HIDE DEF c, d
      <3> QED
        BY <2>1, <2>2, <3>2 DEF Link, SameFrom
    <2>3. CASE ~ OnChain(buffer, limit, o)
      <3> HIDE DEF c, d
      <3> QED
        BY <2>1, <2>3 DEF Link, SameFrom
    <2> QED
      BY <2>2, <2>3
  <1>2. ASSUME NEW o \in Nat, o >= BufferSize PROVE o \in S
    <2>1. /\ c[o] = Link(buffer, limit, c, o) /\ ~ OnChain(buffer, limit, o)
          /\ d[o] = Link(other, limit, d, o) /\ ~ OnChain(other, limit, o)
      BY <1>2, ChainLink, ConstantsAssumption DEF OnChain, Offsets
    <2> HIDE DEF c, d
    <2> QED
      BY <2>1 DEF Link
  <1>3. \A o \in Nat : o \in S
    <2> HIDE DEF S
    <2> QED
      BY <1>1, <1>2, Downwards, ConstantsAssumption
  <1> QED
    BY <1>3

(* A chain that reaches an offset where no message begins ends there. *)
LEMMA ChainStops ==
    ASSUME NEW buffer, NEW hi \in Offsets, buffer[hi] \notin Entries,
           \A o \in 0 .. hi - 1 : buffer[o] \in Entries => EndOf(buffer, o) <= hi,
           NEW k \in 0 .. hi
    PROVE  Chain(buffer, BufferSize)[k] = Chain(buffer, hi)[k]
  <1> DEFINE c == Chain(buffer, BufferSize)
             d == Chain(buffer, hi)
             S == {o \in Nat : o <= hi => c[o] = d[o]}
  <1>0. hi \in Nat /\ hi < BufferSize /\ BufferSize \in Nat
    BY ConstantsAssumption DEF Offsets
  <1>1. ASSUME NEW o \in Nat, \A p \in Nat : p > o => p \in S PROVE o \in S
    <2> SUFFICES ASSUME o <= hi PROVE c[o] = d[o]
      OBVIOUS
    <2>1. c[o] = Link(buffer, BufferSize, c, o) /\ d[o] = Link(buffer, hi, d, o)
      BY ChainLink
    <2>2. CASE OnChain(buffer, hi, o)
      <3> DEFINE p == o + Size[buffer[o].msg]
      <3>1. p \in Nat /\ p > o /\ p <= hi
        BY <1>0, <2>2, OnChainBasics DEF OnChain
      <3>2. c[p] = d[p]
        BY <1>1, <3>1
      <3>3. OnChain(buffer, BufferSize, o)
        BY <1>0, <2>2 DEF OnChain, Offsets
      <3> HIDE DEF c, d
      <3> QED
        BY <2>1, <2>2, <3>2, <3>3 DEF Link
    <2>3. CASE ~ OnChain(buffer, hi, o)
      <3>1. ~ OnChain(buffer, BufferSize, o)
        BY <1>0, <2>3 DEF OnChain
      <3> HIDE DEF c, d
      <3> QED
        BY <2>1, <2>3, <3>1 DEF Link
    <2> QED
      BY <2>2, <2>3
  <1>2. ASSUME NEW o \in Nat, o >= BufferSize PROVE o \in S
    BY <1>0, <1>2
  <1>3. \A o \in Nat : o \in S
    <2> HIDE DEF S
    <2> QED
      BY <1>1, <1>2, Downwards, ConstantsAssumption
  <1>4. k \in S /\ k <= hi
    BY <1>0, <1>3
  <1> QED
    BY <1>4

(* A chain without a gap that gets one more message at its end. *)
Extended(new, buffer, hi, m) ==
    /\ \A o \in 0 .. hi - 1 : new[o] = buffer[o]
    /\ new[hi] \in Entries /\ new[hi].msg = m

LEMMA ChainAppend ==
    ASSUME NEW buffer, NEW new, NEW hi \in Offsets, NEW m \in Msgs,
           Covers(buffer, 0, hi), Apart(buffer), Extended(new, buffer, hi, m)
    PROVE  Chain(new, hi + Size[m])[0] = Chain(buffer, hi)[0] \o <<m>>
  <1> DEFINE c == Chain(buffer, hi)
             d == Chain(new, hi + Size[m])
             S == {o \in Nat : o <= hi /\ Covers(buffer, o, hi) => d[o] = c[o] \o <<m>>}
  <1>0. hi \in Nat /\ hi < BufferSize /\ BufferSize \in Nat /\ Size[m] \in Nat /\ Size[m] >= 2
    BY ConstantsAssumption DEF Offsets
  <1>1. ASSUME NEW o \in Nat, \A p \in Nat : p > o => p \in S PROVE o \in S
    <2> SUFFICES ASSUME o <= hi, Covers(buffer, o, hi) PROVE d[o] = c[o] \o <<m>>
      OBVIOUS
    <2>1. c[o] = Link(buffer, hi, c, o) /\ d[o] = Link(new, hi + Size[m], d, o)
      BY ChainLink
    <2>2. CASE o = hi
      <3>1. ~ OnChain(buffer, hi, o) /\ OnChain(new, hi + Size[m], o)
        BY <1>0, <2>2 DEF OnChain, Offsets, Extended
      <3>2. ~ OnChain(new, hi + Size[m], hi + Size[m])
        BY <1>0 DEF OnChain
      <3>3. d[hi + Size[m]] = Link(new, hi + Size[m], d, hi + Size[m])
        BY <1>0, ChainLink
      <3> HIDE DEF c, d
      <3>4. c[o] = <<>> /\ d[hi + Size[m]] = <<>> /\ d[o] = <<m>> \o <<>>
        BY <2>1, <2>2, <3>1, <3>2, <3>3 DEF Link, Extended
      <3>5. <<m>> \in Seq(Msgs)
        OBVIOUS
      <3> QED
        BY <3>4, <3>5, ConcatEmptySeq
    <2>3. CASE o < hi
      <3>1. buffer[o] \in Entries /\ EndOf(buffer, o) <= hi
        BY <1>0, <2>3, CoversStart
      <3>2. OnChain(buffer, hi, o) /\ OnChain(new, hi + Size[m], o) /\ new[o] = buffer[o]
        BY <1>0, <2>3, <3>1 DEF OnChain, Offsets, Extended
      <3> DEFINE p == o + Size[buffer[o].msg]
      <3>3. p \in Nat /\ p > o /\ p <= hi /\ buffer[o].msg \in Msgs /\ p = EndOf(buffer, o)
        BY <3>1, <3>2, OnChainBasics
      <3>4. Covers(buffer, p, hi)
        <4> SUFFICES ASSUME NEW x \in p .. hi - 1
                     PROVE  \E q \in p .. x : /\ buffer[q] \in Entries
                                              /\ x < EndOf(buffer, q) /\ EndOf(buffer, q) <= hi
          BY DEF Covers
        <4>1. PICK q \in o .. x : /\ buffer[q] \in Entries
                                  /\ x < EndOf(buffer, q) /\ EndOf(buffer, q) <= hi
          BY <3>3 DEF Covers
        <4>2. q # o
          BY <3>3, <4>1
        <4>3. q \in Offsets /\ o \in Offsets /\ o < q
          BY <1>0, <3>3, <4>2 DEF Offsets
        <4>4. EndOf(buffer, o) <= q
          BY <3>1, <4>1, <4>3 DEF Apart
        <4> HIDE DEF p
        <4> QED
          BY <3>3, <4>1, <4>4
      <3>5. d[p] = c[p] \o <<m>>
        BY <1>1, <3>3, <3>4
      <3>6. c[p] \in Seq(Msgs)
        BY <3>3, ChainTyped
      <3> HIDE DEF c, d
      <3>7. d[o] = <<buffer[o].msg>> \o (c[p] \o <<m>>) /\ c[o] = <<buffer[o].msg>> \o c[p]
        BY <2>1, <3>2, <3>5 DEF Link
      <3>8. <<m>> \in Seq(Msgs) /\ <<buffer[o].msg>> \in Seq(Msgs)
        BY <3>3
      <3> HIDE DEF p
      <3>9. (<<buffer[o].msg>> \o c[p]) \o <<m>> = <<buffer[o].msg>> \o (c[p] \o <<m>>)
        <4> DEFINE a == <<buffer[o].msg>>
                   b == c[p]
                   e == <<m>>
        <4>1. a \in Seq(Msgs) /\ b \in Seq(Msgs) /\ e \in Seq(Msgs)
          BY <3>6, <3>8
        <4> HIDE DEF a, b, e
        <4>2. (a \o b) \o e = a \o (b \o e)
          BY <4>1, ConcatAssociative
        <4> QED
          BY <4>2 DEF a, b, e
      <3> QED
        BY <3>7, <3>9
    <2> HIDE DEF c, d
    <2> QED
      BY <1>0, <2>2, <2>3
  <1>2. ASSUME NEW o \in Nat, o >= BufferSize PROVE o \in S
    BY <1>0, <1>2
  <1>3. \A o \in Nat : o \in S
    <2> HIDE DEF S
    <2> QED
      BY <1>1, <1>2, Downwards, ConstantsAssumption
  <1>4. 0 \in S /\ 0 <= hi
    BY <1>0, <1>3
  <1> QED
    BY <1>4

-----------------------------------------------------------------------------
(***************************************************************************)
(* Every step of LogBuffer but an overlap moves the queue, or leaves the   *)
(* queue, the file and the accepted messages alone.                        *)
(***************************************************************************)
Rests == PendingQueue' = PendingQueue /\ file' = file /\ Accepted' = Accepted

Takes ==
    /\ PendingQueue # <<>> /\ PendingQueue' = Tail(PendingQueue) /\ Accepted' = Accepted
    /\ file' = Append(file, Head(PendingQueue)) \/ (WritesMayFail /\ file' = file)

Joins(m) ==
    /\ m \notin Accepted /\ Accepted' = Accepted \cup {m}
    /\ PendingQueue' = Append(PendingQueue, m) /\ file' = file

Passes(m) ==
    /\ m \notin Accepted /\ Accepted' = Accepted \cup {m}
    /\ PendingQueue' = PendingQueue
    /\ file' = Append(file, m) \/ (WritesMayFail /\ file' = file)

QueueMoves == Rests \/ Takes \/ \E m \in Msgs : Joins(m) \/ Passes(m)

LEMMA InitQueue == Init => PendingQueue = <<>> /\ file = <<>> /\ Accepted = {}
  <1> SUFFICES ASSUME Init PROVE PendingQueue = <<>> /\ file = <<>> /\ Accepted = {}
    OBVIOUS
  <1>1. ~ Walking
    BY ConstantsAssumption DEF Init, Walking, Threads
  <1>2. Chain(mem[head], tail.off)[0] = Link(mem[head], tail.off, Chain(mem[head], tail.off), 0)
    BY ChainLink
  <1>3. ~ OnChain(mem[head], tail.off, 0)
    BY DEF Init, OnChain
  <1>4. MessagesFrom(head, 0, tail.off) = <<>>
    BY <1>2, <1>3 DEF MessagesFrom, Link
  <1>5. PendingQueue = <<>>
    BY <1>1, <1>4 DEF PendingQueue
  <1> QED
    BY <1>5 DEF Init, Accepted

(* No message joins or leaves those that were accepted. *)
SameAccepted ==
    \A m \in Msgs : outcome'[m] \in {"buffered", "failed", "written"}
                        <=> outcome[m] \in {"buffered", "failed", "written"}

(* The queue depends on what is below the tail, and during a walk on what is at
   or after the cursor. *)
LEMMA QueueStays ==
    ASSUME BaseInv, UNCHANGED <<head, tail, file>>, SameAccepted,
           \A o \in Offsets : o < tail.off => mem'[head][o] = mem[head][o],
           WalksOld' <=> WalksOld,
           WalksOld => UNCHANGED <<old, cursor>> /\ mem'[Other(head)] = mem[Other(head)]
    PROVE  Rests
  <1>1. MessagesFrom(head, 0, tail.off)' = MessagesFrom(head, 0, tail.off)
    <2>1. SameFrom(0, mem'[head], mem[head], tail.off)
      BY DEF OnChain, SameFrom
    <2>2. Chain(mem'[head], tail.off)[0] = Chain(mem[head], tail.off)[0]
      BY <2>1, ChainSame
    <2> QED
      BY <2>2 DEF MessagesFrom
  <1>2. PendingQueue' = PendingQueue
    <2>1. CASE WalksOld
      <3>1. MessagesFrom(old, cursor, BufferSize)' = MessagesFrom(old, cursor, BufferSize)
        <4>1. old = Other(head)
          BY <2>1, Basics DEF WalksOld
        <4> QED
          BY <2>1, <4>1 DEF MessagesFrom
      <3> QED
        BY <1>1, <2>1, <3>1 DEF PendingQueue, WalksOld
    <2>2. CASE ~ WalksOld
      BY <1>1, <2>2 DEF PendingQueue, WalksOld
    <2> QED
      BY <2>1, <2>2
  <1>3. Accepted' = Accepted
    BY DEF Accepted, SameAccepted
  <1> QED
    BY <1>2, <1>3 DEF Rests

(* A step that does not touch the buffers, nor the walk. *)
LEMMA QueueIdles ==
    ASSUME BaseInv, UNCHANGED <<mem, head, tail, old, cursor, file>>, SameAccepted,
           Settled("walk")
    PROVE  Rests
  <1>1. WalksOld' <=> WalksOld
    BY DEF WalksOld, Walking, Settled
  <1> QED
    BY <1>1, QueueStays

(* The steps between the calls, and the ones that take a call or a lock. *)
LEMMA BetweenQueue ==
    ASSUME BaseInv,
           \/ Activation \/ ThreadStarts \/ StartSilently \/ FlushThreadRound
           \/ \E t \in Writers : ActivateSilently(t) \/ DisableLog(t) \/ Drained(t)
           \/ \E t \in Threads : AcquireResource(t)
    PROVE  Rests
  <1>1. UNCHANGED <<mem, head, tail, old, cursor, file, outcome>>
    BY DEF Activation, Activate, FailToActivate, ThreadStarts, StartSilently, FlushThreadRound,
           ActivateSilently, DisableLog, Drained, AcquireResource, bufferVars, flushVars, callVars
  <1>2. Settled("walk")
    <2>1. CASE Activation
      BY <2>1, Basics DEF Activation, Activate, FailToActivate, Settled
    <2>2. CASE ~ Activation
      <3>1. PICK t \in Threads,
                 k \in {"started", "sleep", "flush", "idle", "drain", "down", "switch"} :
                pc[t] # "walk" /\ pc' = [pc EXCEPT ![t] = k]
        BY <2>2, Basics
        DEF ThreadStarts, StartSilently, FlushThreadRound, ActivateSilently, DisableLog,
            Drained, AcquireResource, Goto
      <3> QED
        BY <3>1, Basics DEF Settled
    <2> QED
      BY <2>1, <2>2
  <1> QED
    BY <1>1, <1>2, QueueIdles DEF SameAccepted

LEMMA PutQueue ==
    ASSUME BaseInv, NEW t \in Threads, NEW m \in Msgs, NEW ctx,
           \/ LogpPut(t, m, ctx) /\ pc[t] \notin HeldPCs
           \/ LogpPutDropped(t, m, ctx)
    PROVE  Rests
  <1>1. UNCHANGED <<mem, head, tail, old, cursor, file>>
    BY DEF LogpPut, LogpPutDropped, bufferVars, flushVars
  <1>2. outcome[m] = "new" /\ outcome' \in {[outcome EXCEPT ![m] = "put"],
                                           [outcome EXCEPT ![m] = "dropped"]}
    BY DEF LogpPut, LogpPutDropped, TakeMessage
  <1>3. SameAccepted
    BY <1>2 DEF SameAccepted, BaseInv, TypeInv, TypeOK
  <1>4. Settled("walk")
    <2>1. CASE LogpPut(t, m, ctx) /\ pc[t] \notin HeldPCs
      <3>1. PICK where \in {"flush", "buffer"} : pc' = [pc EXCEPT ![t] = where]
        BY <2>1 DEF LogpPut, Goto
      <3> QED
        BY <2>1, <3>1, Basics DEF HeldPCs, Settled
    <2>2. CASE LogpPutDropped(t, m, ctx)
      BY <2>2 DEF LogpPutDropped, Settled
    <2> QED
      BY <2>1, <2>2
  <1> QED
    BY <1>1, <1>3, <1>4, QueueIdles

(* An append changes nothing below the tail before its message is complete. *)
LEMMA UnfinishedQueue ==
    ASSUME BaseInv, NEW t \in Threads, StartCopy(t) \/ Terminate(t)
    PROVE  Rests
  <1> USE Basics
  <1>1. /\ UNCHANGED <<head, tail, old, cursor, file, outcome>>
        /\ \/ mem' = mem
           \/ \E c \in {Nul, Begun} : mem' = [mem EXCEPT ![head][tail.off] = c]
    BY DEF StartCopy, Terminate, flushVars
  <1>2. /\ \A o \in Offsets : o < tail.off => mem'[head][o] = mem[head][o]
        /\ mem'[Other(head)] = mem[Other(head)]
    <2>1. CASE mem' = mem
      BY <2>1
    <2>2. ASSUME NEW c \in {Nul, Begun}, mem' = [mem EXCEPT ![head][tail.off] = c]
          PROVE  /\ \A o \in Offsets : o < tail.off => mem'[head][o] = mem[head][o]
                 /\ mem'[Other(head)] = mem[Other(head)]
      BY <2>2
    <2> QED
      BY <1>1, <2>1, <2>2
  <1>3. Settled("walk")
    <2>1. PICK k \in {"copy", "sleep", "disable", "idle"} :
              pc[t] # "walk" /\ pc' = [pc EXCEPT ![t] = k]
      BY DEF StartCopy, Terminate, Return, Goto
    <2> QED
      BY <2>1 DEF Settled
  <1>4. WalksOld' <=> WalksOld
    BY <1>1, <1>3 DEF WalksOld, Walking, Settled
  <1>5. SameAccepted
    BY <1>1 DEF SameAccepted
  <1> QED
    BY <1>1, <1>2, <1>4, <1>5, QueueStays

LEMMA CutOffQueue ==
    ASSUME BaseInv, SafeInv, NEW t \in Threads, FinishCopy(t), ~ Fits(tail, op[t].msg)
    PROVE  Rests
  <1>1. /\ op[t].msg \in Msgs /\ outcome[op[t].msg] = "put" /\ Settled("walk")
        /\ UNCHANGED <<head, old, cursor, file>>
    BY CopyEnds
  <1>2. tail' = tail /\ outcome' = [outcome EXCEPT ![op[t].msg] = "overflow"]
    BY DEF FinishCopy
  <1>3. /\ \A p \in Offsets : p < tail.off => mem'[head][p] = mem[head][p]
        /\ mem'[Other(head)] = mem[Other(head)]
    BY CutOffThins
  <1>4. SameAccepted
    BY <1>1, <1>2 DEF SameAccepted, BaseInv, TypeInv, TypeOK
  <1>5. WalksOld' <=> WalksOld
    BY <1>1 DEF WalksOld, Walking, Settled
  <1> QED
    BY <1>1, <1>2, <1>3, <1>4, <1>5, QueueStays

(* The end of a flush of either kind. *)
LEMMA WipeQueue ==
    ASSUME BaseInv, SafeInv, NEW t \in Threads, WipeAndRelease(t)
    PROVE  Rests
  <1> USE Basics
  <1>1. /\ pc[t] = "wipe" /\ mem' = [mem EXCEPT ![old][0] = Nul]
        /\ UNCHANGED <<head, tail, file, outcome>>
    BY DEF WipeAndRelease
  <1>2. PICK k \in {"sleep", "write"} : pc' = [pc EXCEPT ![t] = k]
    BY DEF WipeAndRelease, Goto
  <1>3. \A u \in Threads \ {t} : pc[u] # "walk" /\ pc'[u] # "walk"
    BY <1>1, <1>2, OneFlush
  <1>4. ~ WalksOld /\ ~ WalksOld'
    BY <1>1, <1>2, <1>3 DEF Walking, WalksOld
  <1>5. mem'[head] = mem[head]
    <2>1. CASE old = head
      <3>1. FlushesEmpty
        BY <1>1, <2>1 DEF FlushesEmpty
      <3>2. mem[head][0] = Nul
        BY <3>1 DEF SafeInv, FlushInv, HeadInv
      <3> QED
        BY <1>1, <2>1, <3>2
    <2>2. CASE old # head
      BY <1>1, <2>2
    <2> QED
      BY <2>1, <2>2
  <1>6. SameAccepted
    BY <1>1 DEF SameAccepted
  <1> QED
    BY <1>1, <1>4, <1>5, <1>6, QueueStays

(* The switch hands the head buffer, which ends at the tail, to the walk; the head
   buffer that is found empty has nothing to hand over. *)
LEMMA SwitchQueue ==
    ASSUME BaseInv, SafeInv, NEW t \in Threads, SwitchBuffer(t)
    PROVE  Rests
  <1> USE Basics
  <1>1. /\ pc[t] = "switch" /\ spin = None /\ old' = head /\ cursor' = 0
        /\ UNCHANGED <<file, outcome>> /\ pc' = [pc EXCEPT ![t] = "walk"]
    BY DEF SwitchBuffer, Goto
  <1>2. /\ pc'[t] = "walk" /\ \A u \in Threads : pc[u] # "walk"
    BY <1>1, OneFlush
  <1>3. ~ WalksOld /\ Walking'
    BY <1>2 DEF WalksOld, Walking
  <1>4. CASE EmptyHead
    <2>1. UNCHANGED <<mem, head, tail>> /\ ~ WalksOld'
      BY <1>1, <1>4 DEF SwitchBuffer, WalksOld
    <2> QED
      BY <1>1, <1>3, <2>1, QueueStays DEF SameAccepted
  <1>5. CASE ~ EmptyHead
    <2>1. /\ head' = Other(head) /\ mem' = [mem EXCEPT ![Other(head)][0] = Nul]
          /\ tail' = [buf |-> Other(head), off |-> 0]
      BY <1>5 DEF SwitchBuffer
    <2>2. mem'[head] = mem[head] /\ WalksOld' /\ tail'.off = 0
      BY <1>1, <1>3, <2>1 DEF WalksOld
    <2>3. mem[head][tail.off] \notin Entries
      BY <1>1 DEF SafeInv, HeadInv
    <2>4. \A o \in 0 .. tail.off - 1 :
              mem[head][o] \in Entries => EndOf(mem[head], o) <= tail.off
      BY DEF SafeInv, HeadInv
    <2>5. 0 \in 0 .. tail.off
      OBVIOUS
    <2>6. Chain(mem[head], BufferSize)[0] = Chain(mem[head], tail.off)[0]
      BY <2>3, <2>4, <2>5, ChainStops
    <2>7. Chain(mem'[head'], 0)[0] = <<>>
      <3>1. Chain(mem'[head'], 0)[0] = Link(mem'[head'], 0, Chain(mem'[head'], 0), 0)
        BY ChainLink
      <3>2. ~ OnChain(mem'[head'], 0, 0)
        BY DEF OnChain
      <3> QED
        BY <3>1, <3>2 DEF Link
    <2>8. PICK q \in Seq(Msgs) : q = Chain(mem[head], tail.off)[0]
      BY ChainTyped
    <2>9. PendingQueue = <<>> \o q
      BY <1>3, <2>8 DEF PendingQueue, MessagesFrom, WalksOld
    <2>10. MessagesFrom(old, cursor, BufferSize)' = q
      BY <1>1, <2>2, <2>6, <2>8 DEF MessagesFrom
    <2>11. MessagesFrom(head, 0, tail.off)' = <<>>
      BY <2>2, <2>7 DEF MessagesFrom
    <2>12. PendingQueue' = q \o <<>>
      BY <2>2, <2>10, <2>11 DEF PendingQueue, WalksOld
    <2>13. PendingQueue' = PendingQueue
      BY <2>9, <2>12, ConcatEmptySeq
    <2> QED
      BY <1>1, <2>13 DEF Rests, Accepted
  <1> QED
    BY <1>4, <1>5

(* The walk ends only where nothing of the queue is left before the cursor. *)
LEMMA EndQueue ==
    ASSUME BaseInv, SafeInv, NEW t \in Threads, EndOfEntries(t)
    PROVE  Rests
  <1> USE Basics
  <1>1. /\ pc[t] = "walk" /\ pc' = [pc EXCEPT ![t] = "wipe"]
        /\ UNCHANGED <<mem, head, tail, old, cursor, file, outcome>>
    BY DEF EndOfEntries, bufferVars, flushVars, Goto
  <1>2. Walking /\ ~ Walking' /\ Current = Nul
    <2>1. Walking /\ \A u \in Threads \ {t} : pc[u] # "walk"
      BY <1>1, OneFlush DEF Walking
    <2> QED
      BY <1>1, <2>1, WalkMeets DEF Walking, EndOfEntries
  <1>3. ~ OnChain(mem[old], BufferSize, cursor)
    BY <1>2 DEF OnChain, Current
  <1>4. Chain(mem[old], BufferSize)[cursor]
            = Link(mem[old], BufferSize, Chain(mem[old], BufferSize), cursor)
    BY ChainLink
  <1>5. MessagesFrom(old, cursor, BufferSize) = <<>>
    BY <1>3, <1>4 DEF MessagesFrom, Link
  <1>6. MessagesFrom(head, 0, tail.off)' = MessagesFrom(head, 0, tail.off)
    BY <1>1 DEF MessagesFrom
  <1>7. PendingQueue' = PendingQueue
    BY <1>1, <1>2, <1>5, <1>6 DEF PendingQueue
  <1> QED
    BY <1>1, <1>7 DEF Rests, Accepted

LEMMA FirstOfQueue ==
    ASSUME NEW m \in Msgs, NEW r \in Seq(Msgs), NEW s \in Seq(Msgs)
    PROVE  /\ (<<m>> \o r) \o s # <<>>
           /\ Head((<<m>> \o r) \o s) = m
           /\ Tail((<<m>> \o r) \o s) = r \o s
  <1> DEFINE a == <<m>>
             t == r \o s
  <1>1. a \in Seq(Msgs) /\ Len(a) = 1 /\ a[1] = m
    OBVIOUS
  <1>2. t \in Seq(Msgs) /\ Len(t) \in Nat
    BY ConcatProperties
  <1>3. (a \o r) \o s = a \o t
    <2> HIDE DEF a
    <2> QED
      BY <1>1, ConcatAssociative
  <1> HIDE DEF a, t
  <1>4. /\ a \o t \in Seq(Msgs) /\ Len(a \o t) = 1 + Len(t)
        /\ \A i \in 1 .. 1 + Len(t) : (a \o t)[i] = IF i <= 1 THEN a[i] ELSE t[i - 1]
    <2>1. /\ a \o t \in Seq(Msgs) /\ Len(a \o t) = Len(a) + Len(t)
          /\ \A i \in 1 .. Len(a) + Len(t) :
                (a \o t)[i] = IF i <= Len(a) THEN a[i] ELSE t[i - Len(a)]
      BY <1>1, <1>2, ConcatProperties
    <2> QED
      BY <1>1, <2>1
  <1> DEFINE u == a \o t
  <1>5. u \in Seq(Msgs) /\ Len(u) = 1 + Len(t) /\ u[1] = m
        /\ \A i \in 1 .. Len(t) : u[i + 1] = t[i]
    BY <1>1, <1>2, <1>4
  <1> HIDE DEF u
  <1>6. u # <<>> /\ Head(u) = m
    BY <1>2, <1>5
  <1>7. Tail(u) \in Seq(Msgs) /\ Len(Tail(u)) = Len(t) /\ \A i \in 1 .. Len(t) : Tail(u)[i] = t[i]
    BY <1>2, <1>5, <1>6, HeadTailProperties
  <1>8. Tail(u) = t
    BY <1>2, <1>7, SeqEqual
  <1> QED
    BY <1>3, <1>6, <1>8 DEF a, t, u

(* One iteration of the flush takes the first message of the queue. *)
LEMMA WriteQueue ==
    ASSUME BaseInv, SafeInv, NEW t \in Threads, WriteEntry(t)
    PROVE  Takes
  <1> USE Basics
  <1>1. /\ pc[t] = "walk" /\ UNCHANGED <<head, tail, old, pc>>
        /\ cursor \in Offsets /\ mem[old][cursor] \in Entries
    BY DEF WriteEntry, Inside, Current
  <1>2. PICK m \in Msgs : m = mem[old][cursor].msg
    BY <1>1 DEF Entries
  <1>3. \/ file' = Append(file, m) /\ outcome' = outcome
        \/ WritesMayFail /\ outcome' = [outcome EXCEPT ![m] = "failed"] /\ file' = file
    BY <1>2 DEF WriteEntry, Current
  <1>4. Walking /\ Walking' /\ old # head
    BY <1>1, WalkMeets DEF Walking, WalksOld, Current
  <1>5. PICK k \in Nat : k = cursor'
    BY WriteEffect DEF SafeInv
  <1>6. /\ k = cursor + Size[m] /\ k > cursor /\ mem'[head] = mem[head]
        /\ \A o \in Offsets : o >= k => mem'[old][o] = mem[old][o]
    BY <1>2, <1>4, <1>5, WriteEffect DEF SafeInv, EndOf
  <1>7. PICK r \in Seq(Msgs) : r = Chain(mem'[old], BufferSize)[k]
    BY ChainTyped
  <1>8. PICK s \in Seq(Msgs) : s = Chain(mem[head], tail.off)[0]
    BY ChainTyped
  <1>9. MessagesFrom(old, cursor, BufferSize) = <<m>> \o r
    <2>1. OnChain(mem[old], BufferSize, cursor)
      BY <1>1 DEF OnChain, Offsets
    <2>2. Chain(mem[old], BufferSize)[cursor]
            = Link(mem[old], BufferSize, Chain(mem[old], BufferSize), cursor)
      BY ChainLink
    <2>3. Chain(mem[old], BufferSize)[cursor] = <<m>> \o Chain(mem[old], BufferSize)[k]
      BY <1>2, <1>6, <2>1, <2>2 DEF Link
    <2>4. SameFrom(k, mem'[old], mem[old], BufferSize)
      BY <1>6 DEF OnChain, SameFrom
    <2>5. Chain(mem'[old], BufferSize)[k] = Chain(mem[old], BufferSize)[k]
      BY <2>4, ChainSame
    <2> QED
      BY <1>7, <2>3, <2>5 DEF MessagesFrom
  <1>10. PendingQueue = (<<m>> \o r) \o s
    BY <1>4, <1>8, <1>9 DEF PendingQueue, MessagesFrom
  <1>11. PendingQueue' = r \o s
    <2>1. MessagesFrom(old, cursor, BufferSize)' = r
      BY <1>1, <1>5, <1>7 DEF MessagesFrom
    <2>2. MessagesFrom(head, 0, tail.off)' = s
      BY <1>1, <1>6, <1>8 DEF MessagesFrom
    <2> QED
      BY <1>1, <1>4, <2>1, <2>2 DEF PendingQueue
  <1>12. PendingQueue # <<>> /\ Head(PendingQueue) = m /\ PendingQueue' = Tail(PendingQueue)
    BY <1>10, <1>11, FirstOfQueue
  <1>13. outcome[m] \in {"buffered", "failed"}
    BY <1>1, <1>2 DEF BaseInv, FateInv, StoredInv
  <1>14. Accepted' = Accepted
    BY <1>3, <1>13 DEF Accepted, BaseInv, TypeInv, TypeOK
  <1> QED
    BY <1>3, <1>12, <1>14 DEF Takes

(* A message that fits joins the queue at its end. *)
LEMMA AppendQueue ==
    ASSUME BaseInv, SafeInv, NEW t \in Threads, FinishCopy(t), Fits(tail, op[t].msg)
    PROVE  \E m \in Msgs : Joins(m)
  <1> USE Basics
  <1>1. /\ op[t].msg \in Msgs /\ outcome[op[t].msg] = "put" /\ Settled("walk")
        /\ UNCHANGED <<head, old, cursor, file>>
    BY CopyEnds
  <1>2. PICK m \in Msgs : m = op[t].msg
    BY <1>1
  <1>3. PICK hi \in Offsets : hi = tail.off /\ hi \in Nat
    OBVIOUS
  <1>4. PICK a : a = mem[head]
    OBVIOUS
  <1>5. PICK new : new = mem'[head]
    OBVIOUS
  <1>6. /\ tail'.off = hi + Size[m] /\ outcome' = [outcome EXCEPT ![m] = "buffered"]
        /\ mem'[Other(head)] = mem[Other(head)]
        /\ new[hi] \in Entries /\ new[hi].msg = m
        /\ \A p \in Offsets : p < hi => new[p] = a[p]
    BY <1>2, <1>3, <1>4, <1>5, AppendEffect
  <1>7. Extended(new, a, hi, m)
    BY <1>3, <1>6 DEF Extended, Offsets
  <1>8. Covers(a, 0, hi) /\ Apart(a)
    BY <1>3, <1>4 DEF SafeInv, HeadInv, ApartInv
  <1>9. PICK s \in Seq(Msgs) : s = Chain(a, hi)[0]
    BY ChainTyped
  <1>10. Chain(new, hi + Size[m])[0] = s \o <<m>>
    <2> HIDE Basics
    <2>1. Chain(new, hi + Size[m])[0] = Chain(a, hi)[0] \o <<m>>
      BY <1>7, <1>8, ChainAppend
    <2> QED
      BY <1>9, <2>1
  <1>11. MessagesFrom(head, 0, tail.off) = s /\ MessagesFrom(head, 0, tail.off)' = s \o <<m>>
    BY <1>1, <1>3, <1>4, <1>5, <1>6, <1>9, <1>10 DEF MessagesFrom
  <1>12. PICK r \in Seq(Msgs) :
            r = IF WalksOld THEN MessagesFrom(old, cursor, BufferSize) ELSE <<>>
    <2>1. MessagesFrom(old, cursor, BufferSize) \in Seq(Msgs)
      BY ChainTyped DEF MessagesFrom
    <2>2. <<>> \in Seq(Msgs)
      OBVIOUS
    <2> QED
      BY <2>1, <2>2
  <1>13. r = IF WalksOld' THEN MessagesFrom(old, cursor, BufferSize)' ELSE <<>>
    <2>1. WalksOld' <=> WalksOld
      BY <1>1 DEF WalksOld, Walking, Settled
    <2>2. WalksOld => mem'[old] = mem[old]
      BY <1>6 DEF WalksOld
    <2> QED
      BY <1>1, <1>12, <2>1, <2>2 DEF MessagesFrom
  <1>14. PendingQueue = r \o s /\ PendingQueue' = r \o (s \o <<m>>)
    BY <1>11, <1>12, <1>13 DEF PendingQueue, WalksOld
  <1>15. PendingQueue' = Append(PendingQueue, m)
    <2> DEFINE e == <<m>>
    <2>1. e \in Seq(Msgs)
      OBVIOUS
    <2> HIDE DEF e
    <2>2. (r \o s) \o e = r \o (s \o e)
      BY <2>1, ConcatAssociative
    <2>3. r \o s \in Seq(Msgs)
      BY ConcatProperties
    <2>4. Append(r \o s, m) = (r \o s) \o e
      BY <2>3, AppendIsConcat DEF e
    <2> QED
      BY <1>14, <2>2, <2>4 DEF e
  <1>16. m \notin Accepted /\ Accepted' = Accepted \cup {m}
    BY <1>1, <1>2, <1>6 DEF Accepted, BaseInv, TypeInv, TypeOK
  <1> QED
    BY <1>1, <1>15, <1>16 DEF Joins

(* A message that is written directly passes the queue. *)
LEMMA DirectQueue ==
    ASSUME BaseInv, NEW t \in Threads, WriteMessageToFile(t)
    PROVE  \E m \in Msgs : Passes(m)
  <1> USE Basics
  <1>1. /\ pc[t] = "write" /\ Return(t) /\ UNCHANGED <<mem, head, tail, old, cursor>>
    BY DEF WriteMessageToFile, bufferVars, flushVars
  <1>2. op[t] \in Calls
    BY <1>1 DEF BaseInv, TypeInv, CallInv, HoldingPCs
  <1>3. PICK m \in Msgs : m = op[t].msg
    BY <1>2 DEF Calls
  <1>4. outcome[m] = "put" /\ outcome \in [Msgs -> Outcomes]
    BY <1>1, <1>2, <1>3, CallsAreCalls
    DEF BaseInv, TypeInv, TypeOK, FateInv, OwnerInv, IsOpen, OpenPCs, BusyPCs
  <1>5. \/ file' = Append(file, m) /\ outcome' = [outcome EXCEPT ![m] = "written"]
        \/ WritesMayFail /\ file' = file /\ outcome' = [outcome EXCEPT ![m] = "failed"]
    BY <1>3 DEF WriteMessageToFile
  <1>6. m \notin Accepted /\ Accepted' = Accepted \cup {m}
    BY <1>4, <1>5 DEF Accepted
  <1>7. Walking' <=> Walking
    BY <1>1, ReturnSettles DEF Walking, Settled
  <1>8. PendingQueue' = PendingQueue
    BY <1>1, <1>7 DEF PendingQueue, MessagesFrom
  <1> QED
    BY <1>5, <1>6, <1>8 DEF Passes

LEMMA StepOfQueue ==
    ASSUME BaseInv, SafeInv, Next
    PROVE  QueueMoves
  <1> USE Basics DEF QueueMoves
  <1>1. CASE Activation
    BY <1>1, BetweenQueue
  <1>2. CASE FlushThreadStep
    <2>1. ASSUME NEW m \in Msgs, LogThreadStarted(m) PROVE Rests
      <3>1. pc[FlushThread] \notin HeldPCs /\ LogpPut(FlushThread, m, "passive")
        BY <2>1 DEF LogThreadStarted, HeldPCs
      <3> QED
        BY <3>1, PutQueue
    <2> QED
      BY <1>2, <2>1, BetweenQueue DEF FlushThreadStep
  <1>3. ASSUME NEW t \in Threads, FlushStep(t) PROVE QueueMoves
    <2>1. ~ WriteTornEntry(t) /\ ~ WalkPastEnd(t)
      <3>1. pc[t] = "walk" => Inside /\ Current \in Entries \cup {Nul}
        BY WalkMeets DEF Walking
      <3> QED
        BY <3>1 DEF WriteTornEntry, WalkPastEnd
    <2> QED
      BY <1>3, <2>1, BetweenQueue, SwitchQueue, WriteQueue, EndQueue, WipeQueue DEF FlushStep
  <1>4. ASSUME NEW t \in Threads, CallStep(t) PROVE QueueMoves
    BY <1>4, UnfinishedQueue, CutOffQueue, AppendQueue, DirectQueue DEF CallStep
  <1>5. ASSUME NEW t \in Writers, WriterStep(t) PROVE Rests
    <2>1. ASSUME NEW m \in Msgs, ReportActivation(t, m) PROVE Rests
      <3>1. t \in Threads /\ pc[t] \notin HeldPCs /\ LogpPut(t, m, "passive")
        BY <2>1 DEF ReportActivation, HeldPCs
      <3> QED
        BY <3>1, PutQueue
    <2> QED
      BY <1>5, <2>1, BetweenQueue DEF WriterStep
  <1>6. ASSUME NEW t \in Writers, NEW m \in Msgs, NEW ctx \in Contexts, LogpPrint(t, m, ctx)
        PROVE  Rests
    <2>1. /\ t \in Threads /\ pc[t] \notin HeldPCs
          /\ LogpPut(t, m, ctx) \/ LogpPutDropped(t, m, ctx)
      BY <1>6 DEF LogpPrint, HeldPCs
    <2> QED
      BY <2>1, PutQueue
  <1>7. ASSUME NEW t \in Writers, NEW m \in Msgs, LogIrpShutdownHandler(t, m)
        PROVE  Rests
    <2>1. t \in Threads /\ pc[t] \notin HeldPCs /\ LogpPut(t, m, "passive")
      BY <1>7 DEF LogIrpShutdownHandler, HeldPCs
    <2> QED
      BY <2>1, PutQueue
  <1> QED
    BY <1>1, <1>2, <1>3, <1>4, <1>5, <1>6, <1>7 DEF Next

(* The variables of Queue. *)
queueVars == <<IF overlapped THEN <<>> ELSE PendingQueue, file, Accepted, overlapped>>

IsHistory == overlapped \in BOOLEAN

(* Up to the first overlap the queue is intact, and the overlap damages it. *)
LEMMA FollowedQueue ==
    ASSUME IsHistory, HistoryInv, [Followed(Next)]_historyVars
    PROVE  [Queue!Next]_queueVars /\ IsHistory'
  <1> USE DEF IsHistory
  <1>1. CASE UNCHANGED historyVars
    <2>1. PendingQueue' = PendingQueue /\ Accepted' = Accepted
      BY <1>1 DEF historyVars, vars, PendingQueue, MessagesFrom, Walking, Accepted
    <2> QED
      BY <1>1, <2>1 DEF historyVars, vars, queueVars
  <1>2. CASE Followed(Next)
    <2>1. ~ overlapped /\ Next /\ (overlapped' = (FlushesEmpty /\ AppendBegins))
      BY <1>2 DEF Followed
    <2>2. CASE overlapped'
      <3>1. overlapped' = TRUE
        BY <2>1, <2>2
      <3> QED
        BY <3>1 DEF Queue!Next, Queue!Damage
    <2>3. CASE ~ overlapped'
      <3>1. overlapped' = FALSE /\ overlapped = FALSE
        BY <2>1, <2>3
      <3>2. QueueMoves
        BY <2>1, StepOfQueue DEF HistoryInv
      <3>3. CASE Rests
        BY <3>1, <3>3 DEF Rests, queueVars
      <3>4. CASE Takes
        BY <3>1, <3>4 DEF Takes, Queue!Next, Queue!Work, Queue!Write, Queue!LoseWrite
      <3>5. ASSUME NEW m \in Msgs, Joins(m) PROVE Queue!Next
        BY <3>1, <3>5 DEF Joins, Queue!Next, Queue!Log, Queue!Accept
      <3>6. ASSUME NEW m \in Msgs, Passes(m) PROVE Queue!Next
        BY <3>1, <3>6 DEF Passes, Queue!Next, Queue!Log, Queue!WriteDirectly
      <3> QED
        BY <3>1, <3>2, <3>3, <3>4, <3>5, <3>6 DEF QueueMoves
    <2> QED
      BY <2>2, <2>3
  <1> QED
    BY <1>1, <1>2

(* The safety part of ImplementsQueue: up to the first append that begins while a
   flush reads the head buffer it has found empty, the two buffers, the locks, the
   switch and the walks are a queue.  Messages reach the file in the order in which
   LogpBufferMessage accepted them, each at most once, none leaves the queue but by
   a write or a failed write, and the direct writes leave it alone. *)
THEOREM BuffersAreAQueue == HistorySpec => Queue!Init /\ [][Queue!Next]_queueVars
  <1>1. HistoryInit => Queue!Init /\ IsHistory
    BY InitQueue DEF HistoryInit, IsHistory, Queue!Init
  <1>2. /\ HistoryInv /\ IsHistory /\ [Followed(Next)]_historyVars
        => [Queue!Next]_queueVars /\ IsHistory'
    BY FollowedQueue
  <1> QED
    BY <1>1, <1>2, SafeAlways, PTL DEF HistorySpec
=============================================================================
