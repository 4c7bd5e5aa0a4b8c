--------------------------- MODULE ProcessListProofs ---------------------------
(***************************************************************************)
(* Theorems about ProcessList, for any processes and however many of them  *)
(* and of their threads come and go while find_process_name runs.          *)
(***************************************************************************)
EXTENDS ProcessList, SequenceTheorems, WellFoundedInduction, TLAPS

(***************************************************************************)
(* How many bytes a list takes.                                            *)
(***************************************************************************)
IsSum(list, bytes, sum) ==
    /\ sum \in [0 .. Len(list) -> Nat]
    /\ sum[0] = 0
    /\ \A n \in 1 .. Len(list) : sum[n] = sum[n - 1] + bytes[list[n]]

(* A set of indices that holds 0, and the next of each it holds, holds them all. *)
LEMMA Upwards ==
    ASSUME NEW S, NEW m \in Nat, 0 \in S, \A n \in 0 .. m - 1 : n \in S => n + 1 \in S
    PROVE  \A n \in 0 .. m : n \in S
  <1> SUFFICES ASSUME NEW i \in 0 .. m, i \notin S PROVE FALSE
    OBVIOUS
  <1> DEFINE D == {d \in 0 .. m : d \notin S}
             R == OpToRel(<, Nat)
  <1>1. D \subseteq Nat /\ i \in D
    OBVIOUS
  <1>2. PICK d \in D : \A e \in D : ~ (<<e, d>> \in R)
    <2> HIDE DEF D, R
    <2> QED
      BY <1>1, WFMin, NatLessThanWellFounded DEF R
  <1>3. \A e \in Nat : e < d => <<e, d>> \in R
    BY <1>1 DEF OpToRel
  <1>4. d # 0 /\ d - 1 \in 0 .. m - 1 /\ d - 1 + 1 = d /\ d \notin S
    OBVIOUS
  <1>5. d - 1 \in S
    <2>1. d - 1 \in 0 .. m /\ d - 1 < d /\ d - 1 \in Nat
      BY <1>4
    <2>2. d - 1 \notin D
      <3> HIDE DEF D, R
      <3> QED
        BY <1>2, <1>3, <2>1
    <2> QED
      BY <2>1, <2>2
  <1> QED
    BY <1>4, <1>5

LEMMA AddKeepsOrder ==
    \A a \in Nat, b \in Nat, c \in Nat : a <= b => a + c <= b + c /\ a <= b + c
  OBVIOUS

LEMMA SumExists ==
    ASSUME NEW list \in Seq(Processes), NEW bytes \in [Processes -> Nat]
    PROVE  \E sum : IsSum(list, bytes, sum)
  <1> DEFINE To(k, f) == /\ f \in [0 .. Len(list) -> Nat]
                         /\ f[0] = 0
                         /\ \A n \in 1 .. k : f[n] = f[n - 1] + bytes[list[n]]
             S == {k \in 0 .. Len(list) : \E f : To(k, f)}
  <1>0. Len(list) \in Nat
    OBVIOUS
  <1>1. 0 \in S
    <2> DEFINE f == [n \in 0 .. Len(list) |-> 0]
    <2>1. To(0, f)
      BY <1>0
    <2>2. \E g : To(0, g)
      BY <2>1
    <2> HIDE DEF To
    <2> QED
      BY <1>0, <2>2
  <1>2. ASSUME NEW k \in 0 .. Len(list) - 1, k \in S PROVE k + 1 \in S
    <2>1. PICK f : To(k, f)
      BY <1>2
    <2>2. k + 1 \in 1 .. Len(list) /\ k \in 0 .. Len(list) /\ k + 1 - 1 = k
      BY <1>0
    <2> DEFINE value == f[k] + bytes[list[k + 1]]
               g == [f EXCEPT ![k + 1] = value]
    <2>3. value \in Nat
      BY <2>1, <2>2
    <2>4. /\ g \in [0 .. Len(list) -> Nat] /\ g[k + 1] = value
          /\ \A n \in 0 .. Len(list) : n # k + 1 => g[n] = f[n]
      BY <2>1, <2>2, <2>3
    <2> HIDE DEF value, g
    <2>5. g[0] = 0
      BY <1>0, <2>1, <2>4
    <2>6. ASSUME NEW n \in 1 .. k + 1 PROVE g[n] = g[n - 1] + bytes[list[n]]
      <3>1. n - 1 \in 0 .. Len(list) /\ n - 1 # k + 1 /\ n \in 0 .. Len(list)
        BY <1>0, <2>2
      <3>2. g[n - 1] = f[n - 1]
        BY <2>4, <3>1
      <3>3. CASE n = k + 1
        BY <2>2, <2>4, <3>2, <3>3 DEF value
      <3>4. CASE n # k + 1
        <4>1. n \in 1 .. k
          BY <1>0, <3>4
        <4> QED
          BY <2>1, <2>4, <3>1, <3>2, <3>4, <4>1
      <3> QED
        BY <3>3, <3>4
    <2>7. To(k + 1, g)
      BY <2>4, <2>5, <2>6
    <2>8. k + 1 \in 0 .. Len(list)
      BY <2>2
    <2> HIDE DEF To
    <2> QED
      BY <2>7, <2>8
  <1>3. Len(list) \in S
    <2> HIDE DEF S
    <2>1. \A k \in 0 .. Len(list) : k \in S
      BY <1>0, <1>1, <1>2, Upwards
    <2> QED
      BY <1>0, <2>1
  <1> QED
    BY <1>3 DEF IsSum

LEMMA TotalIsSum ==
    ASSUME NEW list \in Seq(Processes), NEW bytes \in [Processes -> Nat]
    PROVE  \E sum : IsSum(list, bytes, sum) /\ Total(list, bytes) = sum[Len(list)]
  <1> DEFINE At(f, n) == IF n = 0 THEN 0 ELSE f[n - 1] + bytes[list[n]]
             Whole(f) == f = [n \in 0 .. Len(list) |->
                                 IF n = 0 THEN 0 ELSE f[n - 1] + bytes[list[n]]]
             c == CHOOSE f : Whole(f)
  <1>0. Len(list) \in Nat
    OBVIOUS
  <1>1. PICK f : IsSum(list, bytes, f)
    BY SumExists
  <1>2. f = [n \in 0 .. Len(list) |-> f[n]]
    BY <1>1 DEF IsSum
  <1>3. \A n \in 0 .. Len(list) : f[n] = At(f, n)
    BY <1>0, <1>1 DEF IsSum
  <1>4. Whole(f)
    BY <1>2, <1>3
  <1>5. Total(list, bytes) = c[Len(list)]
    BY DEF Total
  <1>6. Whole(c)
    <2> HIDE DEF Whole
    <2> QED
      BY <1>4
  <1> HIDE DEF c
  <1>7. \A n \in 0 .. Len(list) : c[n] = At(c, n)
    BY <1>6
  <1>8. c[0] = 0 /\ \A n \in 1 .. Len(list) : c[n] = c[n - 1] + bytes[list[n]]
    BY <1>0, <1>7
  <1>9. \A n \in 0 .. Len(list) : c[n] \in Nat
    <2> DEFINE S == {n \in 0 .. Len(list) : c[n] \in Nat}
    <2>1. 0 \in S
      BY <1>0, <1>8
    <2>2. ASSUME NEW n \in 0 .. Len(list) - 1, n \in S PROVE n + 1 \in S
      <3>1. n + 1 \in 1 .. Len(list) /\ n + 1 \in 0 .. Len(list) /\ n + 1 - 1 = n
        BY <1>0
      <3>2. bytes[list[n + 1]] \in Nat
        BY <3>1
      <3> QED
        BY <1>8, <2>2, <3>1, <3>2
    <2> HIDE DEF S
    <2>3. \A n \in 0 .. Len(list) : n \in S
      BY <1>0, <2>1, <2>2, Upwards
    <2> QED
      BY <2>3 DEF S
  <1>a. c \in [0 .. Len(list) -> Nat]
    BY <1>6, <1>9
  <1> QED
    BY <1>5, <1>8, <1>a DEF IsSum

(* A list takes no more than another if each of its records is one of the other's,
   in the same order, and is not longer there. *)
LEMMA FewerBytes ==
    ASSUME NEW list \in Seq(Processes),
           NEW bytes \in [Processes -> Nat], NEW less \in [Processes -> Nat],
           \A p \in Processes : less[p] <= bytes[p]
    PROVE  Total(list, less) <= Total(list, bytes)
  <1>0. Len(list) \in Nat
    OBVIOUS
  <1>1. PICK f : IsSum(list, bytes, f) /\ Total(list, bytes) = f[Len(list)]
    BY TotalIsSum
  <1>2. PICK g : IsSum(list, less, g) /\ Total(list, less) = g[Len(list)]
    BY TotalIsSum
  <1> DEFINE S == {n \in 0 .. Len(list) : g[n] <= f[n]}
  <1>3. 0 \in S
    BY <1>0, <1>1, <1>2 DEF IsSum
  <1>4. ASSUME NEW n \in 0 .. Len(list) - 1, n \in S PROVE n + 1 \in S
    <2>1. n + 1 \in 1 .. Len(list) /\ n + 1 \in 0 .. Len(list) /\ n + 1 - 1 = n
          /\ n \in 0 .. Len(list)
      BY <1>0
    <2>2. list[n + 1] \in Processes
      BY <2>1
    <2>3. f[n + 1] = f[n] + bytes[list[n + 1]] /\ g[n + 1] = g[n] + less[list[n + 1]]
      BY <1>1, <1>2, <2>1 DEF IsSum
    <2>4. f[n] \in Nat /\ g[n] \in Nat
      BY <1>1, <1>2, <2>1 DEF IsSum
    <2>5. bytes[list[n + 1]] \in Nat /\ less[list[n + 1]] \in Nat
          /\ less[list[n + 1]] <= bytes[list[n + 1]]
      BY <2>2
    <2> QED
      BY <1>4, <2>1, <2>3, <2>4, <2>5
  <1> HIDE DEF S
  <1>5. Len(list) \in S
    <2>1. \A n \in 0 .. Len(list) : n \in S
      BY <1>0, <1>3, <1>4, Upwards
    <2> QED
      BY <1>0, <2>1
  <1> QED
    BY <1>1, <1>2, <1>5 DEF S

IsWithout(short, list, i) ==
    /\ Len(short) = Len(list) - 1
    /\ \A n \in 1 .. Len(short) : short[n] = IF n < i THEN list[n] ELSE list[n + 1]

LEMMA WithoutRecord ==
    ASSUME NEW list \in Seq(Processes), NEW short \in Seq(Processes),
           NEW bytes \in [Processes -> Nat], NEW i \in 1 .. Len(list),
           IsWithout(short, list, i)
    PROVE  Total(short, bytes) <= Total(list, bytes)
  <1>0. Len(list) \in Nat /\ Len(short) \in Nat /\ Len(short) = Len(list) - 1
    BY DEF IsWithout
  <1>1. PICK f : IsSum(list, bytes, f) /\ Total(list, bytes) = f[Len(list)]
    BY TotalIsSum
  <1>2. PICK g : IsSum(short, bytes, g) /\ Total(short, bytes) = g[Len(short)]
    BY TotalIsSum
  <1>a. /\ f \in [0 .. Len(list) -> Nat] /\ f[0] = 0
        /\ \A n \in 1 .. Len(list) : f[n] = f[n - 1] + bytes[list[n]]
    BY <1>1 DEF IsSum
  <1>b. /\ g \in [0 .. Len(short) -> Nat] /\ g[0] = 0
        /\ \A n \in 1 .. Len(short) : g[n] = g[n - 1] + bytes[short[n]]
    BY <1>2 DEF IsSum
  <1> DEFINE Of(n) == IF n < i THEN n ELSE n + 1
             S == {n \in 0 .. Len(short) : g[n] <= f[Of(n)]}
  <1>3. 0 \in S
    BY <1>0, <1>a, <1>b
  <1>4. ASSUME NEW n \in 0 .. Len(short) - 1, n \in S PROVE n + 1 \in S
    <2>1. n + 1 \in 1 .. Len(short) /\ n + 1 \in 0 .. Len(short) /\ n + 1 - 1 = n
          /\ n \in 0 .. Len(short) /\ n + 1 \in 1 .. Len(list) /\ n + 2 \in 1 .. Len(list)
          /\ n + 2 - 1 = n + 1 /\ n \in 0 .. Len(list) /\ n + 1 \in 0 .. Len(list)
          /\ n + 2 \in 0 .. Len(list)
      BY <1>0
    <2>a. g[n] <= f[Of(n)]
      BY <1>4
    <2> HIDE DEF S
    <2>2. f[n] \in Nat /\ f[n + 1] \in Nat /\ g[n] \in Nat /\ f[n + 2] \in Nat
          /\ g[n + 1] \in Nat
      BY <1>a, <1>b, <2>1
    <2>3. g[n + 1] = g[n] + bytes[short[n + 1]]
      BY <1>b, <2>1
    <2>4. f[n + 1] = f[n] + bytes[list[n + 1]] /\ f[n + 2] = f[n + 1] + bytes[list[n + 2]]
      BY <1>a, <2>1
    <2>5. bytes[list[n + 1]] \in Nat /\ bytes[list[n + 2]] \in Nat
      <3>1. list[n + 1] \in Processes /\ list[n + 2] \in Processes
        BY <2>1
      <3> QED
        BY <3>1
    <2>6. CASE n + 1 < i
      <3>1. short[n + 1] = list[n + 1]
        BY <2>1, <2>6 DEF IsWithout
      <3>2. g[n] <= f[n]
        BY <2>1, <2>a, <2>6
      <3>3. g[n + 1] <= f[n + 1]
        <4>1. g[n] + bytes[list[n + 1]] <= f[n] + bytes[list[n + 1]]
          BY <2>2, <2>5, <3>2, AddKeepsOrder, Zenon
        <4> QED
          BY <2>3, <2>4, <3>1, <4>1, Zenon
      <3> QED
        BY <2>1, <2>6, <3>3 DEF S
    <2>7. CASE ~ (n + 1 < i)
      <3>1. short[n + 1] = list[n + 2]
        <4>1. n + 1 + 1 = n + 2
          BY <2>1
        <4> QED
          BY <2>1, <2>7, <4>1 DEF IsWithout
      <3>2. g[n] <= f[n + 1]
        <4>1. CASE n < i
          <5>1. g[n] <= f[n] + bytes[list[n + 1]]
            BY <2>a, <2>2, <2>5, <4>1, AddKeepsOrder, Zenon
          <5> QED
            BY <2>4, <5>1, Zenon
        <4>2. CASE ~ (n < i)
          BY <2>a, <4>2, Zenon
        <4> QED
          BY <4>1, <4>2
      <3>3. g[n + 1] <= f[n + 2]
        <4>1. g[n] + bytes[list[n + 2]] <= f[n + 1] + bytes[list[n + 2]]
          BY <2>2, <2>5, <3>2, AddKeepsOrder, Zenon
        <4> QED
          BY <2>3, <2>4, <3>1, <4>1, Zenon
      <3>4. n + 1 + 1 = n + 2
        BY <2>1
      <3> QED
        BY <2>1, <2>7, <3>3, <3>4 DEF S
    <2> QED
      BY <2>6, <2>7
  <1> HIDE DEF S
  <1>5. Len(short) \in S
    <2>1. \A n \in 0 .. Len(short) : n \in S
      BY <1>0, <1>3, <1>4, Upwards
    <2> QED
      BY <1>0, <2>1
  <1>6. g[Len(short)] <= f[Of(Len(short))]
    BY <1>5 DEF S
  <1>7. g[Len(short)] <= f[Len(list)]
    <2>1. CASE Len(short) < i
      <3>1. Len(list) = Len(short) + 1 /\ Len(list) \in 1 .. Len(list)
        BY <1>0
      <3>2. f[Len(list)] = f[Len(list) - 1] + bytes[list[Len(list)]]
        BY <1>1, <3>1 DEF IsSum
      <3>3. bytes[list[Len(list)]] \in Nat /\ f[Len(list) - 1] \in Nat /\ Len(list) - 1 = Len(short)
        <4>1. list[Len(list)] \in Processes
          BY <3>1
        <4>2. Len(list) - 1 \in 0 .. Len(list)
          BY <1>0, <3>1
        <4> QED
          BY <1>0, <1>1, <3>1, <4>1, <4>2 DEF IsSum
      <3>4. g[Len(short)] \in Nat
        <4>1. Len(short) \in 0 .. Len(short)
          BY <1>0
        <4> QED
          BY <1>b, <4>1
      <3> QED
        BY <1>6, <2>1, <3>2, <3>3, <3>4
    <2>2. CASE ~ (Len(short) < i)
      BY <1>0, <1>6, <2>2
    <2> QED
      BY <2>1, <2>2
  <1> QED
    BY <1>1, <1>2, <1>7

-----------------------------------------------------------------------------
(* Until a process or thread is created the list needs no more bytes than there
   is room for, the walk stays within the records it got, and only it prints. *)
RoomInv ==
    /\ Len(processes) > 0
    /\ line \in {"allocate", "query"} /\ ~ created => ListSize(processes) <= size
    /\ line \in {"report", "failed"} /\ status = "mismatch" => created
    /\ line = "walk" => status = "success" /\ record > 0
    /\ line \in {"size", "allocate", "query"} => printed = <<>>

Inv == TypeOK /\ RoomInv

Bytes == [p \in Processes |-> RecordSize[p] + ThreadSize * threads[p]]

LEMMA BytesTyped == ASSUME threads \in [Processes -> Nat] PROVE Bytes \in [Processes -> Nat]
  <1> SUFFICES ASSUME NEW p \in Processes PROVE RecordSize[p] + ThreadSize * threads[p] \in Nat
    BY DEF Bytes
  <1>1. RecordSize[p] \in Nat /\ ThreadSize \in Nat /\ threads[p] \in Nat
    BY ProcessAssumption
  <1> QED
    BY <1>1

LEMMA ProductGrows ==
    ASSUME NEW k \in Nat, NEW m \in Nat, NEW n \in Nat, m <= n
    PROVE  k * m \in Nat /\ k * m <= k * n
  <1>1. PICK d \in Nat : n = m + d
    <2>1. n - m \in Nat /\ n = m + (n - m)
      OBVIOUS
    <2> QED
      BY <2>1
  <1>2. k * n = k * m + k * d
    BY <1>1
  <1>3. k * m \in Nat /\ k * d \in Nat
    OBVIOUS
  <1> QED
    BY <1>2, <1>3

LEMMA SizeTyped ==
    ASSUME processes \in Seq(Processes), threads \in [Processes -> Nat]
    PROVE  ListSize(processes) \in Nat
  <1>1. PICK bytes \in [Processes -> Nat] : bytes = Bytes
    BY BytesTyped
  <1>2. PICK sum : IsSum(processes, bytes, sum)
                   /\ Total(processes, bytes) = sum[Len(processes)]
    BY TotalIsSum
  <1>3. sum[Len(processes)] \in Nat
    <2>1. Len(processes) \in 0 .. Len(processes)
      OBVIOUS
    <2> QED
      BY <1>2, <2>1 DEF IsSum
  <1> QED
    BY <1>1, <1>2, <1>3 DEF ListSize, Bytes

LEMMA SizeTypedLater ==
    ASSUME processes' \in Seq(Processes), threads' \in [Processes -> Nat]
    PROVE  ListSize(processes)' \in Nat
  <1>1. PICK bytes \in [Processes -> Nat] : bytes = Bytes'
    <2>1. ASSUME NEW p \in Processes PROVE RecordSize[p] + ThreadSize * threads'[p] \in Nat
      <3>1. RecordSize[p] \in Nat /\ ThreadSize \in Nat /\ threads'[p] \in Nat
        BY ProcessAssumption
      <3> QED
        BY <3>1
    <2> QED
      BY <2>1 DEF Bytes
  <1>2. PICK list \in Seq(Processes) : list = processes'
    OBVIOUS
  <1>3. PICK sum : IsSum(list, bytes, sum) /\ Total(list, bytes) = sum[Len(list)]
    BY TotalIsSum
  <1>4. sum[Len(list)] \in Nat
    <2>1. Len(list) \in 0 .. Len(list)
      OBVIOUS
    <2> QED
      BY <1>3, <2>1 DEF IsSum
  <1> QED
    BY <1>1, <1>2, <1>3, <1>4 DEF ListSize, Bytes

LEMMA FewerThreads ==
    ASSUME TypeOK, Len(processes) > 0, NEW i \in 1 .. Len(processes), EndThread(i)
    PROVE  /\ processes' \in Seq(Processes) /\ Len(processes') > 0
           /\ threads' \in [Processes -> Nat]
           /\ ListSize(processes)' <= ListSize(processes)
  <1> USE DEF TypeOK
  <1>1. PICK q \in Processes : q = processes[i]
    OBVIOUS
  <1>2. /\ processes' = processes /\ threads[q] \in Nat /\ threads[q] > 0
        /\ threads' = [threads EXCEPT ![q] = threads[q] - 1]
    BY <1>1 DEF EndThread
  <1>3. threads' \in [Processes -> Nat] /\ \A p \in Processes : threads'[p] <= threads[p]
    BY <1>2
  <1>4. PICK bytes \in [Processes -> Nat] : bytes = Bytes
    BY BytesTyped
  <1>5. ASSUME NEW p \in Processes
        PROVE  /\ RecordSize[p] + ThreadSize * threads'[p] \in Nat
               /\ RecordSize[p] + ThreadSize * threads'[p] <= bytes[p]
    <2>1. /\ RecordSize[p] \in Nat /\ ThreadSize \in Nat /\ threads'[p] \in Nat
          /\ threads[p] \in Nat /\ threads'[p] <= threads[p]
      BY <1>3, ProcessAssumption
    <2>2. bytes[p] = RecordSize[p] + ThreadSize * threads[p]
      BY <1>4 DEF Bytes
    <2>3. PICK k \in Nat, m \in Nat, n \in Nat :
              k = ThreadSize /\ m = threads'[p] /\ n = threads[p] /\ m <= n
      BY <2>1
    <2>4. k * m \in Nat /\ k * m <= k * n
      BY <2>3, ProductGrows
    <2>5. PICK x \in Nat, y \in Nat : x = k * m /\ y = k * n
      BY <2>4
    <2>6. x = ThreadSize * threads'[p] /\ y = ThreadSize * threads[p] /\ x <= y
      BY <2>3, <2>4, <2>5
    <2>7. PICK z \in Nat : z = RecordSize[p]
      BY <2>1
    <2>8. z + x \in Nat /\ z + x <= z + y
      <3> SUFFICES x <= y
        OBVIOUS
      <3> QED
        BY <2>6
    <2> QED
      BY <2>2, <2>6, <2>7, <2>8
  <1>6. PICK less \in [Processes -> Nat] : less = Bytes'
    BY <1>5 DEF Bytes
  <1>7. \A p \in Processes : less[p] <= bytes[p]
    BY <1>5, <1>6 DEF Bytes
  <1>8. Total(processes, less) <= Total(processes, bytes)
    BY <1>7, FewerBytes
  <1>9. ListSize(processes)' = Total(processes, less)
    BY <1>2, <1>6 DEF ListSize, Bytes
  <1> QED
    BY <1>2, <1>3, <1>4, <1>8, <1>9 DEF ListSize, Bytes

LEMMA OneProcessLess ==
    ASSUME TypeOK, Len(processes) > 0, NEW i \in 1 .. Len(processes), EndProcess(i)
    PROVE  /\ processes' \in Seq(Processes) /\ Len(processes') > 0
           /\ threads' \in [Processes -> Nat]
           /\ ListSize(processes)' <= ListSize(processes)
  <1> USE DEF TypeOK
  <1> DEFINE before == SubSeq(processes, 1, i - 1)
             after  == SubSeq(processes, i + 1, Len(processes))
  <1>1. /\ before \in Seq(Processes) /\ Len(before) = i - 1
        /\ \A k \in 1 .. i - 1 : before[k] = processes[k]
        /\ after \in Seq(Processes) /\ Len(after) = Len(processes) - i
        /\ \A k \in 1 .. Len(processes) - i : after[k] = processes[i + k]
    <2>1. /\ \A k \in 1 .. i - 1 : processes[k] \in Processes
          /\ \A k \in i + 1 .. Len(processes) : processes[k] \in Processes
      OBVIOUS
    <2>2. /\ before \in Seq(Processes) /\ Len(before) = i - 1
          /\ \A k \in 1 .. i - 1 : before[k] = processes[k]
      BY <2>1, SubSeqProperties
    <2>3. /\ after \in Seq(Processes) /\ Len(after) = Len(processes) - i
          /\ \A k \in 1 .. Len(processes) - i : after[k] = processes[(i + 1) + k - 1]
      BY <2>1, SubSeqProperties
    <2>4. \A k \in 1 .. Len(processes) - i : (i + 1) + k - 1 = i + k
      OBVIOUS
    <2> HIDE DEF before, after
    <2> QED
      BY <2>2, <2>3, <2>4
  <1>2. processes' = before \o after /\ i > 1 /\ UNCHANGED threads
    BY DEF EndProcess
  <1> HIDE DEF before, after
  <1>3. PICK short : short = before \o after
    OBVIOUS
  <1>4. /\ short \in Seq(Processes) /\ Len(short) = Len(processes) - 1
        /\ \A k \in 1 .. Len(short) :
              short[k] = IF k <= i - 1 THEN before[k] ELSE after[k - (i - 1)]
    BY <1>1, <1>3, ConcatProperties
  <1>5. ASSUME NEW k \in 1 .. Len(short)
        PROVE  short[k] = (IF k < i THEN processes[k] ELSE processes[k + 1])
    <2>1. CASE k < i
      <3>1. k \in 1 .. i - 1 /\ k <= i - 1
        BY <2>1
      <3> QED
        BY <1>1, <1>4, <2>1, <3>1
    <2>2. CASE ~ (k < i)
      <3>1. k - (i - 1) \in 1 .. Len(processes) - i /\ ~ (k <= i - 1)
            /\ i + (k - (i - 1)) = k + 1
        BY <1>4, <2>2
      <3>2. short[k] = after[k - (i - 1)]
        BY <1>4, <3>1
      <3> QED
        BY <1>1, <2>2, <3>1, <3>2
    <2> QED
      BY <2>1, <2>2
  <1>6. PICK bytes \in [Processes -> Nat] : bytes = Bytes
    BY BytesTyped
  <1>7. Total(short, bytes) <= Total(processes, bytes)
    <2>1. IsWithout(short, processes, i)
      BY <1>4, <1>5 DEF IsWithout
    <2> QED
      BY <1>4, <2>1, WithoutRecord
  <1>8. ListSize(processes)' = Total(short, bytes)
    BY <1>2, <1>3, <1>6 DEF ListSize, Bytes
  <1> QED
    BY <1>2, <1>3, <1>4, <1>6, <1>7, <1>8 DEF ListSize, Bytes

-----------------------------------------------------------------------------
LEMMA InitInv == Init => Inv
  <1> SUFFICES ASSUME Init PROVE Inv
    OBVIOUS
  <1>1. processes \in Seq(Processes) /\ Len(processes) > 0
    BY ProcessAssumption DEF Init
  <1>2. <<>> \in Seq(Processes) /\ Len(<<>>) = 0
    OBVIOUS
  <1>3. events \in 0 .. MaxEvents /\ size \in Nat
    BY ProcessAssumption DEF Init
  <1>4. record \in 0 .. Len(buffer)
    BY <1>2 DEF Init
  <1>5. buffer \in Seq(Processes) /\ printed \in Seq(Processes)
    BY <1>2 DEF Init
  <1>6. threads \in [Processes -> Nat]
    BY DEF Init
  <1>7. TypeOK
    BY <1>1, <1>3, <1>4, <1>5, <1>6 DEF Init, TypeOK
  <1>8. RoomInv
    BY <1>1 DEF Init, RoomInv
  <1> QED
    BY <1>7, <1>8 DEF Inv

LEMMA ChangeInv == ASSUME Inv, ChangeProcesses PROVE Inv'
  <1> USE ProcessAssumption DEF Inv, TypeOK, RoomInv
  <1>a. /\ events' \in 0 .. MaxEvents
        /\ UNCHANGED <<line, size, buffer, record, printed, status>>
    BY DEF ChangeProcesses
  <1>1. CASE /\ \/ \E p \in Processes : CreateProcess(p)
                \/ \E i \in 1 .. Len(processes) : CreateThread(i)
             /\ created' = (created \/ line \in {"allocate", "query"})
    <2>1. created' \in BOOLEAN /\ (created => created')
          /\ (line \in {"allocate", "query"} => created')
      BY <1>1, Zenon
    <2>2. processes' \in Seq(Processes) /\ Len(processes') > 0
          /\ threads' \in [Processes -> Nat]
      <3>1. CASE \E p \in Processes : CreateProcess(p)
        BY <3>1 DEF CreateProcess
      <3>2. CASE \E i \in 1 .. Len(processes) : CreateThread(i)
        BY <3>2 DEF CreateThread
      <3> QED
        BY <1>1, <3>1, <3>2
    <2> QED
      BY <1>a, <2>1, <2>2
  <1>2. CASE \E i \in 1 .. Len(processes) : EndThread(i) \/ EndProcess(i)
    <2>1. PICK i \in 1 .. Len(processes) : EndThread(i) \/ EndProcess(i)
      BY <1>2
    <2>2. /\ processes' \in Seq(Processes) /\ Len(processes') > 0
          /\ threads' \in [Processes -> Nat]
          /\ ListSize(processes)' <= ListSize(processes)
      <3>1. CASE EndThread(i)
        BY <3>1, FewerThreads
      <3>2. CASE EndProcess(i)
        BY <3>2, OneProcessLess
      <3> QED
        BY <2>1, <3>1, <3>2
    <2>3. CASE created' = created
      <3>1. ListSize(processes) \in Nat /\ ListSize(processes)' \in Nat
        BY <2>2, SizeTyped, SizeTypedLater
      <3>2. ListSize(processes) <= size => ListSize(processes)' <= size
        BY <2>2, <3>1
      <3> HIDE DEF ListSize
      <3> QED
        BY <1>a, <2>2, <2>3, <3>2
    <2>4. CASE created' = (created \/ line \in {"allocate", "query"})
      <3>1. created' \in BOOLEAN /\ (created => created')
            /\ (line \in {"allocate", "query"} => created')
        BY <2>4, Zenon
      <3> QED
        BY <1>a, <2>2, <3>1
    <2> QED
      BY <2>3, <2>4 DEF ChangeProcesses
  <1> QED
    BY <1>1, <1>2 DEF ChangeProcesses

LEMMA FindInv == ASSUME Inv, FindProcessName PROVE Inv'
  <1> USE DEF Inv, TypeOK, RoomInv, ListStep
  <1>a. PICK n \in Nat : n = ListSize(processes)
    BY SizeTyped
  <1>1. CASE QueryListSize
    <2>1. UNCHANGED <<processes, threads, events, created>>
      BY <1>1 DEF QueryListSize
    <2>2. ListSize(processes)' = n
      BY <1>a, <2>1 DEF ListSize
    <2> QED
      BY <1>1, <1>a, <2>2 DEF QueryListSize
  <1>2. CASE AllocateBuffer
    <2>1. UNCHANGED <<processes, threads, events, created>>
      BY <1>2 DEF AllocateBuffer
    <2>2. ListSize(processes)' = n
      BY <1>a, <2>1 DEF ListSize
    <2> QED
      BY <1>2, <1>a, <2>2 DEF AllocateBuffer
  <1>3. CASE QueryList
    <2>1. ~ FitsBuffer(processes) => created
      BY <1>3 DEF QueryList, FitsBuffer
    <2> QED
      BY <1>3, <1>a, <2>1 DEF QueryList
  <1>4. CASE VisitRecord
    <2>1. buffer[record] \in Processes
      BY <1>4 DEF VisitRecord
    <2>2. printed' \in Seq(Processes)
      BY <1>4, <2>1 DEF VisitRecord
    <2> QED
      BY <1>4, <2>2 DEF VisitRecord, NoNextEntry
  <1>5. CASE Report
    BY <1>5 DEF Report
  <1> QED
    BY <1>1, <1>2, <1>3, <1>4, <1>5 DEF FindProcessName

LEMMA NextInv == Inv /\ [Next]_vars => Inv'
  <1> SUFFICES ASSUME Inv, [Next]_vars PROVE Inv'
    OBVIOUS
  <1>1. CASE UNCHANGED vars
    BY <1>1 DEF Inv, TypeOK, RoomInv, vars, ListSize
  <1> QED
    BY <1>1, ChangeInv, FindInv DEF Next

LEMMA Invariance == Spec => []Inv
  BY InitInv, NextInv, PTL DEF Spec

-----------------------------------------------------------------------------
(* Every variable of find_process_name keeps its type; the walk never leaves the
   records the second query has written. *)
THEOREM ListTypeCorrect == Spec => []TypeOK
  BY Invariance, PTL DEF Inv

(* However many processes and threads come and go, and whatever the size of their
   records, the program is refused the list for lack of room only if a process or
   a thread was created between its queries. *)
THEOREM MismatchMeansGrowth == Spec => []OnlyGrowthIsMismatch
  <1>1. Inv => OnlyGrowthIsMismatch
    BY DEF Inv, RoomInv, OnlyGrowthIsMismatch
  <1> QED
    BY <1>1, Invariance, PTL

-----------------------------------------------------------------------------
(***************************************************************************)
(* The records a walk selects.                                             *)
(***************************************************************************)

(* A set of indices that holds all beyond some bound, and an index whenever it
   holds the next, holds them all. *)
LEMMA Backwards ==
    ASSUME NEW S, NEW n \in Nat, \A i \in Nat : i > n => i \in S,
           \A i \in Nat : i + 1 \in S => i \in S
    PROVE  \A i \in Nat : i \in S
  <1> SUFFICES ASSUME NEW i \in Nat, i \notin S PROVE FALSE
    OBVIOUS
  <1> DEFINE D == {d \in Nat : d <= n /\ n - d \notin S}
             R == OpToRel(<, Nat)
  <1>1. D \subseteq Nat /\ n - i \in D
    <2>1. i <= n /\ n - i \in Nat /\ n - (n - i) = i
      OBVIOUS
    <2> QED
      BY <2>1
  <1>2. PICK d \in D : \A e \in D : ~ (<<e, d>> \in R)
    <2> HIDE DEF D, R
    <2> QED
      BY <1>1, WFMin, NatLessThanWellFounded DEF R
  <1>3. \A e \in Nat : e < d => <<e, d>> \in R
    BY <1>1 DEF OpToRel
  <1>4. n - d \in Nat /\ n - d \notin S
    OBVIOUS
  <1>5. (n - d) + 1 \in S
    <2>1. CASE d = 0
      BY <2>1
    <2>2. CASE d # 0
      <3>1. d - 1 \in Nat /\ d - 1 < d /\ d - 1 <= n /\ n - (d - 1) = (n - d) + 1
        BY <2>2, <1>4
      <3>2. d - 1 \notin D
        <4> HIDE DEF D, R
        <4> QED
          BY <1>2, <1>3, <3>1
      <3> QED
        BY <3>1, <3>2
    <2> QED
      BY <2>1, <2>2
  <1> QED
    BY <1>4, <1>5

(* What the record at i adds to the selection. *)
Picked(list, i) == IF Selected(list[i]) THEN <<list[i]>> ELSE <<>>

Step(list, f, i) == IF i \in 1 .. Len(list) THEN Picked(list, i) \o f[i + 1] ELSE <<>>

LEMMA PickedTyped ==
    ASSUME NEW list \in Seq(Processes), NEW i \in 1 .. Len(list)
    PROVE  Picked(list, i) \in Seq(Processes)
  <1>1. list[i] \in Processes
    OBVIOUS
  <1>2. <<list[i]>> \in Seq(Processes) /\ <<>> \in Seq(Processes)
    BY <1>1
  <1> QED
    BY <1>2 DEF Picked

LEMMA SelectionExists ==
    ASSUME NEW list \in Seq(Processes)
    PROVE  \E f \in [Nat -> Seq(Processes)] : \A i \in Nat : f[i] = Step(list, f, i)
  <1> DEFINE From(k, f) == \A i \in Nat : i >= k => f[i] = Step(list, f, i)
             S == {k \in Nat : \E f \in [Nat -> Seq(Processes)] : From(k, f)}
  <1>1. ASSUME NEW k \in Nat, k > Len(list) PROVE k \in S
    <2> DEFINE f == [i \in Nat |-> <<>>]
    <2>1. f \in [Nat -> Seq(Processes)]
      OBVIOUS
    <2>2. ASSUME NEW i \in Nat, i >= k PROVE f[i] = Step(list, f, i)
      BY <1>1, <2>2 DEF Step
    <2> QED
      BY <2>1, <2>2
  <1>2. ASSUME NEW k \in Nat, k + 1 \in S PROVE k \in S
    <2>1. PICK f \in [Nat -> Seq(Processes)] : From(k + 1, f)
      BY <1>2
    <2>2. Step(list, f, k) \in Seq(Processes)
      <3>1. CASE k \in 1 .. Len(list)
        BY <3>1, PickedTyped, ConcatProperties DEF Step
      <3>2. CASE k \notin 1 .. Len(list)
        BY <3>2, EmptySeq DEF Step
      <3> QED
        BY <3>1, <3>2
    <2>3. PICK g \in [Nat -> Seq(Processes)] :
            g[k] = Step(list, f, k) /\ \A i \in Nat : i # k => g[i] = f[i]
      <3>1. [f EXCEPT ![k] = Step(list, f, k)] \in [Nat -> Seq(Processes)]
        BY <2>2
      <3> QED
        BY <3>1
    <2>4. ASSUME NEW i \in Nat, i >= k PROVE g[i] = Step(list, g, i)
      <3>1. i + 1 \in Nat /\ i + 1 # k
        BY <2>4
      <3>2. Step(list, g, i) = Step(list, f, i)
        BY <2>3, <3>1 DEF Step
      <3>3. CASE i = k
        BY <2>3, <3>2, <3>3
      <3>4. CASE i # k
        BY <2>1, <2>3, <2>4, <3>2, <3>4
      <3> QED
        BY <3>3, <3>4
    <2> QED
      BY <2>4
  <1>3. \A k \in Nat : k \in S
    <2> HIDE DEF S
    <2> QED
      BY <1>1, <1>2, Backwards, LenProperties
  <1>4. 0 \in S
    BY <1>3
  <1> QED
    BY <1>4

(* The selection is what its recursive definition says, and it is a list of
   processes. *)
LEMMA SelectionStep ==
    ASSUME NEW list \in Seq(Processes)
    PROVE  \A i \in Nat : SelectedFrom(list)[i] = Step(list, SelectedFrom(list), i)
  <1> DEFINE Whole(f) == f = [i \in Nat |-> IF i \in 1 .. Len(list)
                                            THEN (IF Selected(list[i]) THEN <<list[i]>> ELSE <<>>)
                                                 \o f[i + 1]
                                            ELSE <<>>]
  <1>1. PICK f \in [Nat -> Seq(Processes)] : \A i \in Nat : f[i] = Step(list, f, i)
    BY SelectionExists
  <1>2. f = [i \in Nat |-> Step(list, f, i)]
    BY <1>1
  <1>3. Whole(f)
    BY <1>2 DEF Step, Picked
  <1>4. SelectedFrom(list) = CHOOSE g : Whole(g)
    BY DEF SelectedFrom
  <1> DEFINE c == SelectedFrom(list)
  <1>5. Whole(c)
    <2> HIDE DEF Whole
    <2> QED
      BY <1>3, <1>4
  <1>6. c = [i \in Nat |-> Step(list, c, i)]
    <2> HIDE DEF c
    <2> QED
      BY <1>5 DEF Step, Picked
  <1> HIDE DEF c
  <1>7. \A i \in Nat : c[i] = Step(list, c, i)
    BY <1>6
  <1> QED
    BY <1>7 DEF c

LEMMA SelectionTyped ==
    ASSUME NEW list \in Seq(Processes)
    PROVE  \A i \in Nat : SelectedFrom(list)[i] \in Seq(Processes)
  <1> DEFINE c == SelectedFrom(list)
             S == {i \in Nat : c[i] \in Seq(Processes)}
  <1>1. \A i \in Nat : c[i] = Step(list, c, i)
    BY SelectionStep
  <1> HIDE DEF c
  <1>2. ASSUME NEW i \in Nat, i > Len(list) PROVE i \in S
    <2>1. i \notin 1 .. Len(list)
      BY <1>2, LenProperties
    <2> QED
      BY <1>1, <2>1, EmptySeq DEF Step
  <1>3. ASSUME NEW i \in Nat, i + 1 \in S PROVE i \in S
    <2>1. CASE i \in 1 .. Len(list)
      BY <1>1, <1>3, <2>1, PickedTyped, ConcatProperties DEF Step
    <2>2. CASE i \notin 1 .. Len(list)
      BY <1>1, <2>2, EmptySeq DEF Step
    <2> QED
      BY <2>1, <2>2
  <1>4. \A i \in Nat : i \in S
    <2> HIDE DEF S
    <2> QED
      BY <1>2, <1>3, Backwards, LenProperties
  <1> QED
    BY <1>4 DEF c

-----------------------------------------------------------------------------
LEMMA StartsSilent == Init => ListOfProcesses!Init
  BY ProcessAssumption DEF Init, ListOfProcesses!Init, Output

(* The list the kernel keeps is a list of processes, whatever happens to it. *)
LEMMA ListChanges ==
    ASSUME Inv', Output' = Output
    PROVE  [ListOfProcesses!Next]_<<processes, Output>>
  BY DEF Inv, TypeOK, ListOfProcesses!Next, ListOfProcesses!Change

(* Looking at a record moves it from the rest of the buffer to the output. *)
LEMMA VisitKeepsOutput ==
    ASSUME Inv, VisitRecord
    PROVE  Output' = Output /\ processes' = processes
  <1> DEFINE rest == SelectedFrom(buffer)
  <1>1. /\ buffer \in Seq(Processes) /\ printed \in Seq(Processes)
        /\ record \in 1 .. Len(buffer) /\ record \in Nat /\ record + 1 \in Nat
        /\ line = "walk" /\ status = "success" /\ processes' = processes
        /\ buffer' = buffer /\ status' = status
    BY DEF VisitRecord, ListStep, Inv, TypeOK, RoomInv
  <1>2. rest[record] = Step(buffer, rest, record) /\ rest[record + 1] \in Seq(Processes)
    BY <1>1, SelectionStep, SelectionTyped
  <1>3. Picked(buffer, record) \in Seq(Processes)
    BY <1>1, PickedTyped
  <1>4. printed' = printed \o Picked(buffer, record)
    <2>1. buffer[record] \in Processes
      BY <1>1
    <2>2. CASE Selected(buffer[record])
      <3>1. printed' = Append(printed, buffer[record])
        BY <2>2 DEF VisitRecord
      <3> QED
        BY <1>1, <2>1, <2>2, <3>1, AppendIsConcat DEF Picked
    <2>3. CASE ~ Selected(buffer[record])
      <3>1. printed' = printed
        BY <2>3 DEF VisitRecord
      <3> QED
        BY <1>1, <2>3, <3>1, ConcatEmptySeq DEF Picked
    <2> QED
      BY <2>2, <2>3
  <1>5. Output = printed \o (Picked(buffer, record) \o rest[record + 1])
    <2> HIDE DEF rest
    <2>1. rest[record] = Picked(buffer, record) \o rest[record + 1]
      BY <1>1, <1>2 DEF Step
    <2>2. Output = printed \o rest[record]
      BY <1>1 DEF Output, rest
    <2> QED
      BY <2>1, <2>2
  <1>6. Output = printed' \o rest[record + 1]
    <2>1. PICK tail \in Seq(Processes) : tail = rest[record + 1]
      BY <1>2
    <2>2. PICK new \in Seq(Processes) : new = Picked(buffer, record)
      BY <1>3
    <2>3. (printed \o new) \o tail = printed \o (new \o tail)
      BY <1>1, ConcatAssociative
    <2> HIDE DEF rest
    <2> QED
      BY <1>4, <1>5, <2>1, <2>2, <2>3
  <1>7. CASE record = Len(buffer)
    <2>1. line' = "report"
      BY <1>7 DEF VisitRecord, NoNextEntry
    <2>2. rest[record + 1] = <<>>
      <3>1. record + 1 \notin 1 .. Len(buffer)
        BY <1>1, <1>7
      <3>2. rest[record + 1] = Step(buffer, rest, record + 1)
        BY <1>1, SelectionStep
      <3> QED
        BY <3>1, <3>2 DEF Step
    <2>3. printed' \in Seq(Processes)
      BY <1>1, <1>3, <1>4, ConcatProperties
    <2>4. Output = printed'
      <3> HIDE DEF rest
      <3> QED
        BY <1>6, <2>2, <2>3, ConcatEmptySeq
    <2> QED
      BY <1>1, <2>1, <2>4 DEF Output
  <1>8. CASE record # Len(buffer)
    <2>1. line' = "walk" /\ record' = record + 1
      BY <1>1, <1>8 DEF VisitRecord, NoNextEntry
    <2> QED
      BY <1>1, <1>6, <2>1 DEF Output
  <1> QED
    BY <1>7, <1>8

(* Every step of the program keeps what it has printed and will print, or gives
   the answer for the list as it is at that moment. *)
LEMMA StepPrints ==
    ASSUME Inv, Inv', [Next]_vars
    PROVE  [ListOfProcesses!Next]_<<processes, Output>>
  <1> USE DEF Inv, TypeOK, RoomInv, ListStep, Output
  <1>1. CASE UNCHANGED vars
    BY <1>1 DEF vars
  <1>2. CASE ChangeProcesses
    BY <1>2, ListChanges DEF ChangeProcesses
  <1>3. CASE QueryListSize
    BY <1>3 DEF QueryListSize, ListOfProcesses!Next, ListOfProcesses!Give
  <1>4. CASE AllocateBuffer
    BY <1>4 DEF AllocateBuffer, ListOfProcesses!Next, ListOfProcesses!Give
  <1>5. CASE QueryList
    <2>1. Output = Silent /\ processes' = processes /\ printed' = <<>>
      BY <1>5 DEF QueryList
    <2>2. CASE buffer' = processes /\ record' = 1 /\ line' = "walk"
      <3>1. Output' = SelectedFrom(processes)[1]
        <4>1. SelectedFrom(processes)[1] \in Seq(Processes)
          BY SelectionTyped
        <4> QED
          BY <2>1, <2>2, <4>1, ConcatEmptySeq
      <3> QED
        BY <2>1, <3>1 DEF SelectedOf, ListOfProcesses!Next, ListOfProcesses!Give
    <2>3. CASE status' # "success" /\ line' = "report"
      BY <2>1, <2>3 DEF ListOfProcesses!Next, ListOfProcesses!Give
    <2> QED
      BY <1>5, <2>2, <2>3 DEF QueryList
  <1>6. CASE VisitRecord
    <2> QED
      BY <1>6, VisitKeepsOutput
  <1>7. CASE Report
    BY <1>7 DEF Report
  <1> QED
    BY <1>1, <1>2, <1>3, <1>4, <1>5, <1>6, <1>7 DEF Next, FindProcessName

(* The safety part of PrintsSnapshot: whatever processes come and go, what
   find_process_name prints in all its steps is the selection from the process
   list as it was at one moment, or it reports a failure. *)
THEOREM PrintsOneMoment ==
    Spec => ListOfProcesses!Init /\ [][ListOfProcesses!Next]_<<processes, Output>>
  <1>1. Inv /\ Inv' /\ [Next]_vars => [ListOfProcesses!Next]_<<processes, Output>>
    BY StepPrints
  <1> QED
    BY <1>1, StartsSilent, Invariance, PTL DEF Spec
=============================================================================
