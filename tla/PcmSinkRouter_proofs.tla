------------------------- MODULE PcmSinkRouter_proofs -------------------------
(* Proofs about PcmSinkRouter, for any sinks, any capacity of their queues, *)
(* any sizes of blocks and any number of attempts, blocks and operations.   *)
(*                                                                          *)
(* Three layers.  The sum of a queue of blocks is what its partial sums     *)
(* say, so that appending, taking the head and cutting the oldest change it *)
(* by what the counters say (NewestFits).  A worker keeps its account and   *)
(* is empty once it ends (WorkerOK); Evolves is what its own steps and the  *)
(* audio thread never change, so that the router need not look into them.   *)
(* IInv then says at each place of an operation what the operation may      *)
(* count on, which sinks it serves and which workers are silent.            *)
EXTENDS PcmSinkRouter, SequenceTheorems, WellFoundedInduction, TLAPS

---------------------------------------------------------------------------
(* Sums of blocks. *)

(* The least of a set of naturals stands in for induction over Nat.         *)
LEMMA LeastOf ==
  ASSUME NEW T \in SUBSET Nat, T # {}
  PROVE  \E n \in T : \A m \in T : n <= m
<1>1. PICK n \in T : \A m \in T : ~(<<m, n>> \in OpToRel(<, Nat))
  BY NatLessThanWellFounded, WFMin, Zenon
<1>2. ASSUME NEW m \in T PROVE n <= m
  <2>1. ~(m < n)
    BY <1>1, Zenon DEF OpToRel
  <2> QED  BY <2>1
<1> QED  BY <1>2

(* Two functions that start alike and take the same steps are alike.        *)
LEMMA Stepwise ==
  ASSUME NEW n \in Nat, NEW f, NEW g, f[0] = g[0],
         \A i \in 1 .. n : f[i - 1] = g[i - 1] => f[i] = g[i]
  PROVE  \A i \in 0 .. n : f[i] = g[i]
<1> DEFINE T == {i \in 0 .. n : f[i] # g[i]}
<1>1. CASE T = {}
  BY <1>1
<1>2. CASE T # {}
  <2>1. T \in SUBSET Nat
    OBVIOUS
  <2>2. PICK i \in T : \A j \in T : i <= j
    BY <1>2, <2>1, LeastOf
  <2>3. i \in 1 .. n /\ i - 1 \in 0 .. n /\ ~(i <= i - 1)
    BY <2>2
  <2>4. f[i - 1] = g[i - 1]
    BY <2>2, <2>3
  <2> QED  BY <2>2, <2>3, <2>4
<1> QED  BY <1>1, <1>2

(* Sums of the first n blocks.                                              *)
Sums(queue, total, n) ==
  /\ total \in [0 .. n -> Nat] /\ total[0] = 0
  /\ \A i \in 1 .. n : total[i] = total[i - 1] + queue[i]

LEMMA SumsExist ==
  ASSUME NEW queue \in Seq(Nat), NEW n \in 0 .. Len(queue)
  PROVE  \E total : Sums(queue, total, n)
<1> DEFINE T == {i \in 0 .. Len(queue) : ~ \E total : Sums(queue, total, i)}
<1>1. CASE T = {}
  BY <1>1
<1>2. CASE T # {}
  <2>1. T \in SUBSET Nat
    OBVIOUS
  <2>2. PICK i \in T : \A j \in T : i <= j
    BY <1>2, <2>1, LeastOf
  <2>3. CASE i = 0
    <3> DEFINE total == [j \in 0 .. 0 |-> 0]
    <3>1. Sums(queue, total, 0)
      BY DEF Sums
    <3> QED  BY <2>2, <2>3, <3>1
  <2>4. CASE i # 0
    <3>1. /\ i \in 1 .. Len(queue) /\ i - 1 \in 0 .. Len(queue) /\ i \in Nat
          /\ ~(i <= i - 1) /\ queue[i] \in Nat
      BY <2>2, <2>4
    <3>2. PICK total : Sums(queue, total, i - 1)
      BY <2>2, <3>1
    <3> DEFINE more == [j \in 0 .. i |-> IF j = i THEN total[i - 1] + queue[i]
                                         ELSE total[j]]
    <3>3. total \in [0 .. i - 1 -> Nat] /\ total[i - 1] \in Nat /\ total[0] = 0
          /\ \A j \in 1 .. i - 1 : total[j] = total[j - 1] + queue[j]
      BY <3>1, <3>2 DEF Sums
    <3>4. more \in [0 .. i -> Nat] /\ more[0] = 0
      BY <3>1, <3>3
    <3>5. ASSUME NEW j \in 1 .. i PROVE more[j] = more[j - 1] + queue[j]
      <4>1. CASE j = i
        BY <4>1, <3>1, <3>3
      <4>2. CASE j # i
        <5>1. j \in 1 .. i - 1 /\ j - 1 \in 0 .. i - 1 /\ j - 1 # i /\ j - 1 \in 0 .. i
          BY <4>2, <3>1
        <5> QED  BY <4>2, <5>1, <3>3
      <4> QED  BY <4>1, <4>2
    <3>6. Sums(queue, more, i)
      BY <3>4, <3>5 DEF Sums
    <3> QED  BY <2>2, <3>6
  <2> QED  BY <2>3, <2>4
<1> QED  BY <1>1, <1>2

(* The recursive definition computes the sums.                              *)
LEMMA TotalsSum ==
  ASSUME NEW queue \in Seq(Nat)
  PROVE  Sums(queue, Totals(queue), Len(queue))
<1> DEFINE n == Len(queue)
<1>1. n \in Nat /\ n \in 0 .. n
  OBVIOUS
<1>2. PICK total : Sums(queue, total, n)
  BY <1>1, SumsExist
<1>3. total = [i \in 0 .. n |-> IF i = 0 THEN 0 ELSE total[i - 1] + queue[i]]
  <2>1. /\ total \in [0 .. n -> Nat] /\ total[0] = 0
        /\ \A i \in 1 .. n : total[i] = total[i - 1] + queue[i]
    BY <1>2 DEF Sums
  <2>2. \A i \in 0 .. n : i # 0 => i \in 1 .. n
    BY <1>1
  <2> QED  BY <2>1, <2>2
<1>4. Totals(queue)
        = [i \in 0 .. n |-> IF i = 0 THEN 0 ELSE Totals(queue)[i - 1] + queue[i]]
  BY <1>3 DEF Totals
<1>5. \A i \in 0 .. n : Totals(queue)[i] = total[i]
  <2>1. Totals(queue)[0] = total[0]
    BY <1>1, <1>2, <1>4 DEF Sums
  <2>2. ASSUME NEW i \in 1 .. n, Totals(queue)[i - 1] = total[i - 1]
        PROVE  Totals(queue)[i] = total[i]
    <3>1. i \in 0 .. n /\ i # 0
      OBVIOUS
    <3> QED  BY <1>2, <1>4, <2>2, <3>1 DEF Sums
  <2> QED  BY <1>1, <2>1, <2>2, Stepwise
<1>6. total \in [0 .. n -> Nat]
  BY <1>2 DEF Sums
<1>7. Totals(queue) = total
  BY <1>4, <1>5, <1>6
<1> QED  BY <1>2, <1>7

LEMMA TotalsType ==
  ASSUME NEW queue \in Seq(Nat)
  PROVE  /\ Totals(queue) \in [0 .. Len(queue) -> Nat]
         /\ Totals(queue)[0] = 0
         /\ \A i \in 1 .. Len(queue) :
              /\ i - 1 \in 0 .. Len(queue) /\ i \in 0 .. Len(queue)
              /\ queue[i] \in Nat
              /\ Totals(queue)[i] = Totals(queue)[i - 1] + queue[i]
         /\ Samples(queue) \in Nat
<1>1. Len(queue) \in Nat /\ Len(queue) \in 0 .. Len(queue)
  OBVIOUS
<1>2. ASSUME NEW i \in 1 .. Len(queue)
      PROVE  i - 1 \in 0 .. Len(queue) /\ i \in 0 .. Len(queue) /\ queue[i] \in Nat
  BY <1>1
<1> QED  BY <1>1, <1>2, TotalsSum DEF Sums, Samples

(* Longer prefixes hold more.                                               *)
LEMMA TotalsGrow ==
  ASSUME NEW queue \in Seq(Nat),
         NEW j \in 0 .. Len(queue), NEW i \in 0 .. j
  PROVE  Totals(queue)[i] <= Totals(queue)[j]
<1> DEFINE t == Totals(queue)
           T == {k \in i .. Len(queue) : ~(t[i] <= t[k])}
<1>1. CASE T = {}
  BY <1>1
<1>2. CASE T # {}
  <2>1. T \in SUBSET Nat
    OBVIOUS
  <2>2. PICK k \in T : \A m \in T : k <= m
    BY <1>2, <2>1, LeastOf
  <2>3. t[i] \in Nat /\ k # i
    <3>1. i \in 0 .. Len(queue)
      OBVIOUS
    <3>2. t[i] \in Nat
      BY <3>1, TotalsType
    <3> QED  BY <2>2, <3>2
  <2>4. k \in 1 .. Len(queue) /\ k - 1 \in i .. Len(queue) /\ ~(k <= k - 1)
    BY <2>2, <2>3
  <2>5. t[i] <= t[k - 1]
    BY <2>2, <2>4
  <2>6. t[k] = t[k - 1] + queue[k] /\ t[k - 1] \in Nat /\ queue[k] \in Nat
    BY <2>4, TotalsType
  <2> HIDE DEF t
  <2>7. t[i] <= t[k]
    BY <2>3, <2>5, <2>6
  <2> QED  BY <2>2, <2>7
<1> QED  BY <1>1, <1>2

(* A queue whose blocks are those of another from block k + 1 on, the first *)
(* of them cut, holds what the cut and the k blocks before it leave.        *)
LEMMA ShiftedSamples ==
  ASSUME NEW queue \in Seq(Nat), NEW r \in Seq(Nat), NEW k \in Nat, NEW c \in Nat,
         Len(r) >= 1, k + Len(r) = Len(queue),
         r[1] = Totals(queue)[k + 1] - c,
         \A i \in 2 .. Len(r) : r[i] = queue[k + i]
  PROVE  Samples(r) = Samples(queue) - c
<1> DEFINE t == Totals(queue)
           f == Totals(r)
           n == Len(r)
           g == [i \in 0 .. n |-> IF i = 0 THEN 0 ELSE t[k + i] - c]
<1>1. /\ n \in Nat /\ Len(queue) \in Nat /\ n \in 1 .. n
      /\ \A i \in 1 .. n : k + i \in 1 .. Len(queue) /\ i \in 0 .. n
  OBVIOUS
<1>2. f[0] = g[0]
  BY <1>1, TotalsType
<1>3. ASSUME NEW i \in 1 .. n, f[i - 1] = g[i - 1] PROVE f[i] = g[i]
  <2>1. f[i] = f[i - 1] + r[i] /\ r[i] \in Nat
    BY TotalsType
  <2>2. g[i] = t[k + i] - c
    BY <1>1
  <2>3. CASE i = 1
    <3>1. f[i] = 0 + r[1] /\ r[1] \in Nat
      BY <1>2, <2>1, <2>3
    <3> QED  BY <2>2, <2>3, <3>1
  <2>4. CASE i # 1
    <3>1. /\ i \in 2 .. n /\ i - 1 \in 1 .. n /\ i - 1 \in 0 .. n /\ i - 1 # 0
          /\ k + (i - 1) = (k + i) - 1
      BY <2>4, <1>1
    <3>2. g[i - 1] = t[(k + i) - 1] - c
      BY <3>1
    <3>3. t[k + i] = t[(k + i) - 1] + queue[k + i] /\ t[(k + i) - 1] \in Nat
          /\ queue[k + i] \in Nat
      BY <1>1, TotalsType
    <3>4. r[i] = queue[k + i]
      BY <3>1
    <3>5. \A a, b \in Nat : (a - c) + b = (a + b) - c
      OBVIOUS
    <3> HIDE DEF t, f, g
    <3>6. f[i] = (t[(k + i) - 1] - c) + queue[k + i]
      BY <1>3, <2>1, <3>2, <3>4
    <3>7. g[i] = (t[(k + i) - 1] + queue[k + i]) - c
      BY <2>2, <3>3
    <3> QED  BY <3>3, <3>5, <3>6, <3>7
  <2> QED  BY <2>3, <2>4
<1>4. f[n] = g[n]
  <2>1. \A i \in 0 .. n : f[i] = g[i]
    <3>1. ASSUME NEW a, NEW b, a = f, b = g PROVE \A i \in 0 .. n : a[i] = b[i]
      <4>1. \A i \in 1 .. n : a[i - 1] = b[i - 1] => a[i] = b[i]
        BY <1>3, <3>1
      <4>2. n \in Nat /\ a[0] = b[0]
        BY <1>1, <1>2, <3>1
      <4> HIDE DEF n
      <4> QED  BY ONLY <4>1, <4>2, Stepwise, ZenonT(60)
    <3> HIDE DEF f, g
    <3> QED  BY <3>1
  <2> QED  BY <1>1, <2>1
<1>5. g[n] = t[k + n] - c /\ k + n = Len(queue)
  <2>1. n # 0 /\ n \in 0 .. n
    BY <1>1
  <2> QED  BY <2>1
<1> HIDE DEF f, t, g
<1> QED  BY <1>4, <1>5 DEF Samples, f, t

LEMMA SamplesEmpty == Samples(<<>>) = 0
<1>1. <<>> \in Seq(Nat) /\ Len(<<>>) = 0
  OBVIOUS
<1> QED  BY <1>1, TotalsType DEF Samples

LEMMA SamplesTail ==
  ASSUME NEW queue \in Seq(Nat), queue # <<>>
  PROVE  /\ Head(queue) \in Nat /\ Head(queue) <= Samples(queue)
         /\ Samples(Tail(queue)) = Samples(queue) - Head(queue)
<1> DEFINE t == Totals(queue)
           n == Len(queue)
<1>1. /\ n \in Nat /\ n >= 1 /\ Head(queue) = queue[1] /\ 1 \in 1 .. n /\ n \in 0 .. n
      /\ Tail(queue) \in Seq(Nat) /\ Len(Tail(queue)) = n - 1
      /\ \A i \in 1 .. n - 1 : Tail(queue)[i] = queue[i + 1]
  OBVIOUS
<1>2. t[1] = queue[1] /\ queue[1] \in Nat
  <2>1. t[1] = t[1 - 1] + queue[1] /\ queue[1] \in Nat /\ t[0] = 0
    BY <1>1, TotalsType
  <2> QED  BY <2>1
<1>3. queue[1] <= Samples(queue)
  <2>1. 1 \in 0 .. n
    BY <1>1
  <2> QED  BY <1>1, <1>2, <2>1, TotalsGrow DEF Samples
<1>4. Samples(Tail(queue)) = Samples(queue) - queue[1]
  <2>1. CASE n = 1
    <3>1. Tail(queue) = <<>>
      <4>1. Len(Tail(queue)) = 0
        BY <1>1, <2>1
      <4> QED  BY <1>1, <4>1, EmptySeq
    <3>2. Samples(queue) = queue[1]
      BY <1>2, <2>1 DEF Samples
    <3>3. Samples(Tail(queue)) = 0
      BY <3>1, SamplesEmpty
    <3>4. \A a \in Nat : a - a = 0
      OBVIOUS
    <3> QED  BY <1>2, <3>2, <3>3, <3>4
  <2>2. CASE n # 1
    <3>1. /\ Len(Tail(queue)) >= 1 /\ 1 + Len(Tail(queue)) = Len(queue)
          /\ 2 \in 1 .. n
          /\ \A i \in 2 .. Len(Tail(queue)) : Tail(queue)[i] = queue[1 + i]
      BY <1>1, <2>2
    <3>2. Tail(queue)[1] = t[1 + 1] - queue[1]
      <4>1. t[2] = t[1] + queue[2] /\ queue[2] \in Nat
        <5>1. t[2] = t[2 - 1] + queue[2] /\ queue[2] \in Nat
          BY <3>1, TotalsType
        <5>2. 2 - 1 = 1
          OBVIOUS
        <5> QED  BY <5>1, <5>2
      <4>2. 1 \in 1 .. n - 1
        BY <1>1, <2>2
      <4>3. Tail(queue)[1] = queue[2]
        BY <1>1, <4>2
      <4>4. \A a, b \in Nat : b = (a + b) - a
        OBVIOUS
      <4>5. t[1 + 1] = queue[1] + queue[2]
        BY <1>2, <4>1
      <4> HIDE DEF t
      <4> QED  BY <1>2, <4>1, <4>3, <4>4, <4>5
    <3>3. 1 \in Nat
      OBVIOUS
    <3> HIDE DEF n
    <3> QED  BY <1>1, <1>2, <3>1, <3>2, <3>3, ShiftedSamples
  <2> QED  BY <2>1, <2>2
<1> QED  BY <1>1, <1>2, <1>3, <1>4

LEMMA SamplesAppend ==
  ASSUME NEW queue \in Seq(Nat), NEW block \in Nat
  PROVE  Samples(Append(queue, block)) = Samples(queue) + block
<1> DEFINE n == Len(queue)
           r == Append(queue, block)
           f == Totals(r)
           t == Totals(queue)
<1>1. /\ n \in Nat /\ r \in Seq(Nat) /\ Len(r) = n + 1 /\ r[n + 1] = block
      /\ \A i \in 1 .. n : r[i] = queue[i] /\ i \in 1 .. n + 1
      /\ n + 1 \in 1 .. n + 1 /\ (n + 1) - 1 = n /\ n \in 0 .. n
  OBVIOUS
<1>2. f[0] = t[0]
  BY <1>1, TotalsType
<1>3. ASSUME NEW i \in 1 .. n, f[i - 1] = t[i - 1] PROVE f[i] = t[i]
  <2>1. f[i] = f[i - 1] + r[i]
    BY <1>1, TotalsType
  <2>2. t[i] = t[i - 1] + queue[i]
    BY <1>1, TotalsType
  <2> HIDE DEF f, t, r
  <2> QED  BY <1>1, <1>3, <2>1, <2>2
<1>4. f[n] = t[n]
  <2>1. \A i \in 0 .. n : f[i] = t[i]
    <3>1. \A i \in 1 .. n : f[i - 1] = t[i - 1] => f[i] = t[i]
      BY <1>3
    <3>2. n \in Nat
      BY <1>1
    <3> HIDE DEF f, t, n
    <3> QED  BY <1>2, <3>1, <3>2, Stepwise, ZenonT(30)
  <2> QED  BY <1>1, <2>1
<1>5. f[n + 1] = f[(n + 1) - 1] + r[n + 1]
  BY <1>1, TotalsType
<1> HIDE DEF f, t, r
<1> QED  BY <1>1, <1>4, <1>5 DEF Samples, r, f, t

(* A block is at most what its queue holds from any place before it.        *)
LEMMA BlockBound ==
  ASSUME NEW queue \in Seq(Nat), NEW i \in 1 .. Len(queue), NEW j \in 0 .. i - 1
  PROVE  /\ Totals(queue)[j] \in Nat /\ queue[i] \in Nat
         /\ queue[i] + Totals(queue)[j] <= Samples(queue)
<1> DEFINE t == Totals(queue)
           n == Len(queue)
<1>1. /\ n \in Nat /\ j \in 0 .. n /\ i - 1 \in 0 .. n /\ i \in 0 .. n /\ n \in 0 .. n
      /\ i \in 0 .. n /\ j \in 0 .. i - 1
  OBVIOUS
<1>2. t[j] <= t[i - 1] /\ t[i] <= t[n]
  BY <1>1, TotalsGrow
<1>3. /\ t[j] \in Nat /\ t[i - 1] \in Nat /\ t[n] \in Nat /\ queue[i] \in Nat
      /\ t[i] = t[i - 1] + queue[i]
  BY <1>1, TotalsType
<1>4. \A a, b, c, d \in Nat : a <= b /\ b + c <= d => c + a <= d
  OBVIOUS
<1> HIDE DEF t, n
<1> QED  BY <1>2, <1>3, <1>4 DEF Samples, t, n

LEMMA SeqNarrows ==
  ASSUME NEW S, NEW queue \in Seq(S), NEW T, \A i \in 1 .. Len(queue) : queue[i] \in T
  PROVE  queue \in Seq(T)
<1>1. Len(queue) \in Nat /\ queue \in [1 .. Len(queue) -> T]
  OBVIOUS
<1> QED  BY <1>1

(* What is kept fits, and it is all there was or fills the queue.           *)
LEMMA NewestFits ==
  ASSUME NEW queue \in Seq(Nat \ {0})
  PROVE  /\ Newest(queue) \in Seq(1 .. Capacity)
         /\ Samples(Newest(queue)) \in 0 .. Capacity
         /\ Samples(Newest(queue))
              = IF Samples(queue) > Capacity THEN Capacity ELSE Samples(queue)
<1> DEFINE t == Totals(queue)
           n == Len(queue)
           excess == Samples(queue) - Capacity
<1>1. /\ queue \in Seq(Nat) /\ n \in Nat /\ Capacity \in Nat
      /\ \A i \in 1 .. n : queue[i] \in Nat \ {0}
  BY CapacityAssumption
<1>2. Samples(queue) \in Nat
  BY <1>1, TotalsType
<1>3. CASE Samples(queue) <= Capacity
  <2>1. Newest(queue) = queue
    BY <1>3 DEF Newest
  <2>2. ASSUME NEW i \in 1 .. n PROVE queue[i] \in 1 .. Capacity
    <3>1. 0 \in 0 .. i - 1
      OBVIOUS
    <3>2. t[0] = 0 /\ queue[i] + t[0] <= Samples(queue)
      BY <1>1, <3>1, BlockBound, TotalsType
    <3>3. queue[i] \in Nat /\ queue[i] # 0
      BY <1>1
    <3> HIDE DEF t
    <3> QED  BY <1>1, <1>2, <1>3, <3>2, <3>3
  <2>3. queue \in Seq(1 .. Capacity)
    BY <2>2, SeqNarrows
  <2> QED  BY <1>1, <1>2, <1>3, <2>1, <2>3
<1>4. CASE ~(Samples(queue) <= Capacity)
  <2> DEFINE Starts(i) == t[i - 1] <= excess /\ excess < t[i]
             first == CHOOSE i \in 1 .. n : Starts(i)
             r == <<t[first] - excess>> \o SubSeq(queue, first + 1, n)
  <2>1. excess \in Nat /\ excess # 0 /\ excess + Capacity = Samples(queue)
        /\ excess < Samples(queue)
    BY <1>1, <1>2, <1>4, CapacityAssumption
  <2>2. \E i \in 1 .. n : Starts(i)
    <3> DEFINE T == {i \in 0 .. n : excess < t[i]}
    <3>1. n \in T
      BY <1>1, <2>1 DEF Samples
    <3>2. PICK i \in T : \A j \in T : i <= j
      <4>1. T \in SUBSET Nat /\ T # {}
        BY <3>1
      <4> HIDE DEF T
      <4> QED  BY <4>1, LeastOf
    <3>3. t[0] = 0
      BY <1>1, TotalsType
    <3> HIDE DEF excess
    <3>4. i # 0
      BY <2>1, <3>2, <3>3
    <3>5. i \in 1 .. n /\ i - 1 \in 0 .. n /\ ~(i <= i - 1)
      BY <3>2, <3>4
    <3>6. ~(excess < t[i - 1]) /\ t[i - 1] \in Nat
      BY <1>1, <3>2, <3>5, TotalsType
    <3> HIDE DEF t
    <3> QED  BY <2>1, <3>2, <3>5, <3>6
  <2>3. first \in 1 .. n /\ Starts(first)
    <3> HIDE DEF Starts
    <3> QED  BY <2>2
  <2>4. Newest(queue) = r
    BY <1>4 DEF Newest
  <2> HIDE DEF first, excess
  <2>5. /\ t[first] \in Nat /\ t[first - 1] \in Nat /\ queue[first] \in Nat
        /\ t[first] = t[first - 1] + queue[first]
        /\ first - 1 \in Nat /\ first \in 0 .. n /\ n \in 0 .. n
    <3>1. first \in 1 .. n
      BY <2>3
    <3>2. first - 1 \in Nat /\ first \in 0 .. n /\ n \in 0 .. n /\ first - 1 \in 0 .. n
      BY <1>1, <3>1
    <3>3. t[first] = t[first - 1] + queue[first] /\ queue[first] \in Nat
      BY <1>1, <3>1, TotalsType
    <3>4. t[first] \in Nat /\ t[first - 1] \in Nat
      BY <1>1, <3>2, TotalsType
    <3> HIDE DEF t
    <3> QED  BY <3>2, <3>3, <3>4
  <2>6. t[first] - excess \in 1 .. Capacity
    <3>1. t[first] <= t[n]
      BY <1>1, <2>5, TotalsGrow
    <3>2. t[n] = excess + Capacity /\ excess < t[first]
      BY <2>1, <2>3 DEF Samples
    <3> HIDE DEF t
    <3> QED  BY <1>1, <2>1, <2>5, <3>1, <3>2
  <2>7. ASSUME NEW i \in first + 1 .. n
        PROVE  queue[i] \in 1 .. Capacity /\ i \in 1 .. n
    <3>1. i \in 1 .. n /\ first \in 0 .. i - 1
      BY <2>3
    <3>2. queue[i] + t[first] <= Samples(queue) /\ queue[i] \in Nat /\ queue[i] # 0
      BY <1>1, <3>1, BlockBound
    <3>3. excess < t[first]
      BY <2>3
    <3>4. \A a, b, c, d, e \in Nat : a + b <= c /\ d < b /\ d + e = c => a <= e
      OBVIOUS
    <3>5. t[first] \in Nat /\ excess \in Nat /\ excess + Capacity = Samples(queue)
      BY <2>1, <2>5
    <3> HIDE DEF t
    <3>6. queue[i] <= Capacity
      BY <1>1, <1>2, <3>2, <3>3, <3>4, <3>5
    <3> QED  BY <1>1, <3>1, <3>2, <3>6
  <2>8. /\ SubSeq(queue, first + 1, n) \in Seq(1 .. Capacity)
        /\ Len(SubSeq(queue, first + 1, n)) = n - first
        /\ \A i \in 1 .. n - first : SubSeq(queue, first + 1, n)[i] = queue[first + i]
    <3>1. first + 1 \in Int /\ n \in Int
          /\ (IF first + 1 <= n THEN n - (first + 1) + 1 ELSE 0) = n - first
          /\ n - (first + 1) + 1 = n - first
          /\ \A i \in 1 .. n - first : (first + 1) + i - 1 = first + i
      BY <1>1, <2>3
    <3>2. /\ SubSeq(queue, first + 1, n) \in Seq(1 .. Capacity)
          /\ Len(SubSeq(queue, first + 1, n))
               = IF first + 1 <= n THEN n - (first + 1) + 1 ELSE 0
          /\ \A i \in 1 .. n - (first + 1) + 1 :
                SubSeq(queue, first + 1, n)[i] = queue[(first + 1) + i - 1]
      BY <2>7, <3>1, SubSeqProperties
    <3> QED  BY <3>1, <3>2
  <2> DEFINE cut == t[first] - excess
             rest == SubSeq(queue, first + 1, n)
  <2>9. /\ r \in Seq(1 .. Capacity) /\ Len(r) = 1 + (n - first) /\ r[1] = cut
        /\ \A i \in 2 .. Len(r) : r[i] = queue[(first - 1) + i]
    <3>1. cut \in 1 .. Capacity /\ rest \in Seq(1 .. Capacity) /\ Len(rest) = n - first
          /\ \A i \in 1 .. n - first : rest[i] = queue[first + i]
      BY <2>6, <2>8
    <3>2. r = <<cut>> \o rest
      OBVIOUS
    <3> HIDE DEF cut, rest, r
    <3>3. /\ r \in Seq(1 .. Capacity) /\ Len(r) = 1 + (n - first) /\ r[1] = cut
          /\ \A i \in 2 .. Len(r) : r[i] = rest[i - 1]
      <4>1. /\ <<cut>> \in Seq(1 .. Capacity) /\ Len(<<cut>>) = 1 /\ <<cut>>[1] = cut
        BY <3>1
      <4>2. /\ r \in Seq(1 .. Capacity) /\ Len(r) = 1 + (n - first)
            /\ \A i \in 1 .. 1 + (n - first) :
                  r[i] = IF i <= 1 THEN <<cut>>[i] ELSE rest[i - 1]
        BY <3>1, <3>2, <4>1, ConcatProperties
      <4>3. n - first \in Nat
        BY <1>1, <2>3
      <4>4. 1 \in 1 .. 1 + (n - first) /\ 1 <= 1
            /\ \A i \in 2 .. Len(r) : i \in 1 .. 1 + (n - first) /\ ~(i <= 1)
        BY <4>2, <4>3
      <4> QED  BY <4>1, <4>2, <4>4
    <3>4. ASSUME NEW i \in 2 .. Len(r) PROVE r[i] = queue[(first - 1) + i]
      <4>1. i - 1 \in 1 .. n - first /\ first + (i - 1) = (first - 1) + i
        BY <1>1, <2>3, <3>3
      <4> QED  BY <3>1, <3>3, <4>1
    <3> QED  BY <3>3, <3>4
  <2>10. Samples(r) = Samples(queue) - excess
    <3>1. /\ r \in Seq(Nat) /\ Len(r) >= 1 /\ (first - 1) + Len(r) = Len(queue)
          /\ (first - 1) + 1 = first
      BY <1>1, <2>3, <2>9
    <3>2. r[1] = Totals(queue)[(first - 1) + 1] - excess
      BY <2>9, <3>1
    <3> HIDE DEF r, n, t, cut
    <3>3. /\ queue \in Seq(Nat) /\ first - 1 \in Nat /\ excess \in Nat
          /\ \A i \in 2 .. Len(r) : r[i] = queue[(first - 1) + i]
      BY <1>1, <2>1, <2>5, <2>9
    <3> QED  BY ONLY <3>1, <3>2, <3>3, ShiftedSamples, ZenonT(60)
  <2>11. Samples(r) = Capacity /\ Samples(queue) > Capacity
    <3>1. \A a, b, c \in Nat : a + b = c => c - a = b
      OBVIOUS
    <3> HIDE DEF r
    <3> QED  BY <1>1, <1>2, <1>4, <2>1, <2>10, <3>1
  <2> HIDE DEF r
  <2> QED  BY <1>1, <2>4, <2>9, <2>11
<1> QED  BY <1>3, <1>4

---------------------------------------------------------------------------
(* One worker. *)

(* Where a worker is once its last block is gone. *)
Ending == {"stop", "stopped", "finalized", "last", "lasting", "ended"}

WorkerShape(w) ==
  /\ w.finalizing => ~w.accepting
  /\ w.pc \in Ending => w.finalizing /\ w.queue = <<>>
  /\ w.hand # 0 => w.pc = "submit"
  /\ w.submitted = w.dropped + w.queued + w.hand + w.delivered
  /\ w.queued = Samples(w.queue)

WorkerOK(w) == w \in WorkerType /\ WorkerShape(w)

(* What a step of a worker, or of the audio thread, leaves of it.           *)
Evolves(w, r) ==
  /\ WorkerOK(r)
  /\ r.accepting = w.accepting /\ r.finalizing = w.finalizing
  /\ Done(w) => Done(r)
  /\ w.queue = <<>> /\ ~w.accepting =>
       /\ r.queue = <<>>
       /\ r.pc \in InSubmission => w.pc \in InSubmission
       /\ r.pc = "submit" => w.pc = "submit"

LEMMA WorkerFields ==
  ASSUME NEW w, WorkerOK(w)
  PROVE  /\ w # None /\ w.pc \in WorkerPcs
         /\ w.accepting \in BOOLEAN /\ w.finalizing \in BOOLEAN
         /\ w.queue \in Seq(1 .. Capacity) /\ w.queue \in Seq(Nat)
         /\ w.queued \in 0 .. Capacity /\ w.hand \in 0 .. Capacity
         /\ w.queued \in Nat /\ w.hand \in Nat /\ w.attempt \in 0 .. MaxAttempts + 1
         /\ w.submitted \in Nat /\ w.dropped \in Nat /\ w.delivered \in Nat
         /\ Capacity \in Nat /\ Capacity # 0 /\ MaxAttempts \in Nat
<1>1. w \in WorkerType /\ w # None /\ Capacity \in Nat /\ Capacity # 0 /\ MaxAttempts \in Nat
  BY NoneAssumption, CapacityAssumption, BoundsAssumption DEF WorkerOK
<1>2. w.queue \in Seq(1 .. Capacity)
  BY <1>1 DEF WorkerType
<1>3. w.queue \in Seq(Nat)
  <2>1. \A i \in 1 .. Len(w.queue) : w.queue[i] \in Nat
    BY <1>1, <1>2
  <2> QED  BY <1>2, <2>1, SeqNarrows
<1> QED  BY <1>1, <1>2, <1>3 DEF WorkerType

LEMMA EvolvesRefl ==
  ASSUME NEW w, WorkerOK(w)
  PROVE  Evolves(w, w)
BY DEF Evolves

LEMMA EvolvesTrans ==
  ASSUME NEW w, NEW r, NEW q, Evolves(w, r), Evolves(r, q)
  PROVE  Evolves(w, q)
BY DEF Evolves

LEMMA NewWorkerOK ==
  ASSUME NEW accepting \in BOOLEAN
  PROVE  WorkerOK(NewWorker(accepting))
<1>1. /\ Capacity \in Nat /\ MaxAttempts \in Nat /\ <<>> \in Seq(1 .. Capacity)
      /\ Samples(<<>>) = 0
  BY CapacityAssumption, BoundsAssumption, SamplesEmpty
<1>2. NewWorker(accepting) \in WorkerType
  BY <1>1 DEF NewWorker, WorkerType, WorkerPcs, InSubmission
<1>3. WorkerShape(NewWorker(accepting))
  BY <1>1 DEF NewWorker, WorkerShape, Ending
<1> QED  BY <1>2, <1>3 DEF WorkerOK

LEMMA NotifiedEvolves ==
  ASSUME NEW w, WorkerOK(w)
  PROVE  /\ Evolves(w, Notified(w))
         /\ Notified(w).queue = w.queue
         /\ Notified(w).pc \in InSubmission <=> w.pc \in InSubmission
         /\ Notified(w).pc = "submit" => w.pc = "submit"
<1>1. CASE w.pc \in {"wait", "backoff"}
  <2> DEFINE r == [w EXCEPT !.pc = "next"]
  <2>1. r \in WorkerType
    BY DEF WorkerOK, WorkerType, WorkerPcs
  <2>2. WorkerShape(r)
    BY <1>1 DEF WorkerOK, WorkerType, WorkerShape, Ending
  <2>3. Notified(w) = r /\ r.queue = w.queue /\ r.pc = "next"
        /\ r.accepting = w.accepting /\ r.finalizing = w.finalizing
    BY <1>1 DEF Notified, WorkerOK, WorkerType
  <2> HIDE DEF r
  <2> QED  BY <1>1, <2>1, <2>2, <2>3 DEF Evolves, WorkerOK, Done, InSubmission
<1>2. CASE ~(w.pc \in {"wait", "backoff"})
  BY <1>2, EvolvesRefl DEF Notified
<1> QED  BY <1>1, <1>2

LEMMA DiscardedEvolves ==
  ASSUME NEW w, WorkerOK(w)
  PROVE  /\ Evolves(w, Discarded(w))
         /\ Discarded(w).queue = <<>> /\ Discarded(w).queued = 0
         /\ Discarded(w).pc = w.pc
<1> DEFINE r == Discarded(w)
<1>1. /\ r.queue = <<>> /\ r.queued = 0 /\ r.pc = w.pc /\ r.hand = w.hand
      /\ r.accepting = w.accepting /\ r.finalizing = w.finalizing
      /\ r.submitted = w.submitted /\ r.delivered = w.delivered
      /\ r.dropped = w.dropped + w.queued
  BY DEF Discarded, WorkerOK, WorkerType
<1>2. r \in WorkerType
  <2>1. w.dropped + w.queued \in Nat /\ 0 \in 0 .. Capacity /\ <<>> \in Seq(1 .. Capacity)
    BY WorkerFields
  <2> QED  BY <2>1 DEF Discarded, WorkerOK, WorkerType
<1>3. WorkerShape(r)
  <2>1. \A a, b, c, d \in Nat : a + b + c + d = (a + b) + 0 + c + d
    OBVIOUS
  <2>2. w.submitted = (w.dropped + w.queued) + 0 + w.hand + w.delivered
    BY <2>1, WorkerFields DEF WorkerOK, WorkerShape
  <2>3. r.submitted = r.dropped + r.queued + r.hand + r.delivered
    BY <1>1, <2>2
  <2> HIDE DEF r
  <2> QED  BY <1>1, <2>3, SamplesEmpty DEF WorkerOK, WorkerShape
<1> HIDE DEF r
<1>4. Evolves(w, r)
  BY <1>1, <1>2, <1>3, WorkerFields DEF Evolves, WorkerOK, Done
<1> QED  BY <1>1, <1>4 DEF r

(* detach(stop=False) leaves a live worker that is not finalizing still.    *)
Still(w) == ~w.finalizing /\ w.queue = <<>> /\ ~w.accepting

LEMMA PausedOK ==
  ASSUME NEW w, WorkerOK(w), ~(w.finalizing /\ ~Done(w))
  PROVE  /\ WorkerOK(Paused(w))
         /\ Done(w) => Paused(w) = w
         /\ ~Done(w) => Still(Paused(w)) /\ ~Done(Paused(w))
         /\ Paused(w).pc = "submit" => w.pc = "submit"
<1>1. CASE Done(w) \/ w.finalizing
  BY <1>1, WorkerFields DEF Paused
<1>2. CASE ~Done(w) /\ ~w.finalizing
  <2> DEFINE r == [w EXCEPT !.accepting = FALSE]
  <2>1. WorkerOK(r) /\ ~r.accepting /\ ~r.finalizing /\ r.pc = w.pc
    BY <1>2 DEF WorkerOK, WorkerShape, WorkerType
  <2>2. Paused(w) = Notified(Discarded(r))
    BY <1>2, WorkerFields DEF Paused
  <2> HIDE DEF r
  <2>3. /\ WorkerOK(Discarded(r)) /\ ~Discarded(r).accepting /\ ~Discarded(r).finalizing
        /\ Discarded(r).queue = <<>> /\ Discarded(r).pc = w.pc
    BY <2>1, DiscardedEvolves DEF Evolves
  <2>4. /\ WorkerOK(Paused(w)) /\ ~Paused(w).accepting /\ ~Paused(w).finalizing
        /\ Paused(w).queue = <<>> /\ (Paused(w).pc = "submit" => w.pc = "submit")
    BY <2>2, <2>3, NotifiedEvolves DEF Evolves
  <2>5. ~Done(Paused(w))
    BY <2>4 DEF WorkerOK, WorkerShape, Ending, Done
  <2> QED  BY <1>2, <2>4, <2>5 DEF Still
<1> QED  BY <1>1, <1>2

LEMMA FinalizingOK ==
  ASSUME NEW w, WorkerOK(w)
  PROVE  /\ WorkerOK(Finalizing(w))
         /\ Done(w) => Finalizing(w) = w
         /\ ~Done(w) => Finalizing(w).finalizing /\ ~Finalizing(w).accepting
         /\ Finalizing(w).finalizing /\ ~Finalizing(w).accepting
         /\ w.queue = <<>> => Finalizing(w).queue = <<>>
         /\ Finalizing(w).pc = "submit" => w.pc = "submit"
<1>1. CASE Done(w)
  BY <1>1 DEF Finalizing, WorkerOK, WorkerShape, Ending, Done
<1>2. CASE ~Done(w)
  <2> DEFINE r == [w EXCEPT !.accepting = FALSE, !.finalizing = TRUE]
             q == IF Quarantined(w) THEN Discarded(r) ELSE r
  <2>1. WorkerOK(r) /\ ~r.accepting /\ r.finalizing /\ r.pc = w.pc /\ r.queue = w.queue
    BY DEF WorkerOK, WorkerShape, WorkerType
  <2>2. Finalizing(w) = Notified(q)
    BY <1>2 DEF Finalizing
  <2> HIDE DEF r
  <2>3. /\ WorkerOK(q) /\ ~q.accepting /\ q.finalizing
        /\ (w.queue = <<>> => q.queue = <<>>) /\ q.pc = w.pc
    BY <2>1, DiscardedEvolves DEF Evolves
  <2> HIDE DEF q
  <2> QED  BY <1>2, <2>2, <2>3, NotifiedEvolves DEF Evolves
<1> QED  BY <1>1, <1>2

LEMMA OfferedEvolves ==
  ASSUME NEW w, WorkerOK(w), NEW size \in Nat \ {0}
  PROVE  /\ Evolves(w, Offered(w, size))
         /\ w.pc \in {"wait", "backoff"} \/ Offered(w, size).pc = w.pc
<1> DEFINE counted == [w EXCEPT !.submitted = @ + size]
<1>0. \A a, b, c, d, e \in Nat : (a + b + c + d) + e = (a + e) + b + c + d
  OBVIOUS
<1>1. CASE ~w.accepting \/ w.finalizing \/ Done(w)
  <2> DEFINE r == [w EXCEPT !.submitted = w.submitted + size, !.dropped = w.dropped + size]
  <2>1. Offered(w, size) = r
    BY <1>1 DEF Offered, WorkerOK, WorkerType
  <2>2. /\ r.pc = w.pc /\ r.accepting = w.accepting /\ r.finalizing = w.finalizing
        /\ r.queue = w.queue /\ r.queued = w.queued /\ r.hand = w.hand
        /\ r.submitted = w.submitted + size /\ r.dropped = w.dropped + size
        /\ r.delivered = w.delivered
    BY DEF WorkerOK, WorkerType
  <2>3. r \in WorkerType
    <3>1. w.submitted + size \in Nat /\ w.dropped + size \in Nat
      BY WorkerFields
    <3> QED  BY <3>1 DEF WorkerOK, WorkerType
  <2>4. r.submitted = r.dropped + r.queued + r.hand + r.delivered
    <3>1. w.submitted = w.dropped + w.queued + w.hand + w.delivered
      BY DEF WorkerOK, WorkerShape
    <3>2. w.submitted + size = (w.dropped + size) + w.queued + w.hand + w.delivered
      BY <3>1, <1>0, WorkerFields
    <3> QED  BY <2>2, <3>2
  <2> HIDE DEF r
  <2> QED  BY <2>1, <2>2, <2>3, <2>4, WorkerFields
           DEF Evolves, WorkerOK, WorkerShape, Done
<1>2. CASE ~(~w.accepting \/ w.finalizing \/ Done(w))
  <2> DEFINE before == IF Quarantined(w) THEN Discarded(counted) ELSE counted
             total == before.queued + size
             kept == IF total > Capacity THEN Capacity ELSE total
             queue == Newest(Append(before.queue, size))
             r == [before EXCEPT !.queue = queue, !.queued = kept,
                                 !.dropped = before.dropped + (total - kept)]
  <2>1. Offered(w, size) = Notified(r)
    <3>1. counted.queue = w.queue /\ counted \in WorkerType
      <4>1. w.submitted + size \in Nat
        BY WorkerFields
      <4> QED  BY <4>1 DEF WorkerOK, WorkerType
    <3> QED  BY <1>2 DEF Offered
  <2>2. /\ before \in WorkerType /\ before.pc = w.pc /\ before.accepting = w.accepting
        /\ before.finalizing = w.finalizing /\ before.hand = w.hand
        /\ before.submitted = w.submitted + size /\ before.delivered = w.delivered
        /\ before.queue \in Seq(1 .. Capacity) /\ before.queued = Samples(before.queue)
        /\ before.queued \in Nat /\ before.dropped \in Nat
        /\ before.dropped + before.queued = w.dropped + w.queued
    <3>1. /\ w.submitted + size \in Nat /\ w.dropped + w.queued \in Nat
          /\ 0 \in 0 .. Capacity /\ <<>> \in Seq(1 .. Capacity)
          /\ (w.dropped + w.queued) + 0 = w.dropped + w.queued
      BY WorkerFields
    <3>2. CASE Quarantined(w)
      <4>1. before = [w EXCEPT !.submitted = w.submitted + size,
                               !.dropped = w.dropped + w.queued, !.queue = <<>>,
                               !.queued = 0]
        BY <3>2 DEF Discarded, WorkerOK, WorkerType
      <4> HIDE DEF before
      <4> QED  BY <3>1, <4>1, SamplesEmpty DEF WorkerOK, WorkerType
    <3>3. CASE ~Quarantined(w)
      <4>1. before = [w EXCEPT !.submitted = w.submitted + size]
        BY <3>3 DEF WorkerOK, WorkerType
      <4> HIDE DEF before
      <4> QED  BY <3>1, <4>1, WorkerFields DEF WorkerOK, WorkerType, WorkerShape
    <3> QED  BY <3>2, <3>3
  <2> HIDE DEF before
  <2>3. queue \in Seq(1 .. Capacity) /\ Samples(queue) = kept /\ kept \in 0 .. Capacity
    <3>1. before.queue \in Seq(Nat \ {0}) /\ before.queue \in Seq(Nat)
      <4>1. \A i \in 1 .. Len(before.queue) :
              before.queue[i] \in Nat \ {0} /\ before.queue[i] \in Nat
        BY <2>2, CapacityAssumption
      <4>2. /\ \A i \in 1 .. Len(before.queue) : before.queue[i] \in Nat \ {0}
            /\ \A i \in 1 .. Len(before.queue) : before.queue[i] \in Nat
            /\ before.queue \in Seq(1 .. Capacity)
        BY <4>1, <2>2
      <4>3. before.queue \in Seq(Nat \ {0})
        BY <4>2, SeqNarrows
      <4>4. before.queue \in Seq(Nat)
        BY <4>2, SeqNarrows
      <4> QED  BY <4>3, <4>4
    <3>2. Append(before.queue, size) \in Seq(Nat \ {0})
      BY <3>1
    <3>3. Samples(Append(before.queue, size)) = total
      BY <2>2, <3>1, SamplesAppend
    <3>4. /\ queue \in Seq(1 .. Capacity) /\ Samples(queue) \in 0 .. Capacity
          /\ Samples(queue) = IF total > Capacity THEN Capacity ELSE total
      BY <3>2, <3>3, NewestFits
    <3> QED  BY <3>4
  <2>4. kept \in Nat /\ total \in Nat /\ kept <= total /\ total - kept \in Nat
        /\ before.dropped + (total - kept) \in Nat
    <3>1. Capacity \in Nat /\ total \in Nat
      BY <2>2, CapacityAssumption
    <3>2. kept \in Nat /\ kept <= total
      <4> HIDE DEF total
      <4> QED  BY <3>1
    <3>3. total - kept \in Nat
      <4> HIDE DEF total, kept
      <4> QED  BY <3>1, <3>2
    <3> HIDE DEF total, kept
    <3> QED  BY <2>2, <3>1, <3>2, <3>3
  <2> HIDE DEF queue, kept
  <2>5. r \in WorkerType
    BY <2>2, <2>3, <2>4 DEF WorkerType
  <2>6. /\ r.pc = w.pc /\ r.accepting = w.accepting /\ r.finalizing = w.finalizing
        /\ r.queue = queue /\ r.queued = kept /\ r.hand = w.hand
        /\ r.submitted = w.submitted + size
        /\ r.dropped = before.dropped + (total - kept) /\ r.delivered = w.delivered
    BY <2>2 DEF WorkerType
  <2>7. r.submitted = r.dropped + r.queued + r.hand + r.delivered
    <3>1. \A a, b, c, d, e, g \in Nat :
            a <= c + b /\ d + c = e + g =>
              (e + g) + b = (d + ((c + b) - a)) + a
      OBVIOUS
    <3>2. (w.dropped + w.queued) + size = (before.dropped + (total - kept)) + kept
      <4>1. /\ kept <= before.queued + size /\ kept \in Nat /\ size \in Nat
            /\ before.queued \in Nat /\ before.dropped \in Nat
            /\ w.dropped \in Nat /\ w.queued \in Nat
            /\ before.dropped + before.queued = w.dropped + w.queued
        BY <2>2, <2>4, WorkerFields
      <4> QED  BY ONLY <3>1, <4>1
    <3>3. \A a, b, c, d, e, f, g, h \in Nat :
            a = b + c + d + e /\ (b + c) + f = g + h => a + f = g + h + d + e
      OBVIOUS
    <3>4. w.submitted = w.dropped + w.queued + w.hand + w.delivered
      BY DEF WorkerOK, WorkerShape
    <3> DEFINE more == before.dropped + (total - kept)
    <3>5. more \in Nat /\ kept \in Nat /\ size \in Nat
          /\ (w.dropped + w.queued) + size = more + kept
      BY <2>4, <3>2
    <3> HIDE DEF more
    <3>6. w.submitted + size = more + kept + w.hand + w.delivered
      <4>1. /\ w.submitted \in Nat /\ w.dropped \in Nat /\ w.queued \in Nat
            /\ w.hand \in Nat /\ w.delivered \in Nat
        BY WorkerFields
      <4> QED  BY ONLY <3>3, <3>4, <3>5, <4>1
    <3> QED  BY <2>6, <3>6 DEF more
  <2> HIDE DEF r, total
  <2>8. WorkerOK(r)
    BY <1>2, <2>3, <2>5, <2>6, <2>7, WorkerFields
       DEF WorkerOK, WorkerShape, Ending, Done
  <2>9. Evolves(w, r)
    BY <1>2, <2>6, <2>8 DEF Evolves
  <2>10. r.pc \in {"wait", "backoff"} \/ Notified(r) = r
    BY DEF Notified
  <2> QED  BY <2>1, <2>6, <2>8, <2>9, <2>10, NotifiedEvolves, EvolvesTrans
<1> QED  BY <1>1, <1>2

---------------------------------------------------------------------------
(* The steps of a worker. *)

WorkersTyped == worker \in [Sinks -> WorkerType \union {None}]

LEMMA Replaced ==
  ASSUME WorkersTyped, NEW s \in Sinks, NEW w, SetWorker(s, w)
  PROVE  worker'[s] = w /\ \A r \in Sinks \ {s} : worker'[r] = worker[r]
BY DEF WorkersTyped, SetWorker

LEMMA NextDataEvolves ==
  ASSUME WorkersTyped, NEW s \in Sinks, NextData(s), WorkerOK(worker[s])
  PROVE  Evolves(worker[s], worker'[s])
<1> DEFINE w == worker[s]
<1>1. w.pc = "next" /\ ~Done(w)
  BY DEF NextData, WorkerAt, Done
<1>2. CASE w.finalizing /\ Quarantined(w)
  <2> DEFINE d == Discarded(w)
             r == [d EXCEPT !.pc = "stop"]
  <2>1. worker'[s] = r
    BY <1>2, Replaced DEF NextData
  <2>2. /\ WorkerOK(d) /\ d.accepting = w.accepting /\ d.finalizing = w.finalizing
        /\ d.queue = <<>> /\ d.pc = "next"
    BY <1>1, DiscardedEvolves DEF Evolves
  <2> HIDE DEF d
  <2>3. /\ WorkerOK(r) /\ r.pc = "stop" /\ r.accepting = w.accepting
        /\ r.finalizing = w.finalizing /\ r.queue = <<>>
    BY <1>2, <2>2 DEF WorkerOK, WorkerShape, WorkerType, WorkerPcs, Ending
  <2> HIDE DEF w, r
  <2> QED  BY <1>1, <2>1, <2>3 DEF Evolves, InSubmission, w
<1>3. CASE ~(w.finalizing /\ Quarantined(w)) /\ w.queue # <<>> /\ ~Exhausted(w) /\ w.deadline
  <2> DEFINE r == [w EXCEPT !.pc = "backoff"]
  <2>1. worker'[s] = r
    BY <1>3, Replaced DEF NextData
  <2>2. /\ WorkerOK(r) /\ r.accepting = w.accepting /\ r.finalizing = w.finalizing
    BY <1>1 DEF WorkerOK, WorkerShape, WorkerType, WorkerPcs, Ending
  <2> HIDE DEF r
  <2> QED  BY <1>1, <1>3, <2>1, <2>2 DEF Evolves
<1>4. CASE ~(w.finalizing /\ Quarantined(w)) /\ w.queue # <<>> /\ ~Exhausted(w) /\ ~w.deadline
  <2> DEFINE r == [w EXCEPT !.pc = "submit", !.hand = Head(w.queue),
                            !.queue = Tail(w.queue),
                            !.queued = w.queued - Head(w.queue)]
  <2>1. worker'[s] = r
    <3>1. worker'[s] = [w EXCEPT !.pc = "submit", !.hand = Head(w.queue),
                                 !.queue = Tail(w.queue), !.queued = @ - Head(w.queue)]
      BY <1>4, Replaced DEF NextData
    <3> QED  BY <3>1 DEF WorkerOK, WorkerType
  <2>2. /\ Head(w.queue) \in 1 .. Capacity /\ Tail(w.queue) \in Seq(1 .. Capacity)
        /\ Head(w.queue) \in Nat /\ Head(w.queue) \in 0 .. Capacity
    <3>1. w.queue \in Seq(1 .. Capacity) /\ w.queue # <<>> /\ Capacity \in Nat
      BY <1>4, WorkerFields
    <3> DEFINE q == w.queue
    <3> HIDE DEF q
    <3>2. q \in Seq(1 .. Capacity) /\ q # <<>>
      BY <3>1 DEF q
    <3>3. Head(q) \in 1 .. Capacity /\ Tail(q) \in Seq(1 .. Capacity)
      BY <3>2, HeadTailProperties
    <3>4. Head(q) \in Nat /\ Head(q) \in 0 .. Capacity
      BY <3>1, <3>3
    <3> QED  BY <3>3, <3>4 DEF q
  <2>3. /\ w.queued = Samples(w.queue) /\ Head(w.queue) <= w.queued
        /\ Samples(Tail(w.queue)) = w.queued - Head(w.queue)
    BY <1>4, WorkerFields, SamplesTail DEF WorkerOK, WorkerShape
  <2>4. w.queued - Head(w.queue) \in 0 .. Capacity
    <3>1. \A a, b, c \in Nat : a <= b /\ b <= c => b - a \in 0 .. c
      OBVIOUS
    <3>2. w.queued <= Capacity
      BY WorkerFields
    <3> QED  BY <2>2, <2>3, <3>1, <3>2, WorkerFields
  <2>5. r \in WorkerType
    BY <2>2, <2>4 DEF WorkerOK, WorkerType, WorkerPcs, InSubmission
  <2>6. /\ r.pc = "submit" /\ r.accepting = w.accepting /\ r.finalizing = w.finalizing
        /\ r.queue = Tail(w.queue) /\ r.queued = w.queued - Head(w.queue)
        /\ r.hand = Head(w.queue) /\ r.submitted = w.submitted
        /\ r.dropped = w.dropped /\ r.delivered = w.delivered
    BY DEF WorkerOK, WorkerType
  <2>7. w.hand = 0
    BY <1>1 DEF WorkerOK, WorkerShape
  <2>8. r.submitted = r.dropped + r.queued + r.hand + r.delivered
    <3>1. \A a, b, c, d \in Nat : d <= b => a + b + 0 + c = a + (b - d) + d + c
      OBVIOUS
    <3>2. w.submitted = w.dropped + w.queued + 0 + w.delivered
      BY <2>7 DEF WorkerOK, WorkerShape
    <3>3. w.submitted = w.dropped + (w.queued - Head(w.queue)) + Head(w.queue) + w.delivered
      BY <2>2, <2>3, <3>1, <3>2, WorkerFields
    <3> QED  BY <2>6, <3>3
  <2> HIDE DEF r
  <2>9. WorkerOK(r)
    BY <2>3, <2>5, <2>6, <2>8 DEF WorkerOK, WorkerShape, Ending
  <2> HIDE DEF w
  <2> QED  BY <1>1, <1>4, <2>1, <2>6, <2>9 DEF Evolves, w
<1>5. CASE ~(w.finalizing /\ Quarantined(w)) /\ ~(w.queue # <<>> /\ ~Exhausted(w))
  <2>1. PICK pc \in {"stop", "wait"} :
          worker'[s] = [w EXCEPT !.pc = pc] /\ (pc = "stop" => w.finalizing)
    <3>1. CASE w.finalizing
      BY <1>5, <3>1, Replaced DEF NextData
    <3>2. CASE ~w.finalizing
      BY <1>5, <3>2, Replaced DEF NextData
    <3> QED  BY <3>1, <3>2
  <2> DEFINE r == [w EXCEPT !.pc = pc]
  <2>2. pc = "stop" => w.queue = <<>>
    <3>1. MaxAttempts \in Nat /\ w.attempt \in 0 .. MaxAttempts + 1
      BY WorkerFields
    <3>2. Exhausted(w) => Quarantined(w)
      BY <3>1 DEF Exhausted, Quarantined
    <3> QED  BY <1>5, <2>1, <3>2
  <2>3. /\ WorkerOK(r) /\ r.accepting = w.accepting /\ r.finalizing = w.finalizing
        /\ r.queue = w.queue /\ r.pc = pc
    BY <1>1, <2>1, <2>2 DEF WorkerOK, WorkerShape, WorkerType, WorkerPcs, Ending
  <2>4. worker'[s] = r
    BY <2>1
  <2> HIDE DEF r
  <2> QED  BY <1>1, <2>3, <2>4 DEF Evolves, InSubmission
<1> QED  BY <1>2, <1>3, <1>4, <1>5

LEMMA DeadlineEvolves ==
  ASSUME WorkersTyped, NEW s \in Sinks, DeadlinePasses(s), WorkerOK(worker[s])
  PROVE  Evolves(worker[s], worker'[s])
<1> DEFINE w == worker[s]
<1>1. PICK pc : /\ worker'[s] = [w EXCEPT !.deadline = FALSE, !.pc = pc]
                /\ pc = w.pc \/ (w.pc = "backoff" /\ pc = "next")
  <2>1. worker'[s] = [w EXCEPT !.deadline = FALSE,
                               !.pc = IF w.pc = "backoff" THEN "next" ELSE w.pc]
    <3>1. worker'[s] = [w EXCEPT !.deadline = FALSE,
                                 !.pc = IF @ = "backoff" THEN "next" ELSE @]
      BY Replaced DEF DeadlinePasses
    <3> QED  BY <3>1 DEF WorkerOK, WorkerType
  <2> QED  BY <2>1
<1> DEFINE r == [w EXCEPT !.deadline = FALSE, !.pc = pc]
<1>2. /\ WorkerOK(r) /\ r.accepting = w.accepting /\ r.finalizing = w.finalizing
      /\ r.queue = w.queue /\ r.pc = pc
  BY <1>1 DEF WorkerOK, WorkerShape, WorkerType, WorkerPcs, Ending
<1>3. worker'[s] = r /\ ~Done(w)
  BY <1>1 DEF DeadlinePasses
<1> HIDE DEF r
<1> QED  BY <1>1, <1>2, <1>3 DEF Evolves, InSubmission

LEMMA SubmittedEvolves ==
  ASSUME WorkersTyped, NEW s \in Sinks, Submitted(s), WorkerOK(worker[s])
  PROVE  Evolves(worker[s], worker'[s])
<1> DEFINE w == worker[s]
           r == [w EXCEPT !.pc = "delivered", !.delivered = w.delivered + w.hand,
                          !.hand = 0, !.attempt = 0, !.deadline = FALSE]
<1>1. worker'[s] = r /\ w.pc = "submit"
  <2>1. worker'[s] = [w EXCEPT !.pc = "delivered", !.delivered = @ + w.hand,
                               !.hand = 0, !.attempt = 0, !.deadline = FALSE]
    BY Replaced DEF Submitted
  <2> QED  BY <2>1 DEF WorkerOK, WorkerType, Submitted, WorkerAt
<1>2. /\ r.pc = "delivered" /\ r.accepting = w.accepting /\ r.finalizing = w.finalizing
      /\ r.queue = w.queue /\ r.queued = w.queued /\ r.hand = 0
      /\ r.submitted = w.submitted /\ r.dropped = w.dropped
      /\ r.delivered = w.delivered + w.hand
  BY DEF WorkerOK, WorkerType
<1>3. r \in WorkerType
  <2>1. w.delivered + w.hand \in Nat /\ 0 \in 0 .. Capacity /\ 0 \in 0 .. MaxAttempts + 1
    BY WorkerFields
  <2> QED  BY <2>1 DEF WorkerOK, WorkerType, WorkerPcs, InSubmission
<1>4. r.submitted = r.dropped + r.queued + r.hand + r.delivered
  <2>1. \A a, b, c, d \in Nat : a + b + c + d = a + b + 0 + (d + c)
    OBVIOUS
  <2>2. w.submitted = w.dropped + w.queued + w.hand + w.delivered
    BY DEF WorkerOK, WorkerShape
  <2>3. w.dropped \in Nat /\ w.queued \in Nat /\ w.hand \in Nat /\ w.delivered \in Nat
    BY WorkerFields
  <2>4. w.submitted = w.dropped + w.queued + 0 + (w.delivered + w.hand)
    BY ONLY <2>1, <2>2, <2>3
  <2> QED  BY <1>2, <2>4
<1> HIDE DEF r
<1>5. WorkerOK(r)
  BY <1>2, <1>3, <1>4 DEF WorkerOK, WorkerShape, Ending
<1> HIDE DEF w
<1> QED  BY <1>1, <1>2, <1>5 DEF Evolves, Done, InSubmission, w

LEMMA SubmitFailsEvolves ==
  ASSUME WorkersTyped, NEW s \in Sinks, SubmitFails(s), WorkerOK(worker[s])
  PROVE  Evolves(worker[s], worker'[s])
<1> DEFINE w == worker[s]
           d == Discarded(w)
           attempt == IF Exhausted(w) THEN w.attempt ELSE w.attempt + 1
           r == [d EXCEPT !.pc = "refused", !.hand = 0, !.dropped = d.dropped + w.hand,
                          !.attempt = attempt, !.deadline = attempt <= MaxAttempts]
<1>1. /\ WorkerOK(d) /\ d.accepting = w.accepting /\ d.finalizing = w.finalizing
      /\ d.queue = <<>> /\ d.queued = 0 /\ d.hand = w.hand
  BY DiscardedEvolves DEF Evolves, Discarded, WorkerOK, WorkerType
<1>2. worker'[s] = r /\ w.pc = "submit"
  <2>1. worker'[s] = [d EXCEPT !.pc = "refused", !.hand = 0, !.dropped = @ + w.hand,
                               !.attempt = attempt, !.deadline = attempt <= MaxAttempts]
    BY Replaced DEF SubmitFails
  <2>2. w.pc = "submit"
    BY DEF SubmitFails, WorkerAt
  <2> HIDE DEF d, attempt
  <2> QED  BY <1>1, <2>1, <2>2 DEF WorkerOK, WorkerType
<1>3. attempt \in 0 .. MaxAttempts + 1
  <2>1. MaxAttempts \in Nat /\ w.attempt \in 0 .. MaxAttempts + 1
    BY WorkerFields
  <2> QED  BY <2>1 DEF Exhausted
<1> HIDE DEF d, attempt
<1>4. /\ r.pc = "refused" /\ r.accepting = w.accepting /\ r.finalizing = w.finalizing
      /\ r.queue = <<>> /\ r.queued = 0 /\ r.hand = 0
      /\ r.submitted = d.submitted /\ r.dropped = d.dropped + w.hand
      /\ r.delivered = d.delivered
  BY <1>1 DEF WorkerOK, WorkerType
<1>5. r \in WorkerType
  <2>1. /\ d.dropped + w.hand \in Nat /\ 0 \in 0 .. Capacity
        /\ (attempt <= MaxAttempts) \in BOOLEAN
    <3>1. d.dropped \in Nat /\ w.hand \in Nat /\ Capacity \in Nat
      BY <1>1, WorkerFields
    <3> QED  BY <3>1
  <2> QED  BY <1>1, <1>3, <2>1 DEF WorkerOK, WorkerType, WorkerPcs, InSubmission
<1>6. r.submitted = r.dropped + r.queued + r.hand + r.delivered
  <2>1. \A a, b, c \in Nat : a + 0 + b + c = (a + b) + 0 + 0 + c
    OBVIOUS
  <2>2. d.submitted = d.dropped + 0 + w.hand + d.delivered
    BY <1>1 DEF WorkerOK, WorkerShape
  <2>3. d.dropped \in Nat /\ w.hand \in Nat /\ d.delivered \in Nat
    BY <1>1, WorkerFields
  <2>4. d.submitted = (d.dropped + w.hand) + 0 + 0 + d.delivered
    BY <2>1, <2>2, <2>3
  <2> QED  BY <1>4, <2>4
<1> HIDE DEF r
<1>7. WorkerOK(r)
  BY <1>4, <1>5, <1>6, SamplesEmpty, <1>1 DEF WorkerOK, WorkerShape, Ending
<1> HIDE DEF w
<1> QED  BY <1>2, <1>4, <1>7 DEF Evolves, Done, InSubmission, w

(* The steps that only move a worker on.                                    *)
LEMMA MovesOn ==
  ASSUME NEW w, WorkerOK(w), NEW pc \in WorkerPcs, w.pc # "submit", pc # "submit",
         pc \in InSubmission => w.pc \in InSubmission,
         pc \in Ending <=> w.pc \in Ending,
         Done(w) => pc \in {"last", "lasting", "ended"}
  PROVE  Evolves(w, [w EXCEPT !.pc = pc])
<1> DEFINE r == [w EXCEPT !.pc = pc]
<1>1. /\ r \in WorkerType /\ r.pc = pc /\ r.accepting = w.accepting
      /\ r.finalizing = w.finalizing /\ r.queue = w.queue /\ r.queued = w.queued
      /\ r.hand = w.hand /\ r.submitted = w.submitted /\ r.dropped = w.dropped
      /\ r.delivered = w.delivered
  BY DEF WorkerOK, WorkerType
<1> HIDE DEF r
<1>2. WorkerOK(r)
  BY <1>1 DEF WorkerOK, WorkerShape
<1>3. Evolves(w, r)
  BY <1>1, <1>2, NoneAssumption DEF Evolves, Done
<1> QED  BY <1>3 DEF r

---------------------------------------------------------------------------
(* The inductive invariant. *)

Shaped == \A s \in Sinks : worker[s] # None => WorkerShape(worker[s])

(* What an operation in progress has to go by. *)
CallShape ==
  /\ call.at = "idle" => call = Idle
  /\ call.at \in {"sink_start", "cleanup"} => call.sink \in Sinks /\ worker[call.sink] = None
  /\ call.at \in {"subscribers", "sink_start", "cleanup"} =>
       running /\ \A s \in call.todo : attached[s]
  /\ call.at = "sink_start" => attached[call.sink] /\ call.sink \notin call.todo
  /\ call.at \in {"wait_idle", "restore"} =>
       /\ call.sink \in Sinks /\ worker[call.sink] # None /\ ~attached[call.sink]
       /\ Done(worker[call.sink]) \/ Still(worker[call.sink])
  /\ call.at = "restore" => ~Done(worker[call.sink])
  /\ call.at \in {"request", "late"} =>
       \A s \in call.todo \union call.waits : worker[s] # None /\ ~attached[s]
  /\ call.at = "late" => call.sink \in Sinks /\ worker[call.sink] # None

(* A worker of a sink that is not up has nothing to deliver and gets        *)
(* nothing, and finalizes or is about to be told to. *)
UpShape ==
  \A s \in Sinks : worker[s] # None /\ s \notin up =>
     /\ worker[s].queue = <<>> /\ ~worker[s].accepting /\ worker[s].pc # "submit"
     /\ worker[s].finalizing \/ (call.at = "request" /\ s \in call.todo)

AttachShape ==
  \A s \in Sinks : attached[s] /\ worker[s] # None =>
     Done(worker[s]) \/ ~worker[s].finalizing

ServedShape ==
  /\ \A s \in routing : attached[s]
  /\ \A s \in Sinks : running /\ attached[s] =>
       \/ call.at \in {"subscribers", "sink_start", "cleanup"} /\ s \in call.todo
       \/ call.at = "sink_start" /\ s = call.sink
       \/ s \in routing /\ Live(worker[s]) /\ worker[s].accepting /\ ~worker[s].finalizing

IInv ==
  /\ TypeOK /\ Shaped /\ CallShape /\ UpShape /\ AttachShape /\ ServedShape
  /\ DetachedIsQuiet /\ TransitionsCarried

LEMMA InvWorkers ==
  ASSUME IInv
  PROVE  /\ WorkersTyped
         /\ \A s \in Sinks : worker[s] # None => WorkerOK(worker[s])
BY DEF IInv, TypeOK, Shaped, WorkersTyped, WorkerOK

LEMMA EndingFinalizes ==
  ASSUME NEW w, WorkerOK(w)
  PROVE  Done(w) => w.finalizing /\ w.queue = <<>> /\ ~w.accepting
BY DEF WorkerOK, WorkerShape, Ending, Done

(* Steps that only let workers evolve. *)
LEMMA WorkersEvolve ==
  ASSUME IInv, UNCHANGED <<running, routing, attached, call>>,
         worker' \in [Sinks -> WorkerType \union {None}],
         \A s \in Sinks : worker[s] = None => worker'[s] = None,
         \A s \in Sinks : worker[s] # None => Evolves(worker[s], worker'[s])
  PROVE  /\ Shaped' /\ CallShape' /\ AttachShape' /\ ServedShape' /\ DetachedIsQuiet'
         /\ UNCHANGED up => UpShape'
<1>1. /\ Shaped /\ CallShape /\ UpShape /\ AttachShape /\ ServedShape
      /\ DetachedIsQuiet
  BY DEF IInv
<1>2. \A s \in Sinks : worker'[s] = None <=> worker[s] = None
  BY WorkerFields DEF Evolves
<1>3. \A s \in Sinks : worker[s] # None => WorkerOK(worker[s]) /\ WorkerOK(worker'[s])
  BY InvWorkers DEF Evolves
<1>4. \A s \in Sinks : worker[s] # None =>
        (Done(worker[s]) => Done(worker'[s]))
  BY DEF Evolves
<1>5. \A s \in Sinks : worker[s] # None /\ ~worker[s].finalizing => ~Done(worker'[s])
  BY <1>3, EndingFinalizes DEF Evolves
<1>6. Shaped'
  BY <1>2, <1>3 DEF Shaped, WorkerOK
<1>7. CallShape'
  <2>1. ASSUME NEW s \in Sinks, worker[s] # None, Done(worker[s]) \/ Still(worker[s])
        PROVE  Done(worker'[s]) \/ Still(worker'[s])
    BY <2>1 DEF Evolves, Still
  <2>2. ASSUME NEW s \in Sinks, worker[s] # None, ~Done(worker[s]), Still(worker[s])
        PROVE  ~Done(worker'[s])
    BY <1>5, <2>2 DEF Still
  <2>3. call.todo \subseteq Sinks /\ call.waits \subseteq Sinks
    BY DEF IInv, TypeOK
  <2>4. /\ call'.at = call.at /\ call'.sink = call.sink /\ call'.todo = call.todo
        /\ call'.waits = call.waits /\ running' = running /\ attached' = attached
        /\ call' = call
    OBVIOUS
  <2> USE <1>1, <2>3, <2>4 DEF CallShape
  <2>5. (call.at = "idle" => call = Idle)'
    BY DEF Idle
  <2>6. (call.at \in {"sink_start", "cleanup"} =>
           call.sink \in Sinks /\ worker[call.sink] = None)'
    BY <1>2
  <2>7. (call.at \in {"subscribers", "sink_start", "cleanup"} =>
           running /\ \A s \in call.todo : attached[s])'
    OBVIOUS
  <2>8. (call.at = "sink_start" => attached[call.sink] /\ call.sink \notin call.todo)'
    OBVIOUS
  <2>9. (call.at \in {"wait_idle", "restore"} =>
           /\ call.sink \in Sinks /\ worker[call.sink] # None /\ ~attached[call.sink]
           /\ Done(worker[call.sink]) \/ Still(worker[call.sink]))'
    BY <1>2, <2>1
  <2>10. (call.at = "restore" => ~Done(worker[call.sink]))'
    BY <1>2, <2>2
  <2>11. (call.at \in {"request", "late"} =>
            \A s \in call.todo \union call.waits : worker[s] # None /\ ~attached[s])'
    BY <1>2
  <2>12. (call.at = "late" => call.sink \in Sinks /\ worker[call.sink] # None)'
    BY <1>2
  <2> QED  BY <2>5, <2>6, <2>7, <2>8, <2>9, <2>10, <2>11, <2>12
<1>8. UNCHANGED up => UpShape'
  BY <1>1, <1>2 DEF UpShape, Evolves
<1>9. AttachShape'
  BY <1>1, <1>2, <1>4 DEF AttachShape, Evolves
<1>10. ServedShape'
  BY <1>1, <1>2, <1>5 DEF ServedShape, Evolves, Live
<1>11. DetachedIsQuiet'
  BY <1>1, <1>2, <1>4 DEF DetachedIsQuiet, Evolves, Live
<1> QED  BY <1>6, <1>7, <1>8, <1>9, <1>10, <1>11

Carriers == {"finish", "notify", "finalized", "last"}

LEMMA TransitionTyped ==
  ASSUME IInv, NEW S, NEW to \in States, Transition(S, to)
  PROVE  state' \in [Sinks -> States] /\ pending' \in BOOLEAN
BY DEF IInv, TypeOK, Transition

(* A step of one worker. *)
LEMMA OneEvolves ==
  ASSUME IInv, UNCHANGED <<running, routing, attached, call, offers, calls>>,
         NEW s \in Sinks, NEW w, SetWorker(s, w), worker[s] # None,
         Evolves(worker[s], w),
         \/ UNCHANGED up
         \/ /\ up' = up \ {s}
            /\ w.queue = <<>> /\ ~w.accepting /\ w.finalizing /\ w.pc # "submit",
         state' \in [Sinks -> States], pending' \in BOOLEAN,
         emitter' \in Sinks \union {None, Caller},
         pending' => pending \/ w.pc \in Carriers,
         worker[s].pc \in Carriers => w.pc \in Carriers \/ emitter' # None,
         emitter # None => emitter' # None
  PROVE  IInv'
<1>1. /\ worker'[s] = w /\ \A r \in Sinks \ {s} : worker'[r] = worker[r]
      /\ w \in WorkerType /\ w # None
  BY InvWorkers, Replaced, NoneAssumption DEF Evolves, WorkerOK
<1>2. worker' \in [Sinks -> WorkerType \union {None}]
  BY <1>1, InvWorkers DEF SetWorker, WorkersTyped
<1>3. \A r \in Sinks : worker[r] = None => worker'[r] = None
  BY <1>1
<1>4. \A r \in Sinks : worker[r] # None => Evolves(worker[r], worker'[r])
  BY <1>1, InvWorkers, EvolvesRefl
<1>5. /\ Shaped' /\ CallShape' /\ AttachShape' /\ ServedShape' /\ DetachedIsQuiet'
      /\ UNCHANGED up => UpShape'
  BY <1>2, <1>3, <1>4, WorkersEvolve
<1>8. UpShape'
  <2>1. CASE UNCHANGED up
    BY <1>5, <2>1
  <2>2. CASE /\ up' = up \ {s}
             /\ w.queue = <<>> /\ ~w.accepting /\ w.finalizing /\ w.pc # "submit"
    BY <1>1, <2>2 DEF IInv, UpShape
  <2> QED  BY <2>1, <2>2
<1>6. TypeOK'
  BY <1>2 DEF IInv, TypeOK
<1>7. TransitionsCarried'
  <2>1. ASSUME pending', emitter' = None, call'.at = "idle"
        PROVE  \E r \in Sinks : worker'[r] # None /\ worker'[r].pc \in Carriers
    <3>1. CASE w.pc \in Carriers
      BY <1>1, <3>1
    <3>2. CASE ~(w.pc \in Carriers)
      <4>1. \E r \in Sinks : worker[r] # None /\ worker[r].pc \in Carriers
        BY <2>1, <3>2 DEF IInv, TransitionsCarried, WorkerAt, Carriers
      <4>2. PICK r \in Sinks : worker[r] # None /\ worker[r].pc \in Carriers
        BY <4>1
      <4>3. r # s
        BY <2>1, <3>2, <4>2
      <4> QED  BY <1>1, <4>2, <4>3
    <3> QED  BY <3>1, <3>2
  <2> QED  BY <2>1 DEF TransitionsCarried, WorkerAt, Carriers
<1> QED  BY <1>5, <1>6, <1>7, <1>8 DEF IInv

LEMMA NextDataInv ==
  ASSUME IInv, NEW s \in Sinks, NextData(s)
  PROVE  IInv'
<1>1. /\ WorkersTyped /\ worker[s] # None /\ worker[s].pc = "next" /\ WorkerOK(worker[s])
  BY InvWorkers DEF NextData, WorkerAt
<1>2. PICK w : SetWorker(s, w)
  BY DEF NextData
<1>3. Evolves(worker[s], w)
  BY <1>1, <1>2, NextDataEvolves, Replaced
<1>4. /\ state' \in [Sinks -> States] /\ pending' \in BOOLEAN /\ pending' = pending
      /\ emitter' \in Sinks \union {None, Caller} /\ emitter' = emitter
  BY DEF NextData, IInv, TypeOK
<1>5. UNCHANGED <<running, routing, attached, up, call, offers, calls>>
  BY DEF NextData
<1>6. ~(worker[s].pc \in Carriers)
  BY <1>1 DEF Carriers
<1> QED  BY <1>1, <1>2, <1>3, <1>4, <1>5, <1>6, OneEvolves

LEMMA DeadlinePassesInv ==
  ASSUME IInv, NEW s \in Sinks, DeadlinePasses(s)
  PROVE  IInv'
<1>1. /\ WorkersTyped /\ worker[s] # None /\ WorkerOK(worker[s])
  BY InvWorkers DEF DeadlinePasses
<1>2. PICK w : SetWorker(s, w) /\ w = [worker[s] EXCEPT
                  !.deadline = FALSE, !.pc = IF @ = "backoff" THEN "next" ELSE @]
  BY DEF DeadlinePasses
<1>3. Evolves(worker[s], w)
  BY <1>1, <1>2, DeadlineEvolves, Replaced
<1>4. /\ state' \in [Sinks -> States] /\ pending' \in BOOLEAN /\ pending' = pending
      /\ emitter' \in Sinks \union {None, Caller} /\ emitter' = emitter
  BY DEF DeadlinePasses, IInv, TypeOK
<1>5. UNCHANGED <<running, routing, attached, up, call, offers, calls>>
  BY DEF DeadlinePasses
<1>6. worker[s].pc \in Carriers => w.pc \in Carriers
  BY <1>1, <1>2 DEF Carriers, WorkerOK, WorkerType
<1> QED  BY <1>1, <1>2, <1>3, <1>4, <1>5, <1>6, OneEvolves

LEMMA SubmittedInv ==
  ASSUME IInv, NEW s \in Sinks, Submitted(s)
  PROVE  IInv'
<1>1. /\ WorkersTyped /\ worker[s] # None /\ worker[s].pc = "submit" /\ WorkerOK(worker[s])
  BY InvWorkers DEF Submitted, WorkerAt
<1>2. PICK w : SetWorker(s, w)
  BY DEF Submitted
<1>3. Evolves(worker[s], w)
  BY <1>1, <1>2, SubmittedEvolves, Replaced
<1>4. /\ state' \in [Sinks -> States] /\ pending' \in BOOLEAN /\ pending' = pending
      /\ emitter' \in Sinks \union {None, Caller} /\ emitter' = emitter
  BY DEF Submitted, IInv, TypeOK
<1>5. UNCHANGED <<running, routing, attached, up, call, offers, calls>>
  BY DEF Submitted
<1>6. ~(worker[s].pc \in Carriers)
  BY <1>1 DEF Carriers
<1> QED  BY <1>1, <1>2, <1>3, <1>4, <1>5, <1>6, OneEvolves

LEMMA SubmitFailsInv ==
  ASSUME IInv, NEW s \in Sinks, SubmitFails(s)
  PROVE  IInv'
<1>1. /\ WorkersTyped /\ worker[s] # None /\ worker[s].pc = "submit" /\ WorkerOK(worker[s])
  BY InvWorkers DEF SubmitFails, WorkerAt
<1>2. PICK w : SetWorker(s, w)
  BY DEF SubmitFails
<1>3. Evolves(worker[s], w)
  BY <1>1, <1>2, SubmitFailsEvolves, Replaced
<1>4. /\ state' \in [Sinks -> States] /\ pending' \in BOOLEAN /\ pending' = pending
      /\ emitter' \in Sinks \union {None, Caller} /\ emitter' = emitter
  BY DEF SubmitFails, IInv, TypeOK
<1>5. UNCHANGED <<running, routing, attached, up, call, offers, calls>>
  BY DEF SubmitFails
<1>6. ~(worker[s].pc \in Carriers)
  BY <1>1 DEF Carriers
<1> QED  BY <1>1, <1>2, <1>3, <1>4, <1>5, <1>6, OneEvolves

LEMMA SubmissionCompletedInv ==
  ASSUME IInv, NEW s \in Sinks, SubmissionCompleted(s)
  PROVE  IInv'
<1>1. /\ worker[s] # None /\ worker[s].pc \in {"delivered", "refused"}
      /\ WorkerOK(worker[s])
  BY InvWorkers DEF SubmissionCompleted, WorkerAt
<1> DEFINE w == [worker[s] EXCEPT !.pc = "finish"]
<1>2. SetWorker(s, w) /\ w.pc \in Carriers
  BY <1>1 DEF SubmissionCompleted, WorkerOK, WorkerType, Carriers
<1>3. Evolves(worker[s], w)
  <2>1. "finish" \in WorkerPcs /\ ~Done(worker[s])
    BY <1>1 DEF WorkerPcs, InSubmission, Done
  <2> QED  BY <1>1, <2>1, MovesOn DEF InSubmission, Ending
<1>4. \E S : \E to \in States : Transition(S, to)
  <2>1. CASE worker[s].pc = "refused"
    <3>1. Transition({s}, "failed") /\ "failed" \in States
      BY <2>1 DEF SubmissionCompleted, States
    <3> QED  BY <3>1
  <2>2. CASE worker[s].pc # "refused"
    <3>1. /\ Transition(IF attached[s] /\ state[s] = "failed" THEN {s} ELSE {}, "active")
          /\ "active" \in States
      BY <2>2 DEF SubmissionCompleted, States
    <3> QED  BY <3>1
  <2> QED  BY <2>1, <2>2
<1>5. /\ state' \in [Sinks -> States] /\ pending' \in BOOLEAN
      /\ emitter' \in Sinks \union {None, Caller} /\ emitter' = emitter
  BY <1>4, TransitionTyped DEF SubmissionCompleted, IInv, TypeOK
<1>6. UNCHANGED <<running, routing, attached, up, call, offers, calls>>
  BY DEF SubmissionCompleted
<1> HIDE DEF w
<1> QED  BY <1>1, <1>2, <1>3, <1>5, <1>6, OneEvolves

LEMMA MarkSubmissionFinishedInv ==
  ASSUME IInv, NEW s \in Sinks, MarkSubmissionFinished(s)
  PROVE  IInv'
<1>1. /\ worker[s] # None /\ worker[s].pc = "finish" /\ WorkerOK(worker[s])
  BY InvWorkers DEF MarkSubmissionFinished, WorkerAt
<1> DEFINE w == [worker[s] EXCEPT !.pc = "notify"]
<1>2. SetWorker(s, w) /\ w.pc \in Carriers
  BY <1>1 DEF MarkSubmissionFinished, WorkerOK, WorkerType, Carriers
<1>3. Evolves(worker[s], w)
  <2>1. "notify" \in WorkerPcs /\ ~Done(worker[s])
    BY <1>1 DEF WorkerPcs, InSubmission, Done
  <2> QED  BY <1>1, <2>1, MovesOn DEF InSubmission, Ending
<1>4. /\ state' \in [Sinks -> States] /\ pending' \in BOOLEAN /\ pending' = pending
      /\ emitter' \in Sinks \union {None, Caller} /\ emitter' = emitter
  BY DEF MarkSubmissionFinished, IInv, TypeOK
<1>5. UNCHANGED <<running, routing, attached, up, call, offers, calls>>
  BY DEF MarkSubmissionFinished
<1> HIDE DEF w
<1> QED  BY <1>1, <1>2, <1>3, <1>4, <1>5, OneEvolves

LEMMA FinalizationCompletedInv ==
  ASSUME IInv, NEW s \in Sinks, FinalizationCompleted(s)
  PROVE  IInv'
<1>1. /\ worker[s] # None /\ worker[s].pc = "stopped" /\ WorkerOK(worker[s])
  BY InvWorkers DEF FinalizationCompleted, WorkerAt
<1> DEFINE w == [worker[s] EXCEPT !.pc = "finalized"]
<1>2. SetWorker(s, w) /\ w.pc \in Carriers
  BY <1>1 DEF FinalizationCompleted, WorkerOK, WorkerType, Carriers
<1>3. Evolves(worker[s], w)
  <2>1. "finalized" \in WorkerPcs /\ ~Done(worker[s])
    BY <1>1 DEF WorkerPcs, InSubmission, Done
  <2> QED  BY <1>1, <2>1, MovesOn DEF InSubmission, Ending
<1>4. \E S : \E to \in States : Transition(S, to)
  <2> DEFINE to == IF worker[s].error THEN "failed" ELSE "detached"
  <2>1. Transition({s}, to) /\ to \in States
    BY DEF FinalizationCompleted, States
  <2> HIDE DEF to
  <2> QED  BY <2>1
<1>5. /\ state' \in [Sinks -> States] /\ pending' \in BOOLEAN
      /\ emitter' \in Sinks \union {None, Caller} /\ emitter' = emitter
  BY <1>4, TransitionTyped DEF FinalizationCompleted, IInv, TypeOK
<1>6. UNCHANGED <<running, routing, attached, up, call, offers, calls>>
  BY DEF FinalizationCompleted
<1> HIDE DEF w
<1> QED  BY <1>1, <1>2, <1>3, <1>5, <1>6, OneEvolves

LEMMA SetDoneInv ==
  ASSUME IInv, NEW s \in Sinks, SetDone(s)
  PROVE  IInv'
<1>1. /\ worker[s] # None /\ worker[s].pc = "finalized" /\ WorkerOK(worker[s])
  BY InvWorkers DEF SetDone, WorkerAt
<1> DEFINE w == [worker[s] EXCEPT !.pc = "last"]
<1>2. SetWorker(s, w) /\ w.pc \in Carriers
  BY <1>1 DEF SetDone, WorkerOK, WorkerType, Carriers
<1>3. Evolves(worker[s], w)
  <2>1. "last" \in WorkerPcs /\ ~Done(worker[s])
    BY <1>1 DEF WorkerPcs, InSubmission, Done
  <2> QED  BY <1>1, <2>1, MovesOn DEF InSubmission, Ending
<1>4. /\ state' \in [Sinks -> States] /\ pending' \in BOOLEAN /\ pending' = pending
      /\ emitter' \in Sinks \union {None, Caller} /\ emitter' = emitter
  BY DEF SetDone, IInv, TypeOK
<1>5. UNCHANGED <<running, routing, attached, up, call, offers, calls>>
  BY DEF SetDone
<1> HIDE DEF w
<1> QED  BY <1>1, <1>2, <1>3, <1>4, <1>5, OneEvolves

LEMMA WorkerEmitsInv ==
  ASSUME IInv, NEW s \in Sinks, WorkerEmits(s)
  PROVE  IInv'
<1>1. /\ worker[s] # None /\ worker[s].pc \in {"notify", "last"}
      /\ WorkerOK(worker[s]) /\ s # None
  BY InvWorkers, NamesAssumption DEF WorkerEmits, Done, Live
<1>2. PICK pc : /\ SetWorker(s, [worker[s] EXCEPT !.pc = pc])
                /\ \/ worker[s].pc = "notify" /\ pc \in {"notifying", "next"}
                   \/ worker[s].pc = "last" /\ pc \in {"lasting", "ended"}
                /\ \/ emitter' = s
                   \/ emitter # None /\ emitter' = emitter
  <2>1. CASE emitter = None
    BY <1>1, <2>1 DEF WorkerEmits
  <2>2. CASE emitter # None
    BY <1>1, <2>2 DEF WorkerEmits
  <2> QED  BY <2>1, <2>2
<1> DEFINE w == [worker[s] EXCEPT !.pc = pc]
<1>3. Evolves(worker[s], w)
  <2>1. pc \in WorkerPcs /\ (Done(worker[s]) => worker[s].pc = "last")
    BY <1>1, <1>2 DEF WorkerPcs, InSubmission, Done
  <2> QED  BY <1>1, <1>2, <2>1, MovesOn DEF InSubmission, Ending
<1>4. /\ state' \in [Sinks -> States] /\ pending' \in BOOLEAN /\ pending' = pending
      /\ emitter' \in Sinks \union {None, Caller} /\ emitter' # None
  BY <1>1, <1>2 DEF WorkerEmits, IInv, TypeOK
<1>5. UNCHANGED <<running, routing, attached, up, call, offers, calls>>
  BY DEF WorkerEmits
<1>6. SetWorker(s, w)
  BY <1>2
<1> HIDE DEF w
<1> QED  BY <1>1, <1>3, <1>4, <1>5, <1>6, OneEvolves

LEMMA SinkStopsInv ==
  ASSUME IInv, NEW s \in Sinks, SinkStops(s)
  PROVE  IInv'
<1>1. /\ worker[s] # None /\ worker[s].pc = "stop" /\ WorkerOK(worker[s])
  BY InvWorkers DEF SinkStops, WorkerAt
<1>2. PICK error \in BOOLEAN :
        SetWorker(s, [worker[s] EXCEPT !.pc = "stopped", !.error = error])
  BY DEF SinkStops
<1> DEFINE w == [worker[s] EXCEPT !.pc = "stopped", !.error = error]
<1>3. /\ WorkerOK(w) /\ w.pc = "stopped" /\ w.accepting = worker[s].accepting
      /\ w.finalizing = worker[s].finalizing /\ w.queue = worker[s].queue
  BY <1>1 DEF WorkerOK, WorkerShape, WorkerType, WorkerPcs, Ending
<1>4. SetWorker(s, w) /\ w.finalizing /\ ~w.accepting /\ w.queue = <<>>
  BY <1>1, <1>2, <1>3 DEF WorkerOK, WorkerShape, Ending
<1> HIDE DEF w
<1>5. Evolves(worker[s], w)
  BY <1>1, <1>3 DEF Evolves, Done, InSubmission
<1>6. /\ state' \in [Sinks -> States] /\ pending' \in BOOLEAN /\ pending' = pending
      /\ emitter' \in Sinks \union {None, Caller} /\ emitter' = emitter
      /\ ~(worker[s].pc \in Carriers) /\ w.pc # "submit"
  BY <1>1, <1>3 DEF SinkStops, IInv, TypeOK, Carriers
<1>7. UNCHANGED <<running, routing, attached, call, offers, calls>> /\ up' = up \ {s}
  BY DEF SinkStops
<1> QED  BY <1>1, <1>4, <1>5, <1>6, <1>7, OneEvolves

LEMMA SubmitPcmInv ==
  ASSUME IInv, NEW size \in Sizes, SubmitPcm(size)
  PROVE  IInv'
<1>1. size \in Nat \ {0}
  BY SizesAssumption
<1>2. ASSUME NEW s \in Sinks
      PROVE  \/ worker'[s] = worker[s]
             \/ worker[s] # None /\ worker'[s] = Offered(worker[s], size)
  <2>1. worker'[s] = IF s \in routing /\ worker[s] # None
                     THEN Offered(worker[s], size) ELSE worker[s]
    BY DEF SubmitPcm
  <2>2. CASE s \in routing /\ worker[s] # None
    BY <2>1, <2>2
  <2>3. CASE s \notin routing \/ worker[s] = None
    BY <2>1, <2>3
  <2> QED  BY <2>2, <2>3
<1>3. \A s \in Sinks : worker[s] = None => worker'[s] = None
  BY <1>2
<1>4. \A s \in Sinks : worker[s] # None =>
        /\ Evolves(worker[s], worker'[s])
        /\ worker[s].pc \in {"wait", "backoff"} \/ worker'[s].pc = worker[s].pc
  BY <1>1, <1>2, InvWorkers, OfferedEvolves, EvolvesRefl
<1>5. worker' \in [Sinks -> WorkerType \union {None}]
  <2>1. \A s \in Sinks : worker'[s] \in WorkerType \union {None}
    BY <1>3, <1>4 DEF Evolves, WorkerOK
  <2>2. worker' = [s \in Sinks |-> worker'[s]]
    BY DEF SubmitPcm
  <2> QED  BY <2>1, <2>2
<1>6. /\ Shaped' /\ CallShape' /\ UpShape' /\ AttachShape' /\ ServedShape'
      /\ DetachedIsQuiet'
  BY <1>3, <1>4, <1>5, WorkersEvolve DEF SubmitPcm
<1>7. TypeOK'
  BY <1>5 DEF IInv, TypeOK, SubmitPcm
<1>8. TransitionsCarried'
  <2>1. \A s \in Sinks : worker[s] # None /\ worker[s].pc \in Carriers =>
                           worker'[s] # None /\ worker'[s].pc \in Carriers
    BY <1>4, WorkerFields DEF Evolves, Carriers
  <2> QED  BY <2>1 DEF TransitionsCarried, WorkerAt, Carriers, SubmitPcm, IInv
<1> QED  BY <1>6, <1>7, <1>8 DEF IInv

LEMMA EmitPendingInv ==
  ASSUME IInv, EmitPending
  PROVE  IInv'
<1>1. UNCHANGED <<running, routing, attached, worker, up, call>> /\ pending' = FALSE
  BY DEF EmitPending
<1>2. TypeOK' /\ worker' \in [Sinks -> WorkerType \union {None}]
  BY DEF IInv, TypeOK, EmitPending
<1>3. \A s \in Sinks : worker[s] # None => Evolves(worker[s], worker'[s])
  BY <1>1, InvWorkers, EvolvesRefl
<1>4. /\ Shaped' /\ CallShape' /\ UpShape' /\ AttachShape' /\ ServedShape'
      /\ DetachedIsQuiet'
  BY <1>1, <1>2, <1>3, WorkersEvolve
<1> QED  BY <1>1, <1>2, <1>4 DEF IInv, TransitionsCarried

LEMMA EmitEndsInv ==
  ASSUME IInv, EmitEnds
  PROVE  IInv'
<1>1. UNCHANGED <<running, routing, attached, up, call>> /\ pending' = FALSE
  BY DEF EmitEnds, IInv, TypeOK
<1>2. ASSUME NEW s \in Sinks
      PROVE  \/ worker'[s] = worker[s]
             \/ \E pc \in {"next", "ended"} :
                  /\ worker[s] # None /\ worker'[s] = [worker[s] EXCEPT !.pc = pc]
                  /\ \/ worker[s].pc = "notifying" /\ pc = "next"
                     \/ worker[s].pc = "lasting" /\ pc = "ended"
  <2>1. worker[s] # None => WorkerOK(worker[s])
    BY InvWorkers
  <2> QED  BY <2>1 DEF EmitEnds, WorkerOK, WorkerType
<1>3. \A s \in Sinks : worker[s] = None => worker'[s] = None
  BY <1>2
<1>4. ASSUME NEW s \in Sinks, worker[s] # None
      PROVE  Evolves(worker[s], worker'[s])
  <2>1. WorkerOK(worker[s])
    BY <1>4, InvWorkers
  <2>2. CASE worker'[s] = worker[s]
    BY <2>1, <2>2, EvolvesRefl
  <2>3. CASE worker'[s] # worker[s]
    <3>1. PICK pc \in {"next", "ended"} :
                  /\ worker[s] # None /\ worker'[s] = [worker[s] EXCEPT !.pc = pc]
                  /\ \/ worker[s].pc = "notifying" /\ pc = "next"
                     \/ worker[s].pc = "lasting" /\ pc = "ended"
      BY <1>2, <2>3
    <3>2. pc \in WorkerPcs /\ (Done(worker[s]) => pc = "ended")
      BY <3>1 DEF WorkerPcs, Done
    <3> QED  BY <2>1, <3>1, <3>2, MovesOn DEF InSubmission, Ending
  <2> QED  BY <2>2, <2>3
<1>5. worker' \in [Sinks -> WorkerType \union {None}]
  <2>1. \A s \in Sinks : worker'[s] \in WorkerType \union {None}
    BY <1>3, <1>4 DEF Evolves, WorkerOK
  <2>2. worker' = [s \in Sinks |-> worker'[s]]
    BY DEF EmitEnds
  <2> QED  BY <2>1, <2>2
<1>6. /\ Shaped' /\ CallShape' /\ UpShape' /\ AttachShape' /\ ServedShape'
      /\ DetachedIsQuiet'
  BY <1>1, <1>3, <1>4, <1>5, WorkersEvolve
<1>7. TypeOK'
  BY <1>1, <1>5 DEF IInv, TypeOK, EmitEnds
<1> QED  BY <1>1, <1>6, <1>7 DEF IInv, TransitionsCarried

---------------------------------------------------------------------------
(* The lifecycle operations. *)

LEMMA CleanedUpInv ==
  ASSUME IInv, CleanedUp
  PROVE  IInv'
<1>1. /\ UNCHANGED <<running, routing, attached, state, worker, up, pending,
                      offers, calls>>
      /\ TypeOK /\ Shaped /\ CallShape /\ UpShape /\ AttachShape /\ ServedShape
      /\ DetachedIsQuiet /\ TransitionsCarried
  BY DEF IInv, CleanedUp
<1>2. TypeOK'
  BY <1>1, NamesAssumption DEF TypeOK, CallPcs, Idle, CleanedUp
<1>3. Shaped' /\ AttachShape'
  BY <1>1 DEF Shaped, AttachShape
<1>4. CallShape'
  BY <1>1 DEF CallShape, TypeOK, Idle, CleanedUp
<1>5. UpShape'
  BY <1>1 DEF UpShape, CallShape, TypeOK, Idle, CleanedUp
<1>6. ServedShape'
  BY <1>1 DEF ServedShape, CallShape, TypeOK, Idle, CleanedUp
<1>7. DetachedIsQuiet'
  BY <1>1 DEF DetachedIsQuiet, CallShape, TypeOK, Idle, Still, Live, CleanedUp
<1>8. TransitionsCarried'
  BY <1>1, NamesAssumption DEF TransitionsCarried, TypeOK, Idle, CleanedUp
<1> QED  BY <1>2, <1>3, <1>4, <1>5, <1>6, <1>7, <1>8 DEF IInv

LEMMA SubscribedInv ==
  ASSUME IInv, Subscribed
  PROVE  IInv'
<1>1. /\ UNCHANGED <<running, routing, attached, state, worker, up, pending,
                      offers, calls>>
      /\ TypeOK /\ Shaped /\ CallShape /\ UpShape /\ AttachShape /\ ServedShape
      /\ DetachedIsQuiet /\ TransitionsCarried
  BY DEF IInv, Subscribed, At
<1>2. TypeOK'
  BY <1>1, NamesAssumption DEF TypeOK, CallPcs, Idle, Subscribed, At
<1>3. Shaped' /\ AttachShape'
  BY <1>1 DEF Shaped, AttachShape
<1>4. CallShape'
  BY <1>1 DEF CallShape, TypeOK, Idle, Subscribed, At
<1>5. UpShape'
  BY <1>1 DEF UpShape, CallShape, TypeOK, Idle, Subscribed, At
<1>6. ServedShape'
  BY <1>1 DEF ServedShape, CallShape, TypeOK, Idle, Subscribed, At
<1>7. DetachedIsQuiet'
  BY <1>1 DEF DetachedIsQuiet, CallShape, TypeOK, Idle, Still, Live, Subscribed,
     At
<1>8. TransitionsCarried'
  BY <1>1, NamesAssumption DEF TransitionsCarried, TypeOK, Idle, Subscribed, At
<1> QED  BY <1>2, <1>3, <1>4, <1>5, <1>6, <1>7, <1>8 DEF IInv

LEMMA BecomesIdleInv ==
  ASSUME IInv, BecomesIdle
  PROVE  IInv'
<1>1. /\ UNCHANGED <<running, routing, attached, state, worker, up, pending,
                      offers, calls>>
      /\ TypeOK /\ Shaped /\ CallShape /\ UpShape /\ AttachShape /\ ServedShape
      /\ DetachedIsQuiet /\ TransitionsCarried
  BY DEF IInv, BecomesIdle
<1>2. TypeOK'
  BY <1>1, NamesAssumption DEF TypeOK, CallPcs, Idle, BecomesIdle
<1>3. Shaped' /\ AttachShape'
  BY <1>1 DEF Shaped, AttachShape
<1>4. CallShape'
  BY <1>1 DEF CallShape, TypeOK, Idle, BecomesIdle
<1>5. UpShape'
  BY <1>1 DEF UpShape, CallShape, TypeOK, Idle, BecomesIdle
<1>6. ServedShape'
  BY <1>1 DEF ServedShape, CallShape, TypeOK, Idle, BecomesIdle
<1>7. DetachedIsQuiet'
  BY <1>1 DEF DetachedIsQuiet, CallShape, TypeOK, Idle, Still, Live, BecomesIdle
<1>8. TransitionsCarried'
  BY <1>1, NamesAssumption DEF TransitionsCarried, TypeOK, Idle, BecomesIdle
<1> QED  BY <1>2, <1>3, <1>4, <1>5, <1>6, <1>7, <1>8 DEF IInv

LEMMA WaitIdleTimesOutInv ==
  ASSUME IInv, WaitIdleTimesOut
  PROVE  IInv'
<1>1. /\ UNCHANGED <<running, routing, attached, state, worker, up, pending,
                      offers, calls>>
      /\ TypeOK /\ Shaped /\ CallShape /\ UpShape /\ AttachShape /\ ServedShape
      /\ DetachedIsQuiet /\ TransitionsCarried
  BY DEF IInv, WaitIdleTimesOut, At
<1>2. TypeOK'
  BY <1>1, NamesAssumption DEF TypeOK, CallPcs, Idle, WaitIdleTimesOut, At
<1>3. Shaped' /\ AttachShape'
  BY <1>1 DEF Shaped, AttachShape
<1>4. CallShape'
  BY <1>1 DEF CallShape, TypeOK, Idle, WaitIdleTimesOut, At, Done, InSubmission
<1>5. UpShape'
  BY <1>1 DEF UpShape, CallShape, TypeOK, Idle, WaitIdleTimesOut, At
<1>6. ServedShape'
  BY <1>1 DEF ServedShape, CallShape, TypeOK, Idle, WaitIdleTimesOut, At
<1>7. DetachedIsQuiet'
  BY <1>1 DEF DetachedIsQuiet, CallShape, TypeOK, Idle, Still, Live,
     WaitIdleTimesOut, At
<1>8. TransitionsCarried'
  BY <1>1, NamesAssumption DEF TransitionsCarried, TypeOK, Idle,
     WaitIdleTimesOut, At
<1> QED  BY <1>2, <1>3, <1>4, <1>5, <1>6, <1>7, <1>8 DEF IInv

LEMMA WorkerEndsInv ==
  ASSUME IInv, NEW s \in Sinks, WorkerEnds(s)
  PROVE  IInv'
<1>1. /\ UNCHANGED <<running, routing, attached, state, worker, up, pending,
                      offers, calls>>
      /\ TypeOK /\ Shaped /\ CallShape /\ UpShape /\ AttachShape /\ ServedShape
      /\ DetachedIsQuiet /\ TransitionsCarried
  BY DEF IInv, WorkerEnds
<1>2. TypeOK'
  BY <1>1, NamesAssumption DEF TypeOK, CallPcs, Idle, WorkerEnds
<1>3. Shaped' /\ AttachShape'
  BY <1>1 DEF Shaped, AttachShape
<1>4. CallShape'
  BY <1>1 DEF CallShape, TypeOK, Idle, WorkerEnds
<1>5. UpShape'
  BY <1>1 DEF UpShape, CallShape, TypeOK, Idle, WorkerEnds
<1>6. ServedShape'
  BY <1>1 DEF ServedShape, CallShape, TypeOK, Idle, WorkerEnds
<1>7. DetachedIsQuiet'
  BY <1>1 DEF DetachedIsQuiet, CallShape, TypeOK, Idle, Still, Live, WorkerEnds
<1>8. TransitionsCarried'
  BY <1>1, NamesAssumption DEF TransitionsCarried, TypeOK, Idle, WorkerEnds
<1> QED  BY <1>2, <1>3, <1>4, <1>5, <1>6, <1>7, <1>8 DEF IInv

LEMMA WaitTimesOutInv ==
  ASSUME IInv, NEW s \in Sinks, WaitTimesOut(s)
  PROVE  IInv'
<1>1. /\ UNCHANGED <<running, routing, attached, state, worker, up, pending,
                      offers, calls>>
      /\ TypeOK /\ Shaped /\ CallShape /\ UpShape /\ AttachShape /\ ServedShape
      /\ DetachedIsQuiet /\ TransitionsCarried
  BY DEF IInv, WaitTimesOut
<1>2. TypeOK'
  BY <1>1, NamesAssumption DEF TypeOK, CallPcs, Idle, WaitTimesOut
<1>3. Shaped' /\ AttachShape'
  BY <1>1 DEF Shaped, AttachShape
<1>4. CallShape'
  BY <1>1 DEF CallShape, TypeOK, Idle, WaitTimesOut
<1>5. UpShape'
  BY <1>1 DEF UpShape, CallShape, TypeOK, Idle, WaitTimesOut
<1>6. ServedShape'
  BY <1>1 DEF ServedShape, CallShape, TypeOK, Idle, WaitTimesOut
<1>7. DetachedIsQuiet'
  BY <1>1 DEF DetachedIsQuiet, CallShape, TypeOK, Idle, Still, Live,
     WaitTimesOut
<1>8. TransitionsCarried'
  BY <1>1, NamesAssumption DEF TransitionsCarried, TypeOK, Idle, WaitTimesOut
<1> QED  BY <1>2, <1>3, <1>4, <1>5, <1>6, <1>7, <1>8 DEF IInv

LEMMA FinalizedInv ==
  ASSUME IInv, Finalized
  PROVE  IInv'
<1>1. /\ UNCHANGED <<running, routing, attached, state, worker, up, pending,
                      offers, calls>>
      /\ TypeOK /\ Shaped /\ CallShape /\ UpShape /\ AttachShape /\ ServedShape
      /\ DetachedIsQuiet /\ TransitionsCarried
  BY DEF IInv, Finalized, At
<1>2. TypeOK'
  BY <1>1, NamesAssumption DEF TypeOK, CallPcs, Idle, Finalized, At
<1>3. Shaped' /\ AttachShape'
  BY <1>1 DEF Shaped, AttachShape
<1>4. CallShape'
  BY <1>1 DEF CallShape, TypeOK, Idle, Finalized, At
<1>5. UpShape'
  BY <1>1 DEF UpShape, CallShape, TypeOK, Idle, Finalized, At
<1>6. ServedShape'
  BY <1>1 DEF ServedShape, CallShape, TypeOK, Idle, Finalized, At
<1>7. DetachedIsQuiet'
  BY <1>1 DEF DetachedIsQuiet, CallShape, TypeOK, Idle, Still, Live, Finalized,
     At
<1>8. TransitionsCarried'
  BY <1>1, NamesAssumption DEF TransitionsCarried, TypeOK, Idle, Finalized, At
<1> QED  BY <1>2, <1>3, <1>4, <1>5, <1>6, <1>7, <1>8 DEF IInv

LEMMA CallerEmitsInv ==
  ASSUME IInv, CallerEmits
  PROVE  IInv'
<1>1. /\ UNCHANGED <<running, routing, attached, state, worker, up, pending,
                      offers, calls>>
      /\ TypeOK /\ Shaped /\ CallShape /\ UpShape /\ AttachShape /\ ServedShape
      /\ DetachedIsQuiet /\ TransitionsCarried
  BY DEF IInv, CallerEmits
<1>2. TypeOK'
  BY <1>1, NamesAssumption DEF TypeOK, CallPcs, Idle, CallerEmits
<1>3. Shaped' /\ AttachShape'
  BY <1>1 DEF Shaped, AttachShape
<1>4. CallShape'
  BY <1>1 DEF CallShape, TypeOK, Idle, CallerEmits
<1>5. UpShape'
  BY <1>1 DEF UpShape, CallShape, TypeOK, Idle, CallerEmits
<1>6. ServedShape'
  BY <1>1 DEF ServedShape, CallShape, TypeOK, Idle, CallerEmits
<1>7. DetachedIsQuiet'
  BY <1>1 DEF DetachedIsQuiet, CallShape, TypeOK, Idle, Still, Live, CallerEmits
<1>8. TransitionsCarried'
  BY <1>1, NamesAssumption DEF TransitionsCarried, TypeOK, Idle, CallerEmits
<1> QED  BY <1>2, <1>3, <1>4, <1>5, <1>6, <1>7, <1>8 DEF IInv

(* What a record of the operation in progress may hold. *)
Calls == [at : CallPcs, sink : Sinks \union {None},
          todo : SUBSET Sinks, waits : SUBSET Sinks]

LEMMA StartInv ==
  ASSUME IInv, Start
  PROVE  IInv'
<1>1. /\ WorkersTyped
      /\ TypeOK /\ Shaped /\ CallShape /\ UpShape /\ AttachShape /\ ServedShape
      /\ DetachedIsQuiet /\ TransitionsCarried
      /\ \A r \in Sinks : worker[r] # None => WorkerOK(worker[r])
      /\ routing \subseteq Sinks /\ up \subseteq Sinks
      /\ call.todo \subseteq Sinks /\ call.waits \subseteq Sinks
  BY InvWorkers DEF IInv, TypeOK
<1>2. call.at = "idle" /\ calls' \in Nat
  BY <1>1, NamesAssumption DEF TypeOK, Start, Begin
<1>3. call' = [at |-> "subscribers", sink |-> call.sink,
               todo |-> {s \in Sinks : attached[s]}, waits |-> call.waits]
  BY <1>1, <1>2, NamesAssumption DEF TypeOK, Start
<1>4. /\ call' \in Calls /\ call'.at = "subscribers" /\ call'.todo = {s \in Sinks : attached[s]}
  BY <1>1, <1>3 DEF TypeOK, Calls, CallPcs
<1>5. /\ running' = TRUE /\ UNCHANGED <<attached, state, worker, up, pending, emitter, offers>>
      /\ routing' = {s \in Sinks : attached[s] /\ worker[s] # None}
  BY DEF TypeOK, Start, Refresh
<1>6. TypeOK'
  BY <1>1, <1>2, <1>4, <1>5 DEF TypeOK, Calls, States
<1>7. Shaped'
  BY <1>1, <1>5 DEF Shaped, WorkerOK
<1>8. CallShape'
  BY <1>4, <1>5 DEF CallShape, Idle
<1>9. UpShape'
  BY <1>1, <1>2, <1>5 DEF UpShape, CallShape
<1>10. AttachShape'
  BY <1>1, <1>5 DEF AttachShape, CallShape
<1>11. ServedShape'
  BY <1>4, <1>5 DEF ServedShape, CallShape, Live
<1>12. DetachedIsQuiet'
  BY <1>1, <1>2, <1>5 DEF DetachedIsQuiet, CallShape, Still, Live
<1>13. TransitionsCarried'
  BY <1>4 DEF TransitionsCarried
<1> QED  BY <1>6, <1>7, <1>8, <1>9, <1>10, <1>11, <1>12, <1>13 DEF IInv

LEMMA AttachInv ==
  ASSUME IInv, NEW s \in Sinks, Attach(s)
  PROVE  IInv'
<1>1. /\ WorkersTyped
      /\ TypeOK /\ Shaped /\ CallShape /\ UpShape /\ AttachShape /\ ServedShape
      /\ DetachedIsQuiet /\ TransitionsCarried
      /\ \A r \in Sinks : worker[r] # None => WorkerOK(worker[r])
      /\ routing \subseteq Sinks /\ up \subseteq Sinks
      /\ call.todo \subseteq Sinks /\ call.waits \subseteq Sinks
  BY InvWorkers DEF IInv, TypeOK
<1>2. /\ call.at = "idle" /\ calls' \in Nat /\ UNCHANGED <<running, worker, up, emitter, offers>>
      /\ ~attached[s] /\ ~(Live(worker[s]) /\ worker[s].finalizing)
  BY <1>1, NamesAssumption DEF TypeOK, Attach, Begin, AttachAllowed
<1>3. /\ attached' \in [Sinks -> BOOLEAN] /\ attached'[s]
      /\ \A r \in Sinks \ {s} : attached'[r] = attached[r]
  BY <1>1, <1>2, NamesAssumption DEF TypeOK, Attach, Attached
<1>4. \/ running /\ call' = [at |-> "subscribers", sink |-> call.sink,
                             todo |-> {s}, waits |-> call.waits]
      \/ ~running /\ call' = [at |-> "emit", sink |-> call.sink,
                             todo |-> call.todo, waits |-> call.waits]
  BY <1>1 DEF TypeOK, Attach, At
<1>5. /\ call' \in Calls
      /\ \/ running /\ call'.at = "subscribers" /\ call'.todo = {s}
         \/ ~running /\ call'.at = "emit"
  BY <1>1, <1>4 DEF TypeOK, Calls, CallPcs
<1>6. \/ ~running /\ routing' = {r \in Sinks : attached'[r] /\ worker[r] # None}
      \/ running /\ routing' = routing
  BY DEF TypeOK, Attach, Refresh
<1>7. state' \in [Sinks -> States] /\ pending' \in BOOLEAN
  BY TransitionTyped DEF Attach, States
<1>8. TypeOK'
  BY <1>1, <1>2, <1>3, <1>5, <1>6, <1>7 DEF TypeOK, Calls, States
<1>9. Shaped'
  BY <1>1, <1>2 DEF Shaped, WorkerOK
<1>10. CallShape'
  BY <1>2, <1>3, <1>5 DEF CallShape, Idle
<1>11. UpShape'
  BY <1>1, <1>2 DEF UpShape, CallShape
<1>12. AttachShape'
  BY <1>1, <1>2, <1>3 DEF AttachShape, CallShape, Live
<1>13. ServedShape'
  BY <1>1, <1>2, <1>3, <1>5, <1>6 DEF ServedShape, CallShape, Live
<1>14. DetachedIsQuiet'
  BY <1>1, <1>2, <1>3 DEF DetachedIsQuiet, CallShape, Still, Live
<1>15. TransitionsCarried'
  BY <1>5 DEF TransitionsCarried
<1> QED  BY <1>8, <1>9, <1>10, <1>11, <1>12, <1>13, <1>14, <1>15 DEF IInv

LEMMA SinkStartFailsInv ==
  ASSUME IInv, SinkStartFails
  PROVE  IInv'
<1>1. /\ WorkersTyped
      /\ TypeOK /\ Shaped /\ CallShape /\ UpShape /\ AttachShape /\ ServedShape
      /\ DetachedIsQuiet /\ TransitionsCarried
      /\ \A r \in Sinks : worker[r] # None => WorkerOK(worker[r])
      /\ routing \subseteq Sinks /\ up \subseteq Sinks
      /\ call.todo \subseteq Sinks /\ call.waits \subseteq Sinks
  BY InvWorkers DEF IInv, TypeOK
<1>2. /\ call.at = "sink_start" /\ call.sink \in Sinks /\ call' \in Calls /\ call'.at = "cleanup"
      /\ call'.sink = call.sink /\ call'.todo = call.todo /\ call'.waits = call.waits
  BY <1>1, NamesAssumption DEF TypeOK, Calls, CallPcs, States, CallShape,
     SinkStartFails, At
<1>3. /\ UNCHANGED <<running, worker, up, emitter, offers, calls>>
      /\ attached' \in [Sinks -> BOOLEAN] /\ ~attached'[call.sink]
      /\ \A r \in Sinks \ {call.sink} : attached'[r] = attached[r]
      /\ routing' = {r \in Sinks : attached'[r] /\ worker[r] # None}
  BY <1>1, <1>2, NamesAssumption DEF TypeOK, SinkStartFails, Attached, Refresh
<1>4. state' \in [Sinks -> States] /\ pending' \in BOOLEAN
  BY TransitionTyped DEF SinkStartFails, States
<1>5. TypeOK'
  BY <1>1, <1>2, <1>3, <1>4 DEF TypeOK, Calls, States
<1>6. Shaped'
  BY <1>1, <1>3 DEF Shaped, WorkerOK
<1>7. CallShape'
  BY <1>1, <1>2, <1>3 DEF CallShape, Idle
<1>8. UpShape'
  BY <1>1, <1>2, <1>3 DEF UpShape, CallShape
<1>9. AttachShape'
  BY <1>1, <1>3 DEF AttachShape, CallShape
<1>10. ServedShape'
  BY <1>1, <1>2, <1>3 DEF ServedShape, CallShape, Live
<1>11. DetachedIsQuiet'
  BY <1>1, <1>2, <1>3 DEF DetachedIsQuiet, CallShape, Still, Live
<1>12. TransitionsCarried'
  BY <1>2 DEF TransitionsCarried
<1> QED  BY <1>5, <1>6, <1>7, <1>8, <1>9, <1>10, <1>11, <1>12 DEF IInv

LEMMA StopInv ==
  ASSUME IInv, Stop
  PROVE  IInv'
<1>1. /\ WorkersTyped
      /\ TypeOK /\ Shaped /\ CallShape /\ UpShape /\ AttachShape /\ ServedShape
      /\ DetachedIsQuiet /\ TransitionsCarried
      /\ \A r \in Sinks : worker[r] # None => WorkerOK(worker[r])
      /\ routing \subseteq Sinks /\ up \subseteq Sinks
      /\ call.todo \subseteq Sinks /\ call.waits \subseteq Sinks
  BY InvWorkers DEF IInv, TypeOK
<1>2. call = Idle /\ calls' \in Nat /\ running' = FALSE /\ UNCHANGED <<worker, up, emitter, offers>>
  BY <1>1, NamesAssumption DEF TypeOK, Calls, CallPcs, States, CallShape, Stop,
     Begin
<1>3. call' = [at |-> "request", sink |-> None, todo |-> {s \in Sinks : Live(worker[s])},
               waits |-> {}]
  BY <1>1, <1>2, NamesAssumption DEF Stop, Idle
<1>4. /\ call' \in Calls /\ call'.at = "request"
      /\ call'.todo = {s \in Sinks : Live(worker[s])} /\ call'.waits = {}
  BY <1>3 DEF Calls, CallPcs
<1>5. attached' = [s \in Sinks |-> IF s \in {r \in Sinks : Live(worker[r])} THEN FALSE ELSE attached[s]]
  BY DEF Stop, Attached
<1>6. /\ attached' \in [Sinks -> BOOLEAN]
      /\ \A s \in Sinks : attached'[s] = (~Live(worker[s]) /\ attached[s])
  BY <1>1, <1>5 DEF TypeOK
<1>7. routing' = {s \in Sinks : attached'[s] /\ worker[s] # None}
  BY DEF Stop, Refresh
<1>8. state' \in [Sinks -> States] /\ pending' \in BOOLEAN
  BY TransitionTyped DEF Stop, States
<1>9. TypeOK'
  BY <1>1, <1>2, <1>4, <1>6, <1>7, <1>8 DEF TypeOK, Calls, States
<1>10. Shaped'
  BY <1>1, <1>2 DEF Shaped, WorkerOK
<1>11. CallShape'
  BY <1>2, <1>4, <1>6 DEF CallShape, Idle, Live
<1>12. UpShape'
  BY <1>1, <1>2 DEF UpShape, CallShape, Idle
<1>13. AttachShape'
  BY <1>1, <1>2, <1>6 DEF AttachShape, CallShape
<1>14. ServedShape'
  BY <1>2, <1>7 DEF ServedShape, CallShape, Live
<1>15. DetachedIsQuiet'
  BY <1>2, <1>4 DEF DetachedIsQuiet, CallShape, Still, Live
<1>16. TransitionsCarried'
  BY <1>4 DEF TransitionsCarried
<1> QED  BY <1>9, <1>10, <1>11, <1>12, <1>13, <1>14, <1>15, <1>16 DEF IInv

(* A worker that is told to accept again. *)
LEMMA ResumedOK ==
  ASSUME NEW w, WorkerOK(w), ~w.finalizing
  PROVE  LET r == Notified([w EXCEPT !.accepting = TRUE]) IN
         WorkerOK(r) /\ r.accepting /\ ~r.finalizing /\ ~Done(r)
<1> DEFINE q == [w EXCEPT !.accepting = TRUE]
<1>1. WorkerOK(q) /\ q.accepting /\ ~q.finalizing
  BY DEF WorkerOK, WorkerShape, WorkerType
<1> HIDE DEF q
<1>2. WorkerOK(Notified(q)) /\ Notified(q).accepting /\ ~Notified(q).finalizing
  BY <1>1, NotifiedEvolves DEF Evolves
<1>3. ~Done(Notified(q))
  BY <1>2, EndingFinalizes
<1> QED  BY <1>2, <1>3 DEF q

LEMMA WorkerSet ==
  ASSUME WorkersTyped, NEW s \in Sinks, NEW w \in WorkerType \union {None}, SetWorker(s, w)
  PROVE  /\ worker' \in [Sinks -> WorkerType \union {None}] /\ worker'[s] = w
         /\ \A r \in Sinks \ {s} : worker'[r] = worker[r]
BY DEF WorkersTyped, SetWorker

LEMMA RequestFinalizeInv ==
  ASSUME IInv, NEW s \in Sinks, RequestFinalize(s)
  PROVE  IInv'
<1>1. /\ WorkersTyped
      /\ TypeOK /\ Shaped /\ CallShape /\ UpShape /\ AttachShape /\ ServedShape
      /\ DetachedIsQuiet /\ TransitionsCarried
      /\ \A r \in Sinks : worker[r] # None => WorkerOK(worker[r])
      /\ routing \subseteq Sinks /\ up \subseteq Sinks
      /\ call.todo \subseteq Sinks /\ call.waits \subseteq Sinks
  BY InvWorkers DEF IInv, TypeOK
<1>2. /\ call.at = "request" /\ s \in call.todo
      /\ UNCHANGED <<running, routing, attached, state, up, pending, emitter, offers, calls>>
  BY <1>1, NamesAssumption DEF TypeOK, RequestFinalize
<1>3. worker[s] # None /\ ~attached[s] /\ WorkerOK(worker[s])
  BY <1>1, <1>2, NamesAssumption DEF CallShape
<1>4. call' = [at |-> "request", sink |-> call.sink, todo |-> call.todo \ {s},
               waits |-> call.waits \union {s}]
  BY <1>1 DEF TypeOK, RequestFinalize
<1>5. /\ call' \in Calls /\ call'.at = "request" /\ call'.sink = call.sink
      /\ call'.todo = call.todo \ {s} /\ call'.waits = call.waits \union {s}
  BY <1>1, <1>4 DEF TypeOK, Calls, CallPcs
<1>6. /\ WorkerOK(Finalizing(worker[s]))
      /\ Finalizing(worker[s]).finalizing /\ ~Finalizing(worker[s]).accepting
      /\ worker[s].queue = <<>> => Finalizing(worker[s]).queue = <<>>
      /\ Finalizing(worker[s]).pc = "submit" => worker[s].pc = "submit"
  BY <1>3, FinalizingOK
<1>7. /\ worker' \in [Sinks -> WorkerType \union {None}]
      /\ \A r \in Sinks \ {s} : worker'[r] = worker[r]
      /\ worker'[s] = Finalizing(worker[s]) /\ worker'[s] # None
  BY <1>1, <1>6, WorkerSet, WorkerFields DEF RequestFinalize, WorkerOK
<1>8. TypeOK'
  BY <1>1, <1>2, <1>5, <1>7 DEF TypeOK, Calls, States
<1>9. Shaped'
  BY <1>1, <1>6, <1>7 DEF Shaped, WorkerOK
<1>10. CallShape'
  BY <1>1, <1>2, <1>5, <1>7 DEF CallShape, Idle
<1>11. UpShape'
  BY <1>1, <1>2, <1>5, <1>6, <1>7 DEF UpShape, CallShape
<1>12. AttachShape'
  BY <1>1, <1>2, <1>7 DEF AttachShape, CallShape
<1>13. ServedShape'
  BY <1>1, <1>2, <1>7 DEF ServedShape, CallShape, Live
<1>14. DetachedIsQuiet'
  BY <1>1, <1>2, <1>5, <1>6, <1>7 DEF DetachedIsQuiet, CallShape, Still, Live
<1>15. TransitionsCarried'
  BY <1>5 DEF TransitionsCarried
<1> QED  BY <1>8, <1>9, <1>10, <1>11, <1>12, <1>13, <1>14, <1>15 DEF IInv

LEMMA RestoreInv ==
  ASSUME IInv, Restore
  PROVE  IInv'
<1>1. /\ WorkersTyped
      /\ TypeOK /\ Shaped /\ CallShape /\ UpShape /\ AttachShape /\ ServedShape
      /\ DetachedIsQuiet /\ TransitionsCarried
      /\ \A r \in Sinks : worker[r] # None => WorkerOK(worker[r])
      /\ routing \subseteq Sinks /\ up \subseteq Sinks
      /\ call.todo \subseteq Sinks /\ call.waits \subseteq Sinks
  BY InvWorkers DEF IInv, TypeOK
<1>2. /\ call.at = "restore" /\ call.sink \in Sinks /\ worker[call.sink] # None
      /\ WorkerOK(worker[call.sink]) /\ ~worker[call.sink].finalizing /\ call.sink \in up
  BY <1>1, NamesAssumption DEF CallShape, UpShape, Still, Restore
<1>3. UNCHANGED <<running, up, emitter, offers, calls>>
  BY <1>1, <1>2, NamesAssumption DEF Restore
<1>4. /\ call' \in Calls /\ call'.at = "emit" /\ call'.sink = None /\ call'.todo = {}
      /\ call'.waits = {}
  BY DEF Restore, Idle, Calls, CallPcs
<1>5. /\ attached' \in [Sinks -> BOOLEAN] /\ attached'[call.sink]
      /\ \A r \in Sinks \ {call.sink} : attached'[r] = attached[r]
  BY <1>1, <1>2 DEF TypeOK, Restore, Attached
<1>6. /\ WorkerOK(worker'[call.sink]) /\ worker'[call.sink].accepting
      /\ ~worker'[call.sink].finalizing /\ ~Done(worker'[call.sink]) /\ worker'[call.sink] # None
      /\ worker' \in [Sinks -> WorkerType \union {None}]
      /\ \A r \in Sinks \ {call.sink} : worker'[r] = worker[r]
  BY <1>1, <1>2, ResumedOK, WorkerSet, WorkerFields DEF Restore, WorkerOK
<1>7. routing' = {r \in Sinks : attached'[r] /\ worker'[r] # None}
  BY DEF Restore, Refresh
<1>8. state' \in [Sinks -> States] /\ pending' \in BOOLEAN
  BY TransitionTyped DEF Restore, States
<1>9. TypeOK'
  BY <1>1, <1>3, <1>4, <1>5, <1>6, <1>7, <1>8 DEF TypeOK, Calls, States
<1>10. Shaped'
  BY <1>1, <1>6 DEF Shaped, WorkerOK
<1>11. CallShape'
  BY <1>4 DEF CallShape, Idle
<1>12. UpShape'
  BY <1>1, <1>2, <1>3, <1>6 DEF UpShape, CallShape
<1>13. AttachShape'
  BY <1>1, <1>5, <1>6 DEF AttachShape, CallShape
<1>14. ServedShape'
  BY <1>1, <1>2, <1>3, <1>5, <1>6, <1>7 DEF ServedShape, CallShape, Live
<1>15. DetachedIsQuiet'
  BY <1>1, <1>2, <1>5, <1>6 DEF DetachedIsQuiet, CallShape, Still, Live
<1>16. TransitionsCarried'
  BY <1>4 DEF TransitionsCarried
<1> QED  BY <1>9, <1>10, <1>11, <1>12, <1>13, <1>14, <1>15, <1>16 DEF IInv

LEMMA ReportTimeoutInv ==
  ASSUME IInv, ReportTimeout
  PROVE  IInv'
<1>1. /\ WorkersTyped
      /\ TypeOK /\ Shaped /\ CallShape /\ UpShape /\ AttachShape /\ ServedShape
      /\ DetachedIsQuiet /\ TransitionsCarried
      /\ \A r \in Sinks : worker[r] # None => WorkerOK(worker[r])
      /\ routing \subseteq Sinks /\ up \subseteq Sinks
      /\ call.todo \subseteq Sinks /\ call.waits \subseteq Sinks
  BY InvWorkers DEF IInv, TypeOK
<1>2. /\ call.at = "late" /\ call.sink \in Sinks /\ worker[call.sink] # None
      /\ WorkerOK(worker[call.sink])
  BY <1>1, NamesAssumption DEF CallShape, ReportTimeout
<1>3. UNCHANGED <<running, routing, attached, up, emitter, offers, calls>>
  BY <1>1, <1>2, NamesAssumption DEF ReportTimeout
<1>4. /\ call' \in Calls /\ call'.at = "request" /\ call'.sink = None
      /\ call'.todo = call.todo /\ call'.waits = call.waits
  BY <1>1 DEF TypeOK, ReportTimeout, Calls, CallPcs
<1>5. LET r == [worker[call.sink] EXCEPT !.timedOut = TRUE]
          w == worker[call.sink] IN
      /\ WorkerOK(r) /\ r.pc = w.pc /\ r.accepting = w.accepting /\ r.queue = w.queue
      /\ r.finalizing = w.finalizing /\ r # None /\ (Done(r) <=> Done(w))
  BY <1>2, NoneAssumption DEF WorkerOK, WorkerType, WorkerShape, Done
<1>6. /\ worker' \in [Sinks -> WorkerType \union {None}]
      /\ \A r \in Sinks \ {call.sink} : worker'[r] = worker[r]
      /\ worker'[call.sink] = [worker[call.sink] EXCEPT !.timedOut = TRUE]
  BY <1>1, <1>2, <1>5, WorkerSet DEF ReportTimeout, WorkerOK
<1>7. LET r == worker'[call.sink]
          w == worker[call.sink] IN
      /\ WorkerOK(r) /\ r.pc = w.pc /\ r.accepting = w.accepting /\ r.queue = w.queue
      /\ r.finalizing = w.finalizing /\ r # None /\ (Done(r) <=> Done(w))
  BY <1>5, <1>6
<1>8. state' \in [Sinks -> States] /\ pending' \in BOOLEAN
  BY TransitionTyped DEF ReportTimeout, States
<1>9. TypeOK'
  BY <1>1, <1>3, <1>4, <1>6, <1>8 DEF TypeOK, Calls, States
<1>10. Shaped'
  BY <1>1, <1>6, <1>7 DEF Shaped, WorkerOK
<1>11. CallShape'
  BY <1>1, <1>2, <1>3, <1>4, <1>6, <1>7 DEF CallShape, Idle
<1>12. UpShape'
  <2>1. ASSUME NEW r \in Sinks, worker'[r] # None, r \notin up'
        PROVE  /\ worker'[r].queue = <<>> /\ ~worker'[r].accepting
               /\ worker'[r].pc # "submit" /\ worker'[r].finalizing
    <3>1. CASE r = call.sink
      BY <1>1, <1>2, <1>3, <1>7, <2>1, <3>1 DEF UpShape
    <3>2. CASE r # call.sink
      BY <1>1, <1>2, <1>3, <1>6, <2>1, <3>2 DEF UpShape
    <3> QED  BY <3>1, <3>2
  <2> QED  BY <2>1 DEF UpShape
<1>13. AttachShape'
  BY <1>1, <1>2, <1>3, <1>6, <1>7 DEF AttachShape, CallShape
<1>14. ServedShape'
  <2>1. \A r \in routing' : attached'[r]
    BY <1>1, <1>3 DEF ServedShape
  <2>2. ASSUME NEW r \in Sinks, running', attached'[r]
        PROVE  \/ call'.at \in {"subscribers", "sink_start", "cleanup"} /\ r \in call'.todo
               \/ call'.at = "sink_start" /\ r = call'.sink
               \/ /\ r \in routing' /\ Live(worker'[r])
                  /\ worker'[r].accepting /\ ~worker'[r].finalizing
    <3>1. CASE r = call.sink
      BY <1>1, <1>2, <1>3, <1>7, <2>2, <3>1 DEF ServedShape, Live
    <3>2. CASE r # call.sink
      BY <1>1, <1>2, <1>3, <1>6, <2>2, <3>2 DEF ServedShape, Live
    <3> QED  BY <3>1, <3>2
  <2> QED  BY <2>1, <2>2 DEF ServedShape
<1>15. DetachedIsQuiet'
  BY <1>1, <1>2, <1>3, <1>6, <1>7 DEF DetachedIsQuiet, CallShape, Still, Live
<1>16. TransitionsCarried'
  BY <1>4 DEF TransitionsCarried
<1> QED  BY <1>9, <1>10, <1>11, <1>12, <1>13, <1>14, <1>15, <1>16 DEF IInv

LEMMA StartSubscriberInv ==
  ASSUME IInv, NEW s \in Sinks, StartSubscriber(s)
  PROVE  IInv'
<1>1. /\ WorkersTyped
      /\ TypeOK /\ Shaped /\ CallShape /\ UpShape /\ AttachShape /\ ServedShape
      /\ DetachedIsQuiet /\ TransitionsCarried
      /\ \A r \in Sinks : worker[r] # None => WorkerOK(worker[r])
      /\ routing \subseteq Sinks /\ up \subseteq Sinks
      /\ call.todo \subseteq Sinks /\ call.waits \subseteq Sinks
  BY InvWorkers DEF IInv, TypeOK
<1>2. /\ call.at = "subscribers" /\ s \in call.todo /\ running /\ attached[s]
      /\ UNCHANGED <<running, up, emitter, offers, calls, attached>>
  BY <1>1, NamesAssumption DEF CallShape, StartSubscriber
<1>3. worker[s] # None => Done(worker[s]) \/ ~worker[s].finalizing
  BY <1>1, <1>2, NamesAssumption DEF AttachShape
<1>4. /\ Live(worker[s]) => s \in up
      /\ Live(worker[s]) => WorkerOK(worker[s]) /\ ~worker[s].finalizing
  BY <1>1, <1>2, <1>3 DEF UpShape, Live
<1>5. Live(worker[s]) =>
        LET r == Notified([worker[s] EXCEPT !.accepting = TRUE]) IN
        /\ WorkerOK(r) /\ r.accepting /\ ~r.finalizing /\ ~Done(r) /\ r # None
        /\ r \in WorkerType \union {None}
  BY <1>4, ResumedOK, WorkerFields DEF WorkerOK
<1>6. Live(worker[s]) =>
        /\ SetWorker(s, Notified([worker[s] EXCEPT !.accepting = TRUE]))
        /\ call' = [at |-> "subscribers", sink |-> call.sink, todo |-> call.todo \ {s},
                    waits |-> call.waits]
        /\ routing' = {r \in Sinks : attached'[r] /\ worker'[r] # None}
  BY <1>1, <1>4 DEF TypeOK, StartSubscriber, Refresh
<1>7. ~Live(worker[s]) =>
        /\ SetWorker(s, None) /\ UNCHANGED routing
        /\ call' = [at |-> "sink_start", sink |-> s, todo |-> call.todo \ {s},
                    waits |-> call.waits]
  BY <1>1 DEF TypeOK, StartSubscriber, Live
<1>8. /\ call' \in Calls /\ call'.todo = call.todo \ {s}
      /\ Live(worker[s]) => call'.at = "subscribers"
      /\ ~Live(worker[s]) => call'.at = "sink_start" /\ call'.sink = s
  BY <1>1, <1>6, <1>7 DEF TypeOK, Calls, CallPcs
<1>9. /\ worker' \in [Sinks -> WorkerType \union {None}]
      /\ \A r \in Sinks \ {s} : worker'[r] = worker[r]
      /\ Live(worker[s]) => /\ WorkerOK(worker'[s]) /\ worker'[s].accepting
                            /\ ~worker'[s].finalizing /\ ~Done(worker'[s])
                            /\ worker'[s] # None
      /\ ~Live(worker[s]) => worker'[s] = None
  BY <1>1, <1>5, <1>6, <1>7, WorkerSet
<1>10. state' \in [Sinks -> States] /\ pending' \in BOOLEAN
  BY TransitionTyped DEF StartSubscriber, States
<1>11. TypeOK'
  BY <1>1, <1>2, <1>6, <1>7, <1>8, <1>9, <1>10 DEF TypeOK, Calls, States
<1>12. Shaped'
  BY <1>1, <1>9 DEF Shaped, WorkerOK
<1>13. CallShape'
  BY <1>1, <1>2, <1>8, <1>9 DEF CallShape, Idle
<1>14. UpShape'
  BY <1>1, <1>2, <1>4, <1>9 DEF UpShape, CallShape
<1>15. AttachShape'
  BY <1>1, <1>2, <1>9 DEF AttachShape, CallShape
<1>16. ServedShape'
  BY <1>1, <1>2, <1>6, <1>7, <1>9 DEF ServedShape, CallShape, Live
<1>17. DetachedIsQuiet'
  BY <1>1, <1>2, <1>9 DEF DetachedIsQuiet, CallShape, Still, Live
<1>18. TransitionsCarried'
  BY <1>8 DEF TransitionsCarried
<1> QED  BY <1>11, <1>12, <1>13, <1>14, <1>15, <1>16, <1>17, <1>18 DEF IInv

LEMMA SinkStartsInv ==
  ASSUME IInv, SinkStarts
  PROVE  IInv'
<1>1. /\ WorkersTyped
      /\ TypeOK /\ Shaped /\ CallShape /\ UpShape /\ AttachShape /\ ServedShape
      /\ DetachedIsQuiet /\ TransitionsCarried
      /\ \A r \in Sinks : worker[r] # None => WorkerOK(worker[r])
      /\ routing \subseteq Sinks /\ up \subseteq Sinks
      /\ call.todo \subseteq Sinks /\ call.waits \subseteq Sinks
  BY InvWorkers DEF IInv, TypeOK
<1>2. /\ call.at = "sink_start" /\ call.sink \in Sinks /\ worker[call.sink] = None
      /\ running /\ attached[call.sink] /\ \A r \in call.todo : attached[r]
  BY <1>1, NamesAssumption DEF CallShape, SinkStarts
<1>3. /\ UNCHANGED <<running, attached, emitter, offers, calls>>
      /\ up' = up \union {call.sink}
  BY <1>1, <1>2, NamesAssumption DEF SinkStarts
<1>4. /\ call' \in Calls /\ call'.at = "subscribers" /\ call'.todo = call.todo
  BY <1>1 DEF TypeOK, SinkStarts, Calls, CallPcs
<1>5. /\ WorkerOK(NewWorker(TRUE)) /\ NewWorker(TRUE).accepting
      /\ ~NewWorker(TRUE).finalizing /\ NewWorker(TRUE).pc = "next"
      /\ NewWorker(TRUE) # None
  BY NewWorkerOK, WorkerFields DEF NewWorker
<1>6. /\ worker' \in [Sinks -> WorkerType \union {None}]
      /\ \A r \in Sinks \ {call.sink} : worker'[r] = worker[r]
      /\ worker'[call.sink] = NewWorker(TRUE)
  BY <1>1, <1>2, <1>5, WorkerSet DEF SinkStarts, WorkerOK
<1>7. /\ WorkerOK(worker'[call.sink]) /\ worker'[call.sink].accepting
      /\ ~worker'[call.sink].finalizing /\ ~Done(worker'[call.sink])
      /\ worker'[call.sink] # None
  BY <1>5, <1>6 DEF Done
<1>8. routing' = {r \in Sinks : attached'[r] /\ worker'[r] # None}
  BY DEF SinkStarts, Refresh
<1>9. state' \in [Sinks -> States] /\ pending' \in BOOLEAN
  BY TransitionTyped DEF SinkStarts, States
<1>10. TypeOK'
  BY <1>1, <1>2, <1>3, <1>4, <1>6, <1>8, <1>9 DEF TypeOK, Calls, States
<1>11. Shaped'
  BY <1>1, <1>6, <1>7 DEF Shaped, WorkerOK
<1>12. CallShape'
  BY <1>2, <1>3, <1>4 DEF CallShape, Idle
<1>13. UpShape'
  BY <1>1, <1>2, <1>3, <1>6 DEF UpShape, CallShape
<1>14. AttachShape'
  BY <1>1, <1>3, <1>6, <1>7 DEF AttachShape, CallShape
<1>15. ServedShape'
  <2>1. \A r \in routing' : attached'[r]
    BY <1>8 DEF ServedShape
  <2>2. ASSUME NEW r \in Sinks, running', attached'[r]
        PROVE  \/ call'.at \in {"subscribers", "sink_start", "cleanup"} /\ r \in call'.todo
               \/ call'.at = "sink_start" /\ r = call'.sink
               \/ /\ r \in routing' /\ Live(worker'[r])
                  /\ worker'[r].accepting /\ ~worker'[r].finalizing
    <3>1. CASE r = call.sink
      BY <1>7, <1>8, <2>2, <3>1 DEF ServedShape, Live
    <3>2. CASE r # call.sink
      BY <1>1, <1>3, <1>4, <1>6, <1>8, <2>2, <3>2 DEF ServedShape, Live
    <3> QED  BY <3>1, <3>2
  <2> QED  BY <2>1, <2>2 DEF ServedShape
<1>16. DetachedIsQuiet'
  BY <1>1, <1>2, <1>3, <1>6 DEF DetachedIsQuiet, CallShape, Still, Live
<1>17. TransitionsCarried'
  BY <1>4 DEF TransitionsCarried
<1> QED  BY <1>10, <1>11, <1>12, <1>13, <1>14, <1>15, <1>16, <1>17 DEF IInv

LEMMA DetachWarmInv ==
  ASSUME IInv, NEW s \in Sinks, DetachWarm(s)
  PROVE  IInv'
<1>1. /\ WorkersTyped
      /\ TypeOK /\ Shaped /\ CallShape /\ UpShape /\ AttachShape /\ ServedShape
      /\ DetachedIsQuiet /\ TransitionsCarried
      /\ \A r \in Sinks : worker[r] # None => WorkerOK(worker[r])
      /\ routing \subseteq Sinks /\ up \subseteq Sinks
      /\ call.todo \subseteq Sinks /\ call.waits \subseteq Sinks
  BY InvWorkers DEF IInv, TypeOK
<1>2. /\ call = Idle /\ calls' \in Nat /\ attached[s] /\ UNCHANGED <<running, up, emitter, offers>>
  BY <1>1, NamesAssumption DEF TypeOK, CallShape, DetachWarm, Begin
<1>3. /\ worker[s] # None => WorkerOK(worker[s]) /\ ~(worker[s].finalizing /\ ~Done(worker[s]))
      /\ worker[s] # None /\ s \notin up => Done(worker[s])
  BY <1>1, <1>2, NamesAssumption DEF AttachShape, UpShape, Idle
<1>4. /\ attached' \in [Sinks -> BOOLEAN] /\ ~attached'[s]
      /\ \A r \in Sinks \ {s} : attached'[r] = attached[r]
  BY <1>1 DEF TypeOK, DetachWarm, Attached
<1>5. \/ worker[s] = None
         /\ call' = [at |-> "emit", sink |-> None, todo |-> {}, waits |-> {}]
      \/ worker[s] # None
         /\ call' = [at |-> "wait_idle", sink |-> s, todo |-> {}, waits |-> {}]
  BY <1>2 DEF DetachWarm, At, Idle
<1>6. /\ call' \in Calls /\ call'.todo = {} /\ call'.waits = {}
      /\ worker[s] = None => call'.at = "emit"
      /\ worker[s] # None => call'.at = "wait_idle" /\ call'.sink = s
  BY <1>5 DEF Calls, CallPcs
<1>7. worker[s] # None =>
        LET r == Paused(worker[s]) IN
        /\ WorkerOK(r) /\ r # None /\ (r.pc = "submit" => worker[s].pc = "submit")
        /\ Done(worker[s]) => r = worker[s]
        /\ ~Done(worker[s]) => Still(r) /\ ~Done(r)
  BY <1>3, PausedOK, WorkerFields
<1>8. Paused(worker[s]) \in WorkerType \union {None} /\ (worker[s] = None => Paused(worker[s]) = None)
  BY <1>7 DEF Paused, WorkerOK
<1>9. /\ worker' \in [Sinks -> WorkerType \union {None}]
      /\ \A r \in Sinks \ {s} : worker'[r] = worker[r]
      /\ worker'[s] = Paused(worker[s])
  BY <1>1, <1>8, WorkerSet DEF DetachWarm
<1>10. /\ worker[s] = None => worker'[s] = None
      /\ worker[s] # None =>
         /\ WorkerOK(worker'[s]) /\ worker'[s] # None
         /\ (worker'[s].pc = "submit" => worker[s].pc = "submit")
         /\ Done(worker[s]) => worker'[s] = worker[s]
         /\ ~Done(worker[s]) => Still(worker'[s]) /\ ~Done(worker'[s])
  BY <1>7, <1>9
<1>11. routing' = {r \in Sinks : attached'[r] /\ worker'[r] # None}
  BY DEF DetachWarm, Refresh
<1>12. state' \in [Sinks -> States] /\ pending' \in BOOLEAN
  BY TransitionTyped DEF DetachWarm, States
<1>13. TypeOK'
  BY <1>1, <1>2, <1>4, <1>6, <1>9, <1>11, <1>12 DEF TypeOK, Calls, States
<1>14. Shaped'
  BY <1>1, <1>8, <1>9, <1>10 DEF Shaped, WorkerOK
<1>15. CallShape'
  BY <1>4, <1>6, <1>10 DEF CallShape, Idle
<1>16. UpShape'
  BY <1>1, <1>2, <1>3, <1>8, <1>9, <1>10 DEF UpShape, CallShape, Idle
<1>17. AttachShape'
  BY <1>1, <1>4, <1>9 DEF AttachShape, CallShape
<1>18. ServedShape'
  BY <1>1, <1>2, <1>4, <1>9, <1>11 DEF ServedShape, CallShape, Live, Idle
<1>19. DetachedIsQuiet'
  BY <1>1, <1>2, <1>4, <1>6, <1>8, <1>9 DEF DetachedIsQuiet, CallShape, Still,
     Live, Idle
<1>20. TransitionsCarried'
  BY <1>6 DEF TransitionsCarried
<1> QED  BY <1>13, <1>14, <1>15, <1>16, <1>17, <1>18, <1>19, <1>20 DEF IInv

LEMMA DetachStopInv ==
  ASSUME IInv, NEW s \in Sinks, DetachStop(s)
  PROVE  IInv'
<1> DEFINE Requested == [at |-> "request", sink |-> None, todo |-> {s}, waits |-> {}]
           Emitting == [at |-> "emit", sink |-> None, todo |-> {}, waits |-> {}]
<1>1. /\ WorkersTyped
      /\ TypeOK /\ Shaped /\ CallShape /\ UpShape /\ AttachShape /\ ServedShape
      /\ DetachedIsQuiet /\ TransitionsCarried
      /\ \A r \in Sinks : worker[r] # None => WorkerOK(worker[r])
      /\ routing \subseteq Sinks /\ up \subseteq Sinks
      /\ call.todo \subseteq Sinks /\ call.waits \subseteq Sinks
  BY InvWorkers DEF IInv, TypeOK
<1>2. /\ call = Idle /\ call.at = "idle" /\ calls' \in Nat
      /\ UNCHANGED <<running, up, emitter, offers>>
  BY <1>1, NamesAssumption DEF TypeOK, CallShape, DetachStop, Begin
<1>3. /\ attached' \in [Sinks -> BOOLEAN] /\ ~attached'[s]
      /\ \A r \in Sinks \ {s} : attached'[r] = attached[r]
  BY <1>1, <1>2, NamesAssumption DEF TypeOK, DetachStop, Attached
<1>4. \/ ~Live(worker[s]) /\ SetWorker(s, NewWorker(FALSE)) /\ call' = Requested
      \/ ~Live(worker[s]) /\ SetWorker(s, None) /\ call' = Emitting
      \/ Done(worker[s]) /\ UNCHANGED worker /\ call' = Emitting
      \/ Live(worker[s]) /\ UNCHANGED worker /\ call' = Requested
  <2>1. call' = [call EXCEPT !.at = "request", !.todo = {s}] => call' = Requested
    BY <1>2 DEF Idle
  <2>2. At("emit") => call' = Emitting
    BY <1>2 DEF Idle, At
  <2>3. worker[s] = None \/ Done(worker[s]) => ~Live(worker[s])
    BY DEF Live
  <2> HIDE DEF Requested, Emitting
  <2> QED  BY <2>1, <2>2, <2>3 DEF DetachStop
<1>5. /\ Requested \in Calls /\ Requested.at = "request"
      /\ Requested.todo = {s} /\ Requested.waits = {}
      /\ Emitting \in Calls /\ Emitting.at = "emit"
      /\ Emitting.todo = {} /\ Emitting.waits = {}
  BY DEF Calls, CallPcs
<1>6. /\ WorkerOK(NewWorker(FALSE)) /\ ~NewWorker(FALSE).accepting
      /\ NewWorker(FALSE).queue = <<>> /\ NewWorker(FALSE).pc = "next"
      /\ NewWorker(FALSE) # None /\ NewWorker(FALSE) \in WorkerType
  BY NewWorkerOK, WorkerFields DEF NewWorker, WorkerOK
<1> HIDE DEF Requested, Emitting
<1>7. /\ worker' \in [Sinks -> WorkerType \union {None}]
      /\ \A r \in Sinks \ {s} : worker'[r] = worker[r]
      /\ \/ ~Live(worker[s]) /\ worker'[s] = NewWorker(FALSE) /\ call'.at = "request"
         \/ ~Live(worker[s]) /\ worker'[s] = None /\ call'.at = "emit"
         \/ Done(worker[s]) /\ worker'[s] = worker[s] /\ call'.at = "emit"
         \/ Live(worker[s]) /\ worker'[s] = worker[s] /\ call'.at = "request"
  <2>1. ASSUME NEW w \in {NewWorker(FALSE), None}, SetWorker(s, w)
        PROVE  /\ worker' \in [Sinks -> WorkerType \union {None}] /\ worker'[s] = w
               /\ \A r \in Sinks \ {s} : worker'[r] = worker[r]
    BY <1>1, <1>6, <2>1, WorkerSet
  <2>2. ASSUME UNCHANGED worker
        PROVE  /\ worker' \in [Sinks -> WorkerType \union {None}] /\ worker'[s] = worker[s]
               /\ \A r \in Sinks \ {s} : worker'[r] = worker[r]
    BY <1>1, <2>2 DEF WorkersTyped
  <2>3. CASE ~Live(worker[s]) /\ SetWorker(s, NewWorker(FALSE)) /\ call' = Requested
    BY <1>5, <2>1, <2>3
  <2>4. CASE ~Live(worker[s]) /\ SetWorker(s, None) /\ call' = Emitting
    BY <1>5, <2>1, <2>4
  <2>5. CASE Done(worker[s]) /\ UNCHANGED worker /\ call' = Emitting
    BY <1>5, <2>2, <2>5
  <2>6. CASE Live(worker[s]) /\ UNCHANGED worker /\ call' = Requested
    BY <1>5, <2>2, <2>6
  <2> QED  BY <1>4, <2>3, <2>4, <2>5, <2>6
<1>8. /\ call' \in Calls /\ call'.waits = {}
      /\ \/ call'.at = "request" /\ call'.todo = {s}
         \/ call'.at = "emit" /\ call'.todo = {}
  BY <1>4, <1>5
<1>9. state' \in [Sinks -> States] /\ pending' \in BOOLEAN
  <2>1. CASE \E to \in States : Transition({s}, to)
    BY <2>1, TransitionTyped
  <2>2. CASE state' = [state EXCEPT ![s] = "failed"] /\ pending' = TRUE
    BY <1>1, <2>2 DEF TypeOK, States
  <2> QED  BY <2>1, <2>2 DEF DetachStop, States
<1>10. routing' = {r \in Sinks : attached'[r] /\ worker'[r] # None}
  BY DEF DetachStop, Refresh
<1>11. TypeOK'
  BY <1>1, <1>2, <1>3, <1>7, <1>8, <1>9, <1>10 DEF TypeOK, Calls, States
<1>12. Shaped'
  BY <1>1, <1>6, <1>7 DEF Shaped, WorkerOK
<1>13. CallShape'
  <2>1. CASE call'.at = "request" /\ call'.todo = {s}
    <3>1. worker'[s] # None
      BY <1>6, <1>7, <2>1 DEF Live
    <3> QED  BY <1>1, <1>3, <1>7, <1>8, <2>1, <3>1 DEF CallShape
  <2>2. CASE call'.at = "emit"
    BY <2>2 DEF CallShape
  <2> QED  BY <1>8, <2>1, <2>2
<1>14. UpShape'
  <2>1. ASSUME NEW r \in Sinks, worker'[r] # None, r \notin up'
        PROVE  /\ worker'[r].queue = <<>> /\ ~worker'[r].accepting
               /\ worker'[r].pc # "submit"
               /\ worker'[r].finalizing \/ (call'.at = "request" /\ r \in call'.todo)
    <3>1. CASE r = s
      BY <1>1, <1>2, <1>6, <1>7, <1>8, <2>1 DEF UpShape, Live
    <3>2. CASE r # s
      BY <1>1, <1>2, <1>7, <2>1, <3>2 DEF UpShape
    <3> QED  BY <3>1, <3>2
  <2> QED  BY <2>1 DEF UpShape
<1>15. AttachShape'
  BY <1>1, <1>3, <1>7 DEF AttachShape, CallShape, Live
<1>16. ServedShape'
  BY <1>1, <1>2, <1>3, <1>7, <1>10 DEF ServedShape, CallShape, Live, Idle
<1>17. DetachedIsQuiet'
  BY <1>1, <1>2, <1>3, <1>7, <1>8 DEF DetachedIsQuiet, CallShape, Still, Live,
     Idle
<1>18. TransitionsCarried'
  BY <1>8 DEF TransitionsCarried
<1> QED  BY <1>11, <1>12, <1>13, <1>14, <1>15, <1>16, <1>17, <1>18 DEF IInv

---------------------------------------------------------------------------
(* The invariant holds, and with it the properties. *)

LEMMA InitInv == Init => IInv
<1> SUFFICES ASSUME Init PROVE IInv
  OBVIOUS
<1>1. TypeOK
  BY DEF Init, TypeOK, Idle, CallPcs, States
<1>2. Shaped /\ UpShape /\ AttachShape /\ ServedShape
  BY DEF Init, Shaped, UpShape, AttachShape, ServedShape
<1>3. CallShape
  BY DEF Init, CallShape, Idle
<1>4. DetachedIsQuiet /\ TransitionsCarried
  BY DEF Init, DetachedIsQuiet, TransitionsCarried, Live
<1> QED  BY <1>1, <1>2, <1>3, <1>4 DEF IInv

LEMMA NextInv == IInv /\ [Next]_vars => IInv'
<1> SUFFICES ASSUME IInv, [Next]_vars PROVE IInv'
  OBVIOUS
<1>1. CASE Start \/ Stop
  BY <1>1, StartInv, StopInv
<1>2. CASE \E s \in Sinks : Attach(s) \/ DetachWarm(s) \/ DetachStop(s)
  BY <1>2, AttachInv, DetachWarmInv, DetachStopInv
<1>3. CASE \E size \in Sizes : SubmitPcm(size)
  BY <1>3, SubmitPcmInv
<1>4. CASE CallStep
  <2>1. CASE \/ CleanedUp \/ Subscribed \/ BecomesIdle \/ WaitIdleTimesOut \/ Restore
             \/ ReportTimeout \/ Finalized \/ CallerEmits
             \/ SinkStarts \/ SinkStartFails
    BY <2>1, CleanedUpInv, SubscribedInv, BecomesIdleInv, WaitIdleTimesOutInv,
       RestoreInv,
       ReportTimeoutInv, FinalizedInv, CallerEmitsInv, SinkStartsInv, SinkStartFailsInv
  <2>2. CASE \E s \in Sinks : StartSubscriber(s) \/ RequestFinalize(s)
                              \/ WorkerEnds(s) \/ WaitTimesOut(s)
    BY <2>2, StartSubscriberInv, RequestFinalizeInv, WorkerEndsInv,
       WaitTimesOutInv
  <2> QED  BY <1>4, <2>1, <2>2 DEF CallStep
<1>5. CASE EmitStep
  BY <1>5, EmitPendingInv, EmitEndsInv DEF EmitStep
<1>6. CASE \E s \in Sinks : WorkerStep(s) \/ DeadlinePasses(s)
  BY <1>6, NextDataInv, SubmittedInv, SubmitFailsInv, SubmissionCompletedInv,
     MarkSubmissionFinishedInv, WorkerEmitsInv, SinkStopsInv, FinalizationCompletedInv,
     SetDoneInv, DeadlinePassesInv DEF WorkerStep
<1>7. CASE UNCHANGED vars
  BY <1>7 DEF vars, IInv, TypeOK, Shaped, CallShape, UpShape, AttachShape,
     ServedShape,
              DetachedIsQuiet, TransitionsCarried, WorkerAt, Still, Live, Done, Idle
<1> QED  BY <1>1, <1>2, <1>3, <1>4, <1>5, <1>6, <1>7 DEF Next

(* What the operations of the router leave in place, whatever they, the     *)
(* workers, the audio thread and the timeouts do.                           *)
THEOREM InvariantHolds == Spec => []IInv
<1> QED  BY InitInv, NextInv, PTL DEF Spec

(* The records, counters and queues of the router keep their types; a queue *)
(* never holds more than its capacity (_PcmDispatchWorker.submit_pcm).      *)
THEOREM TypeCorrect == Spec => []TypeOK
<1>1. IInv => TypeOK
  BY DEF IInv
<1> QED  BY <1>1, InvariantHolds, PTL

(* A sink has one owner, an attached sink is served and a detached one is   *)
(* quiet (attach, detach, start, stop).                                     *)
THEOREM SinkContractHolds == Spec => []SinkContract
<1>1. IInv => SinkContract
  <2> SUFFICES ASSUME IInv PROVE SinkContract
    OBVIOUS
  <2>1. OneOwner
    BY DEF IInv, CallShape, UpShape, OneOwner, Live, WorkerAt
  <2>2. AttachedIsServed
    BY DEF IInv, ServedShape, AttachedIsServed, TypeOK
  <2> QED  BY <2>1, <2>2 DEF SinkContract, IInv
<1> QED  BY <1>1, InvariantHolds, PTL

(* Every sample offered to a worker is accounted for, and a transition that *)
(* is not yet emitted has a thread that emits it or is about to try.        *)
THEOREM NothingLostHolds == Spec => []NothingLost
<1>1. IInv => NothingLost
  <2> SUFFICES ASSUME IInv PROVE NothingLost
    OBVIOUS
  <2>1. ASSUME NEW s \in Sinks, worker[s] # None
        PROVE  /\ worker[s].submitted = worker[s].dropped + worker[s].queued
                                        + worker[s].hand + worker[s].delivered
               /\ worker[s].queued = Samples(worker[s].queue)
               /\ Done(worker[s]) => worker[s].queued = 0 /\ worker[s].hand = 0
    <3>1. WorkerOK(worker[s])
      BY <2>1, InvWorkers
    <3> QED  BY <3>1, SamplesEmpty DEF WorkerOK, WorkerShape, Ending, Done
  <2> QED  BY <2>1 DEF NothingLost, SamplesAccounted, IInv
<1> QED  BY <1>1, InvariantHolds, PTL

=============================================================================
