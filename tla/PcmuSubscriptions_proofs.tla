----------------------- MODULE PcmuSubscriptions_proofs -----------------------
(***************************************************************************)
(* Proofs about PcmuSubscriptions, for any subscriptions, getters, queue   *)
(* capacity, limits, payload sizes and number of publications.             *)
(***************************************************************************)
EXTENDS PcmuSubscriptions, SequenceTheorems, FiniteSetTheorems, TLAPS

\* Publications only add bytes.
TotalsGrow ==
  \A m, n \in 0 .. StreamSequence : m <= n => TotalBytes(m) <= TotalBytes(n)

\* Who is open, and who the holder of the publisher lock still has to serve.
LockShape ==
  /\ lock.op = "none" <=> lock.todo = {}
  /\ lock.op = "publish" => lock.todo \subseteq registered /\ StreamSequence > 0
  /\ lock.op = "close" => registered = {}
  /\ \A s \in Subscriptions :
       sub[s].phase = "open" <=>
         s \in registered \/ (lock.op = "close" /\ s \in lock.todo)

\* Only an open subscription has anything queued.
QueueShape == \A s \in Subscriptions : sub[s].phase # "open" => sub[s].queue = <<>>

\* A thread inside get() is in the get() of a subscription that exists.
GetterShape ==
  \A g \in Getters : getter[g].at # "idle" =>
    getter[g].on \in Subscriptions /\ sub[getter[g].on].phase # "none"

\* The inductive invariant behind the types and the accounting.
CoreInv ==
  /\ TypeOK
  /\ TotalsGrow
  /\ LockShape
  /\ QueueShape
  /\ GetterShape
  /\ Accounting

\* What the deliveries of s have to do with its counters, with LossIsVisible.
DeliveriesAccounted(s) ==
  /\ Len(received[s]) = sub[s].delivered
  /\ Settled(sub[s]) <= StreamSequence
  /\ sub[s].phase = "none" => sub[s].delivered = 0
  /\ \A i \in 1 .. Len(received[s]) :
       /\ received[s][i].dropped <= sub[s].dropped
       /\ received[s][i].sequence = sub[s].joined + i + received[s][i].dropped
       /\ received[s][i].sequence <= StreamSequence
       /\ i > 1 => received[s][i - 1].dropped <= received[s][i].dropped

LossInv == \A s \in Subscriptions : DeliveriesAccounted(s)

\* The three things a step does to a subscription.
Kept(s) ==
  /\ received'[s] = received[s]
  /\ sub'[s].joined = sub[s].joined /\ sub'[s].delivered = sub[s].delivered
  /\ sub[s].dropped <= sub'[s].dropped
  /\ sub'[s].phase # "open" => sub'[s].dropped = sub[s].dropped
  /\ sub'[s].phase = "none" => sub[s].phase = "none"

Joined(s) ==
  /\ received'[s] = received[s]
  /\ sub[s].phase = "none" /\ sub'[s] = FreshSubscription(StreamSequence)

Delivered(s) ==
  /\ sub[s].phase = "open" /\ sub[s].queue # <<>>
  /\ received'[s] = Append(received[s], Delivery(sub[s]))
  /\ sub'[s] = Popped(sub[s])

----------------------------------------------------------------------------
(* The operators on one subscription. *)

\* Cumulative totals are naturals; the bytes of a publication are the step
\* between two of them.
LEMMA TotalBytesType ==
  ASSUME totals \in Seq(Nat), TotalsGrow
  PROVE  /\ \A n \in 0 .. StreamSequence : TotalBytes(n) \in Nat
         /\ \A n \in 1 .. StreamSequence : PayloadBytes(n) \in Nat
<1>1. \A n \in 0 .. StreamSequence : TotalBytes(n) \in Nat
  BY DEF TotalBytes, StreamSequence
<1>2. ASSUME NEW n \in 1 .. StreamSequence
      PROVE  PayloadBytes(n) \in Nat
  <2>1. n - 1 \in 0 .. StreamSequence /\ n \in 0 .. StreamSequence /\ n - 1 <= n
    BY DEF StreamSequence
  <2>2. TotalBytes(n - 1) <= TotalBytes(n)
    BY <2>1 DEF TotalsGrow
  <2>3. TotalBytes(n) \in Nat /\ TotalBytes(n - 1) \in Nat
    BY <1>1, <2>1
  <2> QED BY <2>2, <2>3 DEF PayloadBytes
<1> QED BY <1>1, <1>2

\* The fields of a subscription.
LEMMA SubscriptionFields ==
  ASSUME NEW q \in SubscriptionType
  PROVE  /\ q.phase \in {"none", "open", "closed"} /\ q.joined \in Nat
         /\ q.queue \in Seq(Nat) /\ Len(q.queue) \in Nat /\ q.queuedBytes \in Nat
         /\ q.delivered \in Nat /\ q.deliveredBytes \in Nat
         /\ q.dropped \in Nat /\ q.droppedBytes \in Nat
         /\ Settled(q) \in Nat /\ q.joined <= Settled(q)
BY DEF SubscriptionType, Settled

\* Taking the oldest packet h off an accounted queue settles it, whichever of
\* the two counters then counts it.
LEMMA OldestSettles ==
  ASSUME totals \in Seq(Nat), TotalsGrow,
         NEW q \in SubscriptionType, NEW n \in 0 .. StreamSequence,
         Accounted(q, n), q.queue # <<>>
  PROVE  LET h == Head(q.queue) IN
         /\ h = Settled(q) + 1 /\ h \in Nat /\ h <= n
         /\ Tail(q.queue) \in Seq(Nat)
         /\ Len(Tail(q.queue)) = Len(q.queue) - 1
         /\ h + Len(Tail(q.queue)) = n
         /\ \A i \in 1 .. Len(Tail(q.queue)) : Tail(q.queue)[i] = h + i
         /\ PayloadBytes(h) \in Nat
         /\ q.queuedBytes - PayloadBytes(h) \in Nat
         /\ q.queuedBytes - PayloadBytes(h) = TotalBytes(n) - TotalBytes(h)
         /\ q.deliveredBytes + q.droppedBytes + PayloadBytes(h)
              = TotalBytes(h) - TotalBytes(q.joined)
<1> DEFINE queue == q.queue
           k == Len(q.queue)
           z == Settled(q)
           j == q.joined
           b == q.queuedBytes
           d == q.deliveredBytes
           x == q.droppedBytes
           h == Head(q.queue)
<1>1. /\ z + k = n
      /\ \A i \in 1 .. k : queue[i] = z + i
      /\ b = TotalBytes(n) - TotalBytes(z)
      /\ d + x = TotalBytes(z) - TotalBytes(j)
  BY DEF Accounted
<1>2. /\ z \in Nat /\ k \in Nat /\ j \in Nat /\ b \in Nat /\ d \in Nat /\ x \in Nat
      /\ j <= z /\ queue \in Seq(Nat) /\ queue # <<>> /\ k = Len(queue)
  BY SubscriptionFields
<1>3. StreamSequence \in Nat /\ n \in Nat /\ n <= StreamSequence
  BY DEF StreamSequence
<1>4. h = queue[1]
  BY <1>2
<1> SUFFICES /\ h = z + 1 /\ h \in Nat /\ h <= n
             /\ Tail(queue) \in Seq(Nat)
             /\ Len(Tail(queue)) = k - 1
             /\ h + Len(Tail(queue)) = n
             /\ \A i \in 1 .. Len(Tail(queue)) : Tail(queue)[i] = h + i
             /\ PayloadBytes(h) \in Nat
             /\ b - PayloadBytes(h) \in Nat
             /\ b - PayloadBytes(h) = TotalBytes(n) - TotalBytes(h)
             /\ d + x + PayloadBytes(h) = TotalBytes(h) - TotalBytes(j)
  OBVIOUS
<1> HIDE DEF queue, k, z, j, b, d, x, h
<1>5. k >= 1
  BY <1>2
<1>6. h = z + 1 /\ h \in Nat /\ h <= n
  BY <1>1, <1>2, <1>3, <1>4, <1>5
<1>7. /\ Tail(queue) \in Seq(Nat) /\ Len(Tail(queue)) = k - 1
      /\ \A i \in 1 .. k - 1 : Tail(queue)[i] = queue[i + 1]
  BY <1>2, HeadTailProperties
<1>8. \A i \in 1 .. k - 1 : Tail(queue)[i] = h + i
  BY <1>1, <1>2, <1>5, <1>6, <1>7
<1>9. /\ TotalBytes(h) \in Nat /\ TotalBytes(z) \in Nat /\ TotalBytes(n) \in Nat
      /\ TotalBytes(j) \in Nat
      /\ TotalBytes(z) <= TotalBytes(h) /\ TotalBytes(h) <= TotalBytes(n)
  <2>1. /\ z \in 0 .. StreamSequence /\ h \in 0 .. StreamSequence
        /\ n \in 0 .. StreamSequence /\ j \in 0 .. StreamSequence
        /\ z <= h /\ h <= n
    BY <1>2, <1>3, <1>6
  <2> QED BY <2>1, TotalBytesType DEF TotalsGrow
<1>10. PayloadBytes(h) = TotalBytes(h) - TotalBytes(z)
  BY <1>2, <1>6 DEF PayloadBytes
<1>11. h + Len(Tail(queue)) = n
  <2> DEFINE t == Len(Tail(queue))
  <2>1. z + k = n /\ h = z + 1 /\ t = k - 1
    BY <1>1, <1>6, <1>7
  <2>2. z \in Nat /\ k \in Nat
    BY <1>2, <1>3
  <2> HIDE DEF t
  <2>3. h + t = n
    BY <2>1, <2>2
  <2> QED BY <2>3 DEF t
<1>12. /\ PayloadBytes(h) \in Nat /\ b - PayloadBytes(h) \in Nat
       /\ b - PayloadBytes(h) = TotalBytes(n) - TotalBytes(h)
       /\ d + x + PayloadBytes(h) = TotalBytes(h) - TotalBytes(j)
  <2> DEFINE th == TotalBytes(h)
             tz == TotalBytes(z)
             tn == TotalBytes(n)
             tj == TotalBytes(j)
             p == PayloadBytes(h)
  <2>1. b = tn - tz /\ d + x = tz - tj /\ p = th - tz
    BY <1>1, <1>10
  <2>2. th \in Nat /\ tz \in Nat /\ tn \in Nat /\ tj \in Nat /\ tz <= th /\ th <= tn
    BY <1>9
  <2> HIDE DEF th, tz, tn, tj, p
  <2>3. p \in Nat /\ b - p \in Nat /\ b - p = tn - th /\ d + x + p = th - tj
    BY <1>2, <2>1, <2>2
  <2> QED BY <2>3 DEF th, tz, tn, tj, p
<1> QED BY <1>6, <1>7, <1>8, <1>11, <1>12

\* What _enqueue's drop leaves of a subscription.
LEMMA WithoutOldestAccounted ==
  ASSUME totals \in Seq(Nat), TotalsGrow,
         NEW q \in SubscriptionType, NEW n \in 0 .. StreamSequence,
         Accounted(q, n), q.queue # <<>>
  PROVE  LET r == WithoutOldest(q) IN
         /\ r \in SubscriptionType /\ Accounted(r, n)
         /\ r.phase = q.phase /\ r.joined = q.joined /\ r.delivered = q.delivered
         /\ r.dropped = q.dropped + 1 /\ Len(r.queue) = Len(q.queue) - 1
<1> DEFINE r == WithoutOldest(q)
           h == Head(q.queue)
<1>1. /\ r.queue = Tail(q.queue) /\ r.queuedBytes = q.queuedBytes - PayloadBytes(h)
      /\ r.dropped = q.dropped + 1 /\ r.droppedBytes = q.droppedBytes + PayloadBytes(h)
      /\ r.phase = q.phase /\ r.joined = q.joined /\ r.delivered = q.delivered
      /\ r.deliveredBytes = q.deliveredBytes
  BY DEF WithoutOldest, SubscriptionType
<1>2. q.dropped + 1 \in Nat /\ q.droppedBytes + PayloadBytes(h) \in Nat
  <2>1. q.dropped \in Nat /\ q.droppedBytes \in Nat
    BY SubscriptionFields
  <2>2. PayloadBytes(h) \in Nat
    BY OldestSettles
  <2> HIDE DEF h
  <2> QED BY <2>1, <2>2
<1>3. r \in SubscriptionType
  <2>1. /\ Tail(q.queue) \in Seq(Nat) /\ q.queuedBytes - PayloadBytes(h) \in Nat
    BY OldestSettles
  <2> HIDE DEF h
  <2> QED BY <1>2, <2>1 DEF WithoutOldest, SubscriptionType, h
<1>4. Settled(r) = h
  <2> DEFINE j == q.joined
             d == q.delivered
             x == q.dropped
  <2>1. j \in Nat /\ d \in Nat /\ x \in Nat
    BY SubscriptionFields
  <2>2. Settled(r) = j + d + (x + 1)
    BY <1>1 DEF Settled
  <2>3. h = (j + d + x) + 1
    BY OldestSettles DEF Settled
  <2> HIDE DEF j, d, x, h, r
  <2> QED BY <2>1, <2>2, <2>3
<1>5. Accounted(r, n)
  <2>1. Len(r.queue) <= QueueCapacity
    <3> DEFINE k == Len(q.queue)
               k1 == Len(Tail(q.queue))
    <3>1. k \in Nat /\ k <= QueueCapacity /\ k1 = k - 1 /\ QueueCapacity \in Nat
      BY SubscriptionFields, OldestSettles, SubscriptionAssumption DEF Accounted
    <3>2. Len(r.queue) = k1
      BY <1>1
    <3> HIDE DEF k, k1, r
    <3> QED BY <3>1, <3>2
  <2>2. r.deliveredBytes + r.droppedBytes = TotalBytes(h) - TotalBytes(q.joined)
    <3> DEFINE d == q.deliveredBytes
               x == q.droppedBytes
               b == PayloadBytes(h)
               t == TotalBytes(h) - TotalBytes(q.joined)
    <3>1. d \in Nat /\ x \in Nat /\ b \in Nat
      BY SubscriptionFields, OldestSettles
    <3>2. d + x + b = t
      BY OldestSettles
    <3>3. r.deliveredBytes + r.droppedBytes = d + (x + b)
      BY <1>1
    <3>4. r.deliveredBytes + r.droppedBytes = t
      <4> HIDE DEF d, x, b, t, r
      <4> QED BY <3>1, <3>2, <3>3
    <3> QED BY <3>4
  <2>3. /\ h + Len(Tail(q.queue)) = n
        /\ \A i \in 1 .. Len(Tail(q.queue)) : Tail(q.queue)[i] = h + i
        /\ q.queuedBytes - PayloadBytes(h) = TotalBytes(n) - TotalBytes(h)
    BY OldestSettles
  <2> HIDE DEF h, r
  <2> QED BY <1>1, <1>4, <2>1, <2>2, <2>3 DEF Accounted
<1> QED BY <1>1, <1>3, <1>5, OldestSettles

\* The room _enqueue makes: none when the queue has it, one packet otherwise.
LEMMA MadeRoomAccounted ==
  ASSUME totals \in Seq(Nat), TotalsGrow,
         NEW q \in SubscriptionType, NEW n \in 0 .. StreamSequence, Accounted(q, n)
  PROVE  LET r == MadeRoom(q) IN
         /\ r \in SubscriptionType /\ Accounted(r, n)
         /\ r.phase = q.phase /\ r.joined = q.joined /\ r.delivered = q.delivered
         /\ r.dropped = IF Len(q.queue) >= QueueCapacity THEN q.dropped + 1 ELSE q.dropped
         /\ Len(r.queue) <= Len(q.queue) /\ Len(r.queue) < QueueCapacity
<1>1. /\ Len(q.queue) \in Nat /\ QueueCapacity \in Nat /\ QueueCapacity > 0
      /\ q.queue \in Seq(Nat) /\ Len(q.queue) <= QueueCapacity
  BY SubscriptionFields, SubscriptionAssumption DEF Accounted
<1>2. CASE Len(q.queue) >= QueueCapacity
  <2>1. q.queue # <<>>
    BY <1>1, <1>2
  <2>2. MadeRoom(q) = WithoutOldest(q)
    BY <1>2 DEF MadeRoom
  <2>3. Len(WithoutOldest(q).queue) = Len(q.queue) - 1
    BY <2>1, WithoutOldestAccounted
  <2> DEFINE k == Len(q.queue)
             k1 == Len(WithoutOldest(q).queue)
  <2>4. k1 <= k /\ k1 < QueueCapacity
    <3> HIDE DEF k, k1
    <3>1. k1 = k - 1 /\ k \in Nat /\ k <= QueueCapacity /\ QueueCapacity \in Nat
      BY <1>1, <2>3 DEF k, k1
    <3> QED BY <3>1
  <2> QED BY <1>2, <2>1, <2>2, <2>4, WithoutOldestAccounted
<1>3. CASE ~(Len(q.queue) >= QueueCapacity)
  BY <1>1, <1>3 DEF MadeRoom
<1> QED BY <1>2, <1>3

\* _enqueue: the queue ends with the new packet, and everything still adds up.
LEMMA EnqueuedAccounted ==
  ASSUME totals \in Seq(Nat), TotalsGrow,
         NEW q \in SubscriptionType, NEW n \in 1 .. StreamSequence, Accounted(q, n - 1)
  PROVE  LET r == Enqueued(q, n) IN
         /\ r \in SubscriptionType /\ Accounted(r, n)
         /\ r.phase = q.phase /\ r.joined = q.joined /\ r.delivered = q.delivered
         /\ r.dropped = IF Len(q.queue) >= QueueCapacity THEN q.dropped + 1 ELSE q.dropped
         /\ Len(r.queue) <= Len(q.queue) + 1
<1> DEFINE m == MadeRoom(q)
           r == Enqueued(q, n)
           t == TotalBytes(n)
           t1 == TotalBytes(n - 1)
           p == PayloadBytes(n)
<1>0. /\ n \in Nat /\ n - 1 \in 0 .. StreamSequence /\ n \in 0 .. StreamSequence
      /\ StreamSequence \in Nat /\ n <= StreamSequence
  BY DEF StreamSequence
<1>1. /\ m \in SubscriptionType /\ Accounted(m, n - 1)
      /\ m.phase = q.phase /\ m.joined = q.joined /\ m.delivered = q.delivered
      /\ m.dropped = IF Len(q.queue) >= QueueCapacity THEN q.dropped + 1 ELSE q.dropped
      /\ Len(m.queue) <= Len(q.queue) /\ Len(m.queue) < QueueCapacity
  BY <1>0, MadeRoomAccounted
<1>2. /\ r.queue = Append(m.queue, n) /\ r.queuedBytes = m.queuedBytes + p
      /\ r.phase = m.phase /\ r.joined = m.joined /\ r.delivered = m.delivered
      /\ r.dropped = m.dropped /\ r.deliveredBytes = m.deliveredBytes
      /\ r.droppedBytes = m.droppedBytes
  <2> HIDE DEF m, p
  <2> QED BY <1>1 DEF Enqueued, SubscriptionType, m, p
<1>3. m.queue \in Seq(Nat) /\ m.queuedBytes \in Nat /\ Len(m.queue) \in Nat /\ Settled(m) \in Nat
  BY <1>1, SubscriptionFields
<1>4. p \in Nat /\ t \in Nat /\ t1 \in Nat /\ p = t - t1
  BY <1>0, TotalBytesType DEF PayloadBytes
<1>5. Settled(r) = Settled(m)
  <2> HIDE DEF m, r
  <2> QED BY <1>2 DEF Settled
<1>6. /\ Append(m.queue, n) \in Seq(Nat)
      /\ Len(Append(m.queue, n)) = Len(m.queue) + 1
      /\ Append(m.queue, n)[Len(m.queue) + 1] = n
      /\ \A i \in 1 .. Len(m.queue) : Append(m.queue, n)[i] = m.queue[i]
  <2> HIDE DEF m
  <2> QED BY <1>0, <1>3, AppendProperties
<1>7. r \in SubscriptionType
  <2>1. m.queuedBytes + p \in Nat
    <3> DEFINE b == m.queuedBytes
    <3> HIDE DEF m, p, b
    <3>1. b \in Nat /\ p \in Nat
      BY <1>3, <1>4 DEF b
    <3>2. b + p \in Nat
      BY <3>1
    <3> QED BY <3>2 DEF b
  <2> HIDE DEF m, p
  <2> QED BY <1>1, <1>6, <2>1 DEF Enqueued, SubscriptionType, m, p
<1>8. Accounted(r, n)
  <2> DEFINE z == Settled(m)
             k == Len(m.queue)
             b == m.queuedBytes
             tz == TotalBytes(Settled(m))
  <2>1. /\ z + k = n - 1
        /\ \A i \in 1 .. k : m.queue[i] = z + i
        /\ b = t1 - tz
        /\ m.deliveredBytes + m.droppedBytes = tz - TotalBytes(m.joined)
        /\ k < QueueCapacity
    BY <1>1 DEF Accounted
  <2>2. z \in Nat /\ k \in Nat /\ b \in Nat /\ QueueCapacity \in Nat
    BY <1>3, SubscriptionAssumption
  <2>3. tz \in Nat
    <3>1. z <= n - 1
      <4> HIDE DEF z, k
      <4> QED BY <2>1, <2>2, <1>0
    <3>2. z \in 0 .. StreamSequence
      <4> HIDE DEF z
      <4> QED BY <1>0, <2>2, <3>1
    <3> QED BY <3>2, TotalBytesType
  <2> HIDE DEF z, k, b, tz, t, t1, p
  <2>4. z + (k + 1) = n /\ k + 1 <= QueueCapacity
    <3>1. z + k = n - 1 /\ k < QueueCapacity
      BY <2>1
    <3> QED BY <3>1, <2>2, <1>0
  <2>5. b + p = t - tz
    BY <1>4, <2>1, <2>2, <2>3
  <2>6. \A i \in 1 .. k + 1 : Append(m.queue, n)[i] = z + i
    <3> SUFFICES ASSUME NEW i \in 1 .. k + 1
                 PROVE  Append(m.queue, n)[i] = z + i
      OBVIOUS
    <3>1. CASE i \in 1 .. k
      BY <1>6, <2>1, <3>1 DEF k
    <3>2. CASE i = k + 1
      BY <1>6, <2>4, <3>2 DEF k
    <3>3. i \in 1 .. k \/ i = k + 1
      BY <2>2
    <3> QED BY <3>1, <3>2, <3>3
  <2>7. /\ Settled(r) = z /\ r.queue = Append(m.queue, n) /\ Len(r.queue) = k + 1
        /\ r.queuedBytes = b + p
        /\ r.deliveredBytes + r.droppedBytes = tz - TotalBytes(r.joined)
    BY <1>2, <1>5, <1>6, <2>1 DEF z, k, b
  <2> HIDE DEF m, r
  <2> QED BY <2>4, <2>5, <2>6, <2>7 DEF Accounted, tz, t, z
<1>9. Len(r.queue) <= Len(q.queue) + 1
  <2> DEFINE k == Len(q.queue)
             k1 == Len(m.queue)
  <2>1. k1 <= k /\ k \in Nat /\ k1 \in Nat
    BY <1>1, <1>3, SubscriptionFields
  <2>2. k1 + 1 <= k + 1
    <3> HIDE DEF k, k1
    <3> QED BY <2>1
  <2> QED BY <1>2, <1>6, <2>2
<1> QED BY <1>1, <1>2, <1>7, <1>8, <1>9

\* get() hands out the oldest packet.
LEMMA PoppedAccounted ==
  ASSUME totals \in Seq(Nat), TotalsGrow,
         NEW q \in SubscriptionType, NEW n \in 0 .. StreamSequence,
         Accounted(q, n), q.queue # <<>>
  PROVE  LET r == Popped(q) IN
         /\ r \in SubscriptionType /\ Accounted(r, n)
         /\ r.phase = q.phase /\ r.joined = q.joined /\ r.dropped = q.dropped
         /\ r.delivered = q.delivered + 1 /\ Len(r.queue) = Len(q.queue) - 1
         /\ Settled(r) = Settled(q) + 1
         /\ Head(q.queue) = Settled(q) + 1 /\ Head(q.queue) <= n
<1> DEFINE r == Popped(q)
           h == Head(q.queue)
<1>1. /\ r.queue = Tail(q.queue) /\ r.queuedBytes = q.queuedBytes - PayloadBytes(h)
      /\ r.delivered = q.delivered + 1 /\ r.deliveredBytes = q.deliveredBytes + PayloadBytes(h)
      /\ r.phase = q.phase /\ r.joined = q.joined /\ r.dropped = q.dropped
      /\ r.droppedBytes = q.droppedBytes
  BY DEF Popped, SubscriptionType
<1>2. q.delivered + 1 \in Nat /\ q.deliveredBytes + PayloadBytes(h) \in Nat
  <2>1. q.delivered \in Nat /\ q.deliveredBytes \in Nat
    BY SubscriptionFields
  <2>2. PayloadBytes(h) \in Nat
    BY OldestSettles
  <2> HIDE DEF h
  <2> QED BY <2>1, <2>2
<1>3. r \in SubscriptionType
  <2>1. /\ Tail(q.queue) \in Seq(Nat) /\ q.queuedBytes - PayloadBytes(h) \in Nat
    BY OldestSettles
  <2> HIDE DEF h
  <2> QED BY <1>2, <2>1 DEF Popped, SubscriptionType, h
<1>4. Settled(r) = h
  <2> DEFINE j == q.joined
             d == q.delivered
             x == q.dropped
  <2>1. j \in Nat /\ d \in Nat /\ x \in Nat
    BY SubscriptionFields
  <2>2. Settled(r) = j + (d + 1) + x
    BY <1>1 DEF Settled
  <2>3. h = (j + d + x) + 1
    BY OldestSettles DEF Settled
  <2> HIDE DEF j, d, x, h, r
  <2> QED BY <2>1, <2>2, <2>3
<1>5. Accounted(r, n)
  <2>1. Len(r.queue) <= QueueCapacity
    <3> DEFINE k == Len(q.queue)
               k1 == Len(Tail(q.queue))
    <3>1. k \in Nat /\ k <= QueueCapacity /\ k1 = k - 1 /\ QueueCapacity \in Nat
      BY SubscriptionFields, OldestSettles, SubscriptionAssumption DEF Accounted
    <3>2. Len(r.queue) = k1
      BY <1>1
    <3> HIDE DEF k, k1, r
    <3> QED BY <3>1, <3>2
  <2>2. r.deliveredBytes + r.droppedBytes = TotalBytes(h) - TotalBytes(q.joined)
    <3> DEFINE d == q.deliveredBytes
               x == q.droppedBytes
               b == PayloadBytes(h)
               t == TotalBytes(h) - TotalBytes(q.joined)
    <3>1. d \in Nat /\ x \in Nat /\ b \in Nat
      BY SubscriptionFields, OldestSettles
    <3>2. d + x + b = t
      BY OldestSettles
    <3>3. r.deliveredBytes + r.droppedBytes = (d + b) + x
      BY <1>1
    <3>4. r.deliveredBytes + r.droppedBytes = t
      <4> HIDE DEF d, x, b, t, r
      <4> QED BY <3>1, <3>2, <3>3
    <3> QED BY <3>4
  <2>3. /\ h + Len(Tail(q.queue)) = n
        /\ \A i \in 1 .. Len(Tail(q.queue)) : Tail(q.queue)[i] = h + i
        /\ q.queuedBytes - PayloadBytes(h) = TotalBytes(n) - TotalBytes(h)
    BY OldestSettles
  <2> HIDE DEF h, r
  <2> QED BY <1>1, <1>4, <2>1, <2>2, <2>3 DEF Accounted
<1> QED BY <1>1, <1>3, <1>4, <1>5, OldestSettles

\* Accepting a packet extends the totals and leaves the old ones alone.
LEMMA TotalsAppended ==
  ASSUME totals \in Seq(Nat), TotalsGrow, NEW bytes \in Nat,
         totals' = Append(totals, TotalBytes(StreamSequence) + bytes)
  PROVE  /\ totals' \in Seq(Nat)
         /\ StreamSequence' = StreamSequence + 1
         /\ \A n \in 0 .. StreamSequence : TotalBytes(n)' = TotalBytes(n)
         /\ TotalsGrow'
<1>1. StreamSequence \in Nat /\ TotalBytes(StreamSequence) \in Nat
  <2>1. StreamSequence \in Nat /\ StreamSequence \in 0 .. StreamSequence
    BY DEF StreamSequence
  <2> QED BY <2>1, TotalBytesType
<1>2. TotalBytes(StreamSequence) + bytes \in Nat
  BY <1>1
<1>3. /\ totals' \in Seq(Nat) /\ Len(totals') = Len(totals) + 1
      /\ totals'[Len(totals) + 1] = TotalBytes(StreamSequence) + bytes
      /\ \A n \in 1 .. Len(totals) : totals'[n] = totals[n]
  BY <1>2, AppendProperties
<1>4. StreamSequence' = StreamSequence + 1
  BY <1>3 DEF StreamSequence
<1>5. \A n \in 0 .. StreamSequence : TotalBytes(n)' = TotalBytes(n)
  BY <1>1, <1>3 DEF TotalBytes, StreamSequence
<1>6. \A n \in Nat : n = StreamSequence + 1 => TotalBytes(n)' = TotalBytes(StreamSequence) + bytes
  BY <1>1, <1>3 DEF TotalBytes, StreamSequence
<1>7. ASSUME NEW m \in 0 .. StreamSequence + 1, NEW n \in 0 .. StreamSequence + 1, m <= n
      PROVE  TotalBytes(m)' <= TotalBytes(n)'
  <2>1. CASE n \in 0 .. StreamSequence
    BY <1>1, <1>5, <1>7, <2>1 DEF TotalsGrow
  <2>2. CASE m = StreamSequence + 1
    <3>1. m = n
      BY <1>1, <1>7, <2>2
    <3>2. TotalBytes(m)' \in Nat
      BY <1>1, <1>2, <1>6, <2>2
    <3> QED BY <3>1, <3>2
  <2>3. CASE n = StreamSequence + 1 /\ m \in 0 .. StreamSequence
    <3>1. TotalBytes(m) <= TotalBytes(StreamSequence) /\ TotalBytes(m) \in Nat
      BY <1>1, <2>3, TotalBytesType DEF TotalsGrow
    <3>2. TotalBytes(m)' = TotalBytes(m)
      BY <1>5, <2>3
    <3>3. TotalBytes(n)' = TotalBytes(StreamSequence) + bytes
      BY <1>1, <1>6, <2>3
    <3> DEFINE a == TotalBytes(m)
               b == TotalBytes(StreamSequence)
    <3>4. a <= b + bytes
      <4>1. a \in Nat /\ b \in Nat /\ a <= b
        BY <1>1, <3>1
      <4> HIDE DEF a, b
      <4> QED BY <4>1
    <3> QED BY <3>2, <3>3, <3>4
  <2> QED BY <1>1, <2>1, <2>2, <2>3
<1> QED BY <1>3, <1>4, <1>5, <1>7 DEF TotalsGrow
----------------------------------------------------------------------------
(* The accounting, one lemma per kind of step. *)

\* A step that replaces one subscription leaves the others accounted for.
LEMMA AccountingStep ==
  ASSUME CoreInv, totals' = totals, NEW s \in Subscriptions, NEW r,
         sub' = [sub EXCEPT ![s] = r],
         r.phase = "open" => Accounted(r, Offered(s)'),
         \A t \in Subscriptions \ {s} : sub[t].phase = "open" => Offered(t)' = Offered(t)
  PROVE  Accounting'
<1> SUFFICES ASSUME NEW t \in Subscriptions, sub'[t].phase = "open"
             PROVE  Accounted(sub[t], Offered(t))'
  BY DEF Accounting
<1>0. sub \in [Subscriptions -> SubscriptionType]
  BY DEF CoreInv, TypeOK
<1>1. CASE t = s
  <2>1. sub'[t] = r /\ Accounted(r, Offered(s)')
    BY <1>0, <1>1
  <2> QED BY <1>1, <2>1 DEF Accounted, TotalBytes, Settled
<1>2. CASE t # s
  <2>1. sub'[t] = sub[t] /\ Offered(t)' = Offered(t)
    BY <1>0, <1>2
  <2>2. Accounted(sub[t], Offered(t))
    BY <2>1 DEF CoreInv, Accounting
  <2> QED BY <2>1, <2>2 DEF Accounted, TotalBytes, Settled
<1> QED BY <1>1, <1>2

\* A step that touches neither totals nor subscriptions nor what is offered.
LEMMA AccountingFrame ==
  ASSUME CoreInv, totals' = totals, sub' = sub,
         \A t \in Subscriptions : sub[t].phase = "open" => Offered(t)' = Offered(t)
  PROVE  Accounting'
<1> SUFFICES ASSUME NEW t \in Subscriptions, sub[t].phase = "open"
             PROVE  Accounted(sub[t], Offered(t))'
  BY DEF Accounting
<1>1. Accounted(sub[t], Offered(t)) /\ Offered(t)' = Offered(t)
  BY DEF CoreInv, Accounting
<1> QED BY <1>1 DEF Accounted, TotalBytes, Settled

LEMMA NotifyType ==
  ASSUME getter \in [Getters -> GetterType], NEW s, Notify(s)
  PROVE  /\ getter' \in [Getters -> GetterType]
         /\ \A g \in Getters : getter'[g].at # "idle" =>
              getter[g].at # "idle" /\ getter'[g].on = getter[g].on
BY DEF Notify, Waiters, InGet, GetterType

LEMMA NotifyAllType ==
  ASSUME getter \in [Getters -> GetterType], NEW s, NotifyAll(s)
  PROVE  /\ getter' \in [Getters -> GetterType]
         /\ \A g \in Getters : getter'[g].at # "idle" =>
              getter[g].at # "idle" /\ getter'[g].on = getter[g].on
BY DEF NotifyAll, Waiters, InGet, GetterType

\* The lock's record.
LEMMA HeldFields ==
  ASSUME NEW op \in {"publish", "close"}, NEW todo \in SUBSET Subscriptions
  PROVE  /\ Held(op, todo) \in [op : {"none", "publish", "close"}, todo : SUBSET Subscriptions]
         /\ Held(op, todo).todo = todo
         /\ Held(op, todo).op = IF todo = {} THEN "none" ELSE op
BY DEF Held, Idle

LEMMA SubscribeCore == ASSUME CoreInv, NEW s \in Subscriptions, Subscribe(s) PROVE CoreInv'
<1> DEFINE r == FreshSubscription(StreamSequence)
<1>1. /\ totals' = totals /\ lock' = lock /\ sub' = [sub EXCEPT ![s] = r] /\ closed' = closed
      /\ registered' = registered \cup {s} /\ getter' = getter /\ received' = received
      /\ lock.op = "none" /\ lock.todo = {} /\ sub[s].phase = "none"
  BY DEF Subscribe, LockFree, Idle
<1>2. StreamSequence \in Nat /\ totals \in Seq(Nat)
  BY DEF StreamSequence, CoreInv, TypeOK
<1>3. /\ r \in SubscriptionType /\ r.phase = "open" /\ r.queue = <<>> /\ Len(r.queue) = 0
      /\ r.joined = StreamSequence /\ r.delivered = 0 /\ r.dropped = 0
      /\ r.queuedBytes = 0 /\ r.deliveredBytes = 0 /\ r.droppedBytes = 0
  BY <1>2 DEF FreshSubscription, SubscriptionType
<1>4. /\ sub' \in [Subscriptions -> SubscriptionType] /\ sub'[s] = r
      /\ \A t \in Subscriptions \ {s} : sub'[t] = sub[t]
  BY <1>1, <1>3 DEF CoreInv, TypeOK
<1>5. TypeOK'
  BY <1>1, <1>4 DEF CoreInv, TypeOK
<1>6. TotalsGrow' /\ StreamSequence' = StreamSequence
  BY <1>1 DEF CoreInv, TotalsGrow, StreamSequence, TotalBytes
<1>7. LockShape'
  BY <1>1, <1>3, <1>4 DEF CoreInv, LockShape
<1>8. QueueShape'
  BY <1>3, <1>4 DEF CoreInv, QueueShape
<1>9. GetterShape'
  BY <1>1, <1>3, <1>4 DEF CoreInv, GetterShape
<1>10. Accounting'
  <2>1. \A t \in Subscriptions : Offered(t)' = StreamSequence /\ Offered(t) = StreamSequence
    BY <1>1, <1>6 DEF Offered
  <2>2. TotalBytes(StreamSequence) \in Nat
    <3>1. StreamSequence \in 0 .. StreamSequence
      BY <1>2
    <3> QED BY <1>2, <3>1, TotalBytesType DEF CoreInv
  <2>3. Settled(r) = StreamSequence
    <3> HIDE DEF r
    <3> QED BY <1>2, <1>3 DEF Settled
  <2>4. Accounted(r, StreamSequence)
    <3> HIDE DEF r
    <3> QED BY <1>2, <1>3, <2>2, <2>3, SubscriptionAssumption DEF Accounted
  <2> HIDE DEF r
  <2> QED BY <1>1, <2>1, <2>4, AccountingStep
<1> QED BY <1>5, <1>6, <1>7, <1>8, <1>9, <1>10 DEF CoreInv

LEMMA PublishCore == ASSUME CoreInv, Publish PROVE CoreInv'
<1>1. /\ lock.op = "none" /\ lock.todo = {} /\ closed' = closed /\ registered' = registered
      /\ sub' = sub /\ received' = received /\ getter' = getter
      /\ lock' = Held("publish", registered)
  BY DEF Publish, LockFree, Idle
<1>2. PICK bytes \in PayloadSizes[StreamSequence + 1] :
        totals' = Append(totals, TotalBytes(StreamSequence) + bytes)
  BY DEF Publish
<1>3. totals \in Seq(Nat) /\ StreamSequence \in Nat /\ bytes \in Nat
  BY <1>2, SubscriptionAssumption DEF CoreInv, TypeOK, StreamSequence, Publish
<1>4. /\ totals' \in Seq(Nat) /\ StreamSequence' = StreamSequence + 1 /\ TotalsGrow'
      /\ \A n \in 0 .. StreamSequence : TotalBytes(n)' = TotalBytes(n)
  BY <1>2, <1>3, TotalsAppended DEF CoreInv
<1>5. /\ lock' \in [op : {"none", "publish", "close"}, todo : SUBSET Subscriptions]
      /\ lock'.todo = registered
      /\ lock'.op = IF registered = {} THEN "none" ELSE "publish"
  BY <1>1, HeldFields DEF CoreInv, TypeOK
<1>6. TypeOK'
  BY <1>1, <1>4, <1>5 DEF CoreInv, TypeOK
<1>7. LockShape'
  BY <1>1, <1>3, <1>4, <1>5 DEF CoreInv, LockShape
<1>8. QueueShape' /\ GetterShape'
  BY <1>1 DEF CoreInv, QueueShape, GetterShape
<1>9. Accounting'
  <2> SUFFICES ASSUME NEW t \in Subscriptions, sub[t].phase = "open"
               PROVE  Accounted(sub[t], Offered(t))'
    BY <1>1 DEF Accounting
  <2>1. Offered(t) = StreamSequence
    BY <1>1 DEF Offered
  <2>2. t \in registered
    BY <1>1 DEF CoreInv, LockShape
  <2>3. Offered(t)' = StreamSequence
    BY <1>3, <1>4, <1>5, <2>2 DEF Offered
  <2>4. Accounted(sub[t], StreamSequence)
    BY <2>1 DEF CoreInv, Accounting
  <2> DEFINE z == Settled(sub[t])
             j == sub[t].joined
  <2>5. /\ z \in 0 .. StreamSequence /\ j \in 0 .. StreamSequence
        /\ StreamSequence \in 0 .. StreamSequence
    <3> DEFINE k == Len(sub[t].queue)
    <3>1. z \in Nat /\ k \in Nat /\ j \in Nat /\ j <= z /\ z + k = StreamSequence
      BY <2>4, SubscriptionFields DEF CoreInv, TypeOK, Accounted
    <3> HIDE DEF z, k, j
    <3> QED BY <1>3, <3>1
  <2>6. /\ TotalBytes(z)' = TotalBytes(z) /\ TotalBytes(j)' = TotalBytes(j)
        /\ TotalBytes(StreamSequence) = TotalBytes(Offered(t))'
    <3>1. \A n \in Nat : n = StreamSequence => TotalBytes(n)' = TotalBytes(StreamSequence)
      BY <1>4, <2>5
    <3>2. \A n \in Nat : n = z => TotalBytes(n)' = TotalBytes(z)
      BY <1>4, <2>5
    <3>3. \A n \in Nat : n = j => TotalBytes(n)' = TotalBytes(j)
      BY <1>4, <2>5
    <3>4. z' = z /\ j' = j /\ z \in Nat /\ j \in Nat
      BY <1>1, <2>5 DEF Settled
    <3> QED BY <1>3, <2>3, <3>1, <3>2, <3>3, <3>4 DEF TotalBytes
  <2> QED BY <1>1, <2>3, <2>4, <2>6 DEF Accounted, Settled
<1> QED BY <1>4, <1>6, <1>7, <1>8, <1>9 DEF CoreInv

LEMMA EnqueueCore == ASSUME CoreInv, NEW s \in Subscriptions, Enqueue(s) PROVE CoreInv'
<1> DEFINE r == Enqueued(sub[s], StreamSequence)
<1>1. /\ lock.op = "publish" /\ s \in lock.todo /\ lock' = Held("publish", lock.todo \ {s})
      /\ closed' = closed /\ registered' = registered /\ totals' = totals
      /\ received' = received
  BY DEF Enqueue
<1>2. /\ s \in registered /\ sub[s].phase = "open" /\ StreamSequence \in Nat
      /\ StreamSequence > 0 /\ lock.todo \subseteq registered
  BY <1>1 DEF CoreInv, LockShape, StreamSequence, TypeOK
<1>3. sub' = [sub EXCEPT ![s] = r] /\ Notify(s)
  BY <1>2 DEF Enqueue
<1>4. sub[s] \in SubscriptionType /\ Accounted(sub[s], StreamSequence - 1)
  <2>1. Offered(s) = StreamSequence - 1
    BY <1>1 DEF Offered
  <2> QED BY <1>2, <2>1 DEF CoreInv, Accounting, TypeOK
<1>5. r \in SubscriptionType /\ Accounted(r, StreamSequence) /\ r.phase = "open"
  <2>1. StreamSequence \in 1 .. StreamSequence
    BY <1>2
  <2> QED BY <1>2, <1>4, <2>1, EnqueuedAccounted DEF CoreInv, TypeOK
<1>6. /\ lock' \in [op : {"none", "publish", "close"}, todo : SUBSET Subscriptions]
      /\ lock'.todo = lock.todo \ {s}
      /\ lock'.op = IF lock.todo \ {s} = {} THEN "none" ELSE "publish"
  <2>1. lock.todo \ {s} \in SUBSET Subscriptions
    BY DEF CoreInv, TypeOK
  <2> QED BY <1>1, <2>1, HeldFields
<1> HIDE DEF r
<1>7. /\ sub' \in [Subscriptions -> SubscriptionType] /\ sub'[s] = r
      /\ \A t \in Subscriptions \ {s} : sub'[t] = sub[t]
  BY <1>3, <1>5 DEF CoreInv, TypeOK
<1>8. /\ getter' \in [Getters -> GetterType]
      /\ \A g \in Getters : getter'[g].at # "idle" =>
           getter[g].at # "idle" /\ getter'[g].on = getter[g].on
  BY <1>3, NotifyType DEF CoreInv, TypeOK
<1>9. TypeOK'
  BY <1>1, <1>6, <1>7, <1>8 DEF CoreInv, TypeOK
<1>10. TotalsGrow' /\ StreamSequence' = StreamSequence
  BY <1>1 DEF CoreInv, TotalsGrow, StreamSequence, TotalBytes
<1>11. LockShape'
  BY <1>1, <1>2, <1>5, <1>6, <1>7, <1>10 DEF CoreInv, LockShape
<1>12. QueueShape'
  BY <1>5, <1>7 DEF CoreInv, QueueShape
<1>13. GetterShape'
  BY <1>5, <1>7, <1>8 DEF CoreInv, GetterShape
<1>14. Accounting'
  <2>1. Offered(s)' = StreamSequence
    BY <1>6, <1>10 DEF Offered
  <2>2. \A t \in Subscriptions \ {s} : Offered(t)' = Offered(t)
    BY <1>1, <1>6, <1>10 DEF Offered
  <2> QED BY <1>1, <1>3, <1>5, <2>1, <2>2, AccountingStep
<1> QED BY <1>9, <1>10, <1>11, <1>12, <1>13, <1>14 DEF CoreInv

LEMMA ClosePublisherCore == ASSUME CoreInv, ClosePublisher PROVE CoreInv'
<1>1. /\ lock.op = "none" /\ lock.todo = {} /\ closed' = TRUE /\ registered' = {}
      /\ totals' = totals /\ sub' = sub /\ received' = received /\ getter' = getter
      /\ lock' = Held("close", registered)
  BY DEF ClosePublisher, LockFree, Idle
<1>2. /\ lock' \in [op : {"none", "publish", "close"}, todo : SUBSET Subscriptions]
      /\ lock'.todo = registered
      /\ lock'.op = IF registered = {} THEN "none" ELSE "close"
  BY <1>1, HeldFields DEF CoreInv, TypeOK
<1>3. TypeOK'
  BY <1>1, <1>2 DEF CoreInv, TypeOK
<1>4. TotalsGrow' /\ StreamSequence' = StreamSequence
  BY <1>1 DEF CoreInv, TotalsGrow, StreamSequence, TotalBytes
<1>5. LockShape'
  BY <1>1, <1>2 DEF CoreInv, LockShape
<1>6. QueueShape' /\ GetterShape'
  BY <1>1 DEF CoreInv, QueueShape, GetterShape
<1>7. \A t \in Subscriptions : Offered(t)' = Offered(t)
  BY <1>1, <1>2, <1>4 DEF Offered
<1> QED BY <1>1, <1>3, <1>4, <1>5, <1>6, <1>7, AccountingFrame DEF CoreInv

\* _close_from_publisher empties the queue and settles nothing more.
LEMMA ClearedFields ==
  ASSUME NEW q \in SubscriptionType
  PROVE  /\ Cleared(q) \in SubscriptionType /\ Cleared(q).phase = "closed"
         /\ Cleared(q).queue = <<>> /\ Cleared(q).joined = q.joined
         /\ Cleared(q).delivered = q.delivered /\ Cleared(q).dropped = q.dropped
         /\ Settled(Cleared(q)) = Settled(q)
<1> DEFINE r == Cleared(q)
<1>1. /\ r \in SubscriptionType /\ r.phase = "closed" /\ r.queue = <<>>
      /\ r.joined = q.joined /\ r.delivered = q.delivered /\ r.dropped = q.dropped
  <2>1. <<>> \in Seq(Nat)
    OBVIOUS
  <2> QED BY <2>1 DEF Cleared, SubscriptionType
<1> HIDE DEF r
<1>2. Settled(r) = Settled(q)
  BY <1>1 DEF Settled
<1> QED BY <1>1, <1>2 DEF r

LEMMA CloseFromPublisherStep ==
  ASSUME CoreInv, NEW s \in Subscriptions, CloseFromPublisher(s), sub[s].phase # "none",
         totals' = totals,
         \A t \in Subscriptions \ {s} : sub[t].phase = "open" => Offered(t)' = Offered(t)
  PROVE  /\ sub' \in [Subscriptions -> SubscriptionType]
         /\ sub'[s].phase = "closed"
         /\ \A t \in Subscriptions \ {s} : sub'[t] = sub[t]
         /\ getter' \in [Getters -> GetterType]
         /\ QueueShape' /\ GetterShape' /\ Accounting'
<1>0. /\ sub \in [Subscriptions -> SubscriptionType] /\ getter \in [Getters -> GetterType]
      /\ sub[s] \in SubscriptionType
  BY DEF CoreInv, TypeOK
<1>1. CASE sub[s].phase = "closed"
  <2>1. sub' = sub /\ getter' = getter
    BY <1>1 DEF CloseFromPublisher
  <2>2. \A t \in Subscriptions : sub[t].phase = "open" => Offered(t)' = Offered(t)
    BY <1>1
  <2>3. Accounting'
    BY <2>1, <2>2, AccountingFrame
  <2> QED BY <1>0, <1>1, <2>1, <2>3 DEF CoreInv, QueueShape, GetterShape
<1>2. CASE sub[s].phase # "closed"
  <2> DEFINE r == Cleared(sub[s])
  <2>1. sub' = [sub EXCEPT ![s] = r] /\ NotifyAll(s)
    BY <1>2 DEF CloseFromPublisher
  <2>2. r \in SubscriptionType /\ r.phase = "closed" /\ r.queue = <<>>
    BY <1>0, ClearedFields
  <2> HIDE DEF r
  <2>3. /\ sub' \in [Subscriptions -> SubscriptionType] /\ sub'[s] = r
        /\ \A t \in Subscriptions \ {s} : sub'[t] = sub[t]
    BY <1>0, <2>1, <2>2
  <2>4. /\ getter' \in [Getters -> GetterType]
        /\ \A g \in Getters : getter'[g].at # "idle" =>
             getter[g].at # "idle" /\ getter'[g].on = getter[g].on
    BY <1>0, <2>1, NotifyAllType
  <2>5. QueueShape'
    BY <2>2, <2>3 DEF CoreInv, QueueShape
  <2>6. GetterShape'
    BY <2>2, <2>3, <2>4 DEF CoreInv, GetterShape
  <2>7. Accounting'
    BY <2>1, <2>2, AccountingStep
  <2> QED BY <2>2, <2>3, <2>4, <2>5, <2>6, <2>7
<1> QED BY <1>1, <1>2

LEMMA CloseNextCore == ASSUME CoreInv, NEW s \in Subscriptions, CloseNext(s) PROVE CoreInv'
<1>1. /\ lock.op = "close" /\ s \in lock.todo /\ lock' = Held("close", lock.todo \ {s})
      /\ CloseFromPublisher(s) /\ closed' = closed /\ registered' = registered
      /\ totals' = totals /\ received' = received
  BY DEF CloseNext
<1>2. sub[s].phase = "open" /\ registered = {}
  BY <1>1 DEF CoreInv, LockShape
<1>3. /\ lock' \in [op : {"none", "publish", "close"}, todo : SUBSET Subscriptions]
      /\ lock'.todo = lock.todo \ {s}
      /\ lock'.op = IF lock.todo \ {s} = {} THEN "none" ELSE "close"
  <2>1. lock.todo \ {s} \in SUBSET Subscriptions
    BY DEF CoreInv, TypeOK
  <2> QED BY <1>1, <2>1, HeldFields
<1>4. TotalsGrow' /\ StreamSequence' = StreamSequence
  BY <1>1 DEF CoreInv, TotalsGrow, StreamSequence, TotalBytes
<1>5. \A t \in Subscriptions : Offered(t)' = Offered(t)
  BY <1>1, <1>3, <1>4 DEF Offered
<1>6. /\ sub' \in [Subscriptions -> SubscriptionType] /\ sub'[s].phase = "closed"
      /\ \A t \in Subscriptions \ {s} : sub'[t] = sub[t]
      /\ getter' \in [Getters -> GetterType]
      /\ QueueShape' /\ GetterShape' /\ Accounting'
  BY <1>1, <1>2, <1>5, CloseFromPublisherStep
<1>7. TypeOK'
  BY <1>1, <1>3, <1>6 DEF CoreInv, TypeOK
<1>8. LockShape'
  BY <1>1, <1>2, <1>3, <1>6 DEF CoreInv, LockShape
<1> QED BY <1>4, <1>6, <1>7, <1>8 DEF CoreInv

LEMMA CloseSubscriptionCore ==
  ASSUME CoreInv, NEW s \in Subscriptions, CloseSubscription(s) PROVE CoreInv'
<1>1. /\ lock.op = "none" /\ lock.todo = {} /\ lock' = lock /\ sub[s].phase # "none"
      /\ CloseFromPublisher(s) /\ closed' = closed /\ registered' = registered \ {s}
      /\ totals' = totals /\ received' = received
  BY DEF CloseSubscription, LockFree, Idle
<1>2. TotalsGrow' /\ StreamSequence' = StreamSequence
  BY <1>1 DEF CoreInv, TotalsGrow, StreamSequence, TotalBytes
<1>3. \A t \in Subscriptions : Offered(t)' = Offered(t)
  BY <1>1, <1>2 DEF Offered
<1>4. /\ sub' \in [Subscriptions -> SubscriptionType] /\ sub'[s].phase = "closed"
      /\ \A t \in Subscriptions \ {s} : sub'[t] = sub[t]
      /\ getter' \in [Getters -> GetterType]
      /\ QueueShape' /\ GetterShape' /\ Accounting'
  BY <1>1, <1>3, CloseFromPublisherStep
<1>5. TypeOK'
  BY <1>1, <1>4 DEF CoreInv, TypeOK
<1>6. LockShape'
  BY <1>1, <1>4 DEF CoreInv, LockShape
<1> QED BY <1>2, <1>4, <1>5, <1>6 DEF CoreInv

\* One pass of get(): nothing, a delivery, or going to sleep.
LEMMA AttemptCore ==
  ASSUME CoreInv, NEW g \in Getters, NEW s \in Subscriptions, NEW timed \in BOOLEAN,
         NEW expired \in BOOLEAN, sub[s].phase # "none", Attempt(g, s, timed, expired),
         closed' = closed, registered' = registered, totals' = totals, lock' = lock
  PROVE  CoreInv'
<1>0. /\ sub \in [Subscriptions -> SubscriptionType] /\ getter \in [Getters -> GetterType]
      /\ sub[s] \in SubscriptionType /\ sub[s].phase \in {"none", "open", "closed"}
      /\ received \in [Subscriptions -> Seq(DeliveryType)]
  BY SubscriptionFields DEF CoreInv, TypeOK
<1>1. TotalsGrow' /\ StreamSequence' = StreamSequence
  BY DEF CoreInv, TotalsGrow, StreamSequence, TotalBytes
<1>2. \A t \in Subscriptions : Offered(t)' = Offered(t)
  BY <1>1 DEF Offered
<1>3. ASSUME sub' = sub, received' = received,
             \/ getter' = [getter EXCEPT ![g] = AtRest]
             \/ getter' = [getter EXCEPT ![g] = [at |-> "waiting", on |-> s, timed |-> timed]]
      PROVE  CoreInv'
  <2>1. /\ getter' \in [Getters -> GetterType]
        /\ getter'[g].at = "idle" \/ getter'[g].on = s
        /\ \A h \in Getters \ {g} : getter'[h] = getter[h]
    <3> DEFINE w == [at |-> "waiting", on |-> s, timed |-> timed]
    <3>1. w \in GetterType /\ AtRest \in GetterType /\ AtRest.at = "idle" /\ w.on = s
      BY DEF GetterType, AtRest
    <3> HIDE DEF w
    <3>2. PICK v \in {w, AtRest} : getter' = [getter EXCEPT ![g] = v]
      BY <1>3 DEF w
    <3> QED BY <1>0, <3>1, <3>2
  <2>2. TypeOK' /\ LockShape' /\ QueueShape'
    BY <1>1, <1>3, <2>1 DEF CoreInv, TypeOK, LockShape, QueueShape
  <2>3. GetterShape'
    BY <1>3, <2>1 DEF CoreInv, GetterShape
  <2>4. Accounting'
    BY <1>2, <1>3, AccountingFrame
  <2> QED BY <1>1, <2>2, <2>3, <2>4 DEF CoreInv
<1>4. ASSUME sub[s].phase # "closed", sub[s].queue # <<>>,
             received' = [received EXCEPT ![s] = Append(@, Delivery(sub[s]))],
             sub' = [sub EXCEPT ![s] = Popped(@)],
             getter' = [getter EXCEPT ![g] = AtRest]
      PROVE  CoreInv'
  <2> DEFINE r == Popped(sub[s])
             d == Delivery(sub[s])
  <2>1. sub[s].phase = "open" /\ Accounted(sub[s], Offered(s))
    BY <1>0, <1>4 DEF CoreInv, Accounting
  <2>2. Offered(s) \in 0 .. StreamSequence
    <3>1. StreamSequence \in Nat /\ (lock.op = "publish" => StreamSequence > 0)
      BY DEF CoreInv, LockShape, TypeOK, StreamSequence
    <3> QED BY <3>1 DEF Offered
  <2>3. /\ r \in SubscriptionType /\ Accounted(r, Offered(s)) /\ r.phase = "open"
        /\ Head(sub[s].queue) = Settled(sub[s]) + 1
    BY <1>0, <1>4, <2>1, <2>2, PoppedAccounted DEF CoreInv, TypeOK
  <2>4. d \in DeliveryType
    <3>1. Head(sub[s].queue) \in Nat
      BY <1>0, <1>4, <2>1, <2>2, OldestSettles DEF CoreInv, TypeOK
    <3> QED BY <1>0, <3>1, SubscriptionFields DEF Delivery, DeliveryType
  <2>5. /\ sub' = [sub EXCEPT ![s] = r]
        /\ received' = [received EXCEPT ![s] = Append(received[s], d)]
    BY <1>4
  <2> HIDE DEF r, d
  <2>6. /\ sub' \in [Subscriptions -> SubscriptionType] /\ sub'[s] = r
        /\ \A t \in Subscriptions \ {s} : sub'[t] = sub[t]
    BY <1>0, <2>3, <2>5
  <2>7. received' \in [Subscriptions -> Seq(DeliveryType)]
    <3>1. Append(received[s], d) \in Seq(DeliveryType)
      BY <1>0, <2>4, AppendProperties
    <3> QED BY <1>0, <2>5, <3>1
  <2>8. /\ getter' \in [Getters -> GetterType] /\ getter'[g].at = "idle"
        /\ \A h \in Getters \ {g} : getter'[h] = getter[h]
    BY <1>0, <1>4 DEF GetterType, AtRest
  <2>9. TypeOK'
    BY <2>6, <2>7, <2>8 DEF CoreInv, TypeOK
  <2>10. LockShape'
    BY <1>1, <2>1, <2>3, <2>6 DEF CoreInv, LockShape
  <2>11. QueueShape'
    BY <2>3, <2>6 DEF CoreInv, QueueShape
  <2>12. GetterShape'
    BY <2>3, <2>6, <2>8 DEF CoreInv, GetterShape
  <2>13. Accounting'
    BY <1>2, <2>3, <2>5, AccountingStep
  <2> QED BY <1>1, <2>9, <2>10, <2>11, <2>12, <2>13 DEF CoreInv
<1> QED BY <1>3, <1>4 DEF Attempt

LEMMA GetCore ==
  ASSUME CoreInv, NEW g \in Getters, NEW s \in Subscriptions, NEW timed \in BOOLEAN,
         Get(g, s, timed)
  PROVE  CoreInv'
BY AttemptCore DEF Get

LEMMA ResumeCore == ASSUME CoreInv, NEW g \in Getters, Resume(g) PROVE CoreInv'
<1>1. /\ getter[g].on \in Subscriptions /\ sub[getter[g].on].phase # "none"
      /\ getter[g].timed \in BOOLEAN
  BY DEF Resume, CoreInv, GetterShape, TypeOK, GetterType
<1> QED BY <1>1, AttemptCore DEF Resume

LEMMA ExpireCore == ASSUME CoreInv, NEW g \in Getters, Expire(g) PROVE CoreInv'
<1>1. /\ closed' = closed /\ registered' = registered /\ totals' = totals /\ lock' = lock
      /\ sub' = sub /\ received' = received
      /\ getter' = [getter EXCEPT ![g].at = "expired"] /\ getter[g].at = "waiting"
  BY DEF Expire
<1>2. /\ getter' \in [Getters -> GetterType]
      /\ \A h \in Getters : getter'[h].at # "idle" =>
           getter[h].at # "idle" /\ getter'[h].on = getter[h].on
  BY <1>1 DEF CoreInv, TypeOK, GetterType
<1>3. TotalsGrow' /\ StreamSequence' = StreamSequence
  BY <1>1 DEF CoreInv, TotalsGrow, StreamSequence, TotalBytes
<1>4. TypeOK' /\ LockShape' /\ QueueShape'
  BY <1>1, <1>2, <1>3 DEF CoreInv, TypeOK, LockShape, QueueShape
<1>5. GetterShape'
  BY <1>1, <1>2 DEF CoreInv, GetterShape
<1>6. \A t \in Subscriptions : Offered(t)' = Offered(t)
  BY <1>1, <1>3 DEF Offered
<1> QED BY <1>1, <1>3, <1>4, <1>5, <1>6, AccountingFrame DEF CoreInv

LEMMA StutterCore == ASSUME CoreInv, UNCHANGED vars PROVE CoreInv'
<1>1. /\ closed' = closed /\ registered' = registered /\ totals' = totals /\ lock' = lock
      /\ sub' = sub /\ received' = received /\ getter' = getter
  BY DEF vars
<1>2. TotalsGrow' /\ StreamSequence' = StreamSequence
  BY <1>1 DEF CoreInv, TotalsGrow, StreamSequence, TotalBytes
<1>3. TypeOK' /\ LockShape' /\ QueueShape' /\ GetterShape'
  BY <1>1, <1>2 DEF CoreInv, TypeOK, LockShape, QueueShape, GetterShape
<1>4. \A t \in Subscriptions : Offered(t)' = Offered(t)
  BY <1>1, <1>2 DEF Offered
<1> QED BY <1>1, <1>2, <1>3, <1>4, AccountingFrame DEF CoreInv

LEMMA InitCore == Init => CoreInv
<1> SUFFICES ASSUME Init PROVE CoreInv
  OBVIOUS
<1> DEFINE e == [FreshSubscription(0) EXCEPT !.phase = "none"]
<1>1. e \in SubscriptionType /\ e.phase = "none" /\ e.queue = <<>>
  <2>1. FreshSubscription(0) \in SubscriptionType /\ FreshSubscription(0).queue = <<>>
    BY DEF FreshSubscription, SubscriptionType
  <2> QED BY <2>1 DEF SubscriptionType
<1>2. sub = [s \in Subscriptions |-> e]
  BY DEF Init
<1> HIDE DEF e
<1>3. \A s \in Subscriptions : sub[s].phase = "none" /\ sub[s].queue = <<>>
  BY <1>1, <1>2
<1>4. TypeOK
  <2>1. <<>> \in Seq(Nat) /\ <<>> \in Seq(DeliveryType)
    OBVIOUS
  <2> QED BY <1>1, <1>2, <2>1 DEF Init, TypeOK, Idle, AtRest, GetterType
<1>5. TotalsGrow
  BY DEF Init, TotalsGrow, StreamSequence, TotalBytes
<1>6. LockShape
  BY <1>3 DEF Init, LockShape, Idle
<1>7. QueueShape /\ Accounting
  BY <1>3 DEF QueueShape, Accounting
<1>8. GetterShape
  BY DEF Init, GetterShape, AtRest
<1> QED BY <1>4, <1>5, <1>6, <1>7, <1>8 DEF CoreInv

LEMMA NextCore == CoreInv /\ [Next]_vars => CoreInv'
BY SubscribeCore, PublishCore, EnqueueCore, ClosePublisherCore, CloseNextCore,
   CloseSubscriptionCore, GetCore, ExpireCore, ResumeCore, StutterCore DEF Next

LEMMA CoreInvariant == Spec => []CoreInv
BY InitCore, NextCore, PTL DEF Spec

\* Every field keeps its type: no counter of the code goes below zero, whatever
\* is published, read and closed at the same time.
THEOREM TypeCorrect == Spec => []TypeOK
BY CoreInvariant, PTL DEF CoreInv

\* Packets published to an open subscription are delivered, dropped or queued,
\* each exactly once, and the packet and byte counters say which.
THEOREM AccountingHolds == Spec => []Accounting
BY CoreInvariant, PTL DEF CoreInv

----------------------------------------------------------------------------
(* What a consumer can tell from its deliveries. *)

\* A step that is not about s leaves it as it is.
LEMMA UntouchedIsKept ==
  ASSUME CoreInv, NEW s \in Subscriptions, sub'[s] = sub[s], received'[s] = received[s]
  PROVE  Kept(s)
<1>1. sub[s].dropped \in Nat
  BY SubscriptionFields DEF CoreInv, TypeOK
<1> QED BY <1>1 DEF Kept

LEMMA ClosedIsKept ==
  ASSUME CoreInv, NEW s \in Subscriptions, NEW t \in Subscriptions, received' = received,
         sub[s].phase # "none", CloseFromPublisher(s)
  PROVE  Kept(t)
<1>1. sub \in [Subscriptions -> SubscriptionType] /\ sub[t].dropped \in Nat
  BY SubscriptionFields DEF CoreInv, TypeOK
<1>2. CASE sub'[t] = sub[t]
  BY <1>2, UntouchedIsKept
<1>3. CASE t = s /\ sub'[s] = Cleared(sub[s])
  BY <1>1, <1>3, ClearedFields DEF Kept
<1> QED BY <1>1, <1>2, <1>3 DEF CloseFromPublisher

LEMMA AttemptEffect ==
  ASSUME CoreInv, NEW g \in Getters, NEW s \in Subscriptions, NEW timed, NEW expired,
         sub[s].phase # "none", Attempt(g, s, timed, expired), NEW t \in Subscriptions
  PROVE  Kept(t) \/ Delivered(t)
<1>1. /\ sub \in [Subscriptions -> SubscriptionType] /\ sub[s].phase \in {"none", "open", "closed"}
      /\ received \in [Subscriptions -> Seq(DeliveryType)]
  BY SubscriptionFields DEF CoreInv, TypeOK
<1>2. CASE sub' = sub /\ received' = received
  BY <1>2, UntouchedIsKept
<1>3. CASE /\ sub[s].phase # "closed" /\ sub[s].queue # <<>>
           /\ received' = [received EXCEPT ![s] = Append(@, Delivery(sub[s]))]
           /\ sub' = [sub EXCEPT ![s] = Popped(@)]
  <2>1. CASE t = s
    BY <1>1, <1>3, <2>1 DEF Delivered
  <2>2. CASE t # s
    <3>1. sub'[t] = sub[t] /\ received'[t] = received[t]
      BY <1>1, <1>3, <2>2
    <3> QED BY <3>1, UntouchedIsKept
  <2> QED BY <2>1, <2>2
<1> QED BY <1>2, <1>3 DEF Attempt

\* Every step keeps, joins or serves each subscription, and never takes a
\* sequence number back.
LEMMA StepEffect ==
  ASSUME CoreInv, [Next]_vars, NEW t \in Subscriptions
  PROVE  /\ StreamSequence <= StreamSequence'
         /\ Kept(t) \/ Joined(t) \/ Delivered(t)
<1>0. /\ sub \in [Subscriptions -> SubscriptionType] /\ StreamSequence \in Nat
      /\ totals \in Seq(Nat)
  BY DEF CoreInv, TypeOK, StreamSequence
<1>f. totals' = totals => StreamSequence <= StreamSequence'
  BY <1>0 DEF StreamSequence
<1>1. ASSUME NEW s \in Subscriptions, Subscribe(s)
      PROVE  /\ StreamSequence <= StreamSequence' /\ (Kept(t) \/ Joined(t))
  <2>1. /\ totals' = totals /\ received' = received /\ sub[s].phase = "none"
        /\ sub' = [sub EXCEPT ![s] = FreshSubscription(StreamSequence)]
    BY <1>1 DEF Subscribe
  <2>2. CASE t = s
    BY <1>0, <1>f, <2>1, <2>2 DEF Joined
  <2>3. CASE t # s
    <3>1. sub'[t] = sub[t] /\ received'[t] = received[t]
      BY <1>0, <2>1, <2>3
    <3> QED BY <1>f, <2>1, <3>1, UntouchedIsKept
  <2> QED BY <2>2, <2>3
<1>2. ASSUME Publish
      PROVE  /\ StreamSequence <= StreamSequence' /\ Kept(t)
  <2>1. PICK bytes \in PayloadSizes[StreamSequence + 1] :
          totals' = Append(totals, TotalBytes(StreamSequence) + bytes)
    BY <1>2 DEF Publish
  <2>2. bytes \in Nat
    BY <1>0, <1>2, <2>1, SubscriptionAssumption DEF Publish
  <2>3. StreamSequence' = StreamSequence + 1
    BY <1>0, <2>1, <2>2, TotalsAppended DEF CoreInv
  <2>4. sub'[t] = sub[t] /\ received'[t] = received[t]
    BY <1>2 DEF Publish
  <2> QED BY <1>0, <2>3, <2>4, UntouchedIsKept
<1>3. ASSUME NEW s \in Subscriptions, Enqueue(s)
      PROVE  /\ StreamSequence <= StreamSequence' /\ Kept(t)
  <2> DEFINE r == Enqueued(sub[s], StreamSequence)
  <2>1. /\ lock.op = "publish" /\ s \in lock.todo /\ totals' = totals /\ received' = received
    BY <1>3 DEF Enqueue
  <2>2. /\ sub[s].phase = "open" /\ StreamSequence \in 1 .. StreamSequence
        /\ Offered(s) = StreamSequence - 1
    BY <1>0, <2>1 DEF CoreInv, LockShape, Offered
  <2>3. sub' = [sub EXCEPT ![s] = r]
    BY <1>3, <2>2 DEF Enqueue
  <2>4. sub[s] \in SubscriptionType /\ Accounted(sub[s], StreamSequence - 1)
    BY <1>0, <2>2 DEF CoreInv, Accounting
  <2>5. /\ r.phase = sub[s].phase /\ r.joined = sub[s].joined /\ r.delivered = sub[s].delivered
        /\ r.dropped = IF Len(sub[s].queue) >= QueueCapacity
                       THEN sub[s].dropped + 1 ELSE sub[s].dropped
    BY <1>0, <2>2, <2>4, EnqueuedAccounted DEF CoreInv
  <2> HIDE DEF r
  <2>6. CASE t = s
    <3>1. sub[s].dropped \in Nat
      BY <2>4, SubscriptionFields
    <3>2. sub[s].dropped <= r.dropped
      <4> DEFINE x == sub[s].dropped
                 x1 == r.dropped
      <4>1. x \in Nat /\ x1 \in {x, x + 1}
        BY <2>5, <3>1
      <4> HIDE DEF x, x1
      <4>2. x <= x1
        BY <4>1
      <4> QED BY <4>2 DEF x, x1
    <3>3. sub'[t] = r
      BY <1>0, <2>3, <2>6
    <3> QED BY <1>f, <2>1, <2>2, <2>5, <2>6, <3>2, <3>3 DEF Kept
  <2>7. CASE t # s
    <3>1. sub'[t] = sub[t] /\ received'[t] = received[t]
      BY <1>0, <2>1, <2>3, <2>7
    <3> QED BY <1>f, <2>1, <3>1, UntouchedIsKept
  <2> QED BY <2>6, <2>7
<1>4. CASE ClosePublisher \/ UNCHANGED vars \/ \E g \in Getters : Expire(g)
  <2>1. sub' = sub /\ received' = received /\ totals' = totals
    BY <1>4 DEF ClosePublisher, vars, Expire
  <2> QED BY <1>f, <2>1, UntouchedIsKept
<1>5. ASSUME NEW s \in Subscriptions, CloseNext(s) \/ CloseSubscription(s)
      PROVE  /\ StreamSequence <= StreamSequence' /\ Kept(t)
  <2>1. /\ received' = received /\ totals' = totals /\ CloseFromPublisher(s)
        /\ sub[s].phase # "none"
    BY <1>5 DEF CloseNext, CloseSubscription, CoreInv, LockShape
  <2> QED BY <1>f, <2>1, ClosedIsKept
<1>6. ASSUME NEW g \in Getters, NEW s \in Subscriptions, NEW timed \in BOOLEAN, Get(g, s, timed)
      PROVE  /\ StreamSequence <= StreamSequence' /\ (Kept(t) \/ Delivered(t))
  BY <1>f, <1>6, AttemptEffect DEF Get
<1>7. ASSUME NEW g \in Getters, Resume(g)
      PROVE  /\ StreamSequence <= StreamSequence' /\ (Kept(t) \/ Delivered(t))
  <2>1. getter[g].on \in Subscriptions /\ sub[getter[g].on].phase # "none"
    BY <1>7 DEF Resume, CoreInv, GetterShape
  <2> QED BY <1>f, <1>7, <2>1, AttemptEffect DEF Resume
<1> QED BY <1>1, <1>2, <1>3, <1>4, <1>5, <1>6, <1>7 DEF Next

\* After a step, an open subscription has settled no more than was published.
LEMMA SettledPublished ==
  ASSUME CoreInv', NEW t \in Subscriptions, sub'[t].phase = "open"
  PROVE  Settled(sub'[t]) <= StreamSequence'
<1> DEFINE x == Settled(sub'[t])
           l == Len(sub'[t].queue)
           o == Offered(t)'
           n == StreamSequence'
<1>1. x \in Nat /\ l \in Nat /\ n \in Nat
  BY SubscriptionFields DEF CoreInv, TypeOK, StreamSequence
<1>2. x + l = o
  BY DEF CoreInv, Accounting, Accounted
<1>3. o \in {n, n - 1}
  BY DEF Offered
<1> HIDE DEF x, l, o, n
<1>4. x <= n
  BY <1>1, <1>2, <1>3
<1> QED BY <1>4 DEF x, n

\* A step that only keeps t leaves what its deliveries say.
LEMMA KeptLoss ==
  ASSUME CoreInv, CoreInv', NEW t \in Subscriptions, DeliveriesAccounted(t), Kept(t),
         StreamSequence <= StreamSequence'
  PROVE  DeliveriesAccounted(t)'
<1> DEFINE n == StreamSequence
           n1 == StreamSequence'
           d == sub[t].dropped
           d1 == sub'[t].dropped
           x == Settled(sub[t])
           x1 == Settled(sub'[t])
<1>1. /\ n \in Nat /\ n1 \in Nat /\ n <= n1 /\ d \in Nat /\ d1 \in Nat /\ d <= d1
      /\ x \in Nat /\ x1 \in Nat /\ x <= n
  BY SubscriptionFields DEF CoreInv, TypeOK, StreamSequence, Kept, DeliveriesAccounted
<1>2. /\ received'[t] = received[t] /\ sub'[t].joined = sub[t].joined
      /\ sub'[t].delivered = sub[t].delivered
      /\ sub'[t].phase = "none" => sub[t].phase = "none"
  BY DEF Kept
<1>3. x1 <= n1
  <2>1. CASE sub'[t].phase = "open"
    <3>1. Settled(sub'[t]) <= StreamSequence'
      BY <2>1, SettledPublished
    <3> QED BY <3>1
  <2>2. CASE sub'[t].phase # "open"
    <3>1. x1 = x
      BY <1>2, <2>2 DEF Kept, Settled
    <3> HIDE DEF x, x1, n, n1
    <3> QED BY <1>1, <3>1
  <2> QED BY <2>1, <2>2
<1>4. ASSUME NEW i \in 1 .. Len(received[t])
      PROVE  received[t][i].dropped <= d1 /\ received[t][i].sequence <= n1
  <2> DEFINE e == received[t][i].dropped
             f == received[t][i].sequence
  <2>1. e \in Nat /\ f \in Nat /\ e <= d /\ f <= n
    <3>1. received[t][i] \in DeliveryType
      BY DEF CoreInv, TypeOK
    <3> QED BY <3>1 DEF DeliveryType, DeliveriesAccounted
  <2> HIDE DEF d, d1, n, n1, e, f
  <2>2. e <= d1 /\ f <= n1
    BY <1>1, <2>1
  <2> QED BY <2>2 DEF e, f
<1> HIDE DEF d
<1> QED BY <1>2, <1>3, <1>4 DEF DeliveriesAccounted

\* A delivery adds one entry, which says what is still missing.
LEMMA DeliveredLoss ==
  ASSUME CoreInv, NEW t \in Subscriptions, DeliveriesAccounted(t), Delivered(t),
         StreamSequence \in Nat, StreamSequence' \in Nat, StreamSequence <= StreamSequence'
  PROVE  DeliveriesAccounted(t)'
<1> DEFINE n == StreamSequence
           n1 == StreamSequence'
           q == sub[t]
           r == Popped(sub[t])
           k == Len(received[t])
           d == q.dropped
           h == Head(q.queue)
           v == Delivery(q)
<1>1. /\ q \in SubscriptionType /\ received[t] \in Seq(DeliveryType) /\ totals \in Seq(Nat)
      /\ TotalsGrow /\ q.queue # <<>> /\ q.phase = "open"
  BY DEF CoreInv, TypeOK, Delivered
<1>2. Offered(t) \in 0 .. n /\ Offered(t) <= n
  <2>1. lock.op = "publish" => n > 0
    BY DEF CoreInv, LockShape
  <2> QED BY <2>1 DEF Offered
<1>3. Accounted(q, Offered(t))
  BY <1>1 DEF CoreInv, Accounting
<1>4. /\ r.phase = q.phase /\ r.joined = q.joined /\ r.dropped = q.dropped
      /\ r.delivered = q.delivered + 1 /\ Settled(r) = Settled(q) + 1
      /\ h = Settled(q) + 1 /\ h <= Offered(t)
  BY <1>1, <1>2, <1>3, PoppedAccounted
<1>5. v \in DeliveryType /\ v.sequence = h /\ v.dropped = d
  <2>1. h \in Nat
    BY <1>1, <1>2, <1>3, OldestSettles
  <2> QED BY <1>1, <2>1, SubscriptionFields DEF Delivery, DeliveryType
<1>6. received'[t] = Append(received[t], v) /\ sub'[t] = r
  BY DEF Delivered
<1>7. k = q.delivered /\ k \in Nat
  BY <1>1 DEF DeliveriesAccounted
<1>8. /\ Len(received'[t]) = k + 1 /\ received'[t][k + 1] = v
      /\ \A i \in 1 .. k : received'[t][i] = received[t][i]
  BY <1>1, <1>5, <1>6
<1>9. h = q.joined + (k + 1) + d /\ h <= n1
  <2> DEFINE j == q.joined
             x == Settled(q)
             o == Offered(t)
  <2>1. j \in Nat /\ d \in Nat
    BY <1>1, SubscriptionFields
  <2>2. x = j + k + d /\ h = x + 1 /\ h <= o /\ o \in 0 .. n /\ o <= n /\ n <= n1
    BY <1>2, <1>4, <1>7 DEF Settled
  <2> HIDE DEF j, x, o, d, h, k, n, n1
  <2>3. h = j + (k + 1) + d /\ h <= n1
    BY <1>7, <2>1, <2>2 DEF n, n1
  <2> QED BY <2>3 DEF j
<1>10. Len(received'[t]) = sub'[t].delivered /\ Settled(sub'[t]) <= n1
  BY <1>4, <1>6, <1>7, <1>8, <1>9
<1>11. ASSUME NEW i \in 1 .. k
       PROVE  /\ received'[t][i].dropped <= sub'[t].dropped
              /\ received'[t][i].sequence = sub'[t].joined + i + received'[t][i].dropped
              /\ received'[t][i].sequence <= n1
              /\ i > 1 => received'[t][i - 1].dropped <= received'[t][i].dropped
  <2>1. /\ received[t][i].dropped <= q.dropped
        /\ received[t][i].sequence = q.joined + i + received[t][i].dropped
        /\ received[t][i].sequence <= n
        /\ i > 1 => received[t][i - 1].dropped <= received[t][i].dropped
    BY DEF DeliveriesAccounted
  <2>2. received'[t][i] = received[t][i] /\ (i > 1 => received'[t][i - 1] = received[t][i - 1])
    BY <1>7, <1>8
  <2>3. received[t][i].sequence <= n1
    <3> DEFINE f == received[t][i].sequence
    <3>1. received[t][i] \in DeliveryType
      BY <1>1
    <3>2. f \in Nat /\ f <= n
      BY <2>1, <3>1 DEF DeliveryType
    <3> HIDE DEF f, n, n1
    <3>3. f <= n1
      BY <3>2 DEF n, n1
    <3> QED BY <3>3 DEF f
  <2> QED BY <1>4, <1>6, <2>1, <2>2, <2>3
<1>12. /\ v.dropped <= sub'[t].dropped
       /\ v.sequence = sub'[t].joined + (k + 1) + v.dropped
       /\ v.sequence <= n1
       /\ k + 1 > 1 => received'[t][k].dropped <= v.dropped
  <2>1. d \in Nat
    BY <1>1, SubscriptionFields
  <2>2. k + 1 > 1 => received'[t][k].dropped <= d
    <3>1. k + 1 > 1 => k \in 1 .. k
      BY <1>7
    <3> QED BY <1>8, <3>1 DEF DeliveriesAccounted
  <2> HIDE DEF h, k, v
  <2>3. d <= d
    BY <2>1
  <2> QED BY <1>4, <1>5, <1>6, <1>9, <2>2, <2>3
<1>13. \A i \in 1 .. (k + 1) : i \in 1 .. k \/ i = k + 1
  BY <1>7
<1>14. sub'[t].phase # "none"
  BY <1>1, <1>4, <1>6
<1>15. \A i \in 1 .. Len(received'[t]) :
         /\ received'[t][i].dropped <= sub'[t].dropped
         /\ received'[t][i].sequence = sub'[t].joined + i + received'[t][i].dropped
         /\ received'[t][i].sequence <= n1
         /\ i > 1 => received'[t][i - 1].dropped <= received'[t][i].dropped
  <2> SUFFICES ASSUME NEW i \in 1 .. Len(received'[t])
               PROVE  /\ received'[t][i].dropped <= sub'[t].dropped
                      /\ received'[t][i].sequence = sub'[t].joined + i + received'[t][i].dropped
                      /\ received'[t][i].sequence <= n1
                      /\ i > 1 => received'[t][i - 1].dropped <= received'[t][i].dropped
    OBVIOUS
  <2>1. CASE i \in 1 .. k
    BY <1>11, <2>1
  <2>2. CASE i = k + 1
    <3>1. i - 1 = k
      BY <1>7, <2>2
    <3> HIDE DEF k, v, n1
    <3> QED BY <1>8, <1>12, <2>2, <3>1
  <2> QED BY <1>8, <1>13, <2>1, <2>2
<1> HIDE DEF k, v, h, r
<1> QED BY <1>10, <1>14, <1>15 DEF DeliveriesAccounted

\* A new subscription has received nothing.
LEMMA JoinedLoss ==
  ASSUME CoreInv, NEW t \in Subscriptions, DeliveriesAccounted(t), Joined(t),
         StreamSequence \in Nat, StreamSequence' \in Nat, StreamSequence <= StreamSequence'
  PROVE  DeliveriesAccounted(t)'
<1>1. /\ Len(received'[t]) = 0 /\ sub'[t].delivered = 0 /\ sub'[t].dropped = 0
      /\ sub'[t].joined = StreamSequence
  BY DEF DeliveriesAccounted, Joined, FreshSubscription
<1>2. Settled(sub'[t]) = StreamSequence
  BY <1>1 DEF Settled
<1> QED BY <1>1, <1>2 DEF DeliveriesAccounted

LEMMA LossStep == CoreInv /\ CoreInv' /\ LossInv /\ [Next]_vars => LossInv'
<1> SUFFICES ASSUME CoreInv, CoreInv', LossInv, [Next]_vars, NEW t \in Subscriptions
             PROVE  DeliveriesAccounted(t)'
  BY DEF LossInv
<1>1. StreamSequence \in Nat /\ StreamSequence' \in Nat
  BY DEF CoreInv, TypeOK, StreamSequence
<1>2. /\ StreamSequence <= StreamSequence' /\ DeliveriesAccounted(t)
      /\ Kept(t) \/ Joined(t) \/ Delivered(t)
  BY StepEffect DEF LossInv
<1> QED BY <1>1, <1>2, KeptLoss, JoinedLoss, DeliveredLoss

LEMMA LossInit == Init => LossInv
<1> SUFFICES ASSUME Init, NEW t \in Subscriptions PROVE DeliveriesAccounted(t)
  BY DEF LossInv
<1> DEFINE e == [FreshSubscription(0) EXCEPT !.phase = "none"]
<1>1. /\ e.delivered = 0 /\ e.joined = 0 /\ e.dropped = 0 /\ Settled(e) = 0
  BY DEF FreshSubscription, Settled
<1>2. sub[t] = e /\ received[t] = <<>> /\ StreamSequence = 0
  BY DEF Init, StreamSequence
<1> HIDE DEF e
<1> QED BY <1>1, <1>2 DEF DeliveriesAccounted

\* The deliveries of a subscription tell its consumer every packet it lost,
\* whatever the capacity and however publications and reads interleave.
THEOREM LossIsVisibleHolds == Spec => []LossIsVisible
<1>1. LossInv => LossIsVisible
  BY DEF LossInv, DeliveriesAccounted, LossIsVisible
<1> QED BY <1>1, LossInit, LossStep, CoreInvariant, PTL DEF Spec

----------------------------------------------------------------------------
(* Wakeups. *)

Wakened(s) == Asleep(s) # {} => Len(sub[s].queue) <= Cardinality(Notified(s))

\* The four things a step does to the queue of s and to the threads in its get().
QueueEmptied(s) == sub'[s].queue = <<>>

WaitersKept(s) ==
  /\ sub'[s].queue = sub[s].queue
  /\ Asleep(s)' \subseteq Asleep(s)
  /\ Notified(s) \subseteq Notified(s)'

PacketAdded(s) ==
  /\ Len(sub'[s].queue) <= Len(sub[s].queue) + 1
  /\ \/ Asleep(s)' = {}
     \/ /\ Asleep(s) # {}
        /\ \E g \in Getters \ Notified(s) : Notified(s)' = Notified(s) \cup {g}

PacketTaken(s) ==
  /\ sub[s].queue # <<>>
  /\ sub'[s].queue = Tail(sub[s].queue)
  /\ Asleep(s)' \subseteq Asleep(s)
  /\ \E g \in Getters : Notified(s) \ {g} \subseteq Notified(s)'

LEMMA NotifiedFinite ==
  ASSUME NEW s
  PROVE  /\ IsFiniteSet(Notified(s)) /\ IsFiniteSet(Notified(s)')
         /\ Cardinality(Notified(s)) \in Nat /\ Cardinality(Notified(s)') \in Nat
<1>1. Notified(s) \in SUBSET Getters /\ Notified(s)' \in SUBSET Getters
  BY DEF Notified, InGet
<1>2. IsFiniteSet(Notified(s)) /\ IsFiniteSet(Notified(s)')
  BY <1>1, FS_Subset, SubscriptionAssumption
<1> QED BY <1>2, FS_CardinalityType

\* Each of the four keeps sleepers and packets in balance.
LEMMA EffectWakened ==
  ASSUME TypeOK, TypeOK', NEW s \in Subscriptions, Wakened(s),
         QueueEmptied(s) \/ WaitersKept(s) \/ PacketAdded(s) \/ PacketTaken(s)
  PROVE  Wakened(s)'
<1> DEFINE c == Cardinality(Notified(s))
           c1 == Cardinality(Notified(s)')
           l == Len(sub[s].queue)
           l1 == Len(sub'[s].queue)
<1>1. c \in Nat /\ c1 \in Nat /\ l \in Nat /\ l1 \in Nat
  BY NotifiedFinite, SubscriptionFields DEF TypeOK
<1>2. Asleep(s) # {} => l <= c
  BY DEF Wakened
<1>3. sub[s].queue \in Seq(Nat)
  BY SubscriptionFields DEF TypeOK
<1>4. CASE QueueEmptied(s)
  <2>1. l1 = 0
    BY <1>4 DEF QueueEmptied
  <2> HIDE DEF c1, l1
  <2>2. l1 <= c1
    BY <1>1, <2>1
  <2> QED BY <2>2 DEF Wakened, c1, l1
<1>5. CASE WaitersKept(s)
  <2>1. c <= c1 /\ l1 = l /\ (Asleep(s)' # {} => Asleep(s) # {})
    BY <1>5, NotifiedFinite, FS_Subset DEF WaitersKept
  <2> HIDE DEF c, c1, l, l1
  <2>2. Asleep(s)' # {} => l1 <= c1
    BY <1>1, <1>2, <2>1
  <2> QED BY <2>2 DEF Wakened, c1, l1
<1>6. CASE PacketAdded(s)
  <2>1. CASE Asleep(s)' = {}
    BY <2>1 DEF Wakened
  <2>2. CASE /\ Asleep(s) # {}
             /\ \E g \in Getters \ Notified(s) : Notified(s)' = Notified(s) \cup {g}
    <3>1. c1 = c + 1 /\ l1 <= l + 1
      BY <1>6, <2>2, NotifiedFinite, FS_AddElement DEF PacketAdded
    <3> HIDE DEF c, c1, l, l1
    <3>2. l1 <= c1
      BY <1>1, <1>2, <2>2, <3>1
    <3> QED BY <3>2 DEF Wakened, c1, l1
  <2> QED BY <1>6, <2>1, <2>2 DEF PacketAdded
<1>7. CASE PacketTaken(s)
  <2>1. PICK g \in Getters : Notified(s) \ {g} \subseteq Notified(s)'
    BY <1>7 DEF PacketTaken
  <2> DEFINE k == Cardinality(Notified(s) \ {g})
  <2>2. IsFiniteSet(Notified(s) \ {g}) /\ k \in {c, c - 1} /\ k \in Nat
    BY NotifiedFinite, FS_RemoveElement, FS_CardinalityType
  <2>3. k <= c1
    BY <2>1, <2>2, NotifiedFinite, FS_Subset
  <2>4. l1 = l - 1 /\ (Asleep(s)' # {} => Asleep(s) # {})
    BY <1>3, <1>7 DEF PacketTaken
  <2> HIDE DEF c, c1, l, l1, k
  <2>5. Asleep(s)' # {} => l1 <= c1
    BY <1>1, <1>2, <2>2, <2>3, <2>4
  <2> QED BY <2>5 DEF Wakened, c1, l1
<1> QED BY <1>4, <1>5, <1>6, <1>7

\* Who waits is a matter of getter alone.
LEMMA GetterKept ==
  ASSUME getter' = getter, NEW s \in Subscriptions, sub'[s].queue = sub[s].queue
  PROVE  WaitersKept(s)
BY DEF WaitersKept, Asleep, Notified, InGet

\* A notification takes a waiter of s, if there is one.
LEMMA NotifyEffect ==
  ASSUME TypeOK, NEW s \in Subscriptions, Notify(s), NEW t \in Subscriptions
  PROVE  /\ t # s => Asleep(t)' = Asleep(t) /\ Notified(t)' = Notified(t)
         /\ \/ Asleep(s)' = {}
            \/ /\ Asleep(s) # {}
               /\ \E g \in Getters \ Notified(s) : Notified(s)' = Notified(s) \cup {g}
<1>1. CASE Waiters(s) = {} /\ getter' = getter
  BY <1>1 DEF Waiters, Asleep, Notified, InGet
<1>2. ASSUME NEW g \in Waiters(s), getter' = [getter EXCEPT ![g].at = "notified"]
      PROVE  /\ t # s => Asleep(t)' = Asleep(t) /\ Notified(t)' = Notified(t)
             /\ Asleep(s)' \subseteq Asleep(s)
             /\ g \in Getters \ Notified(s) /\ Notified(s)' = Notified(s) \cup {g}
  <2>1. /\ g \in Getters /\ getter[g].on = s /\ getter[g].at \in {"waiting", "expired"}
    BY <1>2 DEF Waiters, InGet
  <2>2. /\ getter'[g].at = "notified" /\ getter'[g].on = s
        /\ \A h \in Getters \ {g} : getter'[h] = getter[h]
    BY <1>2, <2>1 DEF TypeOK, GetterType
  <2>3. t # s => Asleep(t)' = Asleep(t) /\ Notified(t)' = Notified(t)
    BY <2>1, <2>2 DEF Asleep, Notified, InGet
  <2>4. Asleep(s)' \subseteq Asleep(s)
    BY <2>1, <2>2 DEF Asleep, InGet
  <2>5. g \in Getters \ Notified(s) /\ Notified(s)' = Notified(s) \cup {g}
    BY <2>1, <2>2 DEF Notified, InGet
  <2> QED BY <2>3, <2>4, <2>5
<1> QED BY <1>1, <1>2 DEF Notify

LEMMA CloseEffect ==
  ASSUME CoreInv, NEW s \in Subscriptions, CloseFromPublisher(s), NEW t \in Subscriptions
  PROVE  QueueEmptied(t) \/ WaitersKept(t)
<1>1. sub \in [Subscriptions -> SubscriptionType]
  BY DEF CoreInv, TypeOK
<1>2. CASE sub' = sub /\ getter' = getter
  BY <1>2, GetterKept
<1>3. CASE sub' = [sub EXCEPT ![s] = Cleared(@)] /\ NotifyAll(s)
  <2>1. CASE t = s
    BY <1>1, <1>3, <2>1, ClearedFields DEF QueueEmptied
  <2>2. CASE t # s
    <3>1. sub'[t] = sub[t]
      BY <1>1, <1>3, <2>2
    <3>2. Asleep(t)' \subseteq Asleep(t) /\ Notified(t) \subseteq Notified(t)'
      BY <1>3, <2>2 DEF NotifyAll, Waiters, Asleep, Notified, InGet
    <3> QED BY <3>1, <3>2 DEF WaitersKept
  <2> QED BY <2>1, <2>2
<1> QED BY <1>2, <1>3 DEF CloseFromPublisher

\* A getter that is not asleep looks at the queue of s: it empties nothing it
\* was not woken for, and falls asleep only on an empty queue.
LEMMA AttemptWakes ==
  ASSUME CoreInv, NEW g \in Getters, NEW s \in Subscriptions, NEW timed \in BOOLEAN,
         NEW expired, sub[s].phase # "none", Attempt(g, s, timed, expired),
         getter[g].at = "idle" \/ getter[g].on = s, NEW t \in Subscriptions
  PROVE  QueueEmptied(t) \/ WaitersKept(t) \/ PacketTaken(t)
<1>1. /\ sub \in [Subscriptions -> SubscriptionType] /\ getter \in [Getters -> GetterType]
  BY DEF CoreInv, TypeOK
<1>2. /\ \A h \in Getters \ {g} : getter'[h] = getter[h]
      /\ \/ getter'[g].at = "idle"
         \/ /\ getter'[g].on = s /\ sub[s].queue = <<>> /\ sub' = sub
  BY <1>1 DEF Attempt, AtRest
<1>3. sub' = sub \/ sub' = [sub EXCEPT ![s] = Popped(@)]
  BY DEF Attempt
<1>4. CASE t # s
  <2>1. sub'[t] = sub[t]
    BY <1>1, <1>3, <1>4
  <2>2. getter[g].at = "idle" \/ getter[g].on # t
    BY <1>4
  <2>3. Asleep(t)' \subseteq Asleep(t) /\ Notified(t) \subseteq Notified(t)'
    BY <1>2, <1>4, <2>2 DEF Asleep, Notified, InGet
  <2> QED BY <2>1, <2>3 DEF WaitersKept
<1>5. CASE t = s /\ sub[s].queue = <<>>
  <2>1. sub'[s].queue = <<>>
    BY <1>1, <1>5 DEF Attempt
  <2> QED BY <1>5, <2>1 DEF QueueEmptied
<1>6. CASE t = s /\ sub[s].queue # <<>>
  <2>1. sub[s].phase # "closed"
    BY <1>6 DEF CoreInv, QueueShape
  <2>2. sub' = [sub EXCEPT ![s] = Popped(@)] /\ getter'[g].at = "idle"
    BY <1>1, <1>6, <2>1 DEF Attempt, AtRest
  <2>3. sub'[s].queue = Tail(sub[s].queue)
    BY <1>1, <2>2 DEF Popped, SubscriptionType
  <2>4. Asleep(s)' \subseteq Asleep(s) /\ Notified(s) \ {g} \subseteq Notified(s)'
    BY <1>2, <2>2 DEF Asleep, Notified, InGet
  <2> QED BY <1>6, <2>3, <2>4 DEF PacketTaken
<1> QED BY <1>4, <1>5, <1>6

LEMMA StepWakes ==
  ASSUME CoreInv, [Next]_vars, NEW t \in Subscriptions
  PROVE  QueueEmptied(t) \/ WaitersKept(t) \/ PacketAdded(t) \/ PacketTaken(t)
<1>0. /\ sub \in [Subscriptions -> SubscriptionType] /\ getter \in [Getters -> GetterType]
      /\ StreamSequence \in Nat /\ totals \in Seq(Nat)
  BY DEF CoreInv, TypeOK, StreamSequence
<1>1. ASSUME NEW s \in Subscriptions, Subscribe(s) PROVE QueueEmptied(t) \/ WaitersKept(t)
  <2>1. sub' = [sub EXCEPT ![s] = FreshSubscription(StreamSequence)] /\ getter' = getter
    BY <1>1 DEF Subscribe
  <2>2. CASE t = s
    BY <1>0, <2>1, <2>2 DEF QueueEmptied, FreshSubscription
  <2>3. CASE t # s
    <3>1. sub'[t] = sub[t]
      BY <1>0, <2>1, <2>3
    <3> QED BY <2>1, <3>1, GetterKept
  <2> QED BY <2>2, <2>3
<1>2. CASE Publish \/ ClosePublisher \/ UNCHANGED vars
  <2>1. sub' = sub /\ getter' = getter
    BY <1>2 DEF Publish, ClosePublisher, vars
  <2> QED BY <2>1, GetterKept
<1>3. ASSUME NEW s \in Subscriptions, Enqueue(s) PROVE WaitersKept(t) \/ PacketAdded(t)
  <2> DEFINE r == Enqueued(sub[s], StreamSequence)
  <2>1. lock.op = "publish" /\ s \in lock.todo
    BY <1>3 DEF Enqueue
  <2>2. /\ sub[s].phase = "open" /\ StreamSequence \in 1 .. StreamSequence
        /\ Offered(s) = StreamSequence - 1
    BY <1>0, <2>1 DEF CoreInv, LockShape, Offered
  <2>3. sub' = [sub EXCEPT ![s] = r] /\ Notify(s)
    BY <1>3, <2>2 DEF Enqueue
  <2>4. Accounted(sub[s], StreamSequence - 1)
    BY <2>2 DEF CoreInv, Accounting
  <2>5. Len(r.queue) <= Len(sub[s].queue) + 1
    BY <1>0, <2>2, <2>4, EnqueuedAccounted DEF CoreInv
  <2> HIDE DEF r
  <2>6. CASE t = s
    <3>1. sub'[t] = r
      BY <1>0, <2>3, <2>6
    <3> QED BY <2>3, <2>5, <2>6, <3>1, NotifyEffect DEF PacketAdded, CoreInv
  <2>7. CASE t # s
    <3>1. sub'[t] = sub[t]
      BY <1>0, <2>3, <2>7
    <3> QED BY <2>3, <2>7, <3>1, NotifyEffect DEF WaitersKept, CoreInv
  <2> QED BY <2>6, <2>7
<1>4. ASSUME NEW s \in Subscriptions, CloseNext(s) \/ CloseSubscription(s)
      PROVE  QueueEmptied(t) \/ WaitersKept(t)
  BY <1>4, CloseEffect DEF CloseNext, CloseSubscription
<1>5. ASSUME NEW g \in Getters, NEW s \in Subscriptions, NEW timed \in BOOLEAN, Get(g, s, timed)
      PROVE  QueueEmptied(t) \/ WaitersKept(t) \/ PacketTaken(t)
  BY <1>5, AttemptWakes DEF Get
<1>6. ASSUME NEW g \in Getters, Expire(g) PROVE WaitersKept(t)
  <2>1. /\ sub' = sub /\ getter' = [getter EXCEPT ![g].at = "expired"]
        /\ getter[g].at = "waiting"
    BY <1>6 DEF Expire
  <2>2. /\ getter'[g].at = "expired" /\ \A h \in Getters \ {g} : getter'[h] = getter[h]
    BY <1>0, <2>1 DEF GetterType
  <2>3. Asleep(t)' \subseteq Asleep(t) /\ Notified(t) \subseteq Notified(t)'
    BY <2>1, <2>2 DEF Asleep, Notified, InGet
  <2> QED BY <2>1, <2>3 DEF WaitersKept
<1>7. ASSUME NEW g \in Getters, Resume(g)
      PROVE  QueueEmptied(t) \/ WaitersKept(t) \/ PacketTaken(t)
  <2>1. /\ getter[g].on \in Subscriptions /\ sub[getter[g].on].phase # "none"
        /\ getter[g].timed \in BOOLEAN
    BY <1>0, <1>7 DEF Resume, CoreInv, GetterShape, GetterType
  <2> QED BY <1>7, <2>1, AttemptWakes DEF Resume
<1> QED BY <1>1, <1>2, <1>3, <1>4, <1>5, <1>6, <1>7 DEF Next

\* No packet waits for a thread that sleeps, for any number of threads that
\* wait with and without timeouts on any number of subscriptions.
THEOREM NoLostWakeupHolds == Spec => []NoLostWakeup
<1>1. Init => NoLostWakeup
  BY DEF Init, NoLostWakeup, Asleep, InGet, AtRest
<1>2. CoreInv /\ CoreInv' /\ NoLostWakeup /\ [Next]_vars => NoLostWakeup'
  <2> SUFFICES ASSUME CoreInv, CoreInv', NoLostWakeup, [Next]_vars, NEW s \in Subscriptions
               PROVE  Wakened(s)'
    BY DEF NoLostWakeup, Wakened
  <2>1. TypeOK /\ TypeOK' /\ Wakened(s)
    BY DEF CoreInv, NoLostWakeup, Wakened
  <2> QED BY <2>1, StepWakes, EffectWakened
<1> QED BY <1>1, <1>2, CoreInvariant, PTL DEF Spec
=============================================================================
