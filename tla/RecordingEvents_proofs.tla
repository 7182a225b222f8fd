----------------------- MODULE RecordingEvents_proofs -----------------------
(* Proofs about RecordingEvents, for any clients, any capacity of two or    *)
(* more and any number of recordings, stops and other events.               *)
(*                                                                          *)
(* Follows relates what a client read, its queue and the newest event;      *)
(* Knows says that a client that lost nothing will have read the truth once *)
(* it has emptied its queue.  Both are about one subscription and are       *)
(* proved for each operation of the publisher on its own.  Owned adds to    *)
(* RecordingsOwned what the manager knows at each place.                    *)
EXTENDS RecordingEvents, SequenceTheorems, TLAPS

Follows(sub, client, n) ==
  LET q == sub.queue IN
  /\ client = None => q # <<>> /\ q[1].kind = "snapshot"
  /\ \A i \in 1 .. Len(q) : q[i].kind = "snapshot" => i = 1 /\ client = None
  /\ \A i \in 1 .. Len(q) - 1 : q[i].sequence < q[i + 1].sequence
  /\ q # <<>> => q[Len(q)].sequence = n
  /\ client = None => n + 1 = q[1].sequence + sub.dropped + Len(q)
  /\ client # None =>
       /\ q # <<>> => client.newest < q[1].sequence
       /\ q = <<>> => client.newest = n
       /\ n = client.from + client.got + sub.dropped + Len(q)
       /\ client.newest >= client.from + client.got
       /\ client.gap <=> client.newest > client.from + client.got

Knows(sub, client, shown) ==
  LET q == sub.queue IN
  sub.dropped = 0 =>
    \/ \E i \in 1 .. Len(q) :
         /\ q[i].kind # "other" /\ q[i].says = shown
         /\ \A j \in i + 1 .. Len(q) : q[j].kind = "other"
    \/ /\ client # None /\ client.believes = shown
       /\ \A j \in 1 .. Len(q) : q[j].kind = "other"

Held(sub) == sub \in SubscriptionType /\ Len(sub.queue) <= QueueCapacity

(* What get() does to one subscription and its client.                      *)
Read(sub) == [sub EXCEPT !.queue = Tail(@)]
Learned(client, event) == Informed(client, event, {"recording"})

---------------------------------------------------------------------------
(* One subscription. *)

(* A queue with room takes the event; a full one loses its first or, behind *)
(* a snapshot, its second.                                                  *)
LEMMA EnqueuedQueue ==
  ASSUME NEW sub, Held(sub), NEW event \in EventType, sub.queue # <<>>
  PROVE  LET r == Enqueued(sub, event)
             q == sub.queue IN
         /\ Held(r)
         /\ r.queue[Len(r.queue)] = event
         /\ Len(q) < QueueCapacity =>
              /\ r.dropped = sub.dropped /\ Len(r.queue) = Len(q) + 1
              /\ \A i \in 1 .. Len(q) : r.queue[i] = q[i]
         /\ Len(q) >= QueueCapacity =>
              /\ r.dropped = sub.dropped + 1 /\ Len(r.queue) = Len(q)
              /\ q[1].kind = "snapshot" => r.queue[1] = q[1]
              /\ \A i \in 1 .. Len(q) - 1 :
                    (q[1].kind = "snapshot" /\ i = 1) \/ r.queue[i] = q[i + 1]
<1> DEFINE q == sub.queue
           kept == IF q[1].kind = "snapshot"
                   THEN <<q[1]>> \o SubSeq(q, 3, Len(q)) ELSE Tail(q)
           r == Enqueued(sub, event)
<1>1. /\ q \in Seq(EventType) /\ sub.dropped \in Nat /\ Len(q) \in Nat \ {0}
      /\ sub = [queue |-> q, dropped |-> sub.dropped] /\ QueueCapacity \in Nat
      /\ QueueCapacity >= 2 /\ Len(q) <= QueueCapacity
  BY CapacityAssumption DEF Held, SubscriptionType
<1>2. CASE Len(q) < QueueCapacity
  <2>1. r = [queue |-> Append(q, event), dropped |-> sub.dropped]
    BY <1>1, <1>2 DEF Enqueued
  <2>2. Append(q, event) \in Seq(EventType) /\ Len(Append(q, event)) = Len(q) + 1
    BY <1>1
  <2>3. /\ Append(q, event)[Len(q) + 1] = event
        /\ \A i \in 1 .. Len(q) : Append(q, event)[i] = q[i]
    BY <1>1
  <2> HIDE DEF q, r
  <2>4. Held(r)
    BY <2>1, <2>2, <1>1, <1>2 DEF Held, SubscriptionType
  <2> QED  BY <2>1, <2>2, <2>3, <2>4, <1>1, <1>2 DEF q, r
<1>3. CASE Len(q) >= QueueCapacity
  <2>1. r = [queue |-> Append(kept, event), dropped |-> sub.dropped + 1]
    BY <1>1, <1>3 DEF Enqueued
  <2>2. /\ kept \in Seq(EventType) /\ Len(kept) = Len(q) - 1
        /\ q[1].kind = "snapshot" => kept[1] = q[1]
        /\ \A i \in 1 .. Len(q) - 1 :
              (q[1].kind = "snapshot" /\ i = 1) \/ kept[i] = q[i + 1]
    <3>1. CASE q[1].kind = "snapshot"
      <4>1. q[1] \in EventType /\ Len(q) >= 2
        BY <1>1, <1>3
      <4>2. /\ SubSeq(q, 3, Len(q)) \in Seq(EventType)
            /\ Len(SubSeq(q, 3, Len(q))) = Len(q) - 2
            /\ \A i \in 1 .. Len(q) - 2 : SubSeq(q, 3, Len(q))[i] = q[i + 2]
        <5>1. \A i \in 3 .. Len(q) : q[i] \in EventType
          BY <1>1, ElementOfSeq
        <5>2. Len(q) \in Int /\ 3 \in Int /\ Len(q) - 3 + 1 = Len(q) - 2
              /\ \A i \in 1 .. Len(q) - 2 : 3 + i - 1 = i + 2
          BY <1>1
        <5> HIDE DEF q
        <5>3. /\ SubSeq(q, 3, Len(q)) \in Seq(EventType)
              /\ Len(SubSeq(q, 3, Len(q))) = IF 3 <= Len(q) THEN Len(q) - 3 + 1 ELSE 0
              /\ \A i \in 1 .. Len(q) - 3 + 1 : SubSeq(q, 3, Len(q))[i] = q[3 + i - 1]
          BY <5>1, <5>2, SubSeqProperties
        <5> QED  BY <5>2, <5>3, <4>1, <1>1
      <4>3. <<q[1]>> \in Seq(EventType) /\ Len(<<q[1]>>) = 1 /\ <<q[1]>>[1] = q[1]
        BY <4>1
      <4>4. kept = <<q[1]>> \o SubSeq(q, 3, Len(q))
        BY <3>1
      <4> HIDE DEF kept
      <4>5. /\ kept \in Seq(EventType) /\ Len(kept) = Len(q) - 1 /\ kept[1] = q[1]
            /\ \A i \in 2 .. Len(q) - 1 : kept[i] = SubSeq(q, 3, Len(q))[i - 1]
        BY <4>2, <4>3, <4>4, <1>1, <4>1
      <4>6. ASSUME NEW i \in 2 .. Len(q) - 1 PROVE kept[i] = q[i + 1]
        <5>1. i - 1 \in 1 .. Len(q) - 2 /\ (i - 1) + 2 = i + 1
          BY <1>1
        <5>2. SubSeq(q, 3, Len(q))[i - 1] = q[(i - 1) + 2]
          BY <5>1, <4>2
        <5> QED  BY <4>5, <5>1, <5>2
      <4> QED  BY <4>5, <4>6, <3>1, <1>1
    <3>2. CASE q[1].kind # "snapshot"
      BY <3>2, <1>1
    <3> QED  BY <3>1, <3>2
  <2>3. /\ Append(kept, event) \in Seq(EventType)
        /\ Len(Append(kept, event)) = Len(q)
        /\ Append(kept, event)[Len(q)] = event
        /\ \A i \in 1 .. Len(q) - 1 : Append(kept, event)[i] = kept[i]
    <3> HIDE DEF kept
    <3> QED  BY <2>2, <1>1
  <2> HIDE DEF q, r, kept
  <2>4. Held(r)
    BY <2>1, <2>3, <1>1, <1>3 DEF Held, SubscriptionType
  <2>5. 1 \in 1 .. Len(q) - 1
    BY <1>1, <1>3
  <2> QED  BY <2>1, <2>2, <2>3, <2>4, <2>5, <1>1, <1>3 DEF q, r
<1> QED  BY <1>1, <1>2, <1>3

LEMMA EnqueuedEmpty ==
  ASSUME NEW sub, Held(sub), NEW event \in EventType, sub.queue = <<>>
  PROVE  /\ Held(Enqueued(sub, event))
         /\ Enqueued(sub, event).queue = <<event>>
         /\ Enqueued(sub, event).dropped = sub.dropped
<1>1. Len(sub.queue) = 0 /\ Len(sub.queue) < QueueCapacity
  BY CapacityAssumption
<1>2. Append(sub.queue, event) = <<event>> /\ <<event>> \in Seq(EventType)
      /\ Len(<<event>>) = 1
  OBVIOUS
<1>3. Enqueued(sub, event) = [queue |-> <<event>>, dropped |-> sub.dropped]
  BY <1>1, <1>2 DEF Enqueued, Held, SubscriptionType
<1> QED  BY <1>1, <1>2, <1>3, CapacityAssumption DEF Held, SubscriptionType

(* Publishing keeps a client's account of its losses...                     *)
LEMMA FollowsEnqueued ==
  ASSUME NEW sub, Held(sub), NEW client \in ClientType \union {None},
         NEW n \in Nat, Follows(sub, client, n),
         NEW event \in EventType, event.sequence = n + 1,
         event.kind # "snapshot"
  PROVE  Held(Enqueued(sub, event)) /\ Follows(Enqueued(sub, event), client, n + 1)
<1> DEFINE q == sub.queue
           r == Enqueued(sub, event)
<1>1. /\ q \in Seq(EventType) /\ sub.dropped \in Nat /\ Len(q) \in Nat
      /\ QueueCapacity \in Nat /\ QueueCapacity >= 2 /\ Len(q) <= QueueCapacity
      /\ \A i \in 1 .. Len(q) : q[i] \in EventType /\ q[i].sequence \in Nat
  <2>1. /\ q \in Seq(EventType) /\ sub.dropped \in Nat /\ Len(q) \in Nat
        /\ QueueCapacity \in Nat /\ QueueCapacity >= 2 /\ Len(q) <= QueueCapacity
    BY CapacityAssumption DEF Held, SubscriptionType
  <2>2. \A e \in EventType : e.sequence \in Nat
    BY DEF EventType
  <2> HIDE DEF q
  <2> QED  BY <2>1, <2>2, ElementOfSeq
<1>2. client # None => /\ client.newest \in Nat /\ client.from \in Nat
                       /\ client.got \in Nat
  BY DEF ClientType
<1>3. CASE q = <<>>
  <2>1. Held(r) /\ r.queue = <<event>> /\ r.dropped = sub.dropped /\ client # None
    BY <1>3, EnqueuedEmpty DEF Follows
  <2>2. Len(r.queue) = 1 /\ r.queue[1] = event /\ r.queue # <<>> /\ Len(q) = 0
    BY <2>1, <1>3
  <2> HIDE DEF r
  <2> QED  BY <2>1, <2>2, <1>1, <1>2, <1>3 DEF Follows, r
<1>4. CASE q # <<>> /\ Len(q) < QueueCapacity
  <2>1. /\ Held(r) /\ r.dropped = sub.dropped /\ Len(r.queue) = Len(q) + 1
        /\ r.queue[Len(q) + 1] = event
        /\ \A i \in 1 .. Len(q) : r.queue[i] = q[i]
    BY <1>1, <1>4, EnqueuedQueue
  <2>2. Len(q) >= 1 /\ r.queue # <<>> /\ r.queue[1] = q[1]
    BY <2>1, <1>1, <1>4 DEF Held, SubscriptionType
  <2> HIDE DEF r, q
  <2>3. ASSUME NEW i \in 1 .. Len(r.queue) - 1
        PROVE  r.queue[i].sequence < r.queue[i + 1].sequence
    <3>1. CASE i < Len(q)
      <4>1. /\ i \in 1 .. Len(q) - 1 /\ i \in 1 .. Len(q) /\ i + 1 \in 1 .. Len(q)
        BY <3>1, <1>1
      <4> QED  BY <4>1, <2>1 DEF Follows, q
    <3>2. CASE i = Len(q)
      <4>1. i \in 1 .. Len(q) /\ q[i].sequence = n
        BY <3>2, <2>2, <1>1, <1>4 DEF Follows, q
      <4> QED  BY <3>2, <4>1, <2>1
    <3> QED  BY <3>1, <3>2, <2>1, <1>1
  <2>4. ASSUME NEW i \in 1 .. Len(r.queue), r.queue[i].kind = "snapshot"
        PROVE  i = 1 /\ client = None
    <3>1. i # Len(q) + 1
      BY <2>1, <2>4
    <3>2. i \in 1 .. Len(q) /\ q[i].kind = "snapshot"
      BY <2>1, <2>4, <3>1, <1>1
    <3> QED  BY <3>2 DEF Follows, q
  <2>5. client = None => r.queue[1].kind = "snapshot"
    BY <2>2 DEF Follows, q
  <2>6. r.queue[Len(r.queue)].sequence = n + 1
    BY <2>1
  <2>7. client = None => (n + 1) + 1 = r.queue[1].sequence + r.dropped + Len(r.queue)
    <3>1. client = None => n + 1 = q[1].sequence + sub.dropped + Len(q)
      BY DEF Follows, q
    <3>2. q[1].sequence \in Nat
      BY <2>2, <1>1
    <3>3. /\ sub.dropped \in Nat /\ Len(q) \in Nat /\ r.dropped = sub.dropped
          /\ Len(r.queue) = Len(q) + 1 /\ r.queue[1].sequence = q[1].sequence
      BY <2>1, <2>2, <1>1
    <3> QED  BY <3>1, <3>2, <3>3
  <2>8. ASSUME client # None
        PROVE  /\ client.newest < r.queue[1].sequence
               /\ n + 1 = client.from + client.got + r.dropped + Len(r.queue)
    <3>1. /\ client.newest < q[1].sequence
          /\ n = client.from + client.got + sub.dropped + Len(q)
          /\ client.from \in Nat /\ client.got \in Nat
      BY <2>8, <1>2, <1>4 DEF Follows, q
    <3>2. /\ sub.dropped \in Nat /\ Len(q) \in Nat /\ r.dropped = sub.dropped
          /\ Len(r.queue) = Len(q) + 1 /\ r.queue[1].sequence = q[1].sequence
      BY <2>1, <2>2, <1>1
    <3>3. client.newest < r.queue[1].sequence
      BY <3>1, <3>2
    <3>4. n + 1 = client.from + client.got + sub.dropped + (Len(q) + 1)
      <4>1. PICK a \in Nat : a = client.from + client.got + sub.dropped
        BY <3>1, <3>2
      <4>2. n = a + Len(q)
        BY <3>1, <4>1
      <4> QED  BY <3>2, <4>1, <4>2
    <3> QED  BY <3>2, <3>3, <3>4
  <2> QED  BY <2>1, <2>2, <2>3, <2>4, <2>5, <2>6, <2>7, <2>8, <1>4 DEF Follows, r, q
<1>5. CASE q # <<>> /\ Len(q) >= QueueCapacity
  <2>1. /\ Held(r) /\ r.dropped = sub.dropped + 1 /\ Len(r.queue) = Len(q)
        /\ r.queue[Len(q)] = event
        /\ q[1].kind = "snapshot" => r.queue[1] = q[1]
        /\ \A i \in 1 .. Len(q) - 1 :
              (q[1].kind = "snapshot" /\ i = 1) \/ r.queue[i] = q[i + 1]
    BY <1>1, <1>5, EnqueuedQueue
  <2>2. Len(q) >= 2 /\ r.queue # <<>>
    BY <2>1, <1>1, <1>5 DEF Held, SubscriptionType
  <2> HIDE DEF r, q
  <2>3. ASSUME NEW i \in 1 .. Len(r.queue) - 1
        PROVE  r.queue[i].sequence < r.queue[i + 1].sequence
    <3>1. q[i].sequence < q[i + 1].sequence /\ q[i] \in EventType
      BY <2>1, <1>1 DEF Follows, q
    <3>2. r.queue[i] = q[i + 1] \/ (i = 1 /\ r.queue[i] = q[i])
      BY <2>1
    <3>3. CASE i + 1 < Len(q)
      <4>1. i + 1 \in 1 .. Len(q) - 1 /\ (i + 1) + 1 \in 1 .. Len(q) /\ i + 1 # 1
            /\ i \in 1 .. Len(q) /\ i + 1 \in 1 .. Len(q)
        BY <3>3, <1>1
      <4>2. q[i + 1].sequence < q[(i + 1) + 1].sequence
        BY <4>1 DEF Follows, q
      <4>3. r.queue[i + 1] = q[(i + 1) + 1]
        BY <4>1, <2>1
      <4>4. /\ q[i].sequence \in Nat /\ q[i + 1].sequence \in Nat
            /\ q[(i + 1) + 1].sequence \in Nat
        BY <4>1, <1>1
      <4>5. /\ r.queue[i].sequence \in {q[i].sequence, q[i + 1].sequence}
            /\ r.queue[i + 1].sequence = q[(i + 1) + 1].sequence
        BY <3>2, <4>3
      <4>6. \A a, b, c \in Nat : a < b /\ b < c => a < c
        OBVIOUS
      <4>7. q[i].sequence < q[(i + 1) + 1].sequence
        BY <3>1, <4>2, <4>4, <4>6
      <4> QED  BY <4>2, <4>5, <4>7
    <3>4. CASE i + 1 = Len(q)
      <4>1. i \in 1 .. Len(q) /\ i + 1 \in 1 .. Len(q)
        BY <3>4, <1>1
      <4>2. q[i + 1].sequence = n
        BY <3>4, <1>5 DEF Follows, q
      <4> QED  BY <3>1, <3>2, <3>4, <4>1, <4>2, <2>1, <1>1
    <3> QED  BY <3>3, <3>4, <2>1, <1>1
  <2>4. ASSUME NEW i \in 1 .. Len(r.queue), r.queue[i].kind = "snapshot"
        PROVE  i = 1 /\ client = None
    <3>1. CASE i = Len(q)
      BY <3>1, <2>1, <2>4
    <3>2. CASE i < Len(q) /\ r.queue[i] = q[i + 1]
      <4>1. i + 1 \in 1 .. Len(q) /\ i + 1 # 1
        BY <3>2, <1>1, <2>1
      <4> QED  BY <3>2, <4>1, <2>4 DEF Follows, q
    <3>3. CASE q[1].kind = "snapshot" /\ i = 1
      <4>1. 1 \in 1 .. Len(q)
        BY <2>2, <1>1
      <4> QED  BY <3>3, <4>1 DEF Follows, q
    <3> QED  BY <3>1, <3>2, <3>3, <2>1, <1>1
  <2>5. client = None => r.queue[1].kind = "snapshot" /\ r.queue[1] = q[1]
    BY <2>1 DEF Follows, q
  <2>6. r.queue[Len(r.queue)].sequence = n + 1
    BY <2>1
  <2>7. client = None => (n + 1) + 1 = r.queue[1].sequence + r.dropped + Len(r.queue)
    <3>1. 1 \in 1 .. Len(q)
      BY <2>2, <1>1
    <3>2. client = None => n + 1 = q[1].sequence + sub.dropped + Len(q)
      BY DEF Follows, q
    <3>3. q[1].sequence \in Nat
      BY <3>1, <1>1
    <3>4. /\ sub.dropped \in Nat /\ Len(q) \in Nat /\ r.dropped = sub.dropped + 1
          /\ Len(r.queue) = Len(q)
      BY <2>1, <1>1
    <3>5. client = None => r.queue[1].sequence = q[1].sequence
      BY <2>5
    <3>6. client = None => (n + 1) + 1 = q[1].sequence + (sub.dropped + 1) + Len(q)
      BY <3>2, <3>3, <3>4
    <3> QED  BY <3>4, <3>5, <3>6
  <2>8. ASSUME client # None
        PROVE  /\ client.newest < r.queue[1].sequence
               /\ n + 1 = client.from + client.got + r.dropped + Len(r.queue)
    <3>1. 1 \in 1 .. Len(q) /\ 1 \in 1 .. Len(q) - 1 /\ 1 + 1 \in 1 .. Len(q) /\ 1 + 1 = 2
      BY <2>2, <1>1
    <3>2. q[1].kind # "snapshot"
      BY <3>1, <2>8 DEF Follows, q
    <3>3. r.queue[1] = q[1 + 1] /\ q[1].sequence < q[1 + 1].sequence
      BY <3>1, <3>2, <2>1 DEF Follows, q
    <3>4. client.newest < q[1].sequence
      BY <2>8, <1>5 DEF Follows, q
    <3>5. n + 1 = client.from + client.got + r.dropped + Len(r.queue)
      <4>1. n = client.from + client.got + sub.dropped + Len(q)
        BY <2>8 DEF Follows, q
      <4> QED  BY <4>1, <2>1, <2>8, <1>1, <1>2
    <3> QED  BY <3>1, <3>3, <3>4, <3>5, <2>8, <1>1, <1>2
  <2> QED  BY <2>1, <2>2, <2>3, <2>4, <2>5, <2>6, <2>7, <2>8, <1>5 DEF Follows, r, q
<1> QED  BY <1>3, <1>4, <1>5, <1>1

(* ... and what it will believe: an event of another kind changes nothing,  *)
(* one of the manager's says what is true.                                  *)
LEMMA KnowsEnqueued ==
  ASSUME NEW sub, Held(sub), NEW client \in ClientType \union {None},
         NEW n, Follows(sub, client, n), NEW event \in EventType, NEW shown,
         \/ event.kind = "other" /\ Knows(sub, client, shown)
         \/ event.kind = "recording" /\ event.says = shown
  PROVE  Knows(Enqueued(sub, event), client, shown)
<1> DEFINE q == sub.queue
           r == Enqueued(sub, event)
<1>1. q \in Seq(EventType) /\ Len(q) \in Nat /\ sub.dropped \in Nat
  BY DEF Held, SubscriptionType
<1>2. r.dropped = 0 =>
        /\ sub.dropped = 0 /\ Len(r.queue) = Len(q) + 1
        /\ r.queue[Len(q) + 1] = event /\ \A i \in 1 .. Len(q) : r.queue[i] = q[i]
  <2>1. CASE q = <<>>
    <3>1. r.queue = <<event>> /\ r.dropped = sub.dropped /\ Len(q) = 0
      BY <2>1, EnqueuedEmpty
    <3> QED  BY <3>1
  <2>2. CASE q # <<>> /\ Len(q) < QueueCapacity
    BY <2>2, EnqueuedQueue
  <2>3. CASE q # <<>> /\ Len(q) >= QueueCapacity
    <3>1. r.dropped = sub.dropped + 1
      BY <2>3, EnqueuedQueue
    <3> QED  BY <3>1, <1>1
  <2> QED  BY <2>1, <2>2, <2>3, <1>1, CapacityAssumption
<1> HIDE DEF q, r
<1>3. CASE event.kind = "recording" /\ event.says = shown
  <2>1. r.dropped = 0 =>
          /\ Len(q) + 1 \in 1 .. Len(r.queue)
          /\ \A j \in (Len(q) + 1) + 1 .. Len(r.queue) : r.queue[j].kind = "other"
    BY <1>1, <1>2
  <2> QED  BY <2>1, <1>2, <1>3 DEF Knows, r
<1>4. CASE event.kind = "other" /\ Knows(sub, client, shown)
  <2> SUFFICES ASSUME r.dropped = 0 PROVE Knows(r, client, shown)
    BY DEF Knows, r
  <2>1. CASE \E i \in 1 .. Len(q) :
               /\ q[i].kind # "other" /\ q[i].says = shown
               /\ \A j \in i + 1 .. Len(q) : q[j].kind = "other"
    <3>1. PICK i \in 1 .. Len(q) :
               /\ q[i].kind # "other" /\ q[i].says = shown
               /\ \A j \in i + 1 .. Len(q) : q[j].kind = "other"
      BY <2>1
    <3>2. i \in 1 .. Len(r.queue) /\ r.queue[i] = q[i]
      BY <3>1, <1>1, <1>2
    <3>3. ASSUME NEW j \in i + 1 .. Len(r.queue) PROVE r.queue[j].kind = "other"
      BY <3>1, <1>1, <1>2, <1>4
    <3> QED  BY <3>1, <3>2, <3>3 DEF Knows
  <2>2. CASE /\ client # None /\ client.believes = shown
             /\ \A j \in 1 .. Len(q) : q[j].kind = "other"
    <3>1. ASSUME NEW j \in 1 .. Len(r.queue) PROVE r.queue[j].kind = "other"
      BY <2>2, <1>1, <1>2, <1>4
    <3> QED  BY <3>1, <2>2 DEF Knows
  <2> QED  BY <2>1, <2>2, <1>2, <1>4 DEF Knows, q
<1> QED  BY <1>3, <1>4 DEF r

(* Whoever reads a queue empties it from the front; what it learns is kept  *)
(* as a client.                                                             *)
LEMMA ReadQueue ==
  ASSUME NEW sub, Held(sub), sub.queue # <<>>
  PROVE  LET r == Read(sub)
             q == sub.queue IN
         /\ Held(r) /\ r.dropped = sub.dropped
         /\ Len(q) \in Nat \ {0} /\ Len(r.queue) = Len(q) - 1
         /\ \A i \in 1 .. Len(q) - 1 : r.queue[i] = q[i + 1]
         /\ r.queue = <<>> <=> Len(q) = 1
         /\ Head(q) = q[1] /\ q[1] \in EventType
<1> DEFINE q == sub.queue
<1>1. /\ q \in Seq(EventType) /\ sub = [queue |-> q, dropped |-> sub.dropped]
      /\ sub.dropped \in Nat /\ Len(q) <= QueueCapacity /\ QueueCapacity \in Nat
  BY CapacityAssumption DEF Held, SubscriptionType
<1>2. Read(sub) = [queue |-> Tail(q), dropped |-> sub.dropped]
  BY <1>1 DEF Read
<1>3. q # <<>>
  OBVIOUS
<1> HIDE DEF q
<1>4. /\ Tail(q) \in Seq(EventType) /\ Len(Tail(q)) = Len(q) - 1
      /\ \A i \in 1 .. Len(Tail(q)) : Tail(q)[i] = q[i + 1]
      /\ Len(q) \in Nat \ {0} /\ Head(q) = q[1] /\ q[1] \in EventType
  BY <1>1, <1>3, HeadTailProperties, EmptySeq
<1>5. Tail(q) = <<>> <=> Len(Tail(q)) = 0
  BY <1>4, EmptySeq
<1>6. Held(Read(sub))
  BY <1>1, <1>2, <1>4 DEF Held, SubscriptionType
<1> QED  BY <1>1, <1>2, <1>4, <1>5, <1>6 DEF q

LEMMA InformedType ==
  ASSUME NEW client \in ClientType \union {None}, NEW event \in EventType
  PROVE  /\ Learned(client, event) \in ClientType
         /\ Learned(client, event) # None
<1> SUFFICES Learned(client, event) \in ClientType
  BY NoneAssumption
<1>1. event.sequence \in Nat /\ event.says \in ShownType \union {None}
  BY DEF EventType
<1>2. CASE event.kind = "snapshot"
  BY <1>1, <1>2 DEF Learned, Informed, NewClient, ClientType
<1>3. CASE event.kind # "snapshot" /\ client = None
  BY <1>1, <1>3 DEF Learned, Informed, NewClient, ClientType
<1>4. CASE event.kind # "snapshot" /\ client # None
  <2>1. Learned(client, event) =
          [from |-> client.from, newest |-> event.sequence, got |-> client.got + 1,
           gap |-> (client.gap \/ event.sequence # client.newest + 1),
           believes |-> IF event.kind \in {"recording"} THEN event.says
                        ELSE client.believes]
    BY <1>4 DEF Learned, Informed, ClientType
  <2>2. /\ client.from \in Nat /\ client.got + 1 \in Nat
        /\ client.believes \in ShownType \union {None}
    BY <1>4 DEF ClientType
  <2> QED  BY <1>1, <2>1, <2>2 DEF ClientType
<1> QED  BY <1>2, <1>3, <1>4

LEMMA FollowsRead ==
  ASSUME NEW sub, Held(sub), NEW client \in ClientType \union {None},
         NEW n \in Nat, Follows(sub, client, n), sub.queue # <<>>
  PROVE  Follows(Read(sub), Learned(client, Head(sub.queue)), n)
<1> DEFINE q == sub.queue
           r == Read(sub)
           event == q[1]
           next == Learned(client, event)
<1>1. /\ r.dropped = sub.dropped /\ sub.dropped \in Nat
      /\ Len(q) \in Nat \ {0} /\ Len(r.queue) = Len(q) - 1
      /\ \A i \in 1 .. Len(q) - 1 : r.queue[i] = q[i + 1]
      /\ r.queue = <<>> <=> Len(q) = 1
      /\ Head(q) = event /\ event \in EventType
  BY ReadQueue DEF Held, SubscriptionType
<1>2. next \in ClientType /\ next # None /\ event.sequence \in Nat
  BY <1>1, InformedType DEF EventType
<1>3. /\ \A i \in 1 .. Len(q) : q[i].kind = "snapshot" => i = 1
      /\ \A i \in 1 .. Len(q) - 1 : q[i].sequence < q[i + 1].sequence
      /\ q[Len(q)].sequence = n
  BY DEF Follows
<1>4. 1 \in 1 .. Len(q) /\ (event.kind = "snapshot" <=> client = None)
  BY <1>1 DEF Follows
<1> SUFFICES Follows(r, next, n)
  BY <1>1
<1> HIDE DEF r, q
<1>5. ASSUME NEW i \in 1 .. Len(r.queue) PROVE r.queue[i].kind # "snapshot"
  BY <1>1, <1>3
<1>6. ASSUME NEW i \in 1 .. Len(r.queue) - 1
      PROVE  r.queue[i].sequence < r.queue[i + 1].sequence
  <2>1. i \in 1 .. Len(q) - 1 /\ i + 1 \in 1 .. Len(q) - 1
    BY <1>1
  <2> QED  BY <2>1, <1>1, <1>3
<1>7. r.queue # <<>> => r.queue[Len(r.queue)].sequence = n
  <2>1. Len(q) # 1 => Len(q) - 1 \in 1 .. Len(q) - 1 /\ (Len(q) - 1) + 1 = Len(q)
    BY <1>1
  <2> QED  BY <2>1, <1>1, <1>3
<1>8. next.newest = event.sequence
  BY <1>4 DEF Learned, Informed, NewClient, ClientType
<1>9. r.queue # <<>> => next.newest < r.queue[1].sequence
  <2>1. Len(q) # 1 => 1 \in 1 .. Len(q) - 1 /\ 1 + 1 = 2
    BY <1>1
  <2> QED  BY <2>1, <1>1, <1>3, <1>8
<1>10. r.queue = <<>> => next.newest = n
  BY <1>1, <1>3, <1>8
<1>11. CASE client = None
  <2>1. next = NewClient(event.sequence, event.says)
    BY <1>4, <1>11 DEF Learned, Informed
  <2>2. next.from = event.sequence /\ next.got = 0 /\ next.gap = FALSE
    BY <2>1 DEF NewClient
  <2>3. n + 1 = event.sequence + sub.dropped + Len(q)
    BY <1>11 DEF Follows, q
  <2>4. n = event.sequence + sub.dropped + Len(r.queue)
    <3>1. PICK a \in Nat : a = event.sequence + sub.dropped
      BY <1>1, <1>2
    <3>2. n + 1 = a + Len(q)
      BY <2>3, <3>1
    <3>3. Len(q) \in Nat /\ Len(r.queue) \in Nat /\ Len(q) = Len(r.queue) + 1
      BY <1>1
    <3>4. n = a + Len(r.queue)
      BY <3>2, <3>3
    <3> QED  BY <3>1, <3>4
  <2>5. n = next.from + next.got + r.dropped + Len(r.queue)
    BY <2>2, <2>4, <1>1, <1>2
  <2> QED
    <3> HIDE DEF next
    <3>1. next.newest >= next.from + next.got /\ (next.gap <=> next.newest > next.from + next.got)
      BY <2>2, <1>2, <1>8
    <3> QED  BY <3>1, <2>5, <1>2, <1>5, <1>6, <1>7, <1>9, <1>10 DEF Follows
<1>12. CASE client # None
  <2>1. /\ next.from = client.from /\ next.got = client.got + 1
        /\ next.gap <=> client.gap \/ event.sequence # client.newest + 1
    BY <1>4, <1>12 DEF Learned, Informed, ClientType
  <2>2. /\ client.newest < event.sequence
        /\ n = client.from + client.got + sub.dropped + Len(q)
        /\ client.newest >= client.from + client.got
        /\ client.gap <=> client.newest > client.from + client.got
    BY <1>1, <1>12 DEF Follows, q
  <2>3. client.from \in Nat /\ client.got \in Nat /\ client.newest \in Nat
    BY <1>12 DEF ClientType
  <2>4. n = next.from + next.got + r.dropped + Len(r.queue)
    <3>1. PICK a \in Nat : a = client.from + client.got
      BY <2>3
    <3>2. n = a + sub.dropped + Len(q)
      BY <2>2, <3>1
    <3>3. next.from + next.got = a + 1
      BY <2>1, <2>3, <3>1
    <3>4. PICK b \in Nat : b = a + sub.dropped
      BY <1>1
    <3>5. n = b + Len(q)
      BY <3>2, <3>4
    <3>6. sub.dropped \in Nat /\ (a + 1) + sub.dropped = b + 1
      BY <3>4, <1>1
    <3>7. PICK l \in Nat : l = Len(r.queue) /\ Len(q) = l + 1
      BY <1>1
    <3>8. n = (b + 1) + l
      <4>1. n = b + (l + 1)
        BY <3>5, <3>7
      <4>2. b + (l + 1) = (b + 1) + l
        OBVIOUS
      <4> QED  BY <4>1, <4>2
    <3> QED  BY <3>3, <3>6, <3>7, <3>8, <1>1
  <2>5. /\ next.newest >= next.from + next.got
        /\ next.gap <=> next.newest > next.from + next.got
    <3>1. PICK a \in Nat : a = client.from + client.got
      BY <2>3
    <3>2. next.from + next.got = a + 1
      BY <2>1, <2>3, <3>1
    <3>3. /\ client.newest < event.sequence /\ client.newest >= a
          /\ client.gap <=> client.newest > a
      BY <2>2, <3>1
    <3> QED  BY <3>2, <3>3, <2>1, <2>3, <1>2, <1>8
  <2> QED
    <3> HIDE DEF next
    <3> QED  BY <2>4, <2>5, <1>2, <1>5, <1>6, <1>7, <1>9, <1>10 DEF Follows
<1> QED  BY <1>11, <1>12

LEMMA KnowsRead ==
  ASSUME NEW sub, Held(sub), NEW client \in ClientType \union {None},
         NEW n, Follows(sub, client, n), sub.queue # <<>>,
         NEW shown, Knows(sub, client, shown)
  PROVE  Knows(Read(sub), Learned(client, Head(sub.queue)), shown)
<1> DEFINE q == sub.queue
           r == Read(sub)
           event == q[1]
           next == Learned(client, event)
<1>1. /\ r.dropped = sub.dropped
      /\ Len(q) \in Nat \ {0} /\ Len(r.queue) = Len(q) - 1
      /\ \A i \in 1 .. Len(q) - 1 : r.queue[i] = q[i + 1]
      /\ Head(q) = event /\ event \in EventType /\ 1 \in 1 .. Len(q)
  BY ReadQueue
<1>2. next # None
  BY <1>1, InformedType
<1>3. /\ event.kind \in {"snapshot", "recording", "other"}
      /\ event.kind = "snapshot" <=> client = None
  BY <1>1 DEF Follows, EventType
<1> SUFFICES ASSUME sub.dropped = 0 PROVE Knows(r, next, shown)
  BY <1>1 DEF Knows
<1> HIDE DEF q, r
<1>4. CASE \E i \in 1 .. Len(q) :
             /\ q[i].kind # "other" /\ q[i].says = shown
             /\ \A j \in i + 1 .. Len(q) : q[j].kind = "other"
  <2>1. PICK i \in 1 .. Len(q) :
             /\ q[i].kind # "other" /\ q[i].says = shown
             /\ \A j \in i + 1 .. Len(q) : q[j].kind = "other"
    BY <1>4
  <2>2. CASE i = 1
    <3>1. next.believes = shown
      BY <2>1, <2>2, <1>3 DEF Learned, Informed, NewClient, ClientType
    <3>2. ASSUME NEW j \in 1 .. Len(r.queue) PROVE r.queue[j].kind = "other"
      BY <2>1, <2>2, <1>1
    <3> QED  BY <3>1, <3>2, <1>2 DEF Knows
  <2>3. CASE i # 1
    <3>1. i - 1 \in 1 .. Len(r.queue) /\ (i - 1) + 1 = i
      BY <2>3, <1>1
    <3>2. r.queue[i - 1] = q[i]
      BY <3>1, <1>1
    <3>3. ASSUME NEW j \in (i - 1) + 1 .. Len(r.queue)
          PROVE  r.queue[j].kind = "other"
      <4>1. j \in 1 .. Len(q) - 1 /\ j + 1 \in i + 1 .. Len(q)
        BY <3>1, <1>1
      <4> QED  BY <4>1, <2>1, <1>1
    <3> QED  BY <3>1, <3>2, <3>3, <2>1 DEF Knows
  <2> QED  BY <2>2, <2>3
<1>5. CASE /\ client # None /\ client.believes = shown
           /\ \A j \in 1 .. Len(q) : q[j].kind = "other"
  <2>1. next.believes = shown
    BY <1>1, <1>5 DEF Learned, Informed, ClientType
  <2>2. ASSUME NEW j \in 1 .. Len(r.queue) PROVE r.queue[j].kind = "other"
    BY <1>1, <1>5
  <2> QED  BY <2>1, <2>2, <1>2 DEF Knows
<1> QED  BY <1>4, <1>5 DEF Knows, q

---------------------------------------------------------------------------
(* The invariant: types, what each subscription says, and the manager. *)

StreamTyped ==
  /\ sequence \in Nat /\ streamClosed \in BOOLEAN /\ closed \in BOOLEAN
  /\ subscription \in [Clients -> SubscriptionType \union {None}]
  /\ \A c \in Subscribed : Len(subscription[c].queue) <= QueueCapacity
  /\ seen \in [Clients -> ClientType \union {None}]

ManagerTyped ==
  /\ status \in Statuses /\ at \in Places
  /\ sink \in 0 .. MaxRecordings /\ tried \in 0 .. MaxRecordings
  /\ audio \in [Recordings -> {"absent", "open", "final", "partial"}]
  /\ metadata \subseteq Recordings /\ completed \subseteq Recordings
  /\ managerClosed \in BOOLEAN /\ closing \in BOOLEAN
  /\ stops \in Nat /\ others \in Nat

Followed == \A c \in Subscribed : Follows(subscription[c], seen[c], sequence)

Known ==
  at \notin Telling /\ ~streamClosed =>
    \A c \in Subscribed : Knows(subscription[c], seen[c], Shown)

(* Where the manager is says what it holds: nothing while it starts, the    *)
(* sink while it stops; a sink that is held has a file, and a file that has *)
(* not been tried is not there.                                             *)
Owned ==
  /\ \A n \in Recordings :
       /\ audio[n] = "open" => n = sink \/ (at = "attached" /\ n = tried)
       /\ audio[n] = "final" => n = sink \/ n \in completed
       /\ n \in completed => audio[n] = "final" /\ n \in metadata
       /\ n > tried => audio[n] = "absent"
  /\ sink # 0 => audio[sink] \in {"open", "final"}
  /\ at \in {"tell_starting", "attach"} =>
       status = "starting" /\ sink = 0 /\ tried # 0 /\ audio[tried] = "absent"
  /\ at = "attached" =>
       status = "starting" /\ sink = 0 /\ tried # 0 /\ audio[tried] = "open"
  /\ at = "tell_started" => status \in {"recording", "failed"}
  /\ at \in {"tell_stopping", "detach", "write_metadata", "stopped", "failed"} =>
       status = "stopping" /\ sink # 0
  /\ at \in {"write_metadata", "stopped"} => audio[sink] = "final"
  /\ at = "stopped" => sink \in metadata
  /\ at \in {"idle", "tell_stopped", "close", "tell_closed"} =>
       status \in {"idle", "recording", "stopped", "failed"}
  /\ at \in {"tell_stopped", "close", "tell_closed"} => status # "recording"
  /\ status = "recording" => sink # 0
  /\ sink # 0 => status \in {"recording", "stopping", "failed"}

Inv == StreamTyped /\ ManagerTyped /\ Followed /\ Known /\ Owned

(* The steps of the manager that publish nothing.                           *)
Quietly ==
  \/ StartRecording \/ AttachSink \/ AttachFails \/ RecordStart
  \/ StopRecording \/ CloseManager \/ DetachSink \/ DetachFails
  \/ FinalizesLate \/ WriteMetadata \/ RecordStop \/ RecordClosed

LEMMA ShownTyped == ManagerTyped => Shown \in ShownType
  BY DEF ManagerTyped, Shown, ShownType

LEMMA SubscribedHeld ==
  ASSUME StreamTyped, NEW c \in Subscribed
  PROVE  /\ c \in Clients /\ subscription[c] # None /\ Held(subscription[c])
         /\ seen[c] \in ClientType \union {None}
  BY DEF StreamTyped, Subscribed, Held

(* Manager and stream do not touch each other's variables.                  *)
LEMMA ManagerFrame ==
  ASSUME ManagerTyped, Owned, UNCHANGED managerVars
  PROVE  ManagerTyped' /\ Owned' /\ Shown' = Shown
  BY DEF ManagerTyped, Owned, managerVars, Shown, Recordings

LEMMA StreamFrame ==
  ASSUME StreamTyped, Followed, UNCHANGED streamVars
  PROVE  StreamTyped' /\ Followed' /\ Subscribed' = Subscribed
  BY DEF StreamTyped, Followed, streamVars, Subscribed

(* A manager that changes what it shows is on its way to tell it.           *)
LEMMA QuietlyTyped ==
  ASSUME ManagerTyped, Owned, Quietly
  PROVE  /\ ManagerTyped'
         /\ UNCHANGED streamVars
         /\ at \notin Telling \/ at' = at
         /\ at' \in Telling \/ Shown' = Shown
<1> USE BoundsAssumption DEF ManagerTyped, Telling, Shown, Statuses, Places, Recordings
<1>1. CASE StartRecording
  BY <1>1 DEF StartRecording
<1>2. CASE AttachSink
  BY <1>2 DEF AttachSink
<1>3. CASE AttachFails
  BY <1>3 DEF AttachFails
<1>4. CASE RecordStart
  BY <1>4 DEF RecordStart
<1>5. CASE StopRecording
  BY <1>5 DEF StopRecording
<1>6. CASE CloseManager
  BY <1>6 DEF CloseManager
<1>7. CASE DetachSink
  BY <1>7 DEF DetachSink
<1>8. CASE DetachFails
  BY <1>8 DEF DetachFails
<1>9. CASE FinalizesLate
  BY <1>9 DEF FinalizesLate
<1>10. CASE WriteMetadata
  <2>1. sink \in Recordings
    BY <1>10 DEF WriteMetadata, Owned
  <2> QED  BY <1>10, <2>1 DEF WriteMetadata
<1>11. CASE RecordStop
  <2>1. sink \in Recordings
    BY <1>11 DEF RecordStop, Owned
  <2>2. CASE at = "stopped"
    <3>1. /\ status' = "stopped" /\ sink' = 0 /\ at' = "tell_stopped"
          /\ completed' = completed \union {sink}
          /\ UNCHANGED <<tried, audio, metadata, managerClosed, closing, stops,
                         others, streamVars>>
      BY <1>11, <2>2 DEF RecordStop
    <3>2. completed' \subseteq Recordings
      BY <3>1, <2>1
    <3> QED  BY <3>1, <3>2, <2>2
  <2>3. CASE at = "failed"
    BY <1>11, <2>1, <2>3 DEF RecordStop
  <2> QED  BY <1>11, <2>2, <2>3 DEF RecordStop
<1>12. CASE RecordClosed
  BY <1>12 DEF RecordClosed
<1> QED
  BY <1>1, <1>2, <1>3, <1>4, <1>5, <1>6, <1>7, <1>8, <1>9, <1>10, <1>11, <1>12
  DEF Quietly

LEMMA QuietlyOwned ==
  ASSUME ManagerTyped, Owned, Quietly
  PROVE  Owned'
<1> USE BoundsAssumption DEF ManagerTyped, Owned, Places, Recordings, Statuses
<1>1. CASE StartRecording
  BY <1>1 DEF StartRecording
<1>2. CASE AttachSink
  BY <1>2 DEF AttachSink
<1>3. CASE AttachFails
  BY <1>3 DEF AttachFails
<1>4. CASE RecordStart
  BY <1>4 DEF RecordStart
<1>5. CASE StopRecording
  BY <1>5 DEF StopRecording, NothingToStop
<1>6. CASE CloseManager
  BY <1>6 DEF CloseManager, NothingToStop
<1>7. CASE DetachSink
  BY <1>7 DEF DetachSink
<1>8. CASE DetachFails
  BY <1>8 DEF DetachFails
<1>9. CASE FinalizesLate
  BY <1>9 DEF FinalizesLate
<1>10. CASE WriteMetadata
  BY <1>10 DEF WriteMetadata
<1>11. CASE RecordStop
  BY <1>11 DEF RecordStop
<1>12. CASE RecordClosed
  BY <1>12 DEF RecordClosed
<1> QED
  BY <1>1, <1>2, <1>3, <1>4, <1>5, <1>6, <1>7, <1>8, <1>9, <1>10, <1>11, <1>12
  DEF Quietly

LEMMA QuietlyInv == ASSUME Inv, Quietly PROVE Inv'
<1>1. /\ ManagerTyped' /\ Owned' /\ UNCHANGED streamVars
      /\ at \notin Telling \/ at' = at
      /\ at' \in Telling \/ Shown' = Shown
  BY QuietlyTyped, QuietlyOwned DEF Inv
<1>2. StreamTyped' /\ Followed' /\ Subscribed' = Subscribed
  BY <1>1, StreamFrame DEF Inv
<1>3. Known'
  BY <1>1, <1>2 DEF Inv, Known, streamVars
<1> QED  BY <1>1, <1>2, <1>3 DEF Inv

(* An event for everyone who listens.                                       *)
LEMMA PublishStep ==
  ASSUME StreamTyped, Followed, NEW kind \in {"recording", "other"},
         NEW says \in ShownType \union {None}, Publish(kind, says)
  PROVE  /\ StreamTyped' /\ Followed' /\ Subscribed' = Subscribed
         /\ UNCHANGED <<streamClosed, seen>>
         /\ ~streamClosed => \A c \in Subscribed :
              (\/ kind = "other" /\ Knows(subscription[c], seen[c], Shown)
               \/ kind = "recording" /\ says = Shown)
              => Knows(subscription'[c], seen'[c], Shown)
<1> DEFINE event == Event(sequence + 1, kind, says)
<1>1. CASE streamClosed
  <2>1. UNCHANGED streamVars
    BY <1>1 DEF Publish, streamVars
  <2> QED  BY <1>1, <2>1, StreamFrame DEF streamVars
<1>2. CASE ~streamClosed
  <2>1. /\ sequence' = sequence + 1 /\ UNCHANGED <<streamClosed, closed, seen>>
        /\ subscription' = [c \in Clients |->
              IF subscription[c] = None THEN None
              ELSE Enqueued(subscription[c], event)]
    BY <1>2 DEF Publish
  <2>2. /\ event \in EventType /\ event.sequence = sequence + 1
        /\ event.kind = kind /\ event.kind # "snapshot" /\ event.says = says
        /\ sequence \in Nat
    BY DEF Event, EventType, StreamTyped
  <2> HIDE DEF event
  <2>3. ASSUME NEW c \in Subscribed
        PROVE  /\ subscription'[c] = Enqueued(subscription[c], event)
               /\ subscription'[c] \in SubscriptionType /\ subscription'[c] # None
               /\ Len(subscription'[c].queue) <= QueueCapacity
               /\ Follows(subscription'[c], seen'[c], sequence')
    <3>1. /\ c \in Clients /\ subscription[c] # None /\ Held(subscription[c])
          /\ seen[c] \in ClientType \union {None}
      BY SubscribedHeld
    <3>2. /\ Held(Enqueued(subscription[c], event))
          /\ Follows(Enqueued(subscription[c], event), seen[c], sequence + 1)
      BY <3>1, <2>2, FollowsEnqueued DEF Followed
    <3>3. subscription'[c] = Enqueued(subscription[c], event)
      BY <3>1, <2>1
    <3> QED  BY <3>2, <3>3, <2>1, NoneAssumption DEF Held
  <2>4. Subscribed' = Subscribed
    <3>1. \A c \in Clients : subscription[c] = None => subscription'[c] = None
      BY <2>1
    <3> QED  BY <3>1, <2>3 DEF Subscribed
  <2>5. StreamTyped'
    <3>1. \A c \in Clients : subscription'[c] \in SubscriptionType \union {None}
      BY <2>1, <2>3 DEF Subscribed
    <3>2. subscription' \in [Clients -> SubscriptionType \union {None}]
      BY <3>1, <2>1
    <3> QED  BY <3>2, <2>1, <2>2, <2>3, <2>4 DEF StreamTyped
  <2>6. Followed'
    BY <2>3, <2>4 DEF Followed
  <2>7. ASSUME NEW c \in Subscribed,
               \/ kind = "other" /\ Knows(subscription[c], seen[c], Shown)
               \/ kind = "recording" /\ says = Shown
        PROVE  Knows(subscription'[c], seen'[c], Shown)
    <3>1. /\ Held(subscription[c]) /\ seen[c] \in ClientType \union {None}
          /\ Follows(subscription[c], seen[c], sequence)
      BY SubscribedHeld DEF Followed
    <3>2. \/ event.kind = "other" /\ Knows(subscription[c], seen[c], Shown)
          \/ event.kind = "recording" /\ event.says = Shown
      BY <2>2, <2>7
    <3>3. Knows(Enqueued(subscription[c], event), seen[c], Shown)
      BY <3>1, <3>2, <2>2, KnowsEnqueued
    <3> QED  BY <3>3, <2>1, <2>3
  <2> QED  BY <2>1, <2>4, <2>5, <2>6, <2>7
<1> QED  BY <1>1, <1>2 DEF StreamTyped

LEMMA TellInv == ASSUME Inv, Tell PROVE Inv'
<1>1. /\ Publish("recording", Shown) /\ at \in Telling
      /\ at' = AfterTelling[at] /\ closing' = (closing /\ at # "tell_closed")
      /\ UNCHANGED <<status, sink, tried, audio, metadata, completed, managerClosed,
                     stops, others>>
  BY DEF Tell
<1>2. /\ at = "tell_starting" => at' = "attach"
      /\ at = "tell_started" => at' = "idle"
      /\ at = "tell_stopping" => at' = "detach"
      /\ at = "tell_stopped" => at' \in {"close", "idle"}
      /\ at = "tell_closed" => at' = "idle"
  BY <1>1 DEF AfterTelling
<1>3. ManagerTyped' /\ Owned' /\ Shown' = Shown
  <2>1. ManagerTyped /\ Owned
    BY DEF Inv
  <2>2. ManagerTyped'
    BY <2>1, <1>1, <1>2 DEF ManagerTyped, Places, Telling, Recordings
  <2>3. Owned'
    BY <2>1, <1>1, <1>2 DEF Owned, ManagerTyped, Telling, Recordings
  <2> QED  BY <2>2, <2>3, <1>1 DEF Shown
<1>4. /\ StreamTyped' /\ Followed' /\ Subscribed' = Subscribed
      /\ streamClosed' = streamClosed
      /\ ~streamClosed => \A c \in Subscribed : Knows(subscription'[c], seen'[c], Shown)
  <2>1. StreamTyped /\ Followed /\ Shown \in ShownType
    BY ShownTyped DEF Inv
  <2> QED  BY <2>1, <1>1, PublishStep
<1>5. Known'
  BY <1>3, <1>4 DEF Known
<1> QED  BY <1>3, <1>4, <1>5 DEF Inv

LEMMA PublishOtherInv == ASSUME Inv, PublishOther PROVE Inv'
<1>1. /\ Publish("other", None) /\ others' = others + 1
      /\ UNCHANGED <<status, sink, tried, audio, metadata, completed, managerClosed,
                     at, closing, stops>>
  BY DEF PublishOther
<1>2. ManagerTyped' /\ Owned' /\ Shown' = Shown
  BY <1>1 DEF Inv, ManagerTyped, Owned, Shown, Recordings
<1>3. /\ StreamTyped' /\ Followed' /\ Subscribed' = Subscribed
      /\ streamClosed' = streamClosed
      /\ ~streamClosed => \A c \in Subscribed :
           Knows(subscription[c], seen[c], Shown)
             => Knows(subscription'[c], seen'[c], Shown)
  BY <1>1, PublishStep DEF Inv
<1>4. Known'
  BY <1>1, <1>2, <1>3 DEF Inv, Known
<1> QED  BY <1>2, <1>3, <1>4 DEF Inv

(* A new client's snapshot shows what is true, and every event up to it.    *)
LEMMA SubscribeStep ==
  ASSUME Inv, NEW c \in Clients, Subscribe(c, Shown), Shown' = Shown, at' = at
  PROVE  StreamTyped' /\ Followed' /\ Known'
<1> DEFINE event == Event(sequence, "snapshot", Shown)
           new == [queue |-> <<event>>, dropped |-> 0]
<1>1. /\ subscription' = [subscription EXCEPT ![c] = new]
      /\ seen' = [seen EXCEPT ![c] = None]
      /\ UNCHANGED <<sequence, streamClosed, closed>>
  BY DEF Subscribe
<1>2. StreamTyped
  BY DEF Inv
<1>3. event \in EventType /\ event.sequence = sequence /\ event.kind = "snapshot"
      /\ event.says = Shown
  BY ShownTyped DEF Event, EventType, StreamTyped, Inv
<1> HIDE DEF event
<1>4. /\ new.queue = <<event>> /\ Len(new.queue) = 1 /\ new.queue[1] = event
      /\ new.queue # <<>> /\ new.dropped = 0
  OBVIOUS
<1>5. new \in SubscriptionType /\ new # None /\ Len(new.queue) <= QueueCapacity
  <2>1. <<event>> \in Seq(EventType)
    BY <1>3
  <2>2. new \in SubscriptionType
    BY <2>1 DEF SubscriptionType
  <2>3. new # None
    BY <2>2, NoneAssumption
  <2>4. 1 <= QueueCapacity
    BY CapacityAssumption
  <2> QED  BY <2>2, <2>3, <2>4, <1>4
<1> HIDE DEF new
<1>6. Follows(new, None, sequence)
  BY <1>2, <1>3, <1>4 DEF Follows, StreamTyped
<1>7. Knows(new, None, Shown)
  BY <1>3, <1>4 DEF Knows
<1>8. /\ subscription'[c] = new /\ seen'[c] = None
      /\ \A d \in Clients : d # c => /\ subscription'[d] = subscription[d]
                                      /\ seen'[d] = seen[d]
      /\ Subscribed' = Subscribed \union {c}
  BY <1>1, <1>2, <1>5 DEF StreamTyped, Subscribed
<1>9. StreamTyped'
  BY <1>1, <1>2, <1>5, <1>8 DEF StreamTyped, Subscribed
<1>10. Followed'
  BY <1>1, <1>6, <1>8 DEF Inv, Followed, Subscribed
<1>11. Known'
  BY <1>1, <1>7, <1>8 DEF Inv, Known, Subscribed
<1> QED  BY <1>9, <1>10, <1>11

LEMMA GetStep ==
  ASSUME Inv, NEW c \in Clients, Get(c, {"recording"}), Shown' = Shown, at' = at
  PROVE  StreamTyped' /\ Followed' /\ Known'
<1> DEFINE sub == subscription[c]
           event == Head(sub.queue)
<1>1. /\ c \in Subscribed /\ sub.queue # <<>>
      /\ subscription' = [subscription EXCEPT ![c] = Read(sub)]
      /\ seen' = [seen EXCEPT ![c] = Learned(seen[c], event)]
      /\ UNCHANGED <<sequence, streamClosed, closed>>
  <2>1. /\ subscription[c] # None /\ sub.queue # <<>>
        /\ subscription' = [subscription EXCEPT ![c].queue = Tail(@)]
        /\ UNCHANGED <<sequence, streamClosed, closed>>
    BY DEF Get
  <2>2. subscription \in [Clients -> SubscriptionType \union {None}]
        /\ seen \in [Clients -> ClientType \union {None}]
    BY DEF Inv, StreamTyped
  <2>3. subscription' = [subscription EXCEPT ![c] = Read(sub)]
    BY <2>1, <2>2 DEF Read
  <2>4. seen' = [seen EXCEPT ![c] = Learned(seen[c], event)]
    BY DEF Get, Learned
  <2> QED  BY <2>1, <2>3, <2>4 DEF Subscribed
<1>2. /\ Held(sub) /\ seen[c] \in ClientType \union {None} /\ StreamTyped
      /\ Follows(sub, seen[c], sequence) /\ sequence \in Nat
  BY <1>1, SubscribedHeld DEF Inv, StreamTyped, Followed
<1>3. Held(Read(sub)) /\ event \in EventType
  BY <1>1, <1>2, ReadQueue
<1>4. Learned(seen[c], event) \in ClientType
  BY <1>2, <1>3, InformedType
<1>5. Follows(Read(sub), Learned(seen[c], event), sequence)
  BY <1>1, <1>2, FollowsRead
<1>6. Knows(sub, seen[c], Shown) => Knows(Read(sub), Learned(seen[c], event), Shown)
  BY <1>1, <1>2, KnowsRead
<1> HIDE DEF event, sub
<1>7. /\ subscription'[c] = Read(sub) /\ seen'[c] = Learned(seen[c], event)
      /\ \A d \in Clients : d # c => /\ subscription'[d] = subscription[d]
                                      /\ seen'[d] = seen[d]
  BY <1>1, <1>2 DEF StreamTyped
<1>8. Subscribed' = Subscribed
  BY <1>1, <1>3, <1>7, NoneAssumption DEF Held, Subscribed
<1>9. StreamTyped'
  BY <1>1, <1>2, <1>3, <1>4, <1>7, <1>8 DEF StreamTyped, Subscribed, Held
<1>10. Followed'
  BY <1>1, <1>5, <1>7, <1>8 DEF Inv, Followed, Subscribed
<1>11. Known'
  BY <1>1, <1>6, <1>7, <1>8 DEF Inv, Known, Subscribed, sub
<1> QED  BY <1>9, <1>10, <1>11

LEMMA ListenInv == ASSUME Inv, NEW c \in Clients, Listen(c) PROVE Inv'
<1>1. ManagerTyped' /\ Owned' /\ Shown' = Shown /\ at' = at
  BY ManagerFrame DEF Inv, Listen, managerVars
<1>2. CASE Subscribe(c, Shown)
  BY <1>1, <1>2, SubscribeStep DEF Inv
<1>3. CASE Get(c, {"recording"})
  BY <1>1, <1>3, GetStep DEF Inv
<1>4. CASE Unsubscribe(c)
  <2>1. /\ StreamTyped'
        /\ \A d \in Subscribed' :
             /\ d \in Subscribed
             /\ subscription'[d] = subscription[d] /\ seen'[d] = seen[d]
        /\ UNCHANGED <<sequence, streamClosed>>
    BY <1>4 DEF Inv, StreamTyped, Unsubscribe, Subscribed
  <2> QED  BY <1>1, <2>1 DEF Inv, Followed, Known
<1> QED  BY <1>2, <1>3, <1>4 DEF Listen

LEMMA CloseEventsInv == ASSUME Inv, CloseEvents PROVE Inv'
<1>1. ManagerTyped' /\ Owned' /\ Shown' = Shown /\ at' = at
  BY ManagerFrame DEF Inv, CloseEvents, managerVars
<1>2. CASE CloseStream
  <2>1. StreamTyped' /\ Followed' /\ streamClosed'
    BY <1>2 DEF Inv, StreamTyped, Followed, CloseStream, Subscribed
  <2> QED  BY <1>1, <2>1 DEF Inv, Known
<1>3. CASE ClosePublisher
  <2>1. /\ StreamTyped' /\ Subscribed' = {}
    BY <1>3 DEF Inv, StreamTyped, ClosePublisher, Subscribed
  <2> QED  BY <1>1, <2>1 DEF Inv, Followed, Known
<1> QED  BY <1>2, <1>3 DEF CloseEvents

LEMMA InvInit == Init => Inv
<1> SUFFICES ASSUME Init PROVE Inv
  OBVIOUS
<1>1. StreamTyped /\ Subscribed = {}
  BY DEF Init, InitStream, StreamTyped, Subscribed
<1>2. ManagerTyped
  <2>1. audio \in [Recordings -> {"absent", "open", "final", "partial"}]
    BY DEF Init
  <2>2. 0 \in 0 .. MaxRecordings
    BY BoundsAssumption
  <2> QED  BY <2>1, <2>2 DEF Init, ManagerTyped, Statuses, Places
<1>3. Owned
  BY DEF Init, Owned
<1> QED  BY <1>1, <1>2, <1>3 DEF Inv, Followed, Known

LEMMA InvHolds == Spec => []Inv
<1>1. ASSUME Inv, [Next]_vars PROVE Inv'
  <2>1. CASE Quietly
    BY <1>1, <2>1, QuietlyInv
  <2>2. CASE Tell
    BY <1>1, <2>2, TellInv
  <2>3. CASE PublishOther
    BY <1>1, <2>3, PublishOtherInv
  <2>4. CASE \E c \in Clients : Listen(c)
    BY <1>1, <2>4, ListenInv
  <2>5. CASE CloseEvents
    BY <1>1, <2>5, CloseEventsInv
  <2>6. CASE UNCHANGED vars
    <3>1. UNCHANGED streamVars /\ UNCHANGED managerVars
      BY <2>6 DEF vars
    <3>2. /\ ManagerTyped' /\ Owned' /\ Shown' = Shown /\ StreamTyped' /\ Followed'
          /\ Subscribed' = Subscribed
      BY <1>1, <3>1, ManagerFrame, StreamFrame DEF Inv
    <3> QED  BY <1>1, <3>1, <3>2 DEF Inv, Known, streamVars, managerVars
  <2> QED
    BY <1>1, <2>1, <2>2, <2>3, <2>4, <2>5, <2>6 DEF Next, Quietly
<1> QED  BY <1>1, InvInit, PTL DEF Spec

---------------------------------------------------------------------------
(* The theorems. *)

(* The manager's and the stream's state keep their types; no subscription   *)
(* holds more events than it has room for.                                  *)
THEOREM TypeCorrect == Spec => []TypeOK
<1>1. Inv => TypeOK
  BY DEF Inv, StreamTyped, ManagerTyped, TypeOK
<1> QED  BY <1>1, InvHolds, PTL

(* What Follows says of a subscription is what its client may conclude.     *)
LEMMA FollowsTruth ==
  ASSUME NEW sub, Held(sub), NEW client \in ClientType \union {None},
         NEW n \in Nat, Follows(sub, client, n)
  PROVE  LET unread == Unread(sub)
             started == client # None
             from == IF started THEN client.from ELSE sub.queue[1].sequence
             got == IF started THEN client.got ELSE 0
             newest == IF started THEN client.newest ELSE from IN
         /\ started \/ (sub.queue # <<>> /\ sub.queue[1].kind = "snapshot")
         /\ \A i \in 1 .. Len(unread) :
              /\ unread[i].kind # "snapshot"
              /\ unread[i].sequence
                   > (IF i = 1 THEN newest ELSE unread[i - 1].sequence)
         /\ n = IF unread = <<>> THEN newest ELSE unread[Len(unread)].sequence
         /\ n - from = got + Len(unread) + sub.dropped
         /\ started => (client.gap <=> client.newest - client.from > client.got)
<1> DEFINE q == sub.queue
           unread == Unread(sub)
<1>1. /\ q \in Seq(EventType) /\ sub.dropped \in Nat /\ Len(q) \in Nat
      /\ q # <<>> => Len(q) >= 1
      /\ \A i \in 1 .. Len(q) : q[i].sequence \in Nat
  <2>1. q \in Seq(EventType) /\ sub.dropped \in Nat /\ Len(q) \in Nat
        /\ (q # <<>> => Len(q) >= 1)
    BY DEF Held, SubscriptionType
  <2>2. \A e \in EventType : e.sequence \in Nat
    BY DEF EventType
  <2> HIDE DEF q
  <2> QED  BY <2>1, <2>2, ElementOfSeq
<1>2. CASE client = None
  <2>1. /\ q # <<>> /\ Len(q) >= 1 /\ q[1].kind = "snapshot"
        /\ n + 1 = q[1].sequence + sub.dropped + Len(q)
        /\ q[Len(q)].sequence = n
        /\ \A i \in 1 .. Len(q) : q[i].kind = "snapshot" => i = 1
        /\ \A i \in 1 .. Len(q) - 1 : q[i].sequence < q[i + 1].sequence
    BY <1>1, <1>2 DEF Follows
  <2>2. /\ unread = Tail(q) /\ unread \in Seq(EventType)
        /\ Len(unread) = Len(q) - 1
        /\ \A i \in 1 .. Len(q) - 1 : unread[i] = q[i + 1]
    BY <1>1, <2>1 DEF Unread
  <2>3. unread = <<>> <=> Len(q) = 1
    <3>1. unread = <<>> <=> Len(unread) = 0
      BY <2>2, EmptySeq
    <3>2. Len(unread) = 0 <=> Len(q) = 1
      BY <2>2, <1>1
    <3> QED  BY <3>1, <3>2
  <2> HIDE DEF q, unread
  <2>4. ASSUME NEW i \in 1 .. Len(unread)
        PROVE  /\ unread[i].kind # "snapshot"
               /\ unread[i].sequence
                    > (IF i = 1 THEN q[1].sequence ELSE unread[i - 1].sequence)
    <3>1. /\ i \in 1 .. Len(q) - 1 /\ i \in 1 .. Len(q) /\ i + 1 \in 1 .. Len(q)
          /\ i + 1 # 1
      BY <2>2, <1>1
    <3>2. /\ unread[i] = q[i + 1] /\ q[i].sequence < q[i + 1].sequence
          /\ q[i + 1].kind # "snapshot"
          /\ q[i].sequence \in Nat /\ q[i + 1].sequence \in Nat
      BY <3>1, <2>1, <2>2, <1>1
    <3>3. i # 1 => unread[i - 1] = q[i]
      <4>1. i # 1 => i - 1 \in 1 .. Len(q) - 1 /\ (i - 1) + 1 = i
        BY <3>1, <1>1
      <4> QED  BY <4>1, <2>2
    <3> QED  BY <3>2, <3>3
  <2>5. n = IF unread = <<>> THEN q[1].sequence ELSE unread[Len(unread)].sequence
    <3>1. CASE unread = <<>>
      BY <3>1, <2>1, <2>3
    <3>2. CASE unread # <<>>
      <4>1. Len(q) - 1 \in 1 .. Len(q) - 1 /\ (Len(q) - 1) + 1 = Len(q)
        <5>1. Len(q) # 1 /\ Len(q) >= 1 /\ Len(q) \in Nat
          BY <3>2, <2>1, <2>3, <1>1
        <5>2. \A k \in Nat : k # 1 /\ k >= 1 =>
                 k - 1 \in 1 .. k - 1 /\ (k - 1) + 1 = k
          OBVIOUS
        <5> QED  BY <5>1, <5>2
      <4>2. unread[Len(unread)] = q[Len(q)]
        BY <4>1, <2>2
      <4> QED  BY <3>2, <4>2, <2>1
    <3> QED  BY <3>1, <3>2
  <2>6. n - q[1].sequence = 0 + Len(unread) + sub.dropped
    <3>1. q[1].sequence \in Nat
      BY <2>1, <1>1
    <3>2. sub.dropped \in Nat /\ Len(q) \in Nat /\ Len(q) >= 1
      BY <2>1, <1>1
    <3>3. PICK l \in Nat : Len(q) = l + 1
      <4>1. Len(q) - 1 \in Nat /\ Len(q) = (Len(q) - 1) + 1
        BY <3>2
      <4> QED  BY <4>1
    <3>4. Len(unread) = l
      BY <3>3, <2>2
    <3>5. n + 1 = q[1].sequence + sub.dropped + (l + 1)
      BY <3>3, <2>1
    <3>6. \A a, b \in Nat : n + 1 = a + b + (l + 1) => n - a = 0 + l + b
      BY <3>3
    <3> QED  BY <3>1, <3>2, <3>4, <3>5, <3>6
  <2> QED  BY <1>2, <2>1, <2>4, <2>5, <2>6 DEF q, unread
<1>3. CASE client # None
  <2>1. /\ client.newest \in Nat /\ client.from \in Nat /\ client.got \in Nat
    BY <1>3 DEF ClientType
  <2>2. /\ \A i \in 1 .. Len(q) : q[i].kind # "snapshot"
        /\ \A i \in 1 .. Len(q) - 1 : q[i].sequence < q[i + 1].sequence
        /\ q # <<>> => client.newest < q[1].sequence /\ q[Len(q)].sequence = n
        /\ q = <<>> => client.newest = n
        /\ n = client.from + client.got + sub.dropped + Len(q)
        /\ client.newest >= client.from + client.got
        /\ client.gap <=> client.newest > client.from + client.got
    BY <1>3 DEF Follows
  <2>3. unread = q
    BY <1>1, <2>2 DEF Unread
  <2> HIDE DEF q, unread
  <2>4. ASSUME NEW i \in 1 .. Len(q)
        PROVE  q[i].sequence > (IF i = 1 THEN client.newest ELSE q[i - 1].sequence)
    <3>1. CASE i = 1
      <4>1. q # <<>>
        BY <1>1
      <4> QED  BY <3>1, <4>1, <2>1, <2>2, <1>1
    <3>2. CASE i # 1
      <4>1. i - 1 \in 1 .. Len(q) - 1 /\ (i - 1) + 1 = i /\ i - 1 \in 1 .. Len(q)
        BY <3>2, <1>1
      <4>2. q[i - 1].sequence < q[(i - 1) + 1].sequence /\ q[i - 1].sequence \in Nat
            /\ q[i].sequence \in Nat
        BY <4>1, <2>2, <1>1
      <4> QED  BY <3>2, <4>1, <4>2
    <3> QED  BY <3>1, <3>2
  <2>5. n - client.from = client.got + Len(q) + sub.dropped
    <3>1. \A a, b, d, l \in Nat : n = a + b + d + l => n - a = b + l + d
      OBVIOUS
    <3> QED  BY <3>1, <1>1, <2>1, <2>2
  <2>6. client.gap <=> client.newest - client.from > client.got
    <3>1. \A a, b, d \in Nat : d > a + b <=> d - a > b
      OBVIOUS
    <3> QED  BY <3>1, <2>1, <2>2
  <2> QED  BY <1>3, <2>2, <2>3, <2>4, <2>5, <2>6 DEF q, unread
<1> QED  BY <1>2, <1>3

(* A client that emptied its queue and saw no gap lost nothing.             *)
LEMMA KnowsTruth ==
  ASSUME NEW sub, Held(sub), NEW client \in ClientType, client # None,
         NEW n \in Nat, Follows(sub, client, n), sub.queue = <<>>, ~client.gap,
         NEW shown, Knows(sub, client, shown)
  PROVE  client.believes = shown
<1>1. /\ client.newest \in Nat /\ client.from \in Nat /\ client.got \in Nat
      /\ sub.dropped \in Nat /\ Len(sub.queue) = 0
  BY DEF ClientType, Held, SubscriptionType
<1>2. /\ client.newest = n
      /\ n = client.from + client.got + sub.dropped + 0
      /\ client.newest = client.from + client.got
  BY <1>1 DEF Follows
<1>3. sub.dropped = 0
  BY <1>1, <1>2
<1> QED  BY <1>1, <1>3 DEF Knows

(* A subscriber can tell from sequence numbers alone whether it lost an     *)
(* event, and if it lost none, what it believes of the manager is true.     *)
THEOREM StreamTruthHolds == Spec => []StreamTruth
<1>1. ASSUME Inv, NEW c \in Subscribed
      PROVE  /\ Held(subscription[c]) /\ seen[c] \in ClientType \union {None}
             /\ sequence \in Nat /\ Follows(subscription[c], seen[c], sequence)
  BY <1>1, SubscribedHeld DEF Inv, Followed, StreamTyped
<1>2. Inv => LossIsVisible
  BY <1>1, FollowsTruth DEF LossIsVisible
<1>3. Inv => NoGapKnows
  BY <1>1, KnowsTruth DEF Inv, Known, NoGapKnows
<1> QED  BY <1>2, <1>3, InvHolds, PTL DEF StreamTruth

(* No file is forgotten: one that is still written has its sink held by the *)
(* manager or by the start in progress, a final one is completed with its   *)
(* metadata or still held, and the manager says that it records only while  *)
(* it holds a sink.                                                         *)
THEOREM RecordingsOwnedHolds == Spec => []RecordingsOwned
<1>1. Inv => RecordingsOwned
  BY DEF Inv, Owned, ManagerTyped, RecordingsOwned, Statuses
<1> QED  BY <1>1, InvHolds, PTL
=============================================================================
