------------------------- MODULE PcmuSubscriptions -------------------------
(***************************************************************************)
(* PcmuPublisher and PcmuSubscription (src/sds200/pcmu_subscriptions.py).  *)
(*                                                                         *)
(* One publisher numbers the accepted PCMU packets and hands each to every *)
(* registered subscription.  A subscription is a bounded deque under its   *)
(* own condition variable: a full queue drops its own oldest packet, and   *)
(* any number of threads block in get().  The publisher lock is held over  *)
(* a whole publish() or close(), the condition only over one subscription's*)
(* turn, so getters run between the turns of one publication.              *)
(*                                                                         *)
(* WaterfallPublisher and AnalysisPublisher repeat this code without the   *)
(* byte counters.                                                          *)
(***************************************************************************)
EXTENDS Naturals, Sequences, FiniteSets

CONSTANTS
  Subscriptions,   \* the subscription objects that may be created
  Getters,         \* the threads that call get()
  QueueCapacity,   \* queue_capacity
  MaxSubscribers,  \* max_subscribers
  MaxPayloadBytes, \* max_payload_bytes
  MaxSequence,     \* bound: the publications of one behaviour
  PayloadSizes     \* PayloadSizes[n]: the payload sizes tried for packet n

ASSUME SubscriptionAssumption ==
  /\ QueueCapacity \in Nat \ {0}
  /\ MaxSubscribers \in Nat \ {0}
  /\ MaxPayloadBytes \in Nat \ {0}
  /\ MaxSequence \in Nat
  /\ PayloadSizes \in [1 .. MaxSequence -> SUBSET Nat]
  /\ IsFiniteSet(Getters)

VARIABLES
  closed,     \* the publisher's _closed
  registered, \* the publisher's _subscriptions
  totals,     \* totals[n]: _payload_bytes_published once packet n was accepted;
              \* its length is _stream_sequence and _packets_published
  lock,       \* the publish() or close() that holds the publisher lock, and the
              \* subscriptions whose turn in its loop has not come
  sub,        \* sub[s]: the fields of subscription s
  received,   \* received[s]: the deliveries get() returned, in order
  getter      \* getter[g]: where thread g is inside get()

vars == <<closed, registered, totals, lock, sub, received, getter>>

----------------------------------------------------------------------------
StreamSequence == Len(totals)

TotalBytes(n) == IF n = 0 THEN 0 ELSE totals[n]

\* len(publication.packet.payload) of packet n.
PayloadBytes(n) == TotalBytes(n) - TotalBytes(n - 1)

Idle == [op |-> "none", todo |-> {}]

LockFree == lock = Idle

\* The operation leaves the lock when its loop has served everyone.
Held(op, todo) == IF todo = {} THEN Idle ELSE [op |-> op, todo |-> todo]

\* `joined` is not a field of the code: the stream sequence at subscription.
\* _overflows counts with _packets_dropped, and the two _last_ fields repeat the
\* sequence last popped on each side: they are left out.
FreshSubscription(n) ==
  [phase |-> "open", joined |-> n, queue |-> <<>>, queuedBytes |-> 0,
   delivered |-> 0, deliveredBytes |-> 0, dropped |-> 0, droppedBytes |-> 0]

\* The drop-oldest branch of _enqueue.
WithoutOldest(q) ==
  LET n == Head(q.queue) IN
  [q EXCEPT !.queue = Tail(@),
            !.queuedBytes = @ - PayloadBytes(n),
            !.dropped = @ + 1,
            !.droppedBytes = @ + PayloadBytes(n)]

\* Mutant of MadeRoom: the capacity test is off by one.
MadeRoomLate(q) == IF Len(q.queue) > QueueCapacity THEN WithoutOldest(q) ELSE q

MadeRoom(q) == IF Len(q.queue) >= QueueCapacity THEN WithoutOldest(q) ELSE q

\* Mutant of Enqueued: a full queue refuses the new packet and counts it as dropped.
EnqueuedDropNewest(q, n) ==
  IF Len(q.queue) >= QueueCapacity
  THEN [q EXCEPT !.dropped = @ + 1, !.droppedBytes = @ + PayloadBytes(n)]
  ELSE [q EXCEPT !.queue = Append(@, n), !.queuedBytes = @ + PayloadBytes(n)]

Enqueued(q, n) ==
  LET r == MadeRoom(q) IN
  [r EXCEPT !.queue = Append(@, n), !.queuedBytes = @ + PayloadBytes(n)]

\* Mutant of Popped: the bytes of the newest queued packet leave with the oldest.
PoppedNewestBytes(q) ==
  LET n == q.queue[Len(q.queue)] IN
  [q EXCEPT !.queue = Tail(@),
            !.queuedBytes = @ - PayloadBytes(n),
            !.delivered = @ + 1,
            !.deliveredBytes = @ + PayloadBytes(n)]

\* The branch of get() that returns a delivery.
Popped(q) ==
  LET n == Head(q.queue) IN
  [q EXCEPT !.queue = Tail(@),
            !.queuedBytes = @ - PayloadBytes(n),
            !.delivered = @ + 1,
            !.deliveredBytes = @ + PayloadBytes(n)]

\* The PcmuPacketDelivery built from a subscription about to be popped.
Delivery(q) ==
  [sequence |-> Head(q.queue), dropped |-> q.dropped, droppedBytes |-> q.droppedBytes]

\* Mutant of Cleared: closing leaves the queue behind.
ClearedKeepsQueue(q) == [q EXCEPT !.phase = "closed"]

Cleared(q) == [q EXCEPT !.phase = "closed", !.queue = <<>>, !.queuedBytes = 0]

----------------------------------------------------------------------------
\* threading.Condition: a thread in wait() is in the waiter list until a
\* notification takes it out, also when its timeout has already expired but it
\* has not yet taken the condition's lock back.
AtRest == [at |-> "idle", on |-> "nowhere", timed |-> FALSE]

InGet(s) == {g \in Getters : getter[g].at # "idle" /\ getter[g].on = s}
Waiters(s) == {g \in InGet(s) : getter[g].at \in {"waiting", "expired"}}
Asleep(s) == {g \in InGet(s) : getter[g].at = "waiting"}
Notified(s) == {g \in InGet(s) : getter[g].at = "notified"}

Notify(s) ==
  IF Waiters(s) = {}
  THEN UNCHANGED getter
  ELSE \E g \in Waiters(s) : getter' = [getter EXCEPT ![g].at = "notified"]

NotifyAll(s) ==
  getter' = [g \in Getters |->
               IF g \in Waiters(s) THEN [getter[g] EXCEPT !.at = "notified"] ELSE getter[g]]
----------------------------------------------------------------------------
Init ==
  /\ closed = FALSE
  /\ registered = {}
  /\ totals = <<>>
  /\ lock = Idle
  /\ sub = [s \in Subscriptions |-> [FreshSubscription(0) EXCEPT !.phase = "none"]]
  /\ received = [s \in Subscriptions |-> <<>>]
  /\ getter = [g \in Getters |-> AtRest]

Subscribe(s) ==
  /\ LockFree
  /\ sub[s].phase = "none"
  /\ ~closed
  /\ Cardinality(registered) < MaxSubscribers
  /\ sub' = [sub EXCEPT ![s] = FreshSubscription(StreamSequence)]
  /\ registered' = registered \cup {s}
  /\ UNCHANGED <<closed, totals, lock, received, getter>>

\* publish() up to its loop: the packet has its sequence and is counted.
Publish ==
  /\ LockFree
  /\ ~closed
  /\ StreamSequence < MaxSequence
  /\ \E bytes \in PayloadSizes[StreamSequence + 1] :
       /\ bytes <= MaxPayloadBytes
       /\ totals' = Append(totals, TotalBytes(StreamSequence) + bytes)
  /\ lock' = Held("publish", registered)
  /\ UNCHANGED <<closed, registered, sub, received, getter>>

\* One turn of the loop of publish(): subscription._enqueue(publication).
Enqueue(s) ==
  /\ lock.op = "publish"
  /\ s \in lock.todo
  /\ lock' = Held("publish", lock.todo \ {s})
  /\ IF sub[s].phase = "closed"
     THEN UNCHANGED <<sub, getter>>
     ELSE /\ sub' = [sub EXCEPT ![s] = Enqueued(@, StreamSequence)]
          /\ Notify(s)
  /\ UNCHANGED <<closed, registered, totals, received>>

\* PcmuPublisher.close() up to its loop.
ClosePublisher ==
  /\ LockFree
  /\ ~closed
  /\ closed' = TRUE
  /\ registered' = {}
  /\ lock' = Held("close", registered)
  /\ UNCHANGED <<totals, sub, received, getter>>

\* Mutant of CloseFromPublisher: notify() where notify_all() is needed.
CloseNotifiesOne(s) ==
  IF sub[s].phase = "closed"
  THEN UNCHANGED <<sub, getter>>
  ELSE /\ sub' = [sub EXCEPT ![s] = Cleared(@)]
       /\ Notify(s)

\* _close_from_publisher.
CloseFromPublisher(s) ==
  IF sub[s].phase = "closed"
  THEN UNCHANGED <<sub, getter>>
  ELSE /\ sub' = [sub EXCEPT ![s] = Cleared(@)]
       /\ NotifyAll(s)

\* One turn of the loop of PcmuPublisher.close().
CloseNext(s) ==
  /\ lock.op = "close"
  /\ s \in lock.todo
  /\ lock' = Held("close", lock.todo \ {s})
  /\ CloseFromPublisher(s)
  /\ UNCHANGED <<closed, registered, totals, received>>

\* PcmuSubscription.close(), idempotent.
CloseSubscription(s) ==
  /\ LockFree
  /\ sub[s].phase # "none"
  /\ registered' = registered \ {s}
  /\ CloseFromPublisher(s)
  /\ UNCHANGED <<closed, totals, lock, received>>

\* Mutant of Attempt: a getter whose deadline has passed leaves before it looks
\* at the queue.
AttemptDeadlineFirst(g, s, timed, expired) ==
  \/ /\ timed
     /\ getter' = [getter EXCEPT ![g] = AtRest] /\ UNCHANGED <<sub, received>>
  \/ IF sub[s].phase = "closed"
     THEN getter' = [getter EXCEPT ![g] = AtRest] /\ UNCHANGED <<sub, received>>
     ELSE IF sub[s].queue # <<>>
     THEN /\ received' = [received EXCEPT ![s] = Append(@, Delivery(sub[s]))]
          /\ sub' = [sub EXCEPT ![s] = Popped(@)]
          /\ getter' = [getter EXCEPT ![g] = AtRest]
     ELSE /\ ~expired
          /\ getter' = [getter EXCEPT ![g] = [at |-> "waiting", on |-> s, timed |-> timed]]
          /\ UNCHANGED <<sub, received>>

\* One pass of the loop of get() by a thread that holds the condition of s.
\* Closed beats queued, queued beats the deadline.  Time is not modelled: a
\* timed wait may find its deadline passed whenever it looks.
Attempt(g, s, timed, expired) ==
  IF sub[s].phase = "closed"
  THEN getter' = [getter EXCEPT ![g] = AtRest] /\ UNCHANGED <<sub, received>>
  ELSE IF sub[s].queue # <<>>
  THEN /\ received' = [received EXCEPT ![s] = Append(@, Delivery(sub[s]))]
       /\ sub' = [sub EXCEPT ![s] = Popped(@)]
       /\ getter' = [getter EXCEPT ![g] = AtRest]
  ELSE /\ \/ timed /\ getter' = [getter EXCEPT ![g] = AtRest]
          \/ /\ ~expired
             /\ getter' = [getter EXCEPT ![g] = [at |-> "waiting", on |-> s, timed |-> timed]]
       /\ UNCHANGED <<sub, received>>

Get(g, s, timed) ==
  /\ getter[g].at = "idle"
  /\ sub[s].phase # "none"
  /\ Attempt(g, s, timed, FALSE)
  /\ UNCHANGED <<closed, registered, totals, lock>>

\* The timeout of condition.wait(remaining) elapses.
Expire(g) ==
  /\ getter[g].at = "waiting"
  /\ getter[g].timed
  /\ getter' = [getter EXCEPT ![g].at = "expired"]
  /\ UNCHANGED <<closed, registered, totals, lock, sub, received>>

\* condition.wait() returns with the lock and get() looks again.
Resume(g) ==
  /\ getter[g].at \in {"notified", "expired"}
  /\ Attempt(g, getter[g].on, getter[g].timed, getter[g].at = "expired")
  /\ UNCHANGED <<closed, registered, totals, lock>>

Next ==
  \/ \E s \in Subscriptions : Subscribe(s)
  \/ Publish
  \/ \E s \in Subscriptions : Enqueue(s)
  \/ ClosePublisher
  \/ \E s \in Subscriptions : CloseNext(s)
  \/ \E s \in Subscriptions : CloseSubscription(s)
  \/ \E g \in Getters, s \in Subscriptions, timed \in BOOLEAN : Get(g, s, timed)
  \/ \E g \in Getters : Expire(g)
  \/ \E g \in Getters : Resume(g)

Spec == Init /\ [][Next]_vars

\* A thread that holds the publisher lock finishes its loop, and a thread whose
\* wait() has ended gets the condition's lock: both are ready to run.
Fairness ==
  /\ \A s \in Subscriptions : WF_vars(Enqueue(s)) /\ WF_vars(CloseNext(s))
  /\ \A g \in Getters : WF_vars(Resume(g))

FairSpec == Spec /\ Fairness
----------------------------------------------------------------------------
SubscriptionType ==
  [phase : {"none", "open", "closed"}, joined : Nat, queue : Seq(Nat),
   queuedBytes : Nat, delivered : Nat, deliveredBytes : Nat, dropped : Nat,
   droppedBytes : Nat]

DeliveryType == [sequence : Nat, dropped : Nat, droppedBytes : Nat]

GetterType ==
  [at : {"idle", "waiting", "expired", "notified"},
   on : Subscriptions \cup {"nowhere"}, timed : BOOLEAN]

\* The types of the publisher's, the subscriptions' and the getters' state.
TypeOK ==
  /\ closed \in BOOLEAN
  /\ registered \subseteq Subscriptions
  /\ totals \in Seq(Nat)
  /\ lock \in [op : {"none", "publish", "close"}, todo : SUBSET Subscriptions]
  /\ sub \in [Subscriptions -> SubscriptionType]
  /\ received \in [Subscriptions -> Seq(DeliveryType)]
  /\ getter \in [Getters -> GetterType]

\* The publications s has been offered: all of them, but for the one whose
\* publish() has not reached s.
Offered(s) ==
  IF lock.op = "publish" /\ s \in lock.todo THEN StreamSequence - 1 ELSE StreamSequence

\* The publications a subscription has settled, by its own counters.
Settled(q) == q.joined + q.delivered + q.dropped

\* Counters, byte counters and queue of q agree that it was offered packets up
\* to n: the queue is the unbroken run after the settled ones that ends at n.
Accounted(q, n) ==
  /\ Settled(q) + Len(q.queue) = n
  /\ \A i \in 1 .. Len(q.queue) : q.queue[i] = Settled(q) + i
  /\ Len(q.queue) <= QueueCapacity
  /\ q.queuedBytes = TotalBytes(n) - TotalBytes(Settled(q))
  /\ q.deliveredBytes + q.droppedBytes = TotalBytes(Settled(q)) - TotalBytes(q.joined)

\* While a subscription is open, every packet published since it joined is in
\* exactly one place - delivered, dropped or queued - and the fields that
\* _enqueue() and get() each update agree on which.
Accounting ==
  \A s \in Subscriptions : sub[s].phase = "open" => Accounted(sub[s], Offered(s))

\* A consumer can name every packet it lost from the deliveries alone: the i-th
\* delivery's sequence is where it joined, plus i, plus the cumulative drop
\* count that came with it.  (The counts are read when the packet leaves the
\* queue, not when it entered.)
LossIsVisible ==
  \A s \in Subscriptions : \A i \in 1 .. Len(received[s]) :
    LET d == received[s][i] IN
    /\ d.sequence = sub[s].joined + i + d.dropped
    /\ d.sequence <= StreamSequence
    /\ i > 1 => received[s][i - 1].dropped <= d.dropped

\* A packet never sits in the queue of a subscription while a thread sleeps in
\* get() on it unless enough other threads were woken to take it: a
\* notification absorbed by a getter whose timeout expired is not lost.
NoLostWakeup ==
  \A s \in Subscriptions :
    Asleep(s) # {} => Len(sub[s].queue) <= Cardinality(Notified(s))

\* Closing releases every thread blocked in get(), however many they are and
\* whether or not their get() has a timeout.
CloseReleasesGetters ==
  \A s \in Subscriptions, g \in Getters :
    (sub[s].phase = "closed" /\ g \in InGet(s)) ~> (g \notin InGet(s))

\* The publisher keeps the promise of LossyWindow: the window of s is what its
\* counters and its queue's length say, and what get() returns is what the
\* window's lower edge passes.
Window == INSTANCE LossyWindow WITH
  published <- StreamSequence,
  phase <- [s \in Subscriptions |-> sub[s].phase],
  low <- [s \in Subscriptions |-> Settled(sub[s])],
  high <- [s \in Subscriptions |-> Settled(sub[s]) + Len(sub[s].queue)],
  received <- [s \in Subscriptions |->
                 [i \in 1 .. Len(received[s]) |-> received[s][i].sequence]]

ImplementsLossyWindow == Window!WSpec
=============================================================================
