------------------------ MODULE PcmuRefinement_proofs ------------------------
(***************************************************************************)
(* PcmuSubscriptions implements LossyWindow: every step of the publisher,  *)
(* its subscriptions and the threads in get() is a step of the windows, or *)
(* leaves them as they are.  The counters and the queue of a subscription  *)
(* give its window by Accounting, so the proof needs no invariant beyond   *)
(* those of PcmuSubscriptions_proofs.                                      *)
(***************************************************************************)
EXTENDS PcmuSubscriptions_proofs

\* The windows: what the state of PcmuSubscriptions is mapped to.
Phase == [s \in Subscriptions |-> sub[s].phase]
Low == [s \in Subscriptions |-> Settled(sub[s])]
High == [s \in Subscriptions |-> Settled(sub[s]) + Len(sub[s].queue)]
Told(deliveries) == [i \in 1 .. Len(deliveries) |-> deliveries[i].sequence]
Received == [s \in Subscriptions |-> Told(received[s])]

WindowsKept == UNCHANGED <<StreamSequence, Phase, Low, High, Received>>

\* What a window step does to the window of one subscription and to no other.
Moved(s, phase, low, high, told) ==
  /\ StreamSequence' = StreamSequence
  /\ Phase' = [Phase EXCEPT ![s] = phase]
  /\ Low' = [Low EXCEPT ![s] = low]
  /\ High' = [High EXCEPT ![s] = high]
  /\ Received' = [Received EXCEPT ![s] = told]

----------------------------------------------------------------------------
(* The mapping. *)

\* The names above are those of the INSTANCE.
LEMMA Mapped ==
  /\ Window!WInit <=>
       /\ StreamSequence = 0
       /\ Phase = [s \in Subscriptions |-> "none"]
       /\ Low = [s \in Subscriptions |-> 0]
       /\ High = [s \in Subscriptions |-> 0]
       /\ Received = [s \in Subscriptions |-> <<>>]
  /\ Window!Number <=>
       /\ \A s \in Subscriptions : Phase[s] = "open" => High[s] = StreamSequence
       /\ StreamSequence' = StreamSequence + 1
       /\ UNCHANGED <<Phase, Low, High, Received>>
BY DEF Window!WInit, Window!Number, Phase, Low, High, Told, Received

\* A step that keeps the fields the windows are made of keeps the windows.
LEMMA SameWindows ==
  ASSUME totals' = totals, sub' = sub, received' = received
  PROVE  WindowsKept
BY DEF WindowsKept, StreamSequence, Phase, Low, High, Received, Told, Settled


\* A step that is about s alone moves at most the window of s.
LEMMA OneWindow ==
  ASSUME NEW s \in Subscriptions, totals' = totals,
         \A t \in Subscriptions : t # s => sub'[t] = sub[t] /\ received'[t] = received[t]
  PROVE  Moved(s, sub'[s].phase, Settled(sub'[s]),
               Settled(sub'[s]) + Len(sub'[s].queue), Told(received'[s]))
<1>1. StreamSequence' = StreamSequence
  BY DEF StreamSequence
<1>2. /\ Phase' = [t \in Subscriptions |-> sub'[t].phase]
      /\ Low' = [t \in Subscriptions |-> Settled(sub'[t])]
      /\ High' = [t \in Subscriptions |-> Settled(sub'[t]) + Len(sub'[t].queue)]
      /\ Received' = [t \in Subscriptions |-> Told(received'[t])]
  BY DEF Phase, Low, High, Received, Settled, Told
<1>3. Phase' = [Phase EXCEPT ![s] = sub'[s].phase]
  BY <1>2 DEF Phase
<1>4. Low' = [Low EXCEPT ![s] = Settled(sub'[s])]
  BY <1>2 DEF Low
<1>5. High' = [High EXCEPT ![s] = Settled(sub'[s]) + Len(sub'[s].queue)]
  BY <1>2 DEF High
<1>6. Received' = [Received EXCEPT ![s] = Told(received'[s])]
  BY <1>2 DEF Received
<1> QED BY <1>1, <1>3, <1>4, <1>5, <1>6 DEF Moved

\* Writing what is there already changes nothing.
LEMMA SameEntry ==
  ASSUME NEW s \in Subscriptions
  PROVE  /\ [Phase EXCEPT ![s] = sub[s].phase] = Phase
         /\ [Low EXCEPT ![s] = Settled(sub[s])] = Low
         /\ [High EXCEPT ![s] = Settled(sub[s]) + Len(sub[s].queue)] = High
         /\ [Received EXCEPT ![s] = Told(received[s])] = Received
         /\ Phase[s] = sub[s].phase /\ Low[s] = Settled(sub[s])
         /\ High[s] = Settled(sub[s]) + Len(sub[s].queue)
BY DEF Phase, Low, High, Received

\* The steps of one window.
LEMMA WindowSteps ==
  ASSUME NEW s \in Subscriptions
  PROVE  /\ /\ sub[s].phase = "none"
            /\ Moved(s, "open", StreamSequence, StreamSequence, Told(received[s]))
            => Window!Join(s)
         /\ \A low :
              /\ sub[s].phase = "open" /\ High[s] < StreamSequence
              /\ low = IF High[s] - Low[s] >= QueueCapacity THEN Low[s] + 1 ELSE Low[s]
              /\ Moved(s, "open", low, High[s] + 1, Told(received[s]))
              => Window!Offer(s)
         /\ /\ sub[s].phase = "open" /\ Low[s] < High[s]
            /\ Moved(s, "open", Low[s] + 1, High[s],
                     Append(Told(received[s]), Low[s] + 1))
            => Window!Receive(s)
         /\ /\ sub[s].phase = "open"
            /\ Moved(s, "closed", Low[s], Low[s], Told(received[s]))
            => Window!Leave(s)
<1>1. /\ [Phase EXCEPT ![s] = sub[s].phase] = Phase
      /\ [Low EXCEPT ![s] = Low[s]] = Low
      /\ [High EXCEPT ![s] = High[s]] = High
      /\ [Received EXCEPT ![s] = Told(received[s])] = Received
      /\ Phase[s] = sub[s].phase /\ Received[s] = Told(received[s])
  BY SameEntry DEF Received
<1>2. /\ sub[s].phase = "none"
      /\ Moved(s, "open", StreamSequence, StreamSequence, Told(received[s]))
      => Window!Join(s)
  BY <1>1 DEF Moved, Window!Join, Phase, Low, High, Received, Told
<1>3. ASSUME NEW low, sub[s].phase = "open", High[s] < StreamSequence,
             low = IF High[s] - Low[s] >= QueueCapacity THEN Low[s] + 1 ELSE Low[s],
             Moved(s, "open", low, High[s] + 1, Told(received[s]))
      PROVE  Window!Offer(s)
  BY <1>1, <1>3 DEF Moved, Window!Offer, Phase, Low, High, Received, Told
<1>4. /\ sub[s].phase = "open" /\ Low[s] < High[s]
      /\ Moved(s, "open", Low[s] + 1, High[s],
               Append(Told(received[s]), Low[s] + 1))
      => Window!Receive(s)
  BY <1>1 DEF Moved, Window!Receive, Phase, Low, High, Received, Told
<1>5. /\ sub[s].phase = "open"
      /\ Moved(s, "closed", Low[s], Low[s], Told(received[s]))
      => Window!Leave(s)
  BY <1>1 DEF Moved, Window!Leave, Phase, Low, High, Received, Told
<1> QED BY <1>2, <1>3, <1>4, <1>5

----------------------------------------------------------------------------
(* Every step of the publisher is one of these. *)

WindowStep == WindowsKept \/ Window!WNext

\* A subscription joins at the stream sequence.
LEMMA SubscribeWindow ==
  ASSUME CoreInv, NEW s \in Subscriptions, Subscribe(s) PROVE WindowStep
<1> DEFINE q == FreshSubscription(StreamSequence)
<1>1. /\ sub[s].phase = "none" /\ totals' = totals /\ received' = received
      /\ sub' = [sub EXCEPT ![s] = q]
  BY DEF Subscribe
<1>2. sub \in [Subscriptions -> SubscriptionType] /\ StreamSequence \in Nat
  BY DEF CoreInv, TypeOK, StreamSequence
<1>3. q.phase = "open" /\ Settled(q) = StreamSequence /\ Len(q.queue) = 0
  BY <1>2 DEF FreshSubscription, Settled
<1>4. sub'[s] = q
  BY <1>1, <1>2
<1> HIDE DEF q
<1>5. Moved(s, q.phase, Settled(q), Settled(q) + Len(q.queue), Told(received[s]))
  BY <1>1, <1>2, <1>4, OneWindow
<1>6. Moved(s, "open", StreamSequence, StreamSequence, Told(received[s]))
  BY <1>2, <1>3, <1>5
<1> QED BY <1>1, <1>6, WindowSteps DEF WindowStep, Window!WNext

\* The next publication is numbered when everyone has been offered the last.
LEMMA PublishWindow == ASSUME CoreInv, Publish PROVE WindowStep
<1>1. /\ lock = Idle /\ sub' = sub /\ received' = received
  BY DEF Publish, LockFree
<1>2. StreamSequence' = StreamSequence + 1
  <2>1. PICK bytes \in PayloadSizes[StreamSequence + 1] :
          totals' = Append(totals, TotalBytes(StreamSequence) + bytes)
    BY DEF Publish
  <2>2. /\ totals \in Seq(Nat) /\ StreamSequence \in Nat
        /\ StreamSequence + 1 \in 1 .. MaxSequence
    BY SubscriptionAssumption DEF CoreInv, TypeOK, StreamSequence, Publish
  <2>3. bytes \in Nat
    BY <2>1, <2>2, SubscriptionAssumption
  <2> QED BY <2>1, <2>2, <2>3, TotalsAppended DEF CoreInv
<1>3. ASSUME NEW s \in Subscriptions, Phase[s] = "open" PROVE High[s] = StreamSequence
  <2>1. Offered(s) = StreamSequence /\ sub[s].phase = "open"
    BY <1>1, <1>3, SameEntry DEF Offered, Idle
  <2> QED BY <2>1, SameEntry DEF CoreInv, Accounting, Accounted
<1>4. UNCHANGED <<Phase, Low, High, Received>>
  BY <1>1 DEF Phase, Low, High, Received, Told, Settled
<1> QED BY <1>2, <1>3, <1>4, Mapped DEF WindowStep, Window!WNext

\* A turn of the loop of publish() offers the publication, and only a full
\* queue loses its oldest.
LEMMA EnqueueWindow ==
  ASSUME CoreInv, NEW s \in Subscriptions, Enqueue(s) PROVE WindowStep
<1> DEFINE q == sub[s]
           r == Enqueued(q, StreamSequence)
           n == StreamSequence
           full == Len(q.queue) >= QueueCapacity
<1>1. /\ totals' = totals /\ received' = received
      /\ lock.op = "publish" /\ s \in lock.todo
  BY DEF Enqueue
<1>2. /\ q.phase = "open" /\ n \in Nat /\ n \in 1 .. n /\ Offered(s) = n - 1
      /\ sub \in [Subscriptions -> SubscriptionType] /\ totals \in Seq(Nat)
      /\ TotalsGrow
  BY <1>1 DEF CoreInv, TypeOK, LockShape, StreamSequence, Offered
<1>3. sub' = [sub EXCEPT ![s] = r]
  BY <1>2 DEF Enqueue
<1>4. q \in SubscriptionType /\ Accounted(q, n - 1)
  BY <1>2 DEF CoreInv, Accounting
<1>5. /\ r \in SubscriptionType /\ Accounted(r, n)
      /\ r.phase = "open" /\ r.joined = q.joined /\ r.delivered = q.delivered
      /\ r.dropped = IF full THEN q.dropped + 1 ELSE q.dropped
  BY <1>2, <1>4, EnqueuedAccounted
<1>6. /\ q.joined \in Nat /\ q.delivered \in Nat /\ q.dropped \in Nat
      /\ Len(q.queue) \in Nat /\ Settled(q) \in Nat
  BY <1>4, SubscriptionFields
<1>7. /\ High[s] = n - 1 /\ Low[s] = Settled(q)
      /\ High[s] - Low[s] = Len(q.queue)
  <2>1. High[s] = Settled(q) + Len(q.queue) /\ Low[s] = Settled(q)
    BY SameEntry
  <2>2. Settled(q) + Len(q.queue) = n - 1
    BY <1>4 DEF Accounted
  <2>3. \A a, b \in Nat : (a + b) - a = b
    OBVIOUS
  <2> QED BY <2>1, <2>2, <2>3, <1>6
<1>8. Settled(r) = IF full THEN Settled(q) + 1 ELSE Settled(q)
  <2>1. \A a, b, d \in Nat : a + b + (d + 1) = (a + b + d) + 1
    OBVIOUS
  <2>2. Settled(r) = q.joined + q.delivered + (IF full THEN q.dropped + 1 ELSE q.dropped)
    BY <1>5 DEF Settled
  <2> HIDE DEF r, full, q
  <2> QED BY <1>6, <2>1, <2>2 DEF Settled
<1>9. Settled(r) + Len(r.queue) = n
  BY <1>5 DEF Accounted
<1>10. sub'[s] = r
  BY <1>2, <1>3
<1> HIDE DEF r
<1>11. Moved(s, r.phase, Settled(r), Settled(r) + Len(r.queue), Told(received[s]))
  BY <1>1, <1>2, <1>3, <1>10, OneWindow
<1>12. /\ Moved(s, "open", Settled(r), High[s] + 1, Told(received[s]))
       /\ High[s] < StreamSequence
  <2>1. (n - 1) + 1 = n /\ n - 1 < n
    BY <1>2
  <2> QED BY <2>1, <1>5, <1>7, <1>9, <1>11
<1>13. Settled(r) = IF High[s] - Low[s] >= QueueCapacity THEN Low[s] + 1 ELSE Low[s]
  BY <1>7, <1>8
<1>14. Window!Offer(s)
  BY <1>2, <1>12, <1>13, WindowSteps
<1> QED BY <1>14 DEF WindowStep, Window!WNext

\* Closing discards what is queued; a subscription closed before is not touched.
LEMMA CloseWindow ==
  ASSUME CoreInv, NEW s \in Subscriptions, totals' = totals, received' = received,
         sub[s].phase # "none", CloseFromPublisher(s)
  PROVE  WindowStep
<1> DEFINE r == Cleared(sub[s])
<1>1. CASE sub[s].phase = "closed"
  <2>1. sub' = sub
    BY <1>1 DEF CloseFromPublisher
  <2> QED BY <2>1, SameWindows DEF WindowStep
<1>2. CASE sub[s].phase # "closed"
  <2>1. sub \in [Subscriptions -> SubscriptionType] /\ sub[s] \in SubscriptionType
    BY DEF CoreInv, TypeOK
  <2>2. sub[s].phase = "open" /\ Settled(sub[s]) \in Nat
    BY <1>2, <2>1, SubscriptionFields
  <2>3. sub' = [sub EXCEPT ![s] = r]
    BY <1>2 DEF CloseFromPublisher
  <2>4. r.phase = "closed" /\ Settled(r) = Settled(sub[s]) /\ Len(r.queue) = 0
    BY <2>1 DEF Cleared, Settled, SubscriptionType
  <2>5. sub'[s] = r
    BY <2>1, <2>3
  <2> HIDE DEF r
  <2>6. Moved(s, r.phase, Settled(r), Settled(r) + Len(r.queue), Told(received[s]))
    BY <2>1, <2>3, <2>5, OneWindow
  <2>7. Moved(s, "closed", Low[s], Low[s], Told(received[s]))
    BY <2>2, <2>4, <2>6, SameEntry
  <2> QED BY <2>2, <2>7, WindowSteps DEF WindowStep, Window!WNext
<1> QED BY <1>1, <1>2

LEMMA ToldAppended ==
  ASSUME NEW deliveries \in Seq(DeliveryType), NEW d \in DeliveryType
  PROVE  Told(Append(deliveries, d)) = Append(Told(deliveries), d.sequence)
<1> DEFINE n == Len(deliveries)
<1>1. /\ n \in Nat /\ Len(Append(deliveries, d)) = n + 1
      /\ Append(deliveries, d)[n + 1] = d
      /\ \A i \in 1 .. n : Append(deliveries, d)[i] = deliveries[i]
  OBVIOUS
<1>2. d.sequence \in Nat /\ \A i \in 1 .. n : deliveries[i].sequence \in Nat
  <2>1. \A e \in DeliveryType : e.sequence \in Nat
    BY DEF DeliveryType
  <2> QED BY <2>1, ElementOfSeq
<1>3. Told(deliveries) \in Seq(Nat) /\ Len(Told(deliveries)) = n
  BY <1>1, <1>2 DEF Told
<1>4. Told(Append(deliveries, d)) \in Seq(Nat)
      /\ Len(Told(Append(deliveries, d))) = n + 1
  <2>1. \A i \in 1 .. n + 1 : Append(deliveries, d)[i].sequence \in Nat
    BY <1>1, <1>2
  <2> QED BY <1>1, <2>1 DEF Told
<1>5. ASSUME NEW i \in 1 .. n + 1
      PROVE  Told(Append(deliveries, d))[i] = Append(Told(deliveries), d.sequence)[i]
  <2>1. CASE i \in 1 .. n
    BY <1>1, <1>2, <1>3, <2>1 DEF Told
  <2>2. CASE i = n + 1
    BY <1>1, <1>2, <1>3, <2>2 DEF Told
  <2>3. i \in 1 .. n \/ i = n + 1
    BY <1>1
  <2> QED BY <2>1, <2>2, <2>3
<1>6. /\ Append(Told(deliveries), d.sequence) \in Seq(Nat)
      /\ Len(Append(Told(deliveries), d.sequence)) = n + 1
  BY <1>2, <1>3
<1> QED BY <1>4, <1>5, <1>6, SeqEqual

\* A pass of the loop of get() receives the oldest publication of the window,
\* or leaves the window alone.
LEMMA AttemptWindow ==
  ASSUME CoreInv, NEW g \in Getters, NEW s \in Subscriptions, NEW timed, NEW expired,
         sub[s].phase # "none", totals' = totals, Attempt(g, s, timed, expired)
  PROVE  WindowStep
<1>1. CASE sub' = sub /\ received' = received
  BY <1>1, SameWindows DEF WindowStep
<1>2. CASE /\ sub[s].phase # "closed" /\ sub[s].queue # <<>>
           /\ received' = [received EXCEPT ![s] = Append(@, Delivery(sub[s]))]
           /\ sub' = [sub EXCEPT ![s] = Popped(@)]
  <2> DEFINE q == sub[s]
             r == Popped(q)
             d == Delivery(q)
  <2>1. /\ sub \in [Subscriptions -> SubscriptionType] /\ q \in SubscriptionType
        /\ received \in [Subscriptions -> Seq(DeliveryType)]
        /\ received[s] \in Seq(DeliveryType)
        /\ totals \in Seq(Nat) /\ TotalsGrow /\ StreamSequence \in Nat
    BY DEF CoreInv, TypeOK, StreamSequence
  <2>2. q.phase = "open" /\ Len(q.queue) \in Nat /\ Settled(q) \in Nat
        /\ q.queue \in Seq(Nat) /\ q.dropped \in Nat /\ q.droppedBytes \in Nat
    BY <1>2, <2>1, SubscriptionFields
  <2>3. Offered(s) \in 0 .. StreamSequence
    <3>1. lock.op = "publish" => StreamSequence > 0
      BY DEF CoreInv, LockShape
    <3> QED BY <2>1, <3>1 DEF Offered
  <2>4. Accounted(q, Offered(s))
    BY <2>2 DEF CoreInv, Accounting
  <2>5. /\ r.phase = "open" /\ Len(r.queue) = Len(q.queue) - 1
        /\ Settled(r) = Settled(q) + 1 /\ Head(q.queue) = Settled(q) + 1
    BY <1>2, <2>1, <2>2, <2>3, <2>4, PoppedAccounted
  <2>6. d \in DeliveryType /\ d.sequence = Settled(q) + 1
    BY <2>2, <2>5 DEF Delivery, DeliveryType
  <2>7. sub'[s] = r /\ received'[s] = Append(received[s], d)
    BY <1>2, <2>1
  <2> HIDE DEF r, d
  <2>8. Told(received'[s]) = Append(Told(received[s]), Settled(q) + 1)
    BY <2>1, <2>6, <2>7, ToldAppended
  <2>9. Moved(s, r.phase, Settled(r), Settled(r) + Len(r.queue), Told(received'[s]))
    BY <1>2, <2>1, <2>7, OneWindow
  <2>10. Low[s] = Settled(q) /\ High[s] = Settled(q) + Len(q.queue)
    BY SameEntry
  <2>11. Low[s] < High[s] /\ Settled(r) + Len(r.queue) = High[s]
    <3>1. Len(q.queue) > 0
      BY <1>2, <2>2
    <3>2. \A a, b \in Nat : b > 0 => a < a + b /\ (a + 1) + (b - 1) = a + b
      OBVIOUS
    <3> QED BY <2>2, <2>5, <2>10, <3>1, <3>2
  <2>12. Moved(s, "open", Low[s] + 1, High[s], Append(Told(received[s]), Low[s] + 1))
    BY <2>5, <2>8, <2>9, <2>10, <2>11
  <2> QED BY <2>2, <2>11, <2>12, WindowSteps DEF WindowStep, Window!WNext
<1> QED BY <1>1, <1>2 DEF Attempt

----------------------------------------------------------------------------
LEMMA InitWindows == Init => Window!WInit
<1> SUFFICES ASSUME Init PROVE Window!WInit
  OBVIOUS
<1> DEFINE q == [FreshSubscription(0) EXCEPT !.phase = "none"]
<1>1. /\ sub = [s \in Subscriptions |-> q] /\ StreamSequence = 0
      /\ received = [s \in Subscriptions |-> <<>>]
  BY DEF Init, StreamSequence
<1>2. q.phase = "none" /\ Settled(q) = 0 /\ Settled(q) + Len(q.queue) = 0
  BY DEF FreshSubscription, Settled
<1>3. Told(<<>>) = <<>>
  BY DEF Told
<1> HIDE DEF q
<1> QED BY <1>1, <1>2, <1>3, Mapped DEF Phase, Low, High, Received

LEMMA NextWindows == ASSUME CoreInv, [Next]_vars PROVE WindowStep
<1>1. ASSUME NEW s \in Subscriptions, CloseNext(s) \/ CloseSubscription(s)
      PROVE  WindowStep
  <2>1. /\ totals' = totals /\ received' = received /\ CloseFromPublisher(s)
        /\ sub[s].phase # "none"
    BY <1>1 DEF CloseNext, CloseSubscription, CoreInv, LockShape
  <2> QED BY <2>1, CloseWindow
<1>2. CASE ClosePublisher \/ UNCHANGED vars \/ \E g \in Getters : Expire(g)
  <2>1. totals' = totals /\ sub' = sub /\ received' = received
    BY <1>2 DEF ClosePublisher, vars, Expire
  <2> QED BY <2>1, SameWindows DEF WindowStep
<1>3. ASSUME NEW g \in Getters, NEW s \in Subscriptions, NEW timed \in BOOLEAN,
             Get(g, s, timed)
      PROVE  WindowStep
  BY <1>3, AttemptWindow DEF Get
<1>4. ASSUME NEW g \in Getters, Resume(g) PROVE WindowStep
  <2>1. getter[g].on \in Subscriptions /\ sub[getter[g].on].phase # "none"
    BY <1>4 DEF Resume, CoreInv, GetterShape
  <2> QED BY <1>4, <2>1, AttemptWindow DEF Resume
<1> QED BY <1>1, <1>2, <1>3, <1>4, SubscribeWindow, PublishWindow, EnqueueWindow DEF Next

\* The publisher keeps the promise of LossyWindow: a publication is never
\* delayed by a reader, a full window loses its oldest and only then, what
\* get() returns is the lower edge, and nothing is returned after closing.
THEOREM ImplementsLossyWindowHolds == Spec => ImplementsLossyWindow
<1>1. CoreInv /\ [Next]_vars => [Window!WNext]_(Window!wvars)
  <2>1. WindowsKept => UNCHANGED Window!wvars
    BY DEF WindowsKept, Window!wvars, Phase, Low, High, Received, Told
  <2> QED BY <2>1, NextWindows DEF WindowStep
<1> QED BY <1>1, InitWindows, CoreInvariant, PTL
        DEF Spec, ImplementsLossyWindow, Window!WSpec
=============================================================================
