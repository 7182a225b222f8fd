--------------------------- MODULE EventPublisher ---------------------------
(* The event publisher of src/sds200/daemon_events.py behind the            *)
(* DaemonEventStream of src/sds200/daemon_event_stream.py: one sequence of  *)
(* events for the whole daemon and a bounded queue for each subscriber,     *)
(* which begins with a snapshot.  This module is the publisher and its      *)
(* subscribers; a module that extends it adds the sources, passing Publish  *)
(* what happened and Subscribe what a snapshot shows.  An event is a        *)
(* sequence number, a kind and what it says.                                *)

EXTENDS Naturals, FiniteSets, Sequences

CONSTANTS
    Clients,        \* who may subscribe
    QueueCapacity,  \* events a subscription holds
    MaxSubscribers,
    None

ASSUME CapacityAssumption == QueueCapacity \in Nat /\ QueueCapacity >= 2
ASSUME SubscribersAssumption == MaxSubscribers \in Nat

VARIABLES
    sequence,      \* of the newest event
    streamClosed,  \* DaemonEventStream._closed: sources publish no more
    closed,        \* DaemonEventPublisher._closed
    subscription,  \* of every client: its queue and _dropped_events, or None
    seen           \* what every client was told since it subscribed

streamVars == <<sequence, streamClosed, closed, subscription, seen>>

Event(n, kind, says) == [sequence |-> n, kind |-> kind, says |-> says]

(* What a client learns: where its snapshot stood, the newest event it got, *)
(* how many, whether a number was missing, and what it believes. *)
NewClient(n, says) ==
    [from |-> n, newest |-> n, got |-> 0, gap |-> FALSE, believes |-> says]

(* What it knows after an event; Concerns tells the kinds its belief is     *)
(* about. *)
Informed(client, event, Concerns) ==
    IF event.kind = "snapshot" THEN NewClient(event.sequence, event.says)
    ELSE IF client = None
    THEN [NewClient(event.sequence, event.says) EXCEPT !.gap = TRUE]
    ELSE [client EXCEPT !.newest = event.sequence, !.got = @ + 1,
            !.gap = @ \/ event.sequence # client.newest + 1,
            !.believes = IF event.kind \in Concerns THEN event.says ELSE @]

Subscribed == {c \in Clients : subscription[c] # None}

InitStream ==
    /\ sequence = 0 /\ streamClosed = FALSE /\ closed = FALSE
    /\ subscription = [c \in Clients |-> None]
    /\ seen = [c \in Clients |-> None]

(* Mutant: a full queue drops its head even when that is the snapshot. *)
EnqueuedDroppingHead(sub, event) ==
    IF Len(sub.queue) < QueueCapacity
    THEN [sub EXCEPT !.queue = Append(@, event)]
    ELSE [queue |-> Append(Tail(sub.queue), event), dropped |-> sub.dropped + 1]

(* Mutant: a queue nobody reads grows. *)
EnqueuedUnbounded(sub, event) == [sub EXCEPT !.queue = Append(@, event)]

(* _enqueue: a full queue makes room by dropping the oldest event that is   *)
(* not the snapshot. *)
Enqueued(sub, event) ==
    LET q == sub.queue
        kept == IF q[1].kind = "snapshot"
                THEN <<q[1]>> \o SubSeq(q, 3, Len(q))
                ELSE Tail(q) IN
    IF Len(q) < QueueCapacity
    THEN [sub EXCEPT !.queue = Append(@, event)]
    ELSE [queue |-> Append(kept, event), dropped |-> sub.dropped + 1]

(* DaemonEventStream._publish, a callback of every source. *)
Publish(kind, says) ==
    /\ IF streamClosed THEN UNCHANGED <<sequence, subscription>>
       ELSE /\ sequence' = sequence + 1
            /\ subscription' = [c \in Clients |->
                 IF subscription[c] = None THEN None
                 ELSE Enqueued(subscription[c], Event(sequence + 1, kind, says))]
    /\ UNCHANGED <<streamClosed, closed, seen>>

(* subscribe: the snapshot and the sequence it stands at, under one lock. *)
Subscribe(c, says) ==
    /\ ~closed /\ subscription[c] = None
    /\ Cardinality(Subscribed) < MaxSubscribers
    /\ subscription' = [subscription EXCEPT ![c] =
            [queue |-> <<Event(sequence, "snapshot", says)>>, dropped |-> 0]]
    /\ seen' = [seen EXCEPT ![c] = None]
    /\ UNCHANGED <<sequence, streamClosed, closed>>

(* get, when there is something to return. *)
Get(c, Concerns) ==
    /\ subscription[c] # None /\ subscription[c].queue # <<>>
    /\ subscription' = [subscription EXCEPT ![c].queue = Tail(@)]
    /\ seen' = [seen EXCEPT ![c] =
                  Informed(@, Head(subscription[c].queue), Concerns)]
    /\ UNCHANGED <<sequence, streamClosed, closed>>

Unsubscribe(c) ==
    /\ subscription[c] # None
    /\ subscription' = [subscription EXCEPT ![c] = None]
    /\ seen' = [seen EXCEPT ![c] = None]
    /\ UNCHANGED <<sequence, streamClosed, closed>>

(* close: the sources are cut off first, the subscribers next. *)
CloseStream ==
    /\ ~streamClosed
    /\ streamClosed' = TRUE
    /\ UNCHANGED <<sequence, closed, subscription, seen>>

ClosePublisher ==
    /\ streamClosed /\ ~closed
    /\ closed' = TRUE
    /\ subscription' = [c \in Clients |-> None]
    /\ seen' = [c \in Clients |-> None]
    /\ UNCHANGED <<sequence, streamClosed>>

---------------------------------------------------------------------------
(* The events of a queue behind its snapshot, which is first if unread. *)
Unread(sub) ==
    IF sub.queue # <<>> /\ sub.queue[1].kind = "snapshot"
    THEN Tail(sub.queue) ELSE sub.queue

(* A client reads the snapshot first, then events in ascending order; the   *)
(* newest event of the daemon is in its queue or was read; every event      *)
(* since the snapshot was read, is queued or is counted as dropped; and a   *)
(* client that missed none saw no gap. *)
LossIsVisible ==
    \A c \in Subscribed :
      LET sub == subscription[c]
          unread == Unread(sub)
          started == seen[c] # None
          from == IF started THEN seen[c].from ELSE sub.queue[1].sequence
          got == IF started THEN seen[c].got ELSE 0
          newest == IF started THEN seen[c].newest ELSE from IN
      /\ started \/ (sub.queue # <<>> /\ sub.queue[1].kind = "snapshot")
      /\ \A i \in 1 .. Len(unread) :
            /\ unread[i].kind # "snapshot"
            /\ unread[i].sequence > (IF i = 1 THEN newest ELSE unread[i - 1].sequence)
      /\ sequence = IF unread = <<>> THEN newest ELSE unread[Len(unread)].sequence
      /\ sequence - from = got + Len(unread) + sub.dropped
      /\ started => (seen[c].gap <=> seen[c].newest - seen[c].from > seen[c].got)
=============================================================================
