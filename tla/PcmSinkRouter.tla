--------------------------- MODULE PcmSinkRouter ---------------------------
(* The decoded-audio router of src/sds200/audio_sinks.py.  PcmSinkRouter    *)
(* hands every block of decoded audio to one _PcmDispatchWorker per         *)
(* attached sink: a bounded queue, a thread that is the only one to call    *)
(* the sink's submit_pcm, retries after a failed call, and the finalization *)
(* that stops the sink.  Callers start and stop the router and attach and   *)
(* detach sinks under its lifecycle lock (one operation at a time, "call"); *)
(* the audio thread offers blocks under the routing lock; the workers run   *)
(* on their own, and every wait for one of them has a deadline.             *)
(*                                                                          *)
(* One action is one section under the state lock or a worker's condition,  *)
(* or the return of one call of a sink.  A block is the number of its       *)
(* samples.  A record keeps its latest worker only; an earlier one is done. *)

EXTENDS Naturals, FiniteSets, Sequences

CONSTANTS
    Sinks,        \* the sinks callers may attach
    Capacity,     \* samples a worker's queue holds
    Sizes,        \* samples in a block of decoded audio
    MaxAttempts,  \* failures in a row ReconnectPolicy.allows
    MaxOffers,    \* bound: blocks the audio thread offers
    MaxCalls,     \* bound: lifecycle operations
    None, Caller  \* nobody; a thread that called a lifecycle operation

ASSUME CapacityAssumption == Capacity \in Nat \ {0}
ASSUME SizesAssumption == Sizes \subseteq Nat \ {0}
ASSUME BoundsAssumption ==
    MaxAttempts \in Nat /\ MaxOffers \in Nat /\ MaxCalls \in Nat
ASSUME NamesAssumption == None \notin Sinks /\ Caller \notin Sinks \union {None}

VARIABLES
    running,   \* _running, and _routing_running with it
    routing,   \* sinks whose worker is in _active_dispatchers
    attached, state,   \* of every subscriber record
    worker,    \* its dispatcher, or None
    up,        \* sinks that were started and not yet told to stop
    call,      \* the lifecycle operation in progress
    pending,   \* some transition is not yet emitted
    emitter,   \* who is draining them (_emitting_transitions)
    offers, calls

vars == <<running, routing, attached, state, worker, up, call, pending, emitter,
          offers, calls>>

States == {"detached", "attached", "starting", "active", "stopping", "failed"}

(* Where a worker is: about to look for work; blocked on its condition,     *)
(* without or with a retry deadline; inside submit_pcm; about to report its *)
(* outcome; about to clear _in_submission; notifying; inside sink.stop;     *)
(* reporting that; about to set _done; notifying a last time; ended.        *)
InSubmission == {"submit", "delivered", "refused", "finish"}
WorkerPcs == InSubmission \union
    {"next", "wait", "backoff", "notify", "notifying", "stop", "stopped",
     "finalized", "last", "lasting", "ended"}

(* Its queue holds the sizes of blocks, cut to the capacity; its counters,  *)
(* samples.                                                                 *)
WorkerType ==
    [pc : WorkerPcs, accepting : BOOLEAN, finalizing : BOOLEAN,
     queue : Seq(1 .. Capacity), queued : 0 .. Capacity, hand : 0 .. Capacity,
     attempt : 0 .. MaxAttempts + 1, deadline : BOOLEAN,
     error : BOOLEAN, timedOut : BOOLEAN,
     submitted : Nat, dropped : Nat, delivered : Nat]

ASSUME NoneAssumption == None \notin WorkerType

Done(w) == w # None /\ w.pc \in {"last", "lasting", "ended"}
Live(w) == w # None /\ ~Done(w)

NewWorker(accepting) ==
    [pc |-> "next", accepting |-> accepting, finalizing |-> FALSE,
     queue |-> <<>>, queued |-> 0, hand |-> 0, attempt |-> 0, deadline |-> FALSE,
     error |-> FALSE, timedOut |-> FALSE,
     submitted |-> 0, dropped |-> 0, delivered |-> 0]

Exhausted(w) == w.attempt > MaxAttempts
Quarantined(w) == w.attempt > 0

Idle == [at |-> "idle", sink |-> None, todo |-> {}, waits |-> {}]

Init ==
    /\ running = FALSE /\ routing = {}
    /\ attached = [s \in Sinks |-> FALSE]
    /\ state = [s \in Sinks |-> "detached"]
    /\ worker = [s \in Sinks |-> None]
    /\ up = {}
    /\ call = Idle
    /\ pending = FALSE /\ emitter = None
    /\ offers = 0 /\ calls = 0

---------------------------------------------------------------------------
(* What the sections share. *)

(* Of every prefix of a queue, the samples in it. *)
Totals(queue) ==
    LET total[n \in 0 .. Len(queue)] ==
          IF n = 0 THEN 0 ELSE total[n - 1] + queue[n]
    IN total

Samples(queue) == Totals(queue)[Len(queue)]

(* The newest samples of a queue that fit: the blocks before the first one  *)
(* that outlasts the excess are dropped, that one is cut. *)
Newest(queue) ==
    LET excess == Samples(queue) - Capacity
        total == Totals(queue)
        first == CHOOSE n \in 1 .. Len(queue) :
                   total[n - 1] <= excess /\ excess < total[n] IN
    IF Samples(queue) <= Capacity THEN queue
    ELSE <<total[first] - excess>> \o SubSeq(queue, first + 1, Len(queue))

(* Mutant: a discarded queue is not counted as dropped. *)
DiscardedUncounted(w) == [w EXCEPT !.queue = <<>>, !.queued = 0]

Discarded(w) ==
    [w EXCEPT !.dropped = @ + w.queued, !.queue = <<>>, !.queued = 0]

(* notify_all on the worker's condition: only a waiting worker notices. *)
Notified(w) == IF w.pc \in {"wait", "backoff"} THEN [w EXCEPT !.pc = "next"] ELSE w

(* _transition_locked for the sinks of S: a state that stays is no news. *)
Transition(S, to) ==
    /\ state' = [s \in Sinks |-> IF s \in S THEN to ELSE state[s]]
    /\ pending' = (pending \/ \E s \in S : state[s] # to)

(* _refresh_routing_locked, with the new values of what it reads. *)
Refresh ==
    routing' = {s \in Sinks : attached'[s] /\ worker'[s] # None}

Attached(S, value) ==
    attached' = [s \in Sinks |-> IF s \in S THEN value ELSE attached[s]]

SetWorker(s, w) == worker' = [worker EXCEPT ![s] = w]

At(pc) == call' = [call EXCEPT !.at = pc]

Begin ==
    /\ call.at = "idle" /\ calls < MaxCalls
    /\ calls' = calls + 1

---------------------------------------------------------------------------
(* The lifecycle operations. *)

Start ==
    /\ Begin /\ ~running
    /\ running' = TRUE
    /\ call' = [call EXCEPT !.at = "subscribers",
                            !.todo = {s \in Sinks : attached[s]}]
    /\ UNCHANGED <<attached, worker>>
    /\ Refresh
    /\ UNCHANGED <<state, up, pending, emitter, offers>>

(* Mutant: a sink may be attached while its worker is still finalizing. *)
AttachAllowedTooSoon(s) == ~attached[s]

AttachAllowed(s) ==
    /\ ~attached[s]
    /\ ~(Live(worker[s]) /\ worker[s].finalizing)

Attach(s) ==
    /\ Begin /\ AttachAllowed(s)
    /\ Attached({s}, TRUE)
    /\ Transition({s}, "attached")
    /\ UNCHANGED worker
    /\ IF running
       THEN /\ call' = [call EXCEPT !.at = "subscribers", !.todo = {s}]
            /\ UNCHANGED routing
       ELSE Refresh /\ At("emit")
    /\ UNCHANGED <<running, up, emitter, offers>>

(* _start_subscriber: a paused worker is resumed, otherwise the sink is     *)
(* started. *)
StartSubscriber(s) ==
    /\ call.at = "subscribers" /\ s \in call.todo
    /\ IF Live(worker[s]) /\ ~worker[s].finalizing
       THEN /\ SetWorker(s, Notified([worker[s] EXCEPT !.accepting = TRUE]))
            /\ Transition({s}, "active")
            /\ call' = [call EXCEPT !.todo = @ \ {s}]
            /\ UNCHANGED attached
            /\ Refresh
       ELSE /\ SetWorker(s, IF Done(worker[s]) THEN None ELSE worker[s])
            /\ Transition({s}, "starting")
            /\ call' = [call EXCEPT !.at = "sink_start", !.sink = s,
                                    !.todo = @ \ {s}]
            /\ UNCHANGED <<attached, routing>>
    /\ UNCHANGED <<running, up, emitter, offers, calls>>

SinkStarts ==
    /\ call.at = "sink_start"
    /\ up' = up \union {call.sink}
    /\ SetWorker(call.sink, NewWorker(TRUE))
    /\ Transition({call.sink}, "active")
    /\ UNCHANGED attached
    /\ Refresh
    /\ call' = [call EXCEPT !.at = "subscribers", !.sink = None]
    /\ UNCHANGED <<running, emitter, offers, calls>>

(* sink.start raises, or the worker's thread cannot be started: the sink is *)
(* told to stop either way, and whatever that raises is recorded. *)
SinkStartFails ==
    /\ call.at = "sink_start"
    /\ Attached({call.sink}, FALSE)
    /\ Transition({call.sink}, "failed")
    /\ UNCHANGED worker
    /\ Refresh
    /\ At("cleanup")
    /\ UNCHANGED <<running, up, emitter, offers, calls>>

CleanedUp ==
    /\ call.at = "cleanup"
    /\ call' = [call EXCEPT !.at = "subscribers", !.sink = None]
    /\ UNCHANGED <<running, routing, attached, state, worker, up, pending,
                   emitter, offers, calls>>

Subscribed ==
    /\ call.at = "subscribers" /\ call.todo = {}
    /\ At("emit")
    /\ UNCHANGED <<running, routing, attached, state, worker, up, pending,
                   emitter, offers, calls>>

(* detach(stop=False): the worker keeps the sink and its thread. *)
Paused(w) ==
    IF w = None \/ Done(w) \/ w.finalizing THEN w
    ELSE Notified(Discarded([w EXCEPT !.accepting = FALSE]))

DetachWarm(s) ==
    /\ Begin /\ attached[s]
    /\ Attached({s}, FALSE)
    /\ SetWorker(s, Paused(worker[s]))
    /\ Refresh
    /\ Transition({s}, "detached")
    /\ IF worker[s] = None THEN At("emit")
       ELSE call' = [call EXCEPT !.at = "wait_idle", !.sink = s]
    /\ UNCHANGED <<running, up, emitter, offers>>

BecomesIdle ==
    /\ call.at = "wait_idle"
    /\ worker[call.sink].pc \notin InSubmission
    /\ call' = [Idle EXCEPT !.at = "emit"]
    /\ UNCHANGED <<running, routing, attached, state, worker, up, pending,
                   emitter, offers, calls>>

WaitIdleTimesOut ==
    /\ call.at = "wait_idle"
    /\ worker[call.sink].pc \in InSubmission
    /\ At("restore")
    /\ UNCHANGED <<running, routing, attached, state, worker, up, pending,
                   emitter, offers, calls>>

Restore ==
    /\ call.at = "restore"
    /\ Attached({call.sink}, TRUE)
    /\ SetWorker(call.sink, Notified([worker[call.sink] EXCEPT !.accepting = TRUE]))
    /\ Transition({call.sink}, "active")
    /\ Refresh
    /\ call' = [Idle EXCEPT !.at = "emit"]
    /\ UNCHANGED <<running, up, emitter, offers, calls>>

(* detach(stop=True): a sink without a worker, or whose worker could not    *)
(* stop it, gets a worker that only finalizes. *)
DetachStop(s) ==
    /\ Begin /\ (attached[s] \/ worker[s] # None)
    /\ Attached({s}, FALSE)
    /\ \/ /\ worker[s] = None \/ (Done(worker[s]) /\ worker[s].error)
          /\ SetWorker(s, NewWorker(FALSE))
          /\ Transition({s}, "stopping")
          /\ call' = [call EXCEPT !.at = "request", !.todo = {s}]
       \/ /\ worker[s] = None \/ (Done(worker[s]) /\ worker[s].error)
          /\ SetWorker(s, None)     \* its thread cannot be started
          /\ state' = [state EXCEPT ![s] = "failed"]
          /\ pending' = TRUE
          /\ At("emit")
       \/ /\ Done(worker[s]) /\ ~worker[s].error
          /\ UNCHANGED worker
          /\ Transition({s}, "detached")
          /\ At("emit")
       \/ /\ Live(worker[s])
          /\ UNCHANGED worker
          /\ Transition({s}, "stopping")
          /\ call' = [call EXCEPT !.at = "request", !.todo = {s}]
    /\ Refresh
    /\ UNCHANGED <<running, up, emitter, offers>>

Stop ==
    LET S == {s \in Sinks : Live(worker[s])} IN
    /\ Begin /\ (running \/ S # {})
    /\ running' = FALSE
    /\ Attached(S, FALSE)
    /\ UNCHANGED worker
    /\ Refresh
    /\ Transition(S, "stopping")
    /\ call' = [call EXCEPT !.at = "request", !.todo = S]
    /\ UNCHANGED <<up, emitter, offers>>

(* Mutant: a waiting worker is not told. *)
FinalizingSilently(w) ==
    IF Done(w) THEN w
    ELSE LET asked == [w EXCEPT !.accepting = FALSE, !.finalizing = TRUE]
         IN IF Quarantined(w) THEN Discarded(asked) ELSE asked

(* request_finalize: nothing more is accepted; what is queued is delivered  *)
(* unless the last submission failed. *)
Finalizing(w) ==
    IF Done(w) THEN w
    ELSE LET asked == [w EXCEPT !.accepting = FALSE, !.finalizing = TRUE]
         IN Notified(IF Quarantined(w) THEN Discarded(asked) ELSE asked)

RequestFinalize(s) ==
    /\ call.at = "request" /\ s \in call.todo
    /\ SetWorker(s, Finalizing(worker[s]))
    /\ call' = [call EXCEPT !.todo = @ \ {s}, !.waits = @ \union {s}]
    /\ UNCHANGED <<running, routing, attached, state, up, pending, emitter,
                   offers, calls>>

(* _wait_for_dispatcher, up to the deadline of the operation. *)
WorkerEnds(s) ==
    /\ call.at = "request" /\ call.todo = {} /\ s \in call.waits
    /\ Done(worker[s])
    /\ call' = [call EXCEPT !.waits = @ \ {s}]
    /\ UNCHANGED <<running, routing, attached, state, worker, up, pending,
                   emitter, offers, calls>>

WaitTimesOut(s) ==
    /\ call.at = "request" /\ call.todo = {} /\ s \in call.waits
    /\ ~Done(worker[s])
    /\ call' = [call EXCEPT !.at = "late", !.sink = s, !.waits = @ \ {s}]
    /\ UNCHANGED <<running, routing, attached, state, worker, up, pending,
                   emitter, offers, calls>>

ReportTimeout ==
    LET s == call.sink IN
    /\ call.at = "late"
    /\ SetWorker(s, [worker[s] EXCEPT !.timedOut = TRUE])
    /\ Transition(IF worker[s].timedOut THEN {} ELSE {s}, "failed")
    /\ call' = [call EXCEPT !.at = "request", !.sink = None]
    /\ UNCHANGED <<running, routing, attached, up, emitter, offers, calls>>

Finalized ==
    /\ call.at = "request" /\ call.todo = {} /\ call.waits = {}
    /\ At("emit")
    /\ UNCHANGED <<running, routing, attached, state, worker, up, pending,
                   emitter, offers, calls>>

---------------------------------------------------------------------------
(* The transitions reach the callbacks through whoever finds nobody else    *)
(* emitting.  A caller has left the lifecycle lock by then, so the next     *)
(* operation may begin. *)

CallerEmits ==
    /\ call.at = "emit"
    /\ call' = Idle
    /\ emitter' = IF emitter = None THEN Caller ELSE emitter
    /\ UNCHANGED <<running, routing, attached, state, worker, up, pending,
                   offers, calls>>

WorkerEmits(s) ==
    /\ Live(worker[s]) \/ Done(worker[s])
    /\ worker[s].pc \in {"notify", "last"}
    /\ LET last == worker[s].pc = "last" IN
       IF emitter = None
       THEN /\ emitter' = s
            /\ SetWorker(s, [worker[s] EXCEPT
                                !.pc = IF last THEN "lasting" ELSE "notifying"])
       ELSE /\ SetWorker(s, [worker[s] EXCEPT
                                !.pc = IF last THEN "ended" ELSE "next"])
            /\ UNCHANGED emitter
    /\ UNCHANGED <<running, routing, attached, state, up, call, pending, offers,
                   calls>>

EmitPending ==
    /\ emitter # None /\ pending
    /\ pending' = FALSE
    /\ UNCHANGED <<running, routing, attached, state, worker, up, call, emitter,
                   offers, calls>>

(* The last look at the pending transitions clears the flag under the same  *)
(* lock.  The worker that emitted resumes; if its record has a new worker   *)
(* by now, only its thread ends. *)
EmitEnds ==
    /\ emitter # None /\ ~pending
    /\ emitter' = None
    /\ worker' = [s \in Sinks |->
          IF s = emitter /\ worker[s] # None /\ worker[s].pc \in {"notifying", "lasting"}
          THEN [worker[s] EXCEPT !.pc = IF @ = "lasting" THEN "ended" ELSE "next"]
          ELSE worker[s]]
    /\ UNCHANGED <<running, routing, attached, state, up, call, pending, offers,
                   calls>>

---------------------------------------------------------------------------
(* The audio thread: submit_pcm offers a block to every active dispatcher.  *)
(* (One that a start is about to replace is done, and drops the block.)     *)

(* Mutant: a queue in front of a slow sink keeps growing. *)
OfferedUnbounded(w, size) ==
    IF ~w.accepting \/ w.finalizing \/ Done(w)
    THEN [w EXCEPT !.submitted = @ + size, !.dropped = @ + size]
    ELSE Notified([w EXCEPT !.submitted = @ + size, !.queue = Append(@, size),
                            !.queued = @ + size])

Offered(w, size) ==
    LET counted == [w EXCEPT !.submitted = @ + size] IN
    IF ~w.accepting \/ w.finalizing \/ Done(w)
    THEN [counted EXCEPT !.dropped = @ + size]
    ELSE LET before == IF Quarantined(w) THEN Discarded(counted) ELSE counted
             total == before.queued + size
             kept == IF total > Capacity THEN Capacity ELSE total
         IN Notified([before EXCEPT
                        !.queue = Newest(Append(@, size)), !.queued = kept,
                        !.dropped = @ + (total - kept)])

SubmitPcm(size) ==
    /\ running /\ offers < MaxOffers
    /\ offers' = offers + 1
    /\ worker' = [s \in Sinks |->
                    IF s \in routing /\ worker[s] # None
                    THEN Offered(worker[s], size) ELSE worker[s]]
    /\ UNCHANGED <<running, routing, attached, state, up, call, pending, emitter,
                   calls>>

---------------------------------------------------------------------------
(* The worker of sink s. *)

WorkerAt(s, pcs) == worker[s] # None /\ worker[s].pc \in pcs

(* _next_data, one turn of its loop.  A wait with a retry deadline also     *)
(* ends when the deadline passes. *)
NextData(s) ==
    /\ WorkerAt(s, {"next"})
    /\ LET w == worker[s] IN
       SetWorker(s,
         IF w.finalizing /\ Quarantined(w) THEN [Discarded(w) EXCEPT !.pc = "stop"]
         ELSE IF w.queue # <<>> /\ ~Exhausted(w)
         THEN IF w.deadline THEN [w EXCEPT !.pc = "backoff"]
              ELSE [w EXCEPT !.pc = "submit", !.hand = Head(w.queue),
                             !.queue = Tail(w.queue),
                             !.queued = @ - Head(w.queue)]
         ELSE IF w.finalizing THEN [w EXCEPT !.pc = "stop"]
         ELSE [w EXCEPT !.pc = "wait"])
    /\ UNCHANGED <<running, routing, attached, state, up, call, pending, emitter,
                   offers, calls>>

DeadlinePasses(s) ==
    /\ worker[s] # None /\ worker[s].deadline /\ ~Done(worker[s])
    /\ SetWorker(s, [worker[s] EXCEPT
                       !.deadline = FALSE,
                       !.pc = IF @ = "backoff" THEN "next" ELSE @])
    /\ UNCHANGED <<running, routing, attached, state, up, call, pending, emitter,
                   offers, calls>>

Submitted(s) ==
    /\ WorkerAt(s, {"submit"})
    /\ SetWorker(s, [worker[s] EXCEPT
                       !.pc = "delivered", !.delivered = @ + worker[s].hand,
                       !.hand = 0, !.attempt = 0, !.deadline = FALSE])
    /\ UNCHANGED <<running, routing, attached, state, up, call, pending, emitter,
                   offers, calls>>

(* A failed call costs the block and the queue behind it.  The attempts are *)
(* counted up to the one that gives up. *)
SubmitFails(s) ==
    /\ WorkerAt(s, {"submit"})
    /\ LET w == worker[s]
           attempt == IF Exhausted(w) THEN w.attempt ELSE w.attempt + 1 IN
       SetWorker(s, [Discarded(w) EXCEPT
                       !.pc = "refused", !.hand = 0, !.dropped = @ + w.hand,
                       !.attempt = attempt, !.deadline = attempt <= MaxAttempts])
    /\ UNCHANGED <<running, routing, attached, state, up, call, pending, emitter,
                   offers, calls>>

(* _submission_completed, under the state lock. *)
SubmissionCompleted(s) ==
    /\ WorkerAt(s, {"delivered", "refused"})
    /\ IF worker[s].pc = "refused" THEN Transition({s}, "failed")
       ELSE Transition(IF attached[s] /\ state[s] = "failed" THEN {s} ELSE {},
                       "active")
    /\ SetWorker(s, [worker[s] EXCEPT !.pc = "finish"])
    /\ UNCHANGED <<running, routing, attached, up, call, emitter, offers, calls>>

MarkSubmissionFinished(s) ==
    /\ WorkerAt(s, {"finish"})
    /\ SetWorker(s, [worker[s] EXCEPT !.pc = "notify"])
    /\ UNCHANGED <<running, routing, attached, state, up, call, pending, emitter,
                   offers, calls>>

(* sink.stop returns or raises. *)
SinkStops(s) ==
    /\ WorkerAt(s, {"stop"})
    /\ up' = up \ {s}
    /\ \E error \in BOOLEAN :
          SetWorker(s, [worker[s] EXCEPT !.pc = "stopped", !.error = error])
    /\ UNCHANGED <<running, routing, attached, state, call, pending, emitter,
                   offers, calls>>

FinalizationCompleted(s) ==
    /\ WorkerAt(s, {"stopped"})
    /\ Transition({s}, IF worker[s].error THEN "failed" ELSE "detached")
    /\ SetWorker(s, [worker[s] EXCEPT !.pc = "finalized"])
    /\ UNCHANGED <<running, routing, attached, up, call, emitter, offers, calls>>

SetDone(s) ==
    /\ WorkerAt(s, {"finalized"})
    /\ SetWorker(s, [worker[s] EXCEPT !.pc = "last"])
    /\ UNCHANGED <<running, routing, attached, state, up, call, pending, emitter,
                   offers, calls>>

---------------------------------------------------------------------------
CallStep ==
    \/ CleanedUp \/ Subscribed \/ BecomesIdle \/ WaitIdleTimesOut \/ Restore
    \/ ReportTimeout \/ Finalized \/ CallerEmits
    \/ SinkStarts \/ SinkStartFails
    \/ \E s \in Sinks : StartSubscriber(s) \/ RequestFinalize(s)
                        \/ WorkerEnds(s) \/ WaitTimesOut(s)

WorkerStep(s) ==
    \/ NextData(s) \/ Submitted(s) \/ SubmitFails(s) \/ SubmissionCompleted(s)
    \/ MarkSubmissionFinished(s) \/ WorkerEmits(s)
    \/ SinkStops(s) \/ FinalizationCompleted(s) \/ SetDone(s)

EmitStep == EmitPending \/ EmitEnds

Next ==
    \/ Start \/ Stop
    \/ \E s \in Sinks : Attach(s) \/ DetachWarm(s) \/ DetachStop(s)
    \/ \E size \in Sizes : SubmitPcm(size)
    \/ CallStep \/ EmitStep
    \/ \E s \in Sinks : WorkerStep(s) \/ DeadlinePasses(s)

(* Threads run, sinks and callbacks return, deadlines pass.  Nobody has to  *)
(* call the router. *)
Fairness ==
    /\ WF_vars(CallStep) /\ WF_vars(EmitStep)
    /\ \A s \in Sinks : WF_vars(WorkerStep(s)) /\ WF_vars(DeadlinePasses(s))

Spec == Init /\ [][Next]_vars /\ Fairness

---------------------------------------------------------------------------
(* Properties. *)

CallPcs ==
    {"idle", "subscribers", "sink_start", "cleanup", "wait_idle", "restore",
     "request", "late", "emit"}

(* The state keeps its types; a queue never holds more than its capacity.   *)
TypeOK ==
    /\ running \in BOOLEAN /\ routing \subseteq Sinks
    /\ attached \in [Sinks -> BOOLEAN] /\ state \in [Sinks -> States]
    /\ worker \in [Sinks -> WorkerType \union {None}]
    /\ up \subseteq Sinks
    /\ call \in [at : CallPcs, sink : Sinks \union {None},
                 todo : SUBSET Sinks, waits : SUBSET Sinks]
    /\ pending \in BOOLEAN /\ emitter \in Sinks \union {None, Caller}
    /\ offers \in Nat /\ calls \in Nat

(* A caller is inside a sink only when no live worker owns it, and a worker *)
(* only delivers to a sink that was started. *)
OneOwner ==
    /\ call.at \in {"sink_start", "cleanup"} => ~Live(worker[call.sink])
    /\ \A s \in Sinks : WorkerAt(s, {"submit"}) => s \in up

(* The router routes to attached sinks only; an attached sink of a running  *)
(* router is routed to, and its worker takes the audio, once the operation  *)
(* that attached it or started the router is over. *)
AttachedIsServed ==
    \A s \in Sinks :
       /\ s \in routing => attached[s]
       /\ running /\ attached[s] /\ call.at \in {"idle", "emit"} =>
             /\ s \in routing /\ Live(worker[s])
             /\ worker[s].accepting /\ ~worker[s].finalizing

(* Once detach has returned without a failure, nothing is queued for the    *)
(* sink and its worker is not inside a submission. *)
DetachedIsQuiet ==
    \A s \in Sinks :
       /\ ~attached[s] /\ Live(worker[s]) /\ ~worker[s].finalizing
       /\ ~(call.sink = s /\ call.at \in {"wait_idle", "restore"})
       /\ ~(call.at = "request" /\ s \in call.todo)
       => /\ worker[s].queue = <<>> /\ ~worker[s].accepting
          /\ worker[s].pc \notin InSubmission

(* What attach and detach promise of a sink, whatever the workers, the      *)
(* audio thread and the timeouts do meanwhile. *)
SinkContract == OneOwner /\ AttachedIsServed /\ DetachedIsQuiet

(* Every sample offered to a worker is delivered, counted as dropped,       *)
(* queued or in the worker's hand; a worker that is done holds none. *)
SamplesAccounted ==
    \A s \in Sinks : worker[s] # None =>
       LET w == worker[s] IN
       /\ w.submitted = w.dropped + w.queued + w.hand + w.delivered
       /\ w.queued = Samples(w.queue)
       /\ Done(w) => w.queued = 0 /\ w.hand = 0

(* A transition not yet emitted has a thread that emits it, or that is      *)
(* about to try. *)
TransitionsCarried ==
    pending =>
       \/ emitter # None
       \/ call.at # "idle"
       \/ \E s \in Sinks : WorkerAt(s, {"finish", "notify", "finalized", "last"})

(* No sample and no news of a sink's state is lost without a trace. *)
NothingLost == SamplesAccounted /\ TransitionsCarried

(* A worker told to finalize, whatever it was doing, is done in the end,    *)
(* and the operation that told it returns. *)
FinalizationEnds ==
    /\ \A s \in Sinks :
          (Live(worker[s]) /\ worker[s].finalizing) ~> Done(worker[s])
    /\ (call.at # "idle") ~> (call.at = "idle")
===========================================================================
