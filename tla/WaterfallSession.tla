-------------------------- MODULE WaterfallSession --------------------------
(***************************************************************************)
(* WaterfallSession (src/sds200/waterfall_session.py): one demand-driven   *)
(* PWF/GWF publication shared by the leases of any number of consumers.    *)
(*                                                                         *)
(* The session lock is kept over scanner I/O when the publication starts,  *)
(* recovers or stops, and is not kept while one GWF frame is polled.  Four *)
(* kinds of threads meet in it: the consumers' (subscribe, close), the     *)
(* daemon's loop (DaemonRuntime.poll: recover, poll), a control thread     *)
(* (DaemonRuntime's control scope: idle reservations and reconnect) and    *)
(* whichever thread finds the transport lost, which must mark the session  *)
(* interrupted.  The loop and the control thread exclude each other with   *)
(* the runtime's control lock; a reconnect also keeps the radio's command  *)
(* lock, which a start or a stop needs: it asks for the two locks in the   *)
(* opposite order, and only the timeouts of the command lock resolve that. *)
(* Below both are the locks of the UDP transport's decoder and writes: the *)
(* reader keeps them while it repeats a request for a lost XML fragment,   *)
(* and a send waits for them without a timeout.                            *)
(*                                                                         *)
(* Left out: the GST refresh that follows a polled frame, the telemetry    *)
(* and the poll deadlines (a due poll may come at any time), the transition*)
(* callbacks, and the frames themselves (module PcmuSubscriptions).        *)
(***************************************************************************)
EXTENDS Naturals

CONSTANTS
  Leases,        \* the leases subscribe() may return, each used once
  MaxMisses,     \* max_consecutive_poll_failures
  MaxDrops       \* bound: how often the transport is lost

ASSUME WaterfallAssumption ==
  /\ MaxMisses \in Nat \ {0}
  /\ MaxDrops \in Nat
  /\ Leases \cap {"none", "loop", "control", "shutdown"} = {}

VARIABLES
  state,    \* _state
  failure,  \* the operation whose error is in _last_error
  leases,   \* _leases
  open,     \* the subscriptions of the waterfall publisher that are not closed
  lease,    \* lease[c]: how far the thread that owns lease c is
  reserved, \* _idle_reserved
  misses,   \* _consecutive_gwf_failures
  lock,     \* who keeps the session lock over I/O, for what, and where it is:
            \* outside the command lock, sending a wire, or awaiting its record
  loop,     \* where the daemon's loop is; it has the control lock unless idle
  control,  \* where the control thread is; it has the control lock unless idle
  link,     \* the transport is connected
  reader,   \* the transport's reader thread: reading, marking the session
            \* interrupted after a failed receive or (failing) inside a failed
            \* send of its own, or gone after a failed reopen
  drops,    \* how often the transport was lost
  startedAt,\* drops when the publication last started
  silent    \* GWF requests unanswered since the scanner last sent a frame,
            \* counted up to MaxMisses

lines == <<link, reader, drops>>
demand == <<leases, open, lease>>
vars == <<state, failure, demand, reserved, misses, lock, loop, control, lines,
          startedAt, silent>>

----------------------------------------------------------------------------
Unlocked == [op |-> "none", by |-> "none", at |-> "outside"]
Hold(op, by) == [op |-> op, by |-> by, at |-> "outside"]

LockFree == lock = Unlocked

\* The runtime's _control_lock.
ControlFree == loop = "idle" /\ control = "idle"

Reconnecting == control \in {"marking", "reopening", "restoring"}

\* The radio's _command_lock can be had by the thread `by`: neither a reconnect of
\* another thread nor a request whose send failed keeps it.
CommandFree(by) == (Reconnecting => by = "control") /\ loop # "marking"

\* The transport's decoder and write locks are free: the reader keeps both while a
\* retry it sent from inside the decoder has failed and is being reported.
WriteFree == reader # "failing"

\* The transport is lost: by its reader, by a send that fails, or by a reconnect.
Drop ==
  /\ link
  /\ drops < MaxDrops
  /\ link' = FALSE
  /\ drops' = drops + 1

\* mark_interrupted() by a thread that has the session lock.
Mark ==
  state' = IF leases # {} /\ state \notin {"closed", "interrupted"}
           THEN "interrupted" ELSE state

\* The thread that kept the session lock goes on, and a recovering thread gives
\* up the control lock with it.
Unlock ==
  /\ lock' = Unlocked
  /\ loop' = IF lock.by = "loop" THEN "idle" ELSE loop
  /\ control' = IF lock.by = "control" THEN "idle" ELSE control

Init ==
  /\ state = "idle" /\ failure = "none" /\ misses = 0
  /\ leases = {} /\ open = {} /\ lease = [c \in Leases |-> "new"]
  /\ reserved = FALSE
  /\ lock = Unlocked
  /\ loop = "idle" /\ control = "idle"
  /\ link = TRUE /\ reader = "reading" /\ drops = 0
  /\ startedAt = 0 /\ silent = 0
----------------------------------------------------------------------------
(* Consumers. *)

\* subscribe(): the first consumer keeps the lock and starts the publication.
Subscribe(c) ==
  /\ LockFree
  /\ lease[c] = "new"
  /\ ~reserved
  /\ state # "closed"
  /\ leases' = leases \cup {c}
  /\ open' = open \cup {c}
  /\ IF leases = {}
     THEN /\ state' = "starting"
          /\ lock' = Hold("subscribe", c)
          /\ lease' = [lease EXCEPT ![c] = "subscribing"]
     ELSE /\ lease' = [lease EXCEPT ![c] = "held"]
          /\ UNCHANGED <<state, lock>>
  /\ UNCHANGED <<failure, reserved, misses, loop, control, lines, startedAt, silent>>

Starting == lock.op \in {"subscribe", "recover"}

\* The command lock is taken; a stop without a connection sends nothing.
EnterCommand ==
  /\ lock.op # "none"
  /\ lock.at = "outside"
  /\ CommandFree(lock.by)
  /\ Starting \/ link
  /\ lock' = [lock EXCEPT !.at = "sending"]
  /\ UNCHANGED <<state, failure, demand, reserved, misses, loop, control, lines,
                 startedAt, silent>>

SendWire ==
  /\ Starting
  /\ lock.at = "sending"
  /\ WriteFree
  /\ link
  /\ lock' = [lock EXCEPT !.at = "awaiting"]
  /\ UNCHANGED <<state, failure, demand, reserved, misses, loop, control, lines,
                 startedAt, silent>>

\* GST, PWF and GWF are sent one after the other, and the command lock is given
\* back after the first.  A failure sends the stop wires the same way.
NextWire ==
  /\ Starting
  /\ lock.at = "awaiting"
  /\ link
  /\ \E at \in {"outside", "sending"} : lock' = [lock EXCEPT !.at = at]
  /\ UNCHANGED <<state, failure, demand, reserved, misses, loop, control, lines,
                 startedAt, silent>>

\* Both first records arrived: the end of subscribe() or recover().
StartSucceeds ==
  /\ Starting
  /\ lock.at = "awaiting"
  /\ link
  /\ state' = "running"
  /\ failure' = "none"
  /\ misses' = 0
  /\ startedAt' = drops
  /\ silent' = 0
  /\ lease' = [c \in Leases |-> IF c = lock.by THEN "held" ELSE lease[c]]
  /\ Unlock
  /\ UNCHANGED <<leases, open, reserved, lines>>

\* Mutant of StartFails: a subscriber whose start failed leaves its lease behind.
StartFailsKeepsLease ==
  /\ Starting
  /\ lock.at = "sending" => WriteFree
  /\ state' = "failed"
  /\ failure' = "start"
  /\ IF lock.op = "subscribe"
     THEN lease' = [lease EXCEPT ![lock.by] = "closed"] /\ UNCHANGED <<leases, open>>
     ELSE UNCHANGED demand
  /\ \/ UNCHANGED <<link, drops>>
     \/ lock.at = "sending" /\ Drop
  /\ Unlock
  /\ UNCHANGED <<reserved, misses, reader, startedAt, silent>>

\* Mutant of StartFails: the start waits for the command lock without a timeout.
StartFailsWithoutTimeout ==
  /\ Starting
  /\ lock.at = "sending" => WriteFree
  /\ lock.at = "outside" => CommandFree(lock.by)
  /\ state' = "failed"
  /\ failure' = "start"
  /\ IF lock.op = "subscribe"
     THEN /\ leases' = leases \ {lock.by}
          /\ open' = open \ {lock.by}
          /\ lease' = [lease EXCEPT ![lock.by] = "closed"]
     ELSE UNCHANGED demand
  /\ \/ UNCHANGED <<link, drops>>
     \/ lock.at = "sending" /\ Drop
  /\ Unlock
  /\ UNCHANGED <<reserved, misses, reader, startedAt, silent>>

\* The start runs out of time, is refused, or loses the transport in a send, whose
\* thread then marks the session interrupted before it records the failure.
StartFails ==
  /\ Starting
  /\ lock.at = "sending" => WriteFree
  /\ state' = "failed"
  /\ failure' = "start"
  /\ IF lock.op = "subscribe"
     THEN /\ leases' = leases \ {lock.by}
          /\ open' = open \ {lock.by}
          /\ lease' = [lease EXCEPT ![lock.by] = "closed"]
     ELSE UNCHANGED demand
  /\ \/ UNCHANGED <<link, drops>>
     \/ lock.at = "sending" /\ Drop
  /\ Unlock
  /\ UNCHANGED <<reserved, misses, reader, startedAt, silent>>

\* WaterfallSessionLease.close() up to _release().
CloseLease(c) ==
  /\ lease[c] = "held"
  /\ lease' = [lease EXCEPT ![c] = "closing"]
  /\ UNCHANGED <<state, failure, leases, open, reserved, misses, lock, loop, control,
                 lines, startedAt, silent>>

\* _release(): the last lease keeps the lock and stops the publication.
Release(c) ==
  /\ LockFree
  /\ lease[c] = "closing"
  /\ leases' = leases \ {c}
  /\ open' = open \ {c}
  /\ IF leases = {c} /\ state # "closed"
     THEN /\ state' = "stopping"
          /\ lock' = Hold("release", c)
          /\ UNCHANGED lease
     ELSE /\ lease' = [lease EXCEPT ![c] = "closed"]
          /\ UNCHANGED <<state, lock>>
  /\ UNCHANGED <<failure, reserved, misses, loop, control, lines, startedAt, silent>>

\* stop_waterfall_publication() sent both stop wires, or found no connection.
StopSucceeds ==
  /\ lock.op = "release"
  /\ \/ lock.at = "sending" /\ WriteFree /\ link
     \/ lock.at = "outside" /\ CommandFree(lock.by) /\ ~link
  /\ state' = "idle"
  /\ lease' = [lease EXCEPT ![lock.by] = "closed"]
  /\ Unlock
  /\ UNCHANGED <<failure, leases, open, reserved, misses, lines, startedAt, silent>>

\* It waited for the command lock in vain, or a send failed.
StopFails ==
  /\ lock.op = "release"
  /\ lock.at = "sending" => WriteFree
  /\ state' = "failed"
  /\ failure' = "stop"
  /\ lease' = [lease EXCEPT ![lock.by] = "closed"]
  /\ \/ UNCHANGED <<link, drops>>
     \/ lock.at = "sending" /\ Drop
  /\ Unlock
  /\ UNCHANGED <<leases, open, reserved, misses, reader, startedAt, silent>>

\* close(), from SDSScanner.close(); the runtime's lifecycle lock keeps it apart
\* from a reconnect.
CloseSession ==
  /\ LockFree
  /\ state # "closed"
  /\ ~Reconnecting
  /\ leases' = {}
  /\ open' = open \ leases
  /\ IF state = "idle"
     THEN state' = "closed" /\ UNCHANGED lock
     ELSE state' = "stopping" /\ lock' = Hold("close", "shutdown")
  /\ UNCHANGED <<failure, lease, reserved, misses, loop, control, lines, startedAt, silent>>

\* close() ends in closed whether or not its stop succeeds.
CloseEnds ==
  /\ lock.op = "close"
  /\ lock.at = "sending" => WriteFree
  /\ state' = "closed"
  /\ failure' \in {failure, "stop"}
  /\ \/ UNCHANGED <<link, drops>>
     \/ lock.at = "sending" /\ Drop
  /\ Unlock
  /\ UNCHANGED <<demand, reserved, misses, reader, startedAt, silent>>
----------------------------------------------------------------------------
(* The transport's reader thread. *)

ReaderDrops ==
  /\ reader = "reading"
  /\ ~Reconnecting
  /\ Drop
  /\ reader' = "marking"
  /\ UNCHANGED <<state, failure, demand, reserved, misses, lock, loop, control,
                 startedAt, silent>>

\* A fragment was lost, and the retry the reader sends from inside the decoder fails.
ReaderRetryFails ==
  /\ reader = "reading"
  /\ ~Reconnecting
  /\ Drop
  /\ reader' = "failing"
  /\ UNCHANGED <<state, failure, demand, reserved, misses, lock, loop, control,
                 startedAt, silent>>

\* _connection_changed(False) waits for the session lock.
ReaderMarks ==
  /\ reader \in {"marking", "failing"}
  /\ LockFree
  /\ Mark
  /\ reader' = "reading"
  /\ UNCHANGED <<failure, demand, reserved, misses, lock, loop, control, link, drops,
                 startedAt, silent>>

ReaderReopens ==
  /\ reader = "reading"
  /\ ~link
  /\ ~Reconnecting
  /\ link' = TRUE
  /\ UNCHANGED <<state, failure, demand, reserved, misses, lock, loop, control, reader,
                 drops, startedAt, silent>>
----------------------------------------------------------------------------
(* The daemon's loop: DaemonRuntime.poll(). *)

\* Mutant of LoopSees: interruptions are left to an operator's reconnect.
LoopSeesRunning ==
  /\ ControlFree
  /\ LockFree
  /\ link
  /\ state = "running" /\ loop' = "polling"
  /\ UNCHANGED <<state, failure, demand, reserved, misses, lock, control, lines,
                 startedAt, silent>>

\* The control lock is taken without waiting, on what session.state said.
LoopSees ==
  /\ ControlFree
  /\ LockFree
  /\ link
  /\ \/ state = "interrupted" /\ loop' = "recovering"
     \/ state = "running" /\ loop' = "polling"
  /\ UNCHANGED <<state, failure, demand, reserved, misses, lock, control, lines,
                 startedAt, silent>>

\* recover() up to its I/O.
BeginRecover(by) ==
  /\ LockFree
  /\ state = "interrupted" /\ leases # {}
  /\ state' = "starting"
  /\ lock' = Hold("recover", by)
  /\ UNCHANGED <<failure, demand, reserved, misses, loop, control, lines, startedAt, silent>>

LoopRecovers ==
  /\ loop = "recovering"
  /\ BeginRecover("loop")

LoopGivesUp ==
  /\ LockFree
  /\ \/ loop = "recovering" /\ (state # "interrupted" \/ leases = {})
     \/ loop = "polling"
  /\ loop' = "idle"
  /\ UNCHANGED <<state, failure, demand, reserved, misses, lock, control, lines,
                 startedAt, silent>>

\* poll(): a due request is counted and leaves the session lock.
LoopPolls ==
  /\ loop = "polling"
  /\ LockFree
  /\ state = "running" /\ leases # {}
  /\ loop' = "asking"
  /\ UNCHANGED <<state, failure, demand, reserved, misses, lock, control, lines,
                 startedAt, silent>>

LoopAnswered ==
  /\ loop = "asking"
  /\ link
  /\ lock.at = "outside"
  /\ loop' = "answered"
  /\ silent' = 0
  /\ UNCHANGED <<state, failure, demand, reserved, misses, lock, control, lines, startedAt>>

OneMore(n) == IF n < MaxMisses THEN n + 1 ELSE MaxMisses

LoopMisses ==
  /\ loop = "asking"
  /\ loop' = "missed"
  /\ silent' = OneMore(silent)
  /\ UNCHANGED <<state, failure, demand, reserved, misses, lock, control, lines, startedAt>>

\* The send of the request fails: the loop itself marks the session.
LoopLosesLink ==
  /\ loop = "asking"
  /\ lock.at = "outside"
  /\ Drop
  /\ loop' = "marking"
  /\ UNCHANGED <<state, failure, demand, reserved, misses, lock, control, reader,
                 startedAt, silent>>

LoopMarks ==
  /\ loop = "marking"
  /\ LockFree
  /\ Mark
  /\ loop' = "missed"
  /\ silent' = OneMore(silent)
  /\ UNCHANGED <<failure, demand, reserved, misses, lock, control, lines, startedAt>>

LoopRecordsFrame ==
  /\ loop = "answered"
  /\ LockFree
  /\ misses' = IF state = "running" /\ leases # {} THEN 0 ELSE misses
  /\ loop' = "idle"
  /\ UNCHANGED <<state, failure, demand, reserved, lock, control, lines, startedAt, silent>>

\* Mutant of LoopRecordsMiss: the state is not looked at again after the request.
LoopRecordsMissBlindly ==
  /\ loop = "missed"
  /\ LockFree
  /\ loop' = "idle"
  /\ misses' = OneMore(misses)
  /\ IF misses + 1 >= MaxMisses
     THEN state' = "failed" /\ failure' = "poll"
     ELSE UNCHANGED <<state, failure>>
  /\ UNCHANGED <<demand, reserved, lock, control, lines, startedAt, silent>>

\* Mutant of LoopRecordsMiss: the limit is off by one.
LoopRecordsMissLate ==
  /\ loop = "missed"
  /\ LockFree
  /\ loop' = "idle"
  /\ IF state = "running" /\ leases # {}
     THEN /\ misses' = misses + 1
          /\ IF misses + 1 > MaxMisses
             THEN state' = "failed" /\ failure' = "poll"
             ELSE UNCHANGED <<state, failure>>
     ELSE UNCHANGED <<state, failure, misses>>
  /\ UNCHANGED <<demand, reserved, lock, control, lines, startedAt, silent>>

LoopRecordsMiss ==
  /\ loop = "missed"
  /\ LockFree
  /\ loop' = "idle"
  /\ IF state = "running" /\ leases # {}
     THEN /\ misses' = misses + 1
          /\ IF misses + 1 >= MaxMisses
             THEN state' = "failed" /\ failure' = "poll"
             ELSE UNCHANGED <<state, failure>>
     ELSE UNCHANGED <<state, failure, misses>>
  /\ UNCHANGED <<demand, reserved, lock, control, lines, startedAt, silent>>
----------------------------------------------------------------------------
(* The control thread: DaemonRuntime._control_scope(). *)

\* Mutant of Reserve: the reservation is taken outside the control scope.
ReserveUnscoped ==
  /\ control = "idle"
  /\ LockFree
  /\ ~reserved
  /\ leases = {}
  /\ state = "idle"
  /\ reserved' = TRUE
  /\ control' = "reserved"
  /\ UNCHANGED <<state, failure, demand, misses, lock, loop, lines, startedAt, silent>>

\* reserve_idle_for_research() and reserve_idle_for_control().
Reserve ==
  /\ ControlFree
  /\ LockFree
  /\ ~reserved
  /\ leases = {}
  /\ state = "idle"
  /\ reserved' = TRUE
  /\ control' = "reserved"
  /\ UNCHANGED <<state, failure, demand, misses, lock, loop, lines, startedAt, silent>>

Unreserve ==
  /\ control = "reserved"
  /\ LockFree
  /\ reserved' = FALSE
  /\ control' = "idle"
  /\ UNCHANGED <<state, failure, demand, misses, lock, loop, lines, startedAt, silent>>

\* SDSScanner.reconnect(): has the command lock and stops the transport.
BeginReconnect ==
  /\ ControlFree
  /\ lock.at = "outside"
  /\ state # "closed" /\ lock.op # "close"
  /\ IF link
     THEN Drop /\ control' = "marking"
     ELSE control' = "reopening" /\ UNCHANGED <<link, drops>>
  /\ UNCHANGED <<state, failure, demand, reserved, misses, lock, loop, reader,
                 startedAt, silent>>

\* Mutant of ReconnectMarks: an intended close is not reported as an interruption.
ReconnectMarksNothing ==
  /\ control = "marking"
  /\ LockFree
  /\ control' = "reopening"
  /\ UNCHANGED <<state, failure, demand, reserved, misses, lock, loop, lines,
                 startedAt, silent>>

ReconnectMarks ==
  /\ control = "marking"
  /\ LockFree
  /\ Mark
  /\ control' = "reopening"
  /\ UNCHANGED <<failure, demand, reserved, misses, lock, loop, lines, startedAt, silent>>

\* The transport's stop() resets the decoder; connect() and the PSI restoration
\* follow, and may fail or leave no time.
ReconnectOpens ==
  /\ control = "reopening"
  /\ WriteFree
  /\ \/ /\ link' = TRUE
        /\ reader' = IF reader = "gone" THEN "reading" ELSE reader
        /\ control' \in {"restoring", "idle"}
     \/ /\ link' = FALSE
        /\ reader' = IF reader = "reading" THEN "gone" ELSE reader
        /\ control' = "idle"
  /\ UNCHANGED <<state, failure, demand, reserved, misses, lock, loop, drops,
                 startedAt, silent>>

ReconnectRecovers ==
  /\ control = "restoring"
  /\ BeginRecover("control")

ReconnectEnds ==
  /\ control = "restoring"
  /\ LockFree
  /\ state # "interrupted" \/ leases = {}
  /\ control' = "idle"
  /\ UNCHANGED <<state, failure, demand, reserved, misses, lock, loop, lines,
                 startedAt, silent>>

----------------------------------------------------------------------------
ConsumerNext(c) == Subscribe(c) \/ CloseLease(c) \/ Release(c)

LockHolderNext ==
  \/ EnterCommand \/ SendWire \/ NextWire \/ StartSucceeds \/ StartFails
  \/ StopSucceeds \/ StopFails \/ CloseEnds

ReaderNext == ReaderDrops \/ ReaderRetryFails \/ ReaderMarks \/ ReaderReopens

LoopNext ==
  \/ LoopSees \/ LoopRecovers \/ LoopGivesUp \/ LoopPolls
  \/ LoopAnswered \/ LoopMisses \/ LoopLosesLink \/ LoopMarks
  \/ LoopRecordsFrame \/ LoopRecordsMiss

ControlNext ==
  \/ Reserve \/ Unreserve \/ BeginReconnect \/ ReconnectMarks
  \/ ReconnectOpens \/ ReconnectRecovers \/ ReconnectEnds

Next ==
  \/ \E c \in Leases : ConsumerNext(c)
  \/ LockHolderNext
  \/ CloseSession
  \/ ReaderNext
  \/ LoopNext
  \/ ControlNext

Spec == Init /\ [][Next]_vars

\* Every wait for the scanner or for the command lock has a timeout, the daemon
\* polls periodically, and a thread that waits for the session lock gets it once
\* it stays free.  Nothing makes a consumer come or go, the transport fail or
\* heal, or the operator act.
Fairness ==
  /\ WF_vars(StartSucceeds \/ StartFails)
  /\ WF_vars(StopSucceeds \/ StopFails)
  /\ WF_vars(CloseEnds)
  /\ \A c \in Leases : WF_vars(Release(c))
  /\ WF_vars(ReaderMarks)
  /\ WF_vars(LoopSees) /\ WF_vars(LoopRecovers) /\ WF_vars(LoopGivesUp)
  /\ WF_vars(LoopAnswered \/ LoopMisses)
  /\ WF_vars(LoopMarks \/ LoopRecordsFrame \/ LoopRecordsMiss)
  /\ WF_vars(Unreserve)
  /\ WF_vars(ReconnectMarks \/ ReconnectOpens \/ ReconnectRecovers \/ ReconnectEnds)

FairSpec == Spec /\ Fairness
----------------------------------------------------------------------------
States == {"idle", "starting", "running", "stopping", "interrupted", "failed", "closed"}

TypeOK ==
  /\ state \in States
  /\ failure \in {"none", "start", "stop", "poll"}
  /\ leases \subseteq Leases
  /\ open \subseteq Leases
  /\ lease \in [Leases -> {"new", "subscribing", "held", "closing", "closed"}]
  /\ reserved \in BOOLEAN
  /\ misses \in 0 .. MaxMisses
  /\ lock \in [op : {"none", "subscribe", "recover", "release", "close"},
               by : Leases \cup {"none", "loop", "control", "shutdown"},
               at : {"outside", "sending", "awaiting"}]
  /\ loop \in {"idle", "recovering", "polling", "asking", "answered", "marking", "missed"}
  /\ control \in {"idle", "reserved", "marking", "reopening", "restoring"}
  /\ link \in BOOLEAN
  /\ reader \in {"reading", "marking", "failing", "gone"}
  /\ drops \in 0 .. MaxDrops
  /\ startedAt \in 0 .. MaxDrops
  /\ silent \in 0 .. MaxMisses

\* When nobody keeps the session lock, the session's state agrees with the demand
\* for it, every open subscription has a lease that keeps the publication alive,
\* and every lease whose owner has not begun to close it has its subscription,
\* until the session closes: whatever failed, no demand leaks and none is lost.
DemandAccounted ==
  LockFree =>
    /\ leases = {} => state \in {"idle", "failed", "closed"}
    /\ leases # {} => state \in {"running", "interrupted", "failed"}
    /\ open = leases
    /\ state # "closed" => leases = {c \in Leases : lease[c] \in {"held", "closing"}}

\* A reservation has the session to itself: no lease, no start or stop under way
\* and no polled request in flight, although poll() keeps no session lock.
ReservationIsQuiet ==
  reserved => /\ leases = {}
              /\ lock.op = "none"
              /\ loop = "idle"
              /\ ~Reconnecting

SomeoneMarks == reader = "failing" \/ "marking" \in {reader, loop, control}

\* A session that says running has lost no transport since it started, unless a
\* thread that saw the loss is still on its way to mark it.
InterruptionIsSeen ==
  (LockFree /\ state = "running" /\ startedAt < drops) => SomeoneMarks

\* A closed session stays closed and admits nobody, whatever answers arrive late.
ClosedIsFinal ==
  [][state = "closed" => state' = "closed" /\ leases' = {} /\ open' = {}]_vars

\* A failure by polling means what the documentation says: MaxMisses requests in
\* a row without a frame (docs/daemon-waterfall.md: "three consecutive misses
\* transition it to failed").
FailureMeansConsecutiveMisses ==
  (state = "failed" /\ failure = "poll") => silent = MaxMisses

\* Session lock, command lock and the transport's locks wait for each other in a
\* circle: the reader for the first, a start or a stop for the last.
Gridlocked == reader = "failing" /\ lock.at = "sending"

\* Nothing the receive thread does while it marks the session interrupted stops a
\* start or a stop from ending within its timeout (docs/daemon-waterfall.md: "the
\* receive callback only marks the session interrupted").
NoGridlock == ~Gridlocked

\* A subscribe(), a lease's close() and a reconnect all return, although session
\* lock and command lock are taken in both orders, but for one circle: that of the
\* locks below the command lock, which have no timeout.
EveryoneReturns ==
  /\ \A c \in Leases :
       /\ lease[c] = "subscribing" ~> (lease[c] # "subscribing" \/ Gridlocked)
       /\ lease[c] = "closing" ~> (lease[c] = "closed" \/ Gridlocked)
  /\ Reconnecting ~> (~Reconnecting \/ Gridlocked)

\* An interrupted session with demand does not stay so while the transport is up.
InterruptedIsAttended ==
  (state = "interrupted" /\ link) ~> (state # "interrupted" \/ ~link)
=============================================================================
