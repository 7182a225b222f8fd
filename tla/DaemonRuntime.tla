---------------------------- MODULE DaemonRuntime ----------------------------
(***************************************************************************)
(* DaemonRuntime (src/sds200/daemon_runtime.py) and the PSI half of the    *)
(* scanner session it owns (src/sds200/radio.py).                          *)
(*                                                                         *)
(* The foreground thread starts the runtime, polls it and stops it.  poll()*)
(* restarts a PSI stream that is inactive or has gone silent: over the     *)
(* network by a reconnect, over a serial line by pushing PSI again.  Client*)
(* threads run controls.  The control lock is the one slot for mutations,  *)
(* which a control takes without waiting; the lifecycle lock keeps controls*)
(* apart from start() and stop().  The transport's reader thread turns     *)
(* frames into PSI activity, sees the link fail and reopens it.            *)
(*                                                                         *)
(* A failed reopening inside a reconnect leaves no reader thread behind.   *)
(* The reader tests the stop flag before it opens, so that it may open a   *)
(* transport that was closed in between; who stops it waits until it ends. *)
(*                                                                         *)
(* Left out: the audio side but for its failing start, snapshots, what a   *)
(* control does to the scanner, the timestamps and the waterfall session   *)
(* (module WaterfallSession), of which only its hold on the slot is seen.  *)
(***************************************************************************)
EXTENDS Naturals, Sequences, FiniteSets

CONSTANTS
  Controls,  \* the control requests of client threads, each made once
  MaxLosses  \* bound: how often the link fails

ASSUME RuntimeAssumption ==
  /\ IsFiniteSet(Controls)
  /\ Controls \cap {"none", "main", "other"} = {}
  /\ MaxLosses \in Nat

VARIABLES
  network,   \* the transport is UDP: it supports a bounded reconnect, and a start
             \* without PSI is not allowed
  state,     \* _state
  stopped,   \* _stopped
  lifecycle, \* who has the lifecycle lock
  slot,      \* who has the control lock
  at,        \* where the foreground thread "main" and every control are
  own,       \* where "main" and another caller of stop() are in stop() or in
             \* _emit_pending_transitions()
  hand,      \* the number of the transition each of them is emitting, or 0
  link,      \* the transport is connected
  alive,     \* the transport has a reader thread that was not told to stop
  reader,    \* what that thread, told to stop or not, is doing: it receives, opens
             \* the transport, or tells the scanner that it did
  losses,    \* how often the link failed
  interval,  \* the scanner's _psi_interval_ms is set
  active,    \* the scanner's _psi_active
  saved,     \* the interval a running reconnect will restore
  seen,      \* the reader has a frame, found the interval set and will set active
  first,     \* a frame has come since the waiting push began: first_updates
  lastPsi,   \* the age of _last_psi_at
  since,     \* the time since _last_psi_recovery_at
  pending,   \* _pending_transitions, by their numbers
  made,      \* _transition_sequence
  told,      \* the transitions delivered to listeners
  emitting   \* _emitting_transitions

locks == <<lifecycle, slot>>
wire == <<link, alive, reader, losses>>
psi == <<interval, active, seen, first>>
clocks == <<lastPsi, since>>
news == <<hand, pending, made, told, emitting>>
vars == <<network, state, stopped, locks, at, own, wire, psi, saved, clocks, news>>

----------------------------------------------------------------------------
Users == Controls \cup {"main"}
Owners == {"main", "other"}

\* Where main is inside poll().
PollSteps ==
  {"waterfall", "psi", "inactive", "stale", "wantStart", "wantRefresh", "wantSlot",
   "starts", "pushes", "awaits", "refreshes", "repushes", "reawaits",
   "admitted", "reconnecting", "reopening", "restoring"}

\* _transition_locked(): the next transition is queued with its number.
Transition(next) ==
  /\ state' = next
  /\ made' = made + 1
  /\ pending' = Append(pending, made + 1)
  /\ UNCHANGED <<hand, told, emitting>>

Goes(t, step) == at' = [at EXCEPT ![t] = step]

\* The scanner stops its transport, first half: the reader is told to stop, and a UDP
\* socket is closed at once.  The frame the reader has in hand (seen) and the opening
\* it has begun are still to come.
Silences ==
  /\ interval' = FALSE
  /\ active' = FALSE
  /\ alive' = FALSE
  /\ link' = (link /\ ~network)
  /\ UNCHANGED <<reader, losses, seen, first>>

\* The reader has nothing in hand; told to stop, it has ended then.
ReaderIdle == ~seen /\ reader = "receives"

\* Second half: the reader is waited for.  A serial line is closed only then, whoever
\* opened it.
Closes ==
  /\ ReaderIdle
  /\ link' = (link /\ network)
  /\ UNCHANGED <<alive, reader, losses>>

Init ==
  /\ network \in BOOLEAN
  /\ state = "idle" /\ stopped = FALSE
  /\ lifecycle = "none" /\ slot = "none"
  /\ at = [t \in Users |-> "new"] /\ own = [o \in Owners |-> "idle"]
  /\ link = FALSE /\ alive = FALSE /\ reader = "receives" /\ losses = 0
  /\ interval = FALSE /\ active = FALSE /\ seen = FALSE /\ first = FALSE
  /\ saved = FALSE
  /\ lastPsi = "never" /\ since = "never"
  /\ hand = [o \in Owners |-> 0] /\ pending = <<>> /\ made = 0 /\ told = <<>> /\ emitting = FALSE
----------------------------------------------------------------------------
(* start(), by main. *)

BeginStart ==
  /\ at["main"] = "new"
  /\ lifecycle = "none"
  /\ lifecycle' = "main"
  /\ Transition("starting")
  /\ Goes("main", "connecting")
  /\ UNCHANGED <<network, stopped, slot, own, wire, psi, saved, clocks>>

Connects ==
  /\ at["main"] = "connecting"
  /\ \/ Goes("main", "startsPsi") /\ link' = TRUE /\ alive' = TRUE
     \/ Goes("main", "cleaning") /\ UNCHANGED <<link, alive>>
  /\ UNCHANGED <<network, state, stopped, locks, own, reader, losses, psi, saved, clocks,
                 news>>

\* start_scanner_info_push(): the interval is set before the request is sent.
PushBegins ==
  /\ active' = FALSE
  /\ interval' = TRUE
  /\ first' = FALSE
  /\ UNCHANGED seen

PushSucceeds ==
  /\ first
  /\ active' = TRUE
  /\ UNCHANGED <<interval, seen, first>>

PushFails ==
  /\ active' = FALSE
  /\ interval' = FALSE
  /\ UNCHANGED <<seen, first>>

StartPushes ==
  /\ at["main"] = "startsPsi"
  /\ PushBegins
  /\ Goes("main", "awaitsPsi")
  /\ UNCHANGED <<network, state, stopped, locks, own, wire, saved, clocks, news>>

\* A serial start goes on without PSI when the scanner is not ready for it.
StartAwaits ==
  /\ at["main"] = "awaitsPsi"
  /\ \/ PushSucceeds /\ lastPsi' = "fresh" /\ Goes("main", "startsAudio") /\ UNCHANGED since
     \/ PushFails /\ ~network /\ since' = "recent" /\ Goes("main", "startsAudio")
        /\ UNCHANGED lastPsi
     \/ PushFails /\ (network \/ ~link) /\ Goes("main", "cleaning") /\ UNCHANGED clocks
  /\ UNCHANGED <<network, state, stopped, locks, own, wire, saved, news>>

AudioStarts ==
  /\ at["main"] = "startsAudio"
  /\ \/ /\ Transition("running")
        /\ lifecycle' = "none"
        /\ own' = [own EXCEPT !["main"] = "emit"]
        /\ Goes("main", "loop")
     \/ Goes("main", "cleaning") /\ UNCHANGED <<state, lifecycle, own, news>>
  /\ UNCHANGED <<network, stopped, slot, wire, psi, saved, clocks>>

\* The failed start closes what it opened; the process then stops the runtime.
StartCleans ==
  /\ at["main"] = "cleaning"
  /\ Silences
  /\ Goes("main", "cleaned")
  /\ UNCHANGED <<network, state, stopped, locks, own, saved, clocks, news>>

StartFails ==
  /\ at["main"] = "cleaned"
  /\ Closes
  /\ stopped' = TRUE
  /\ Transition("failed")
  /\ lifecycle' = "none"
  /\ own' = [own EXCEPT !["main"] = "emit"]
  /\ Goes("main", "leaving")
  /\ UNCHANGED <<network, slot, psi, saved, clocks>>
----------------------------------------------------------------------------
(* stop() and the emission of transitions, by main and another caller. *)

Returned(o) == own[o] = "idle"

StopRequested ==
  /\ at["main"] = "loop"
  /\ Returned("main")
  /\ Goes("main", "leaving")
  /\ UNCHANGED <<network, state, stopped, locks, own, wire, psi, saved, clocks, news>>

\* stop() waits for the lifecycle lock.  Another caller than main makes no stop() that
\* meets main inside poll(): poll() relies on being called from the stopping thread.
MayStop(o) ==
  /\ Returned(o)
  /\ lifecycle = "none"
  /\ IF o = "main" THEN at["main"] = "leaving" ELSE at["main"] \notin PollSteps

StopReturns(o) ==
  /\ MayStop(o)
  /\ state = "idle" \/ stopped
  /\ IF o = "main"
     THEN Goes("main", "gone") /\ UNCHANGED own
     ELSE own' = [own EXCEPT ![o] = "done"] /\ UNCHANGED at
  /\ UNCHANGED <<network, state, stopped, locks, wire, psi, saved, clocks, news>>

\* Mutant of BeginStop: a stop() after the stop begins again.
BeginStopAgain(o) ==
  /\ MayStop(o)
  /\ state # "idle"
  /\ lifecycle' = o
  /\ Transition("stopping")
  /\ own' = [own EXCEPT ![o] = "stopping"]
  /\ UNCHANGED <<network, stopped, slot, at, wire, psi, saved, clocks>>

BeginStop(o) ==
  /\ MayStop(o)
  /\ state # "idle" /\ ~stopped
  /\ lifecycle' = o
  /\ Transition("stopping")
  /\ own' = [own EXCEPT ![o] = "stopping"]
  /\ UNCHANGED <<network, stopped, slot, at, wire, psi, saved, clocks>>

\* stop_scanner_info_push().
StopPsi(o) ==
  /\ own[o] = "stopping"
  /\ IF active THEN PushFails ELSE UNCHANGED psi
  /\ own' = [own EXCEPT ![o] = "closing"]
  /\ UNCHANGED <<network, state, stopped, locks, at, wire, saved, clocks, news>>

\* SDSScanner.close() and the end of stop().
CloseScanner(o) ==
  /\ own[o] = "closing"
  /\ Silences
  /\ own' = [own EXCEPT ![o] = "joining"]
  /\ UNCHANGED <<network, state, stopped, locks, at, saved, clocks, news>>

EndStop(o) ==
  /\ own[o] = "joining"
  /\ Closes
  /\ stopped' = TRUE
  /\ \E terminal \in {"stopped", "failed"} : Transition(terminal)
  /\ lifecycle' = "none"
  /\ own' = [own EXCEPT ![o] = "emit"]
  /\ UNCHANGED <<network, slot, at, psi, saved, clocks>>

\* Mutant of EmitBegins: whoever made a transition delivers it.
EmitBeginsAlways(o) ==
  /\ own[o] = "emit"
  /\ emitting' = TRUE
  /\ own' = [own EXCEPT ![o] = "emitting"]
  /\ UNCHANGED <<network, state, stopped, locks, at, wire, psi, saved, clocks,
                 hand, pending, made, told>>

EmitBegins(o) ==
  /\ own[o] = "emit"
  /\ emitting' = TRUE
  /\ own' = [own EXCEPT ![o] = IF emitting THEN "idle" ELSE "emitting"]
  /\ UNCHANGED <<network, state, stopped, locks, at, wire, psi, saved, clocks,
                 hand, pending, made, told>>

EmitTakes(o) ==
  /\ own[o] = "emitting"
  /\ IF pending = <<>>
     THEN /\ emitting' = FALSE
          /\ own' = [own EXCEPT ![o] = "idle"]
          /\ UNCHANGED <<hand, pending>>
     ELSE /\ pending' = Tail(pending)
          /\ hand' = [hand EXCEPT ![o] = Head(pending)]
          /\ own' = [own EXCEPT ![o] = "telling"]
          /\ UNCHANGED emitting
  /\ UNCHANGED <<network, state, stopped, locks, at, wire, psi, saved, clocks, made, told>>

\* The listeners are called without a lock.
EmitTells(o) ==
  /\ own[o] = "telling"
  /\ told' = Append(told, hand[o])
  /\ hand' = [hand EXCEPT ![o] = 0]
  /\ own' = [own EXCEPT ![o] = "emitting"]
  /\ UNCHANGED <<network, state, stopped, locks, at, wire, psi, saved, clocks,
                 pending, made, emitting>>
----------------------------------------------------------------------------
(* poll(), by main. *)

Ready == state = "running" /\ link

\* _recover_interrupted_waterfall() or _poll_running_waterfall(), when they have work.
PollWaterfall ==
  /\ at["main"] = "loop" /\ Returned("main")
  /\ Ready
  /\ slot = "none"
  /\ slot' = "main"
  /\ Goes("main", "waterfall")
  /\ UNCHANGED <<network, state, stopped, lifecycle, own, wire, psi, saved, clocks, news>>

WaterfallEnds ==
  /\ at["main"] = "waterfall"
  /\ slot' = "none"
  /\ Goes("main", "psi")
  /\ UNCHANGED <<network, state, stopped, lifecycle, own, wire, psi, saved, clocks, news>>

\* Mutant of Inactive: a stream that never started is not looked after.
InactiveOnce == ~active /\ lastPsi = "stale"

\* A stream that never started counts as inactive at once where the start may do
\* without it, any other after a silence.
Inactive ==
  /\ ~active
  /\ lastPsi = "stale" \/ (lastPsi = "never" /\ ~network)

PollLooks ==
  /\ at["main"] \in {"loop", "psi"} /\ Returned("main")
  /\ Goes("main", IF ~Ready \/ since = "recent" THEN "loop"
                  ELSE IF Inactive THEN "inactive"
                  ELSE IF active /\ lastPsi = "stale" THEN "stale"
                  ELSE "loop")
  /\ UNCHANGED <<network, state, stopped, locks, own, wire, psi, saved, clocks, news>>

\* _control_lock.locked() has the last word on whether this poll recovers at all.
PollYields ==
  /\ at["main"] \in {"inactive", "stale"}
  /\ slot # "none"
  /\ Goes("main", "loop")
  /\ UNCHANGED <<network, state, stopped, locks, own, wire, psi, saved, clocks, news>>

\* Mutant of PollCommits: finding the control lock free is taken for having it.
PollCommitsUnlocked ==
  /\ at["main"] \in {"inactive", "stale"}
  /\ slot = "none"
  /\ Goes("main", IF at["main"] = "inactive" THEN "starts"
                  ELSE IF lastPsi # "stale" THEN "loop"
                  ELSE IF network THEN "wantSlot"
                  ELSE "refreshes")
  /\ UNCHANGED <<network, state, stopped, locks, own, wire, psi, saved, clocks, news>>

PollCommits ==
  /\ at["main"] \in {"inactive", "stale"}
  /\ slot = "none"
  /\ Goes("main", IF at["main"] = "inactive" THEN "wantStart"
                  ELSE IF lastPsi # "stale" THEN "loop"
                  ELSE IF network THEN "wantSlot"
                  ELSE "wantRefresh")
  /\ UNCHANGED <<network, state, stopped, locks, own, wire, psi, saved, clocks, news>>

\* _start_inactive_psi() and _refresh_psi() wait for the control lock.
PollTakesSlot ==
  /\ at["main"] \in {"wantStart", "wantRefresh"}
  /\ slot = "none"
  /\ slot' = "main"
  /\ Goes("main", IF at["main"] = "wantStart" THEN "starts" ELSE "refreshes")
  /\ UNCHANGED <<network, state, stopped, lifecycle, own, wire, psi, saved, clocks, news>>

\* reconnect() does not: without the slot nothing is recovered and nothing recorded.
PollReconnects ==
  /\ at["main"] = "wantSlot"
  /\ IF slot = "none"
     THEN slot' = "main" /\ Goes("main", "admitted")
     ELSE Goes("main", "loop") /\ UNCHANGED slot
  /\ UNCHANGED <<network, state, stopped, lifecycle, own, wire, psi, saved, clocks, news>>

\* main gives the slot back and notes the time of this recovery, failed or not.
PollRests ==
  /\ slot' = "none"
  /\ since' = "recent"
  /\ Goes("main", "loop")
  /\ UNCHANGED lastPsi

\* An exception poll() does not expect ends the daemon process.
PollDies ==
  /\ slot' = "none"
  /\ Goes("main", "leaving")
  /\ UNCHANGED clocks

PollStarts ==
  /\ at["main"] = "starts"
  /\ IF ~link \/ active
     THEN PollRests
     ELSE Goes("main", "pushes") /\ UNCHANGED <<slot, clocks>>
  /\ UNCHANGED <<network, state, stopped, lifecycle, own, wire, psi, saved, news>>

\* The stream may have come back by itself: then the push raises RuntimeError.
PollPushes ==
  /\ at["main"] = "pushes"
  /\ \/ active /\ PollDies /\ UNCHANGED psi
     \/ ~active /\ PollRests /\ UNCHANGED psi
     \/ ~active /\ PushBegins /\ Goes("main", "awaits") /\ UNCHANGED <<slot, clocks>>
  /\ UNCHANGED <<network, state, stopped, lifecycle, own, wire, saved, news>>

\* Nobody catches the ScannerConnectionError of a request sent without a link.
PollAwaits ==
  /\ at["main"] = "awaits"
  /\ \/ PushSucceeds /\ PollRests
     \/ PushFails /\ PollRests
     \/ ~link /\ PushFails /\ PollDies
  /\ UNCHANGED <<network, state, stopped, lifecycle, own, wire, saved, news>>

PollRefreshes ==
  /\ at["main"] = "refreshes"
  /\ IF ~link \/ ~active
     THEN PollRests /\ UNCHANGED psi
     ELSE PushFails /\ Goes("main", "repushes") /\ UNCHANGED <<slot, clocks>>
  /\ UNCHANGED <<network, state, stopped, lifecycle, own, wire, saved, news>>

PollRepushes ==
  /\ at["main"] = "repushes"
  /\ \/ PollRests /\ UNCHANGED psi
     \/ ~active /\ PushBegins /\ Goes("main", "reawaits") /\ UNCHANGED <<slot, clocks>>
  /\ UNCHANGED <<network, state, stopped, lifecycle, own, wire, saved, news>>

PollReawaits ==
  /\ at["main"] = "reawaits"
  /\ PushSucceeds \/ PushFails
  /\ PollRests
  /\ UNCHANGED <<network, state, stopped, lifecycle, own, wire, saved, news>>
----------------------------------------------------------------------------
(* _control_scope() of the controls, and of the reconnect poll() makes. *)

\* A control that finds the slot taken is refused.
BeginControl(c) ==
  /\ at[c] = "new"
  /\ IF slot = "none"
     THEN slot' = c /\ Goes(c, "admitted")
     ELSE Goes(c, "done") /\ UNCHANGED slot
  /\ UNCHANGED <<network, state, stopped, lifecycle, own, wire, psi, saved, clocks, news>>

\* Mutant of Leaves: only the slot is given back.
LeavesLifecycle(t) ==
  /\ slot' = "none"
  /\ UNCHANGED lifecycle
  /\ IF t = "main"
     THEN Goes("main", "loop") /\ since' = "recent" /\ UNCHANGED lastPsi
     ELSE Goes(t, "done") /\ UNCHANGED clocks

\* Both locks are given back; a poll()'s reconnect ends with its result recorded.
Leaves(t) ==
  /\ slot' = "none"
  /\ lifecycle' = IF lifecycle = t THEN "none" ELSE lifecycle
  /\ IF t = "main"
     THEN Goes("main", "loop") /\ since' = "recent" /\ UNCHANGED lastPsi
     ELSE Goes(t, "done") /\ UNCHANGED clocks

WaitsFor(t) == at[t] = "admitted" /\ slot = t

\* Mutant of Enter: the state is not read again.
EnterUnchecked(t) ==
  /\ WaitsFor(t)
  /\ lifecycle = "none"
  /\ lifecycle' = t
  /\ Goes(t, IF network THEN "reconnecting" ELSE "acting")
  /\ UNCHANGED <<network, state, stopped, slot, own, wire, psi, saved, clocks, news>>

\* With the lifecycle lock in hand the state is read again.  Only the UDP transport
\* reconnects, and only a reconnect does without a link.  It may also be too late.
Enter(t) ==
  /\ WaitsFor(t)
  /\ lifecycle = "none"
  /\ lifecycle' = t
  /\ \/ state = "running" /\ network /\ Goes(t, "reconnecting")
     \/ state = "running" /\ link /\ t # "main" /\ Goes(t, "acting")
     \/ Goes(t, "refused")
  /\ UNCHANGED <<network, state, stopped, slot, own, wire, psi, saved, clocks, news>>

\* The lifecycle lock is not had in time.
EnterTimesOut(t) ==
  /\ WaitsFor(t)
  /\ lifecycle # "none"
  /\ Leaves(t)
  /\ UNCHANGED <<network, state, stopped, own, wire, psi, saved, news>>

ActEnds(t) ==
  /\ at[t] \in {"acting", "refused"}
  /\ Leaves(t)
  /\ UNCHANGED <<network, state, stopped, own, wire, psi, saved, news>>

\* SDSScanner.reconnect(): the interval is kept aside and the transport stopped,
\* unless the command lock is not had in time.
Reconnects(t) ==
  /\ at[t] = "reconnecting"
  /\ \/ /\ saved' = interval
        /\ Silences
        /\ Goes(t, "reopening")
        /\ UNCHANGED <<locks, clocks>>
     \/ Leaves(t) /\ UNCHANGED <<wire, psi, saved>>
  /\ UNCHANGED <<network, state, stopped, own, news>>

\* What a failing reconnect leaves behind.
Restored ==
  /\ interval' = saved
  /\ active' = FALSE
  /\ UNCHANGED <<seen, first>>

\* A transport that does not open has no socket and no new reader.  When the time is up
\* already it is not opened, and a socket the old reader opened stays.
ReopenFails(t) ==
  /\ at[t] = "reopening"
  /\ ReaderIdle
  /\ link' \in {link, FALSE}
  /\ Restored
  /\ Leaves(t)
  /\ UNCHANGED <<network, state, stopped, own, alive, reader, losses, saved, news>>

\* The transport opens; PSI is pushed again if it was, or the time is up.
Reopens(t) ==
  /\ at[t] = "reopening"
  /\ ReaderIdle
  /\ link' = TRUE
  /\ alive' = TRUE
  /\ \/ saved /\ ~active /\ PushBegins /\ Goes(t, "restoring") /\ UNCHANGED <<locks, clocks>>
     \/ ~saved /\ Leaves(t) /\ UNCHANGED psi
     \/ Restored /\ Leaves(t)
  /\ UNCHANGED <<network, state, stopped, own, reader, losses, saved, news>>

Restores(t) ==
  /\ at[t] = "restoring"
  /\ PushSucceeds \/ Restored
  /\ Leaves(t)
  /\ UNCHANGED <<network, state, stopped, own, wire, saved, news>>
----------------------------------------------------------------------------
(* The transport's reader and the clock. *)

Awaited ==
  \E t \in Users : at[t] \in {"awaitsPsi", "awaits", "reawaits", "restoring"}

\* _receive_line(): a frame that finds the interval set makes the stream active
\* a moment later; it is published either way.
FrameArrives ==
  /\ alive /\ link /\ ReaderIdle
  /\ IF interval
     THEN seen' = TRUE /\ UNCHANGED <<first, lastPsi>>
     ELSE first' = Awaited /\ lastPsi' = "fresh" /\ UNCHANGED seen
  /\ UNCHANGED <<network, state, stopped, locks, at, own, wire, interval, active, saved,
                 since, news>>

FrameSets ==
  /\ seen
  /\ seen' = FALSE
  /\ active' = TRUE
  /\ first' = (first \/ Awaited)
  /\ lastPsi' = "fresh"
  /\ UNCHANGED <<network, state, stopped, locks, at, own, wire, interval, saved, since, news>>

\* Who finds the link failed, the reader or a writer, tells the scanner.
LinkLost ==
  /\ link
  /\ losses < MaxLosses
  /\ losses' = losses + 1
  /\ link' = FALSE
  /\ active' = FALSE
  /\ UNCHANGED <<network, state, stopped, locks, at, own, alive, reader, interval, seen,
                 first, saved, clocks, news>>

\* Without a link the reader waits for its backoff to pass, and finds that nobody has
\* told it to stop.
ReaderWaits ==
  /\ alive /\ ~link /\ ReaderIdle
  /\ reader' = "opens"
  /\ UNCHANGED <<network, state, stopped, locks, at, own, link, alive, losses, psi, saved,
                 clocks, news>>

\* It opens the transport, whoever has told it to stop since, or fails to.
ReaderReopens ==
  /\ reader = "opens"
  /\ \/ link' = TRUE /\ reader' = "announces"
     \/ link' = FALSE /\ reader' = "receives"
  /\ UNCHANGED <<network, state, stopped, locks, at, own, alive, losses, psi, saved, clocks,
                 news>>

\* The scanner hears of it and asks for PSI if it was on.
ReaderAnnounces ==
  /\ reader = "announces"
  /\ reader' = "receives"
  /\ active' = (active /\ ~interval)
  /\ UNCHANGED <<network, state, stopped, locks, at, own, link, alive, losses, interval,
                 seen, first, saved, clocks, news>>

\* Age: psi_recover_after passes without a frame; Rest: the cooldown passes.
Age ==
  /\ lastPsi = "fresh"
  /\ lastPsi' = "stale"
  /\ UNCHANGED <<network, state, stopped, locks, at, own, wire, psi, saved, since, news>>

Rest ==
  /\ since = "recent"
  /\ since' = "rested"
  /\ UNCHANGED <<network, state, stopped, locks, at, own, wire, psi, saved, lastPsi, news>>
----------------------------------------------------------------------------
Poll ==
  \/ PollWaterfall \/ WaterfallEnds \/ PollLooks \/ PollYields \/ PollCommits
  \/ PollTakesSlot \/ PollReconnects \/ PollStarts \/ PollPushes \/ PollAwaits
  \/ PollRefreshes \/ PollRepushes \/ PollReawaits

Start ==
  BeginStart \/ Connects \/ StartPushes \/ StartAwaits \/ AudioStarts \/ StartCleans
  \/ StartFails

Scope(t) ==
  \/ Enter(t) \/ EnterTimesOut(t) \/ ActEnds(t)
  \/ Reconnects(t) \/ ReopenFails(t) \/ Reopens(t) \/ Restores(t)

\* What a caller of stop() or of start() does once it has begun.
Ends(o) ==
  \/ StopPsi(o) \/ CloseScanner(o) \/ EndStop(o)
  \/ EmitBegins(o) \/ EmitTakes(o) \/ EmitTells(o)

Stops(o) == StopReturns(o) \/ BeginStop(o)

Main == Start \/ Poll \/ Scope("main") \/ Stops("main") \/ Ends("main")

Reader == FrameSets \/ ReaderWaits \/ ReaderReopens \/ ReaderAnnounces

Next ==
  \/ Main \/ StopRequested \/ Stops("other") \/ Ends("other")
  \/ \E c \in Controls : BeginControl(c) \/ Scope(c)
  \/ Reader \/ FrameArrives \/ LinkLost \/ Age \/ Rest

Spec == Init /\ [][Next]_vars

\* Threads that can go on do: calls wait with timeouts, the reader's backoff ends,
\* and time passes.  Nothing makes a frame arrive or the process stop.
FairSpec ==
  /\ Spec
  /\ WF_vars(Main) /\ WF_vars(Ends("other")) /\ WF_vars(Reader) /\ WF_vars(Rest)
  /\ \A c \in Controls : WF_vars(Scope(c))
----------------------------------------------------------------------------
TypeOK ==
  /\ network \in BOOLEAN
  /\ state \in {"idle", "starting", "running", "stopping", "stopped", "failed"}
  /\ stopped \in BOOLEAN
  /\ lifecycle \in Users \cup {"none", "other"}
  /\ slot \in Users \cup {"none"}
  /\ at \in [Users -> PollSteps \cup
       {"new", "connecting", "startsPsi", "awaitsPsi", "startsAudio", "cleaning", "cleaned",
        "loop", "leaving", "gone", "acting", "refused", "done"}]
  /\ own \in [Owners -> {"idle", "stopping", "closing", "joining", "emit", "emitting",
                         "telling", "done"}]
  /\ hand \in [Owners -> Nat]
  /\ link \in BOOLEAN /\ alive \in BOOLEAN /\ reader \in {"receives", "opens", "announces"}
  /\ losses \in 0 .. MaxLosses
  /\ interval \in BOOLEAN /\ active \in BOOLEAN /\ saved \in BOOLEAN
  /\ seen \in BOOLEAN /\ first \in BOOLEAN
  /\ lastPsi \in {"never", "fresh", "stale"}
  /\ since \in {"never", "recent", "rested"}
  /\ pending \in Seq(Nat) /\ told \in Seq(Nat)
  /\ made \in 0 .. 4
  /\ emitting \in BOOLEAN

Mutating ==
  {t \in Users : at[t] \in {"waterfall", "starts", "pushes", "awaits", "refreshes",
                           "repushes", "reawaits", "acting", "reconnecting", "reopening",
                           "restoring"}}

Stopping == {o \in Owners : own[o] \in {"stopping", "closing", "joining"}}

\* Whatever changes the scanner does so alone: one control, one recovery of poll()
\* or one stop(), although poll() takes only the control lock, stop() only the
\* lifecycle lock and poll() looks whether the control lock is free before it waits
\* for it.
OneMutation == Cardinality(Mutating) + Cardinality(Stopping) <= 1

\* Once the runtime has stopped the scanner stays stopped: no control that was
\* admitted earlier reaches it, the reader has ended with whatever it had begun, no
\* interval is left to restore, and a serial line is closed even if the reader opened
\* it behind the stop.  Nothing is said of a UDP socket that the reader opens behind
\* the stop: it stays open (StopClosesEverySocket of UdpTransport, run udp_stop).
TerminalIsQuiet ==
  stopped => /\ Mutating \cup Stopping = {}
             /\ ~alive /\ ReaderIdle
             /\ ~interval
             /\ link => network

InHand == IF \E o \in Owners : hand[o] # 0
          THEN <<hand[CHOOSE o \in Owners : hand[o] # 0]>>
          ELSE <<>>

\* Listeners are told of every transition once and in order, whoever made it, and a
\* transition that waits has a thread that will deliver it.
TransitionsDelivered ==
  /\ told \o InHand \o pending = [k \in 1 .. made |-> k]
  /\ pending # <<>> => \/ \E o \in Owners : own[o] \in {"emit", "emitting", "telling"}
                        \/ lifecycle # "none"

Attempts ==
  at["main"] \in {"starts", "pushes", "refreshes", "admitted", "reconnecting"}

\* A PSI stream that falls silent on a live link, or never started, is attended to by
\* poll(), whichever way it fell silent and whatever controls come in between.
SilenceIsAttended ==
  (Ready /\ lastPsi # "fresh") ~> (Attempts \/ lastPsi = "fresh" \/ ~Ready)

\* A process that wants to leave does, whichever controls, frames and other callers
\* of stop() it meets.
ShutdownEnds == at["main"] = "leaving" ~> at["main"] = "gone"

Recovering == \E t \in Users : at[t] \in {"reopening", "restoring"}

\* docs/reliability.md: "UDP ... transports use ReconnectPolicy after a live
\* disconnect"; max_attempts=None "retries indefinitely".
LostLinkIsRetried ==
  (state = "running" /\ ~link)
    ~> (link \/ reader = "opens" \/ Recovering \/ state # "running")
=============================================================================
