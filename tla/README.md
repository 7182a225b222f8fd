# A verification development of sdsctl

sdsctl (`src/src/sds200/`) controls an SDS200 radio scanner. Its core is a daemon
that owns the scanner's connection and lets any number of clients watch it, listen
to it, record it and command it, and a writer that replaces the scanner's Favorites
on a USB medium. The first is threads, locks, conditions, timeouts and a link that
fails; the second is a sequence of file operations of which any may fail and after
which the host may be gone. The modules here describe both in TLA+; TLC checks them
on small instances, and TLAPS proves their central invariants for every value of
their constants.

`PROJECT.json` says which lines of the source each definition stands for, which
properties each run checks, which hazards of the code they answer, and for each
property a plausible bug of the code that breaks it. Paths below are relative to
`src/src/sds200/` unless they begin with `docs/`, `tests/` or `CHANGELOG`.

## The system

### Components

| Component | State | Operations | What must hold |
| --- | --- | --- | --- |
| PCMU publisher (`pcmu_subscriptions.py`; the waterfall and analysis publishers repeat it) | sequence, subscriptions; per subscription a bounded queue, counters, a condition | subscribe, publish, get, close | counters, queue and deliveries agree; losses can be told from deliveries; no getter sleeps beside a packet; close releases everyone |
| Waterfall session (`waterfall_session.py`) | state, leases, reservation, miss counter, session lock | subscribe, release, poll, mark_interrupted, recover, reserve, close | state and demand agree after any failure; interruptions are noticed and attended to; nobody hangs |
| Scanner session (`radio.py`) | command lock, awaited responses, PSI interval and activity, state | requests, PSI push and refresh, reconnect, close | one request at a time; PSI activity follows the frames |
| Daemon runtime (`daemon_runtime.py`) | state, lifecycle lock, control lock, transition queue, PSI clocks | start, poll, stop, controls, reconnect | one mutation of the scanner at a time; nothing after the stop; transitions in order; silence is attended to |
| UDP transport (`network.py`) | socket, stop flag, reader thread, decoder, write lock | start, stop, write, read, reopen | each loss told once; a lost link is reopened; stop leaves nothing open |
| Event publisher and stream (`daemon_events.py`, `daemon_event_stream.py`) | sequence, queues with a snapshot at the head | subscribe, publish, get, close | a client sees a snapshot, then events in order, can tell a gap, and without one knows what is true |
| PCM router and sink workers (`audio_sinks.py`) | sink records, worker queues, retry state | start, stop, attach, detach, submit | one thread at a time owns a sink; every sample delivered, held or counted as dropped; a finalization ends |
| Recording manager (`daemon_recording.py`) | status, sink, files | start, stop, close | every file written has an owner; a failed step leaves a state the next call can use |
| Favorites write to USB (`favorites_write_usb.py`) | the medium's files, rollback manifest, report | one durable write with its recovery | a changed medium is always known to be changed; a verdict is true; the catalog never names a missing document |
| Destination activation (`daemon_destination_activation.py`) | configuration, resources | start, replace, close | a replacement happens or is rolled back |
| Serial and fallback transports, RTSP/RTP audio | link, reader, sequence numbers | start, stop, receive, fail over | as for UDP |
| Servers, clients, MQTT, remote access, web, TUI, display, Home Assistant | connections | framed requests and streams | use the components above |
| Favorites editors and FTP write, RadioReference, themes, profiles, retention | files | staged writes, imports, installation | no partial write survives |

`PROJECT.json` lists every component with its sources and the reason where one is
not modelled.

### How they meet

* The process (`daemon_process.py`) has one foreground thread, which calls
  `DaemonRuntime.start()`, `poll()` in a loop and `stop()`.
* Client requests arrive on server threads and run as *controls*: they take the
  runtime's control lock without waiting, then its lifecycle lock.
* The transport's reader thread delivers lines to the scanner session, which
  publishes to its subscribers, and calls back when the link goes up or down.
* `poll()` recovers the waterfall session and the PSI stream. The waterfall session
  keeps its own lock over scanner I/O; a reconnect keeps the radio's command lock
  and calls back into that session.
* Publishers hand every subscriber its own bounded queue. A slow client loses its
  own oldest messages and delays nobody.
* The runtime, the recording manager and other sources call the event stream from
  their own threads, after they have changed their state and released its lock.
* Recordings and destinations are sinks of one PCM router: each has a worker thread
  of its own, and every lifecycle operation waits for workers with a deadline.
* The Favorites write is a process of its own. It shares the medium with whatever
  else the host runs, and only renames of whole files are expected of that.

### What is hard

Five locks taken in more than one order (runtime lifecycle and control, session,
command, and the transport's decoder and write locks); a request that is sent
without the lock under which it was decided; callbacks on the reader thread that
wait for locks of threads that wait for the reader; a reader thread that may outlive
the join that was to end it; starts, recoveries and reconnects that fail half way;
queues at their limit while a getter times out; a sink's worker that is told to
finalize while it backs off or is inside a call; a state that changes before its
event is published; a host that dies between two file operations, and a directory
whose last rename was not synchronized. Each is a hazard in `PROJECT.json` at the
line where it bites.

## Modules

| Module | Stands for | Run by | Proofs |
| --- | --- | --- | --- |
| `LossyWindow` | what a bounded publisher promises | refined by `PcmuSubscriptions` | |
| `PcmuSubscriptions` | `pcmu_subscriptions.py` | `MCPcmuSubscriptions` | `PcmuSubscriptions_proofs`, `PcmuRefinement_proofs` |
| `WaterfallSession` | `waterfall_session.py` with its callers in `daemon_runtime.py`, `radio.py`, `network.py` | `MCWaterfallSession` | `WaterfallSession_proofs` |
| `DaemonRuntime` | `daemon_runtime.py` with the PSI half of `radio.py` | `MCDaemonRuntime` | `DaemonRuntime_proofs` |
| `UdpTransport` | `network.py` | `MCUdpTransport` | `UdpTransport_proofs` |
| `FavoritesUsbWrite` | `favorites_write_usb.py` | `MCFavoritesUsbWrite` | `FavoritesUsbWrite_proofs` |
| `PcmSinkRouter` | the router and its workers in `audio_sinks.py` | `MCPcmSinkRouter` | `PcmSinkRouter_proofs` |
| `EventPublisher` | `daemon_events.py`, `daemon_event_stream.py`, without its sources | through `RecordingEvents` | with `RecordingEvents` |
| `RecordingEvents` | `daemon_recording.py` as a source of the event stream | `MCRecordingEvents` | `RecordingEvents_proofs` |

### PcmuSubscriptions

The unit of atomicity is one turn of a loop under one condition: `publish()` keeps
the publisher's lock over all subscribers, but each subscriber's condition only for
its own turn, so getters run in between. `Publish`, then one `Enqueue(s)` for each
registered subscription; `ClosePublisher`, then one `CloseNext(s)`; `lock.todo` is
who has not had a turn. `Get` and `Resume` are passes of the loop in `get()`;
`Expire` is the timeout of a `wait()`, which leaves the getter in the waiter list
until it has the lock again, so that `Notify` may pick it. Packets are their
sequence numbers; a packet's payload is its size. `received` is a history.

`LossyWindow` is the promise without queues, counters, locks and threads: a window
over the numbering, whose lower edge moves when the subscriber receives or, only
when the window is full, loses. The refinement maps the window to counters and
queue.

### WaterfallSession

`lock` is who keeps the session lock over I/O, for which operation, and how far that
I/O is (outside the command lock, sending, awaiting a record): `subscribe()` and
`recover()` start the publication (`EnterCommand`, `SendWire`, `NextWire`,
`StartSucceeds`, `StartFails`), the last `release` stops it, `close()` does too. The
other actions are those of the daemon's loop (`Loop...`), of a control thread
(`Reserve`, `Unreserve`, `Reconnect...`) and of the reader (`Reader...`), each a
section under the session lock, with the scanner I/O of a poll between them. A loss
of the link is one action (`Drop`, by whoever saw it), the call of
`mark_interrupted()` that follows it another, because that call waits for the
session lock.

`CommandFree` and `WriteFree` are the locks below: the command lock, taken with a
timeout, and the transport's decoder and write locks, taken without. Three wires of
a start are abstracted to any number of passes through `NextWire`.

`CloseSession` interleaves with the loop: `stop()` is public and documented as
idempotent and serialized across concurrent callers, though the daemon process
calls `poll()` and `stop()` from one thread.

`misses` is the code's counter and `silent` a history, the requests unanswered since
the last frame; `startedAt` and `drops` say which losses a publication has seen.

### DaemonRuntime

`at["main"]` is where the foreground thread is in `start()` or `poll()`, `at[c]`
where a control is in `_control_scope()` and `reconnect()`; `own` is where main or
another caller is in `stop()` or in delivering transitions. `interval`, `active`,
`seen`, `first` are the scanner's PSI state: the reader tests the interval and sets
the activity in two steps without a lock, and `seen` is the moment in between. Time
is `lastPsi` (never, fresh, stale) and `since` (never, recent, rested).

`network` chooses between the two kinds of deployment: UDP, which can reconnect
within bounds and requires PSI at the start, and serial, which cannot and does not.
Automatic PSI recovery is on. Sending a stop request and clearing PSI is one step
(`StopPsi`). Stopping the transport has two halves with the wait for the reader
between them: `Silences` tells the reader to stop and closes a UDP socket,
`Closes` has joined the reader and closes a serial line (transport.py:245-264 closes
after the join, network.py:615-624 before it). The reader tests the stop flag
(`ReaderWaits`), opens (`ReaderReopens`) and tells the scanner (`ReaderAnnounces`) in
steps of its own, so a stop may fall behind the test: the socket that is then opened
behind a UDP stop stays open, and `TerminalIsQuiet` claims a closed link for a serial
line only. That is the finding of `udp_stop`, which `UdpTransport` shows in full. A
reconnect whose time is up after such a stop leaves a link without a reader
(`ReopenFails`). The wait is complete here: a reader that outlives it is the subject
of `UdpTransport`, and so is one that dies of its assertion. Another caller's `stop()` is assumed not to meet main
inside `poll()` (`MayStop`): `_start_inactive_psi()` and `_refresh_psi()` do not take
the lifecycle lock, and the process calls both from one thread.

### UdpTransport

Sockets are numbered in the order they open. The current one (`socket`), the one a
thread has just opened or taken out (`has`), and what the scanner was told (`ups`,
`downs`) are separate, since the code publishes a socket before it announces it and
takes it out before it reports its loss. The reader's loop, a writer and the owner's
`start()` and `stop()` are step by step as in the code. `MayTarry` are the places
where a reader may stay longer than the join of `stop()` waits, callbacks and the
resolution of the address; `start()` after such a stop clears the flag that told the
old reader to end.

### FavoritesUsbWrite

One write from the backup to the report. `pc` is the next call that reads or changes
the medium or the host directory; `media` and `temp` are the medium, `manifest` what
a reader of the host directory sees and `synced` what a loss of power leaves of it.
A file's content is one of four values, or the name of the other program that
replaced it. `mode` turns the activation into the recovery: the code has two sets of
functions which differ in their ends (`From`, `Want`) and in the few places where the
module asks for the mode.

Every step fails where the code catches a failure (`StepFails`, and the disjuncts
with `Fault`); `faults` records where, bounded by `MaxFaults`. `Published`,
`Unsynchronized` and `NotReplaced` are the ways a guarded replacement of the manifest
can go, `ReconciliationFails` the one in which its outcome cannot be read back.
`Crash` and `PowerLoss` end the run at any point: the repository has no code that
resumes a write, only a manifest and a backup from which an operator can. Other
programs replace files by renaming, once each, so that an open descriptor no longer
is the named file (`held`).

The lock, the qualification of the target, the preflight and the path and hash checks
appear as checks that may fail; the consistency rules of the report as the phase it
binds. `PowerLoss` says nothing of the medium's own cache or of the backup copy.

### PcmSinkRouter

`call` is the lifecycle operation in progress: the code keeps one lock over each, and
releases its state lock while it waits. `worker[s]` is the record of a worker thread,
its condition, queue and counters. An action is one section under the state lock or a
worker's condition, or the return of one call of a sink; a sink may fail, and every
wait for a worker may end with its deadline (`DeadlinePasses`). A block of audio is
the number of its samples, because the queue cuts blocks. Transitions are not listed
one by one: `pending` says that one is not yet emitted, `emitter` who is emitting.

### EventPublisher and RecordingEvents

`EventPublisher` is the publisher with its subscriptions and the stream in front of
it; what a source publishes and what a snapshot shows are parameters of `Publish` and
`Subscribe`. `RecordingEvents` adds the recording manager, which changes its status
under one lock (`StartRecording`, `StopRecording`, ...) and tells listeners outside it
(`Tell`), and one other source that publishes whenever it likes. `seen` is what a
client can conclude from what it read, and `believes` the manager's state as the
client knows it: from the snapshot, then from each event.

A recording's sink is attached to and detached from the router in one step that may
fail, also past its deadline (`FinalizesLate`): what goes on inside is
`PcmSinkRouter`'s.

## Runs

| Run | Question | Result |
| --- | --- | --- |
| `pcmu` | Do queue, counters, deliveries and wakeups stay one story, and do they keep the promise of `LossyWindow`? | holds |
| `waterfall` | Does the session stay straight through losses, reconnects, reservations and a shutdown, and does everyone return? | holds |
| `waterfall_misses` | Is a failure by polling always three misses in a row (docs/daemon-waterfall.md:72-74)? | no: a miss of an ended publication counts against its successor |
| `waterfall_gridlock` | Does the reader's callback only mark the session (docs/daemon-waterfall.md:84-85)? | no: a failing retry waits for the session lock under the decoder and write locks |
| `daemon_runtime` | One mutation at a time, silence after the stop, ordered transitions, recovery of PSI, a shutdown that ends? | holds |
| `runtime_lost_link` | Is a lost link retried for ever (docs/reliability.md:9-23)? | no: a reconnect that fails to reopen leaves no reader to retry |
| `udp_transport` | Is each loss told once and each lost link reopened? | holds |
| `favorites_usb` | Does the write keep its promises through three failures, a crash or a loss of power anywhere, and two other writers? | holds |
| `sink_router` | Who owns a sink, is audio accounted for, and does every finalization end, through failing sinks and expired waits? | holds |
| `event_stream` | Does a client that saw no gap know the truth, and has every recording an owner? | holds |
| `udp_assertion` | Does the reader's assertion (network.py:958) hold? | no: a failing writer closes the socket first |
| `udp_stop` | Has a stopped transport closed its sockets (tests/test_network.py:523-524)? | no: the reader may open one after `stop()` has closed the last |

The "no" rows are findings in `PROJECT.json`, each with the line it contradicts.

### Properties of the passing runs

* `Accounting`, `LossIsVisible`, `NoLostWakeup`, `CloseReleasesGetters`,
  `ImplementsLossyWindow` (PCMU). The drop counters of a delivery are read when the
  packet leaves the queue; `LossIsVisible` says that this is what lets a consumer
  name every packet it lost. `NoLostWakeup` counts: with k packets queued beside a
  sleeping getter, k others are awake.
* `DemandAccounted`, `ReservationIsQuiet`, `InterruptionIsSeen`, `ClosedIsFinal`,
  `EveryoneReturns`, `InterruptedIsAttended` (waterfall). `EveryoneReturns` excuses
  the gridlock of the finding, and nothing else.
* `OneMutation`, `TerminalIsQuiet`, `TransitionsDelivered`, `SilenceIsAttended`,
  `ShutdownEnds` (runtime). `TerminalIsQuiet` says what `stop()` achieves although the
  reader may open the transport behind it: nobody changes the scanner, the reader has
  ended with whatever it had begun, no interval is left to restore, and over a serial
  line the link is closed.
* `LossToldOnce`, `LostLinkIsReopened` (UDP). The second half of `LossToldOnce`, that
  no socket is forgotten, is claimed only before a restart (`restarted`): after one,
  an old reader may overwrite a socket. `LostLinkIsReopened` excuses a reader that
  died of the assertion, and one that is inside an attempt to open.

* `MutationRecorded`, `VerdictIsTrue`, `CatalogResolves`, `OneFaultIsUndone`,
  `ForeignKept` (Favorites). Three places are excepted, each by name: a rewrite that
  stops inside a file and a displaced document that cannot be read back leave the
  recovery incomplete, as the code reports (the model gives the second up at once,
  also where the code would try again, so this exception is wider than it need be); and the activation's put-back
  (favorites_write_usb.py:12255-12266) finds a name free and then renames over it, so
  that a file which appears in between is lost, although its comment says that a
  concurrent replacement is never overwritten and the recovery (9364-9381) avoids
  this rename.
* `SinkContract`, `NothingLost`, `FinalizationEnds` (router). `SinkContract` joins
  `OneOwner` (no caller is inside a sink that a live worker owns), `AttachedIsServed`
  and `DetachedIsQuiet`; `NothingLost` joins `SamplesAccounted` and
  `TransitionsCarried` (a transition that waits has a thread on its way to emit it).
* `StreamTruth`, `RecordingsOwned` (events). `StreamTruth` joins `LossIsVisible` of the
  publisher with `NoGapKnows`: who has read everything and saw no gap believes what
  is true. Both count on the change of a state and its event being in the same order
  for every event of one source.

Every module also has one type invariant. `TypeOK` of `UdpTransport` bounds the count
of each loss, and that of `WaterfallSession` the miss counter.

### Bounds

* PCMU: two subscriptions, two getters, capacity two, three packets. Three packets
  overflow a queue of two, a drop meets a pop, and two getters on one subscription
  meet an expired wait; a second subscription shows the interleaving inside one
  publication. One payload size is tried above the limit.
* Waterfall: two leases, two losses of the link, a limit of two misses. A second
  lease overlaps the first or follows it; a second loss meets the recovery from the
  first. The runs that look for a violation use the default limit of three.
* Runtime: one control, one loss of the link. The control meets `poll()`, both
  callers of `stop()` and, as a reconnect, the loss; a second control would be
  refused by the slot, which the first and main already contend for.
  `runtime_lost_link` needs no loss of its own: the reconnect stops the link.
* UDP: two readers (the second only by a restart), three sockets, so that two are
  lost after the first one.

* Favorites: one document of each kind beside a changed catalog, two other writers
  (alike), three failures. Three failures reach every publication that fails twice
  and a recovery that fails itself; two writers meet on one name.
* Router: one sink, a queue of two samples, blocks of one and three, one retry, two
  blocks and five lifecycle operations, enough for attach, start, a warm detach, a
  second attach and a stop. Sinks share only the operation in progress and the
  emitter; that several of them get on is not model-checked but proved, for any set
  of sinks.
* Events: two recordings, two stops or closes, two events of another source, and two
  clients of which one is subscribed at a time, with a queue of two (the least the
  code allows): the snapshot pinned at the head and the event behind it dropped.

`favorites_usb` checks for deadlock in TLC's sense: a write ends in one of the ways
`Ended` lists and nowhere else. In the other systems everything may legitimately be
closed, with no step left. That nobody hangs is stated as liveness there
(`CloseReleasesGetters`, `EveryoneReturns`, `ShutdownEnds`, `FinalizationEnds`).

### Fairness

Weak fairness only, on what a thread does once it may: a holder of a lock goes on, a
thread whose wait has ended gets its lock, a call with a timeout ends one way or the
other, the daemon polls. In `WaterfallSession` success and failure of a wait share
one fairness condition, so that neither is promised. Nothing makes a consumer come
or go, a frame arrive, the link fail, the operator act or the process stop.
In `DaemonRuntime` the reader's backoff ends and its attempt to open is made, but may
fail each time; its liveness properties excuse a link that is down or count the
attempt. In `UdpTransport` an attempt to
open may fail each time; `Opening` excuses that. In `PcmSinkRouter` an operation that
has begun goes on, the emitter goes on, each worker goes on, which includes that sinks
and callbacks return, and each deadline passes; nobody has to call the router.

## Proofs

Proved by TLAPS for every value of the constants that the named assumptions allow
(`SubscriptionAssumption`, `WaterfallAssumption`, `RuntimeAssumption`, `UdpAssumption`,
`PlanAssumption`, `ValuesAssumption`, `CapacityAssumption`, `SubscribersAssumption`, `SizesAssumption`,
`BoundsAssumption`, `NamesAssumption`, `NoneAssumption`; each is a type, says that
names do not collide, or says what a plan is: four disjoint groups of files, with
something to do). An event queue holds two events or more, which the constructor
insists on (daemon_events.py:241-242); a block of audio may be longer than a sink's
queue.

* `PcmuSubscriptions_proofs`. `CoreInv` joins `TypeOK` and `Accounting` with what
  they leave open: `TotalsGrow` (bytes never shrink, so that differences of totals are
  sizes), `LockShape` (open is exactly who is registered or still has its turn in a close),
  `QueueShape` (a subscription that is not open has an empty queue) and
  `GetterShape`. Three lemmas carry the arithmetic: dropping the oldest, enqueuing
  and popping each keep `Accounted`. From it `TypeCorrect` and `AccountingHolds`.
  `LossInv` adds that deliveries are as many as the counter says and that none came
  with more drops than there are now; `LossIsVisibleHolds` follows. `NoLostWakeupHolds` is an
  invariant of its own: each step either empties the queue, adds a packet and wakes
  a waiter, or takes one packet with the awake thread that took it.
* `PcmuRefinement_proofs`: `ImplementsLossyWindowHolds`, on top of `CoreInv`. By
  `Accounted` the counters of a subscription are the lower edge of its window and the
  queue is the window, so that dropping the oldest is a loss, which the abstract
  window permits only when it is full, and popping is a receipt. What a step does to
  one subscription is one lemma (`WindowSteps`); each operation is then named as a
  step of the window, or as a stutter for what only waits, wakes or passes a turn.
* `WaterfallSession_proofs`. The invariants speak of states in which nobody keeps the
  session lock, or of `running`; `Consistent` says what state, demand and reservation
  are while somebody does (`LockShape`, `DemandShape`, `ReservedShape`,
  `RunningShape`). One case for each action, then `TypeCorrect`,
  `DemandAccountedHolds`, `ReservationIsQuietHolds`, `InterruptionIsSeenHolds` and
  the action property `ClosedIsFinalHolds`.
* `DaemonRuntime_proofs`, for any number of controls and of losses. `OneMutation` is
  not inductive: that nobody else mutates has to be read from the locks. `Locks` says
  which lock a thread has at each of its places, `States` what each state says of the
  owners' places: the runtime is stopping exactly while somebody stops it, a stopping or stopped
  runtime has no poll under way, and a stopped one has no reader, no serial link, and
  inside the control scope at most threads on their way out with a refusal. That the
  reader has ended is what keeps a closed line closed: it is stated with the rest
  (`ReaderIdle`), and holds because the end of a stop waits for it. With the types (`Places`, `Flags`, `Values`)
  these are inductive, one case for each action; `OneMutationHolds` and
  `TerminalIsQuietHolds` follow. For the transitions, `Told` says that the one
  emitting thread has the transition in hand (`Flagged`), that delivered, in hand
  and waiting are numbered without a gap (`Numbered`) and that whoever made one that
  waits is on its way to emit it (`Carried`), and `Counted` bounds their number by
  the state reached, which `TypeOK` needs. From them `TypeCorrect` and `TransitionsDeliveredHolds`.
* `UdpTransport_proofs`. `Inv` adds to `TypeOK` and `LossToldOnce` that a socket in
  somebody's hands or current was opened (`Numbered`), and that before a restart
  whoever is about to open finds no socket (`FirstSession`): without the second, an
  opening could overwrite a socket nobody has told of. The threads share their steps
  (open, announce, take out, tell), so each kind of step is one lemma and each
  thread's actions are instances of it. From it `TypeCorrect` and
  `LossToldOnceHolds`.
* `FavoritesUsbWrite_proofs`, for every plan, any number of other writers and any
  number of failures. `Typed` adds to `TypeOK` on which kind of file each primitive
  works. Each property then has an invariant of its own that needs `Typed` only.
  `Barred`: either a surviving phase says that a mutation started, which is final, or
  the medium is the baseline and the steps that could change it are out of reach; a
  recovery may walk through the plan then because it finds nothing to do. `Ordered`:
  a written document that is no longer to do is there, a step on the catalog has no
  document left to write, a removal no catalog. `Guarded`: what is about to be
  overwritten, moved over or unlinked is nobody else's. `Settled`: the phase in memory
  is the visible one, and a final one is proposed only where the medium was just read
  back. `Undoing`, under `Alone` (no other writer, at most one failure, none of the two
  excepted ones): until the failure the run goes straight, with every file outside
  `todo` as wanted and every file in it as found (`Started`, `Halfway`, `InFile`); where a failure
  may strike each file is one of its two ends and what is displaced is handed over
  (`FilesWhole`); the recovery then meets no failure and finds nothing it does not
  know (`Recovering`, `Finished`). From them `TypeCorrect`, `MutationRecordedHolds`,
  `CatalogResolvesHolds`, `VerdictIsTrueHolds`, `OneFaultIsUndoneHolds` and the action
  property `ForeignKeptHolds`.
* `PcmSinkRouter_proofs`, for any sinks, capacity, block sizes and attempts. Three
  layers. First the sums: `Samples` of a queue is a recursive function's last value, so it is
  characterized by its partial sums (`SumsExist`, `TotalsSum`), from which follow what appending, taking
  the head and cutting the oldest do to it; `NewestFits` says that what the worker keeps
  of an overlong queue fills its capacity exactly and that the cut is what was counted.
  Induction over the length is done there by least counterexamples. Then one worker:
  `WorkerShape` is the account of its samples and says that a worker
  on its way out is finalizing and empty; `Evolves` is what the steps of a worker and
  of the audio thread all leave alone, and each of them is shown to be one
  (`NextDataEvolves` to `OfferedEvolves`). Last the router: `IInv` adds what an operation
  in progress may rely on at each of its places (`CallShape`), that the worker of a
  sink that is not up is silent (`UpShape`), that an attached sink's worker is
  not told to finalize (`AttachShape`) and who serves it (`ServedShape`). One lemma for the workers'
  steps, through `Evolves`, one for each operation. From it `TypeCorrect`,
  `SinkContractHolds` and `NothingLostHolds`.
* `RecordingEvents_proofs`, for any clients, any number of recordings and of events.
  `StreamTruth` speaks of clients that have read everything; `Follows` says of any
  client and its queue that the sequence numbers ascend to the newest and that
  received, queued and dropped add up, with a snapshot only in front; `Knows`
  that the last event of the manager in the queue, or the client if there is none,
  says what the manager does, as long as nothing was dropped. Both are about one
  subscription, and one lemma each for enqueuing, reading and subscribing proves them
  for the operations of the publisher (`EventPublisher`); the manager's own steps
  publish nothing, and one that changes what a snapshot shows leads to a place in
  `Telling`, where its event is still to come. `Owned` adds to `RecordingsOwned` what
  the manager holds at each place of a start, a stop and a close. From them
  `TypeCorrect`, `StreamTruthHolds` and `RecordingsOwnedHolds`.

Every invariant, action property and refinement that a passing run checks is proved.
Only model-checked: liveness (`CloseReleasesGetters`, `EveryoneReturns`,
`InterruptedIsAttended`, `SilenceIsAttended`, `ShutdownEnds`, `LostLinkIsReopened`,
`FinalizationEnds`), which is beyond the installed provers together with ENABLED.
RECURSIVE operators are out of the prover's reach too, and the modules use none; so
are the library's induction theorems, which take an operator for a parameter, and
the sums of a queue are proved without them, as said above.

## What is not modelled

Data: frames, samples, typed answers, XML parsing, redaction, snapshots and
statistics. Policy arithmetic (retry delays, deadlines) appears as "in time or not".
Within the modelled parts: the GST refresh after a waterfall frame, poll telemetry and
transition callbacks; response matching and the typed commands; the datagram decoder
and the retry limit of the transport; the audio half of the runtime but for its
failing start; of the router, operations called from inside one of its callbacks,
`AudioFanoutSession`, the concrete sinks, `account_nonblocking_offer` and the
statistics, and a thread that cannot start, which is taken with a sink that cannot; of
the events, the server and client that carry a subscription over a socket; of the
recordings, paths, metadata contents and listings; of the Favorites, everything
before the backup and the FTP write. The rest of the table above is listed in
`PROJECT.json` with a reason each: I/O behind the same components, rendering, offline
data, or planned.

Most of the 205 000 lines of the repository are of that kind: command line, web and
terminal interfaces, rendering, parsers and typed models, validation of documents and
paths. They have little state that outlives a call, so a model of them would be the
program again. The lines the map names are those where something can happen between
two steps.

What was seen while modelling and no property is about:

* A sink's worker publishes "detached" before it sets its done event; a second detach
  in between records "stopping", and nothing corrects it (audio_sinks.py:1215).
* A worker whose retries are exhausted is reported active again when its sink is
  attached after a warm detach, and delivers nothing (audio_sinks.py:1308-1313).
* `AudioFanoutSession` emits the transitions of its start and stop outside the
  lifecycle lock (audio_sinks.py:667, 700).
* An event too large for the stream raises before the sequence advances, so its loss
  is no gap (daemon_events.py:353).
* Between the attachment of a recording's sink, which creates its file, and the
  assignment that makes it the manager's, the listing may show the file as a finished
  recording (daemon_recording.py:423-429, 644).

`poll()` asks whether the control lock is free and then waits for it, where
docs/daemon-runtime.md:298-300 says that it defers recovery. That is a delay of one
control, noted as a hazard; no property is about it.

## Plan

Done, in this order: PCMU publisher (the simplest concurrent object, and the pattern of
three others), waterfall session (most locks), daemon runtime (who may mutate), UDP
transport (where the link fails), Favorites write (crashes and partial failures), PCM
sink router (workers with deadlines), recordings over the event stream (changes and
their events).

To come, most important first:

1. `Destinations`: replacement and rollback with failing steps, over the promise of
   `PcmSinkRouter`.
2. The datagram decoder with XML reassembly (`network.py`, `xml_protocol.py`), and the
   command layer of `radio.py`: fragments, retries, late answers.
3. `AudioFanoutSession`, and the fallback transport.
