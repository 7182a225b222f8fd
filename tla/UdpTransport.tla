----------------------------- MODULE UdpTransport -----------------------------
(***************************************************************************)
(* UdpTransport (src/sds200/network.py): one current socket, shared by the *)
(* thread that starts and stops the transport, by its reader and by whoever*)
(* writes a command.                                                       *)
(*                                                                         *)
(* Any of them closes the socket when it fails and tells the scanner; the  *)
(* reader opens the next one.  stop() waits for the reader for a bounded   *)
(* time only and then forgets it, and the next start() clears the flag that*)
(* told it to stop: a reader held up in a callback may live on beside its  *)
(* successor.                                                              *)
(*                                                                         *)
(* Sockets are numbered in the order they are opened.  Left out: datagrams *)
(* and their decoder, statistics and diagnostics, the reconnect=False mode,*)
(* a retry limit (max_attempts=None) and the supplemental read path.       *)
(***************************************************************************)
EXTENDS Naturals, FiniteSets

CONSTANTS
  Readers, \* the reader threads, one for each successful start()
  MaxOpens \* bound: sockets opened

ASSUME UdpAssumption ==
  /\ IsFiniteSet(Readers)
  /\ Readers \cap {"owner", "writer", "none"} = {}
  /\ MaxOpens \in Nat

VARIABLES
  stop,      \* the flag _stop
  socket,    \* _socket: its number, or 0
  opened,    \* how many sockets were opened
  thread,    \* _thread, or "none"
  restarted, \* history: start() was called after a stop()
  at,        \* where each thread is
  has,       \* the socket in each thread's hands, or 0
  ups,       \* the sockets whose opening the scanner was told of
  downs      \* how often it was told of the loss of each socket

told == <<ups, downs>>
vars == <<stop, socket, opened, thread, restarted, at, has, told>>

----------------------------------------------------------------------------
Threads == Readers \cup {"owner", "writer"}
Sockets == 1 .. MaxOpens

Goes(t, step) == at' = [at EXCEPT ![t] = step]
Keeps(t, s) == has' = [has EXCEPT ![t] = s]

Init ==
  /\ stop = FALSE /\ thread = "none" /\ restarted = FALSE
  /\ socket = 0 /\ opened = 0
  /\ at = [t \in Threads |-> IF t \in Readers THEN "none" ELSE "idle"]
  /\ has = [t \in Threads |-> 0]
  /\ ups = {} /\ downs = [s \in Sockets |-> 0]

\* _open(): the new socket becomes the current one before the scanner hears of it.
Opens(t) ==
  /\ opened < MaxOpens
  /\ opened' = opened + 1
  /\ socket' = opened + 1
  /\ Keeps(t, opened + 1)
  /\ UNCHANGED <<stop, thread, restarted, told>>

\* A socket that does not open leaves none, whatever was there.
OpenFails ==
  /\ socket' = 0
  /\ UNCHANGED <<stop, opened, thread, restarted, has, told>>

\* _notify_connection(True).
TellsUp(t) ==
  /\ ups' = ups \cup {has[t]}
  /\ Keeps(t, 0)
  /\ UNCHANGED <<stop, socket, opened, thread, restarted, downs>>

\* Mutant of Takes: the current socket is looked up and stays the current one.
TakesShared(t) ==
  /\ Keeps(t, socket)
  /\ UNCHANGED <<stop, socket, opened, thread, restarted, told>>

\* _close(), first half: the current socket, which need not be the one that failed,
\* is taken out in one step.
Takes(t) ==
  /\ Keeps(t, socket)
  /\ socket' = 0
  /\ UNCHANGED <<stop, opened, thread, restarted, told>>

\* _close(), second half: _notify_connection(False), unless somebody was faster.
TellsDown(t) ==
  /\ downs' = IF has[t] = 0 THEN downs ELSE [downs EXCEPT ![has[t]] = @ + 1]
  /\ Keeps(t, 0)
  /\ UNCHANGED <<stop, socket, opened, thread, restarted, ups>>
----------------------------------------------------------------------------
(* The reader thread: _reader_loop(). *)

Turns(r, from, to) ==
  /\ at[r] = from
  /\ Goes(r, to)
  /\ UNCHANGED <<stop, socket, opened, thread, restarted, has, told>>

ReaderStops(r) ==
  /\ stop
  /\ at[r] \in {"top", "waits"}
  /\ Goes(r, "ended")
  /\ UNCHANGED <<stop, socket, opened, thread, restarted, has, told>>

\* Mutant of ReaderChecks: every turn opens a socket.
ReaderChecksNothing(r) ==
  ~stop /\ Turns(r, "top", "waits")

ReaderChecks(r) ==
  ~stop /\ Turns(r, "top", IF socket = 0 THEN "waits" ELSE "takes")

\* The backoff has passed and nobody has stopped the transport yet.
ReaderWaits(r) == ~stop /\ Turns(r, "waits", "opens")

\* Mutant of ReaderOpens: a failed attempt is the last.
ReaderOpensOnce(r) ==
  /\ at[r] = "opens"
  /\ \/ Opens(r) /\ Goes(r, "announces")
     \/ OpenFails /\ Goes(r, "ended")

ReaderOpens(r) ==
  /\ at[r] = "opens"
  /\ \/ Opens(r) /\ Goes(r, "announces")
     \/ OpenFails /\ Goes(r, "top")

ReaderAnnounces(r) == at[r] = "announces" /\ TellsUp(r) /\ Goes(r, "takes")

\* The loop takes the socket it has seen or opened; an assertion says that it is there.
ReaderTakes(r) ==
  /\ at[r] = "takes"
  /\ Goes(r, IF socket = 0 THEN "crashed" ELSE "receives")
  /\ UNCHANGED <<stop, socket, opened, thread, restarted, has, told>>

\* recv() times out, fails or has a datagram.
ReaderReceives(r) ==
  \/ Turns(r, "receives", "top")
  \/ Turns(r, "receives", IF stop THEN "ended" ELSE "fails")
  \/ Turns(r, "receives", IF stop THEN "ended" ELSE "delivers")

\* The lines go to the scanner; a retry the decoder asks for may fail to be sent.
ReaderDelivers(r) == \E next \in {"top", "fails"} : Turns(r, "delivers", next)

ReaderCloses(r) == at[r] = "fails" /\ Takes(r) /\ Goes(r, "loses")

ReaderLoses(r) == at[r] = "loses" /\ TellsDown(r) /\ Goes(r, "top")
----------------------------------------------------------------------------
(* A writer: write_command(), under the write lock. *)

\* Without a socket the command is refused and nothing changes.
WriterTakes ==
  /\ at["writer"] = "idle"
  /\ socket # 0
  /\ Goes("writer", "sends")
  /\ UNCHANGED <<stop, socket, opened, thread, restarted, has, told>>

WriterSends == \E next \in {"idle", "fails"} : Turns("writer", "sends", next)

WriterCloses == at["writer"] = "fails" /\ Takes("writer") /\ Goes("writer", "loses")

WriterLoses == at["writer"] = "loses" /\ TellsDown("writer") /\ Goes("writer", "idle")
----------------------------------------------------------------------------
(* The owner: start() and stop(). *)

StartBegins ==
  /\ at["owner"] \in {"idle", "stopped"}
  /\ stop' = FALSE
  /\ restarted' = (restarted \/ at["owner"] = "stopped")
  /\ Goes("owner", "opens")
  /\ UNCHANGED <<socket, opened, thread, has, told>>

OwnerOpens ==
  /\ at["owner"] = "opens"
  /\ \/ Opens("owner") /\ Goes("owner", "announces")
     \/ OpenFails /\ Goes("owner", "idle")

OwnerAnnounces == at["owner"] = "announces" /\ TellsUp("owner") /\ Goes("owner", "spawns")

OwnerSpawns(r) ==
  /\ at["owner"] = "spawns"
  /\ at[r] = "none"
  /\ thread' = r
  /\ at' = [at EXCEPT !["owner"] = "up", ![r] = "top"]
  /\ UNCHANGED <<stop, socket, opened, restarted, has, told>>

\* The scanner also stops a transport that it failed to start.
StopBegins ==
  /\ at["owner"] \in {"idle", "up"}
  /\ stop' = TRUE
  /\ Goes("owner", "fails")
  /\ UNCHANGED <<socket, opened, thread, restarted, has, told>>

OwnerCloses == at["owner"] = "fails" /\ Takes("owner") /\ Goes("owner", "loses")

OwnerLoses == at["owner"] = "loses" /\ TellsDown("owner") /\ Goes("owner", "joins")

\* Where a reader may stay longer than the join waits: in a callback, or in the
\* resolution of the scanner's address.
MayTarry == {"opens", "announces", "delivers", "loses"}

OwnerJoins ==
  /\ at["owner"] = "joins"
  /\ thread # "none" => at[thread] \in {"ended", "crashed"} \cup MayTarry
  /\ thread' = "none"
  /\ Goes("owner", "stopped")
  /\ UNCHANGED <<stop, socket, opened, restarted, has, told>>
----------------------------------------------------------------------------
Reader(r) ==
  \/ ReaderStops(r) \/ ReaderChecks(r) \/ ReaderWaits(r) \/ ReaderOpens(r)
  \/ ReaderAnnounces(r) \/ ReaderTakes(r) \/ ReaderReceives(r) \/ ReaderDelivers(r)
  \/ ReaderCloses(r) \/ ReaderLoses(r)

Writes == WriterSends \/ WriterCloses \/ WriterLoses

Owns ==
  \/ OwnerOpens \/ OwnerAnnounces \/ (\E r \in Readers : OwnerSpawns(r))
  \/ OwnerCloses \/ OwnerLoses \/ OwnerJoins

Next ==
  \/ \E r \in Readers : Reader(r)
  \/ WriterTakes \/ Writes
  \/ StartBegins \/ StopBegins \/ Owns

Spec == Init /\ [][Next]_vars

\* No thread stands still but between calls: receiving and joining have timeouts, the
\* backoff ends, and callbacks return.
FairSpec ==
  /\ Spec
  /\ \A r \in Readers : WF_vars(Reader(r))
  /\ WF_vars(Writes) /\ WF_vars(Owns)
----------------------------------------------------------------------------
TypeOK ==
  /\ stop \in BOOLEAN
  /\ opened \in 0 .. MaxOpens /\ socket \in 0 .. opened
  /\ thread \in Readers \cup {"none"} /\ restarted \in BOOLEAN
  /\ at \in [Threads -> {"none", "idle", "top", "waits", "opens", "announces", "takes",
                         "receives", "delivers", "sends", "fails", "loses", "spawns",
                         "up", "joins", "stopped", "ended", "crashed"}]
  /\ has \in [Threads -> 0 .. opened]
  /\ ups \subseteq Sockets
  /\ downs \in [Sockets -> 0 .. 1]

Closing(k) == {t \in Threads : at[t] = "loses" /\ has[t] = k}

\* Whichever threads find the transport failed, and however many at once, a socket's
\* loss is told once, by one thread, and only of a socket that is no longer current.
\* Until the transport is started a second time no socket is forgotten: each is
\* current, or lost and told, or about to be told.
LossToldOnce ==
  \A k \in 1 .. opened :
    /\ socket = k => downs[k] = 0 /\ Closing(k) = {}
    /\ downs[k] # 0 => downs[k] = 1 /\ Closing(k) = {}
    /\ \A t, u \in Closing(k) : t = u
    /\ ~restarted => socket = k \/ downs[k] = 1 \/ Closing(k) # {}

Crashed == thread # "none" /\ at[thread] = "crashed"

Opening == thread # "none" /\ at[thread] = "opens"

\* The reader of a transport that has no socket opens one, whoever closed the last
\* one and whether or not the attempts before this one failed.
LostLinkIsReopened ==
  (at["owner"] = "up" /\ socket = 0)
    ~> (socket # 0 \/ stop \/ Crashed \/ Opening)

\* network.py, _reader_loop(): "assert udp_socket is not None".
AssertionHolds == at["owner"] = "up" => ~Crashed

\* tests/test_network.py, after stop(): "assert first.closed", "assert second.closed".
StopClosesEverySocket ==
  (at["owner"] = "stopped" /\ \A r \in Readers : at[r] \in {"none", "ended"}) => socket = 0
=============================================================================
