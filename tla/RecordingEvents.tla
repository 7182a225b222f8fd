--------------------------- MODULE RecordingEvents ---------------------------
(* The recording manager of src/sds200/daemon_recording.py as a source of   *)
(* the daemon's event stream.  Start, stop and close run one at a time      *)
(* under the lifecycle lock; they change the status under the state lock    *)
(* and tell the listeners outside it, so a subscriber may arrive, or        *)
(* another source publish, between the change and its event.  A recording   *)
(* is a number; its sink is a router sink, whose detachment may fail or     *)
(* run past its deadline and finish later.                                  *)

EXTENDS EventPublisher

CONSTANTS
    MaxRecordings,  \* bound: recordings started
    MaxStops,       \* bound: stops and closes
    MaxOthers       \* bound: events of the other sources

ASSUME BoundsAssumption ==
    MaxRecordings \in Nat /\ MaxStops \in Nat /\ MaxOthers \in Nat

VARIABLES
    status,     \* _status
    sink,       \* the recording whose sink the manager holds, or 0
    tried,      \* the newest recording start_recording tried, or 0
    audio,      \* of every recording's file: "absent", "open", "final"
                \* or, of a start that failed, "partial"
    metadata,   \* recordings whose metadata was written
    completed,  \* _completed_recordings, as the set it counts
    managerClosed,
    at,         \* where the operation in progress is
    closing,    \* that operation is a close
    stops, others

managerVars ==
    <<status, sink, tried, audio, metadata, completed, managerClosed, at, closing,
      stops, others>>
vars == <<streamVars, managerVars>>

Recordings == 1 .. MaxRecordings
Statuses == {"idle", "starting", "recording", "stopping", "stopped", "failed"}
Places ==
    {"idle", "tell_starting", "attach", "attached", "tell_started", "tell_stopping",
     "detach", "write_metadata", "stopped", "failed", "tell_stopped", "close",
     "tell_closed"}

(* What a snapshot shows, an event says, a subscription holds and a client  *)
(* knows. *)
ShownType == [status : Statuses, closed : BOOLEAN]
EventType ==
    [sequence : Nat, kind : {"snapshot", "recording", "other"},
     says : ShownType \union {None}]
SubscriptionType == [queue : Seq(EventType), dropped : Nat]
ClientType ==
    [from : Nat, newest : Nat, got : Nat, gap : BOOLEAN,
     believes : ShownType \union {None}]

ASSUME NoneAssumption == None \notin SubscriptionType /\ None \notin ClientType

(* Between a change of the status and its event. *)
Telling == {"tell_starting", "tell_started", "tell_stopping", "tell_stopped",
            "tell_closed"}

Init ==
    /\ InitStream
    /\ status = "idle" /\ sink = 0 /\ tried = 0
    /\ audio = [n \in Recordings |-> "absent"]
    /\ metadata = {} /\ completed = {}
    /\ managerClosed = FALSE
    /\ at = "idle" /\ closing = FALSE
    /\ stops = 0 /\ others = 0

---------------------------------------------------------------------------
(* start_recording *)

StartRecording ==
    /\ at = "idle" /\ ~managerClosed
    /\ status \notin {"starting", "recording", "stopping"} /\ sink = 0
    /\ tried < MaxRecordings
    /\ tried' = tried + 1
    /\ status' = "starting"
    /\ at' = "tell_starting"
    /\ UNCHANGED <<sink, audio, metadata, completed, managerClosed, closing, stops,
                   others, streamVars>>

(* attach_sink starts the sink, which creates the file. *)
AttachSink ==
    /\ at = "attach"
    /\ audio' = [audio EXCEPT ![tried] = "open"]
    /\ at' = "attached"
    /\ UNCHANGED <<status, sink, tried, metadata, completed, managerClosed, closing,
                   stops, others, streamVars>>

(* The router has stopped a sink it could not start, and the manager has    *)
(* detached it: what there is of the file is nobody's. *)
AttachFails ==
    /\ at = "attach"
    /\ \E left \in {"absent", "partial"} : audio' = [audio EXCEPT ![tried] = left]
    /\ status' = "failed"
    /\ at' = "tell_started"
    /\ UNCHANGED <<sink, tried, metadata, completed, managerClosed, closing, stops,
                   others, streamVars>>

RecordStart ==
    /\ at = "attached"
    /\ sink' = tried
    /\ status' = "recording"
    /\ at' = "tell_started"
    /\ UNCHANGED <<tried, audio, metadata, completed, managerClosed, closing, stops,
                   others, streamVars>>

---------------------------------------------------------------------------
(* stop_recording and close *)

NothingToStop == status \notin {"starting", "recording"} /\ sink = 0

StopRecording ==
    /\ at = "idle" /\ stops < MaxStops
    /\ ~NothingToStop
    /\ stops' = stops + 1
    /\ status' = "stopping"
    /\ at' = "tell_stopping"
    /\ UNCHANGED <<sink, tried, audio, metadata, completed, managerClosed, closing,
                   others, streamVars>>

CloseManager ==
    /\ at = "idle" /\ stops < MaxStops
    /\ stops' = stops + 1
    /\ closing' = TRUE
    /\ IF NothingToStop THEN at' = "close" /\ UNCHANGED status
       ELSE at' = "tell_stopping" /\ status' = "stopping"
    /\ UNCHANGED <<sink, tried, audio, metadata, completed, managerClosed, others,
                   streamVars>>

DetachSink ==
    /\ at = "detach"
    /\ audio' = [audio EXCEPT ![sink] = "final"]
    /\ at' = "write_metadata"
    /\ UNCHANGED <<status, sink, tried, metadata, completed, managerClosed, closing,
                   stops, others, streamVars>>

DetachFails ==
    /\ at = "detach" /\ audio[sink] = "open"
    /\ at' = "failed"
    /\ UNCHANGED <<status, sink, tried, audio, metadata, completed, managerClosed,
                   closing, stops, others, streamVars>>

(* A worker whose detachment timed out stops its sink in its own time. *)
FinalizesLate ==
    /\ sink # 0 /\ audio[sink] = "open"
    /\ status = "failed" \/ (status = "stopping" /\ at = "failed")
    /\ audio' = [audio EXCEPT ![sink] = "final"]
    /\ UNCHANGED <<status, sink, tried, metadata, completed, managerClosed, at,
                   closing, stops, others, streamVars>>

WriteMetadata ==
    /\ at = "write_metadata"
    /\ \/ metadata' = metadata \union {sink} /\ at' = "stopped"
       \/ UNCHANGED metadata /\ at' = "failed"
    /\ UNCHANGED <<status, sink, tried, audio, completed, managerClosed, closing,
                   stops, others, streamVars>>

(* Mutant: a recording that could not be finalized is forgotten. *)
RecordStopForgets ==
    /\ at \in {"stopped", "failed"}
    /\ status' = at /\ sink' = 0
    /\ completed' = IF at = "stopped" THEN completed \union {sink} ELSE completed
    /\ at' = "tell_stopped"
    /\ UNCHANGED <<tried, audio, metadata, managerClosed, closing, stops, others,
                   streamVars>>

(* The sink of a stop that failed is kept, for the next stop. *)
RecordStop ==
    /\ at \in {"stopped", "failed"}
    /\ status' = at
    /\ IF at = "stopped"
       THEN sink' = 0 /\ completed' = completed \union {sink}
       ELSE UNCHANGED <<sink, completed>>
    /\ at' = "tell_stopped"
    /\ UNCHANGED <<tried, audio, metadata, managerClosed, closing, stops, others,
                   streamVars>>

RecordClosed ==
    /\ at = "close"
    /\ managerClosed' = TRUE
    /\ at' = IF managerClosed THEN "idle" ELSE "tell_closed"
    /\ closing' = IF managerClosed THEN FALSE ELSE closing
    /\ UNCHANGED <<status, sink, tried, audio, metadata, completed, stops, others,
                   streamVars>>

---------------------------------------------------------------------------
(* The events, and those who read them. *)

Shown == [status |-> status, closed |-> managerClosed]

AfterTelling ==
    [tell_starting |-> "attach", tell_started |-> "idle",
     tell_stopping |-> "detach",
     tell_stopped |-> IF closing THEN "close" ELSE "idle",
     tell_closed |-> "idle"]

(* _emit_state *)
Tell ==
    /\ at \in Telling
    /\ Publish("recording", Shown)
    /\ at' = AfterTelling[at]
    /\ closing' = (closing /\ at # "tell_closed")
    /\ UNCHANGED <<status, sink, tried, audio, metadata, completed, managerClosed,
                   stops, others>>

(* The scanner, the audio session, the router or the runtime. *)
PublishOther ==
    /\ others < MaxOthers
    /\ others' = others + 1
    /\ Publish("other", None)
    /\ UNCHANGED <<status, sink, tried, audio, metadata, completed, managerClosed,
                   at, closing, stops>>

Listen(c) ==
    /\ Subscribe(c, Shown) \/ Get(c, {"recording"}) \/ Unsubscribe(c)
    /\ UNCHANGED managerVars

CloseEvents == (CloseStream \/ ClosePublisher) /\ UNCHANGED managerVars

Next ==
    \/ StartRecording \/ AttachSink \/ AttachFails \/ RecordStart
    \/ StopRecording \/ CloseManager \/ DetachSink \/ DetachFails \/ FinalizesLate
    \/ WriteMetadata \/ RecordStop \/ RecordClosed
    \/ Tell \/ PublishOther
    \/ \E c \in Clients : Listen(c)
    \/ CloseEvents

Spec == Init /\ [][Next]_vars

---------------------------------------------------------------------------
(* Properties. *)

(* The state keeps its types; no subscription outgrows its capacity. *)
TypeOK ==
    /\ sequence \in Nat /\ streamClosed \in BOOLEAN /\ closed \in BOOLEAN
    /\ subscription \in [Clients -> SubscriptionType \union {None}]
    /\ \A c \in Subscribed : Len(subscription[c].queue) <= QueueCapacity
    /\ seen \in [Clients -> ClientType \union {None}]
    /\ status \in Statuses /\ at \in Places
    /\ sink \in 0 .. MaxRecordings /\ tried \in 0 .. MaxRecordings
    /\ audio \in [Recordings -> {"absent", "open", "final", "partial"}]
    /\ metadata \subseteq Recordings /\ completed \subseteq Recordings
    /\ managerClosed \in BOOLEAN /\ closing \in BOOLEAN
    /\ stops \in Nat /\ others \in Nat

(* A client that has read everything and saw no gap believes of the         *)
(* recording manager what is true, unless its event is on the way. *)
NoGapKnows ==
    \A c \in Subscribed :
       /\ seen[c] # None /\ ~seen[c].gap
       /\ subscription[c].queue = <<>>
       /\ at \notin Telling /\ ~streamClosed
       => seen[c].believes = Shown

(* What a subscriber may conclude from what it reads. *)
StreamTruth == LossIsVisible /\ NoGapKnows

(* A file that is still written has its sink held by the manager, or by the *)
(* start in progress; a final one is counted as completed, with its         *)
(* metadata, or still held so that a later stop completes it; and the       *)
(* manager says that it records only while it holds a sink. *)
RecordingsOwned ==
    /\ \A n \in Recordings :
          /\ audio[n] = "open" => n = sink \/ (at = "attached" /\ n = tried)
          /\ audio[n] = "final" => n = sink \/ n \in completed
          /\ n \in completed => audio[n] = "final" /\ n \in metadata
    /\ status = "recording" => sink # 0
    /\ at = "idle" /\ sink # 0 => status \in {"recording", "failed"}
=============================================================================
