---------------------- MODULE WaterfallSession_proofs ----------------------
(***************************************************************************)
(* Proofs about WaterfallSession, for any set of leases and any bounds:    *)
(* its type invariant, DemandAccounted, ReservationIsQuiet,                *)
(* InterruptionIsSeen and ClosedIsFinal.                                   *)
(*                                                                         *)
(* They all follow from Consistent, which adds to them what the invariants *)
(* leave open while the session lock is kept over I/O: whoever keeps it,   *)
(* for what, and what the demand and the state then are.                   *)
(***************************************************************************)
EXTENDS WaterfallSession, TLAPS

\* The leases whose owners believe they keep the publication alive.
Wanted == {c \in Leases : lease[c] \in {"held", "closing"}}

\* What the thread that keeps the session lock has done to state and demand.
LockShape ==
  /\ lock.op = "none" => lock = Unlocked
  /\ lock.op = "subscribe" =>
       /\ lock.by \in Leases
       /\ state = "starting"
       /\ leases = {lock.by}
       /\ Wanted = {}
  /\ lock.op = "recover" =>
       /\ \/ lock.by = "loop" /\ loop = "recovering"
          \/ lock.by = "control" /\ control = "restoring"
       /\ state = "starting"
       /\ leases # {}
       /\ leases = Wanted
  /\ lock.op = "release" =>
       /\ lock.by \in Leases
       /\ state = "stopping"
       /\ leases = {}
       /\ Wanted = {lock.by}
  /\ lock.op = "close" =>
       /\ lock.by = "shutdown"
       /\ state = "stopping"
       /\ leases = {}

\* What state and demand are when nobody keeps the lock.
DemandShape ==
  /\ open = leases
  /\ lock.op = "none" =>
       /\ leases = {} => state \in {"idle", "failed", "closed"}
       /\ leases # {} => state \in {"running", "interrupted", "failed"}
       /\ state # "closed" => leases = Wanted

\* A reservation was taken on an idle session, which can only be closed since.
ReservedShape ==
  /\ reserved <=> control = "reserved"
  /\ reserved => /\ leases = {}
                 /\ state \in {"idle", "closed"}
                 /\ loop = "idle"

\* A running session has not yet missed too often, and has lost no transport
\* that nobody is about to mark.
RunningShape ==
  state = "running" =>
    /\ misses < MaxMisses
    /\ startedAt # drops => SomeoneMarks

Consistent ==
  TypeOK /\ LockShape /\ DemandShape /\ ReservedShape /\ RunningShape
----------------------------------------------------------------------------
LEMMA ConsistentAtFirst == Init => Consistent
<1> SUFFICES ASSUME Init PROVE Consistent
  OBVIOUS
<1>1. TypeOK
  <2>1. /\ leases \subseteq Leases
        /\ open \subseteq Leases
        /\ lease \in [Leases -> {"new", "subscribing", "held", "closing", "closed"}]
    BY DEF Init
  <2>2. /\ misses \in 0 .. MaxMisses
        /\ drops \in 0 .. MaxDrops
        /\ startedAt \in 0 .. MaxDrops
        /\ silent \in 0 .. MaxMisses
    BY WaterfallAssumption DEF Init
  <2>3. lock \in [op : {"none", "subscribe", "recover", "release", "close"},
                 by : Leases \cup {"none", "loop", "control", "shutdown"},
                 at : {"outside", "sending", "awaiting"}]
    BY DEF Init, Unlocked
  <2> QED
    BY <2>1, <2>2, <2>3 DEF Init, TypeOK, States
<1>2. Wanted = {}
  BY DEF Init, Wanted
<1>3. LockShape /\ DemandShape /\ ReservedShape /\ RunningShape
  BY <1>2, WaterfallAssumption DEF Init, LockShape, DemandShape, ReservedShape, RunningShape, Unlocked
<1> QED
  BY <1>1, <1>3 DEF Consistent

\* A lost transport is counted within its bound.
LEMMA DropTyped ==
  ASSUME TypeOK, Drop
  PROVE  link' \in BOOLEAN /\ drops' \in 0 .. MaxDrops
<1>1. link' = FALSE
  BY DEF Drop
<1>2. drops \in 0 .. MaxDrops /\ drops < MaxDrops /\ drops' = drops + 1
  BY DEF TypeOK, Drop
<1>3. drops' \in 0 .. MaxDrops
  BY <1>2, WaterfallAssumption
<1> QED
  BY <1>1, <1>3

LEMMA UnlockTyped ==
  ASSUME TypeOK, Unlock
  PROVE  /\ lock' = Unlocked
         /\ loop' \in {"idle", "recovering", "polling", "asking", "answered", "marking", "missed"}
         /\ control' \in {"idle", "reserved", "marking", "reopening", "restoring"}
  BY DEF TypeOK, Unlock

LEMMA UnlockedTyped ==
  Unlocked \in [op : {"none", "subscribe", "recover", "release", "close"},
                by : Leases \cup {"none", "loop", "control", "shutdown"},
                at : {"outside", "sending", "awaiting"}]
  BY DEF Unlocked

LEMMA HoldTyped ==
  ASSUME NEW op \in {"subscribe", "recover", "release", "close"},
         NEW by \in Leases \cup {"loop", "control", "shutdown"}
  PROVE  Hold(op, by) \in [op : {"none", "subscribe", "recover", "release", "close"},
                           by : Leases \cup {"none", "loop", "control", "shutdown"},
                           at : {"outside", "sending", "awaiting"}]
  BY DEF Hold

LEMMA TypeStep == TypeOK /\ RunningShape /\ [Next]_vars => TypeOK'
<1> SUFFICES ASSUME TypeOK, RunningShape, [Next]_vars PROVE TypeOK'
  OBVIOUS
<1> USE DEF TypeOK, States, lines, demand
<1>1. ASSUME NEW c \in Leases, Subscribe(c) PROVE TypeOK'
  BY <1>1, HoldTyped DEF Subscribe
<1>2. CASE EnterCommand
  <2>1. lock' \in [op : {"none", "subscribe", "recover", "release", "close"},
                  by : Leases \cup {"none", "loop", "control", "shutdown"},
                  at : {"outside", "sending", "awaiting"}]
    BY <1>2 DEF EnterCommand
  <2> QED
    BY <1>2, <2>1 DEF EnterCommand
<1>3. CASE StartSucceeds
  BY <1>3, UnlockTyped, UnlockedTyped, WaterfallAssumption DEF StartSucceeds, Starting
<1>4. CASE StartFails
  BY <1>4, DropTyped, UnlockTyped, UnlockedTyped DEF StartFails, Starting
<1>5. ASSUME NEW c \in Leases, CloseLease(c) PROVE TypeOK'
  BY <1>5 DEF CloseLease
<1>6. ASSUME NEW c \in Leases, Release(c) PROVE TypeOK'
  BY <1>6, HoldTyped DEF Release
<1>7. CASE StopSucceeds
  BY <1>7, UnlockTyped, UnlockedTyped DEF StopSucceeds
<1>8. CASE StopFails
  BY <1>8, DropTyped, UnlockTyped, UnlockedTyped DEF StopFails
<1>9. CASE CloseSession
  BY <1>9, HoldTyped DEF CloseSession
<1>10. CASE CloseEnds
  BY <1>10, DropTyped, UnlockTyped, UnlockedTyped DEF CloseEnds
<1>11. CASE ReaderDrops
  BY <1>11, DropTyped DEF ReaderDrops
<1>12. CASE ReaderMarks
  BY <1>12 DEF ReaderMarks, Mark
<1>13. CASE ReaderReopens
  BY <1>13 DEF ReaderReopens
<1>14. CASE LoopSees
  BY <1>14 DEF LoopSees
<1>15. CASE LoopRecovers
  BY <1>15, HoldTyped DEF LoopRecovers, BeginRecover
<1>16. CASE LoopGivesUp
  BY <1>16 DEF LoopGivesUp
<1>17. CASE LoopPolls
  BY <1>17 DEF LoopPolls
<1>18. CASE LoopAnswered
  BY <1>18, WaterfallAssumption DEF LoopAnswered
<1>19. CASE LoopMisses
  BY <1>19, WaterfallAssumption DEF LoopMisses, OneMore
<1>20. CASE LoopLosesLink
  BY <1>20, DropTyped DEF LoopLosesLink
<1>21. CASE LoopMarks
  BY <1>21, WaterfallAssumption DEF LoopMarks, Mark, OneMore
<1>22. CASE LoopRecordsFrame
  BY <1>22, WaterfallAssumption DEF LoopRecordsFrame
<1>23. CASE LoopRecordsMiss
  BY <1>23, WaterfallAssumption DEF LoopRecordsMiss, RunningShape
<1>24. CASE Reserve
  BY <1>24 DEF Reserve
<1>25. CASE Unreserve
  <2>1. reserved' \in BOOLEAN
    BY <1>25 DEF Unreserve
  <2> QED
    BY <1>25, <2>1 DEF Unreserve
<1>26. CASE BeginReconnect
  BY <1>26, DropTyped DEF BeginReconnect
<1>27. CASE ReconnectMarks
  BY <1>27 DEF ReconnectMarks, Mark
<1>28. CASE ReconnectOpens
  <2>1. link' \in BOOLEAN
    BY <1>28 DEF ReconnectOpens
  <2>2. reader' \in {"reading", "marking", "failing", "gone"}
    BY <1>28 DEF ReconnectOpens
  <2>3. control' \in {"idle", "reserved", "marking", "reopening", "restoring"}
    BY <1>28 DEF ReconnectOpens
  <2> QED
    BY <1>28, <2>1, <2>2, <2>3 DEF ReconnectOpens
<1>29. CASE ReconnectRecovers
  BY <1>29, HoldTyped DEF ReconnectRecovers, BeginRecover
<1>30. CASE ReconnectEnds
  BY <1>30 DEF ReconnectEnds
<1>31. CASE UNCHANGED vars
  BY <1>31 DEF vars
<1>32. CASE SendWire
  BY <1>32 DEF SendWire
<1>33. CASE NextWire
  BY <1>33 DEF NextWire
<1>34. CASE ReaderRetryFails
  BY <1>34, DropTyped DEF ReaderRetryFails
<1> QED
  BY <1>1, <1>2, <1>3, <1>4, <1>5, <1>6, <1>7, <1>8, <1>9, <1>10, <1>11, <1>12, <1>13, <1>14, <1>15, <1>16, <1>17, <1>18, <1>19, <1>20, <1>21, <1>22, <1>23, <1>24, <1>25, <1>26, <1>27, <1>28, <1>29, <1>30, <1>31,
     <1>32, <1>33, <1>34
     DEF Next, ConsumerNext, LockHolderNext, ReaderNext, LoopNext, ControlNext

LEMMA ConsistentStep == Consistent /\ [Next]_vars => Consistent'
<1> SUFFICES ASSUME Consistent, [Next]_vars PROVE Consistent'
  OBVIOUS
<1>0. TypeOK'
  BY TypeStep DEF Consistent
<1> USE WaterfallAssumption DEF Consistent, TypeOK, States, LockShape, DemandShape,
     ReservedShape, RunningShape, Wanted, Unlocked, Hold, LockFree, ControlFree, Starting,
     Reconnecting, CommandFree, WriteFree, SomeoneMarks, Drop, Mark, Unlock, OneMore, BeginRecover, lines, demand
<1>1. ASSUME NEW c \in Leases, Subscribe(c) PROVE Consistent'
  <2>1. LockShape'
    BY <1>0, <1>1 DEF Subscribe
  <2>2. DemandShape'
    BY <1>0, <1>1 DEF Subscribe
  <2>3. ReservedShape'
    BY <1>0, <1>1 DEF Subscribe
  <2>4. RunningShape'
    BY <1>0, <1>1 DEF Subscribe
  <2> QED
    BY <1>0, <2>1, <2>2, <2>3, <2>4
<1>2. CASE EnterCommand
  BY <1>0, <1>2 DEF EnterCommand
<1>3. CASE StartSucceeds
  BY <1>0, <1>3 DEF StartSucceeds
<1>4. CASE StartFails
  <2>1. LockShape'
    BY <1>0, <1>4 DEF StartFails
  <2>2. DemandShape'
    BY <1>0, <1>4 DEF StartFails
  <2>3. ReservedShape'
    BY <1>0, <1>4 DEF StartFails
  <2>4. RunningShape'
    BY <1>0, <1>4 DEF StartFails
  <2> QED
    BY <1>0, <2>1, <2>2, <2>3, <2>4
<1>5. ASSUME NEW c \in Leases, CloseLease(c) PROVE Consistent'
  BY <1>0, <1>5 DEF CloseLease
<1>6. ASSUME NEW c \in Leases, Release(c) PROVE Consistent'
  <2>1. LockShape'
    BY <1>0, <1>6 DEF Release
  <2>2. DemandShape'
    BY <1>0, <1>6 DEF Release
  <2>3. ReservedShape'
    BY <1>0, <1>6 DEF Release
  <2>4. RunningShape'
    BY <1>0, <1>6 DEF Release
  <2> QED
    BY <1>0, <2>1, <2>2, <2>3, <2>4
<1>7. CASE StopSucceeds
  BY <1>0, <1>7 DEF StopSucceeds
<1>8. CASE StopFails
  <2>1. LockShape'
    BY <1>0, <1>8 DEF StopFails
  <2>2. DemandShape'
    BY <1>0, <1>8 DEF StopFails
  <2>3. ReservedShape'
    BY <1>0, <1>8 DEF StopFails
  <2>4. RunningShape'
    BY <1>0, <1>8 DEF StopFails
  <2> QED
    BY <1>0, <2>1, <2>2, <2>3, <2>4
<1>9. CASE CloseSession
  <2>1. LockShape'
    BY <1>0, <1>9 DEF CloseSession
  <2>2. DemandShape'
    BY <1>0, <1>9 DEF CloseSession
  <2>3. ReservedShape'
    BY <1>0, <1>9 DEF CloseSession
  <2>4. RunningShape'
    BY <1>0, <1>9 DEF CloseSession
  <2> QED
    BY <1>0, <2>1, <2>2, <2>3, <2>4
<1>10. CASE CloseEnds
  <2>1. LockShape'
    BY <1>0, <1>10 DEF CloseEnds
  <2>2. DemandShape'
    BY <1>0, <1>10 DEF CloseEnds
  <2>3. ReservedShape'
    BY <1>0, <1>10 DEF CloseEnds
  <2>4. RunningShape'
    BY <1>0, <1>10 DEF CloseEnds
  <2> QED
    BY <1>0, <2>1, <2>2, <2>3, <2>4
<1>11. CASE ReaderDrops
  <2>1. LockShape'
    BY <1>0, <1>11 DEF ReaderDrops
  <2>2. DemandShape'
    BY <1>0, <1>11 DEF ReaderDrops
  <2>3. ReservedShape'
    BY <1>0, <1>11 DEF ReaderDrops
  <2>4. RunningShape'
    BY <1>0, <1>11 DEF ReaderDrops
  <2> QED
    BY <1>0, <2>1, <2>2, <2>3, <2>4
<1>12. CASE ReaderMarks
  BY <1>0, <1>12 DEF ReaderMarks
<1>13. CASE ReaderReopens
  BY <1>0, <1>13 DEF ReaderReopens
<1>14. CASE LoopSees
  BY <1>0, <1>14 DEF LoopSees
<1>15. CASE LoopRecovers
  BY <1>0, <1>15 DEF LoopRecovers
<1>16. CASE LoopGivesUp
  BY <1>0, <1>16 DEF LoopGivesUp
<1>17. CASE LoopPolls
  BY <1>0, <1>17 DEF LoopPolls
<1>18. CASE LoopAnswered
  BY <1>0, <1>18 DEF LoopAnswered
<1>19. CASE LoopMisses
  BY <1>0, <1>19 DEF LoopMisses
<1>20. CASE LoopLosesLink
  <2>1. LockShape'
    BY <1>0, <1>20 DEF LoopLosesLink
  <2>2. DemandShape'
    BY <1>0, <1>20 DEF LoopLosesLink
  <2>3. ReservedShape'
    BY <1>0, <1>20 DEF LoopLosesLink
  <2>4. RunningShape'
    BY <1>0, <1>20 DEF LoopLosesLink
  <2> QED
    BY <1>0, <2>1, <2>2, <2>3, <2>4
<1>21. CASE LoopMarks
  BY <1>0, <1>21 DEF LoopMarks
<1>22. CASE LoopRecordsFrame
  BY <1>0, <1>22 DEF LoopRecordsFrame
<1>23. CASE LoopRecordsMiss
  BY <1>0, <1>23 DEF LoopRecordsMiss
<1>24. CASE Reserve
  BY <1>0, <1>24 DEF Reserve
<1>25. CASE Unreserve
  BY <1>0, <1>25 DEF Unreserve
<1>26. CASE BeginReconnect
  <2>1. LockShape'
    BY <1>0, <1>26 DEF BeginReconnect
  <2>2. DemandShape'
    BY <1>0, <1>26 DEF BeginReconnect
  <2>3. ReservedShape'
    BY <1>0, <1>26 DEF BeginReconnect
  <2>4. RunningShape'
    BY <1>0, <1>26 DEF BeginReconnect
  <2> QED
    BY <1>0, <2>1, <2>2, <2>3, <2>4
<1>27. CASE ReconnectMarks
  BY <1>0, <1>27 DEF ReconnectMarks
<1>28. CASE ReconnectOpens
  <2>1. LockShape'
    BY <1>0, <1>28 DEF ReconnectOpens
  <2>2. DemandShape'
    BY <1>0, <1>28 DEF ReconnectOpens
  <2>3. ReservedShape'
    BY <1>0, <1>28 DEF ReconnectOpens
  <2>4. RunningShape'
    BY <1>0, <1>28 DEF ReconnectOpens
  <2> QED
    BY <1>0, <2>1, <2>2, <2>3, <2>4
<1>29. CASE ReconnectRecovers
  BY <1>0, <1>29 DEF ReconnectRecovers
<1>30. CASE ReconnectEnds
  BY <1>0, <1>30 DEF ReconnectEnds
<1>31. CASE UNCHANGED vars
  BY <1>0, <1>31 DEF vars
<1>32. CASE SendWire
  BY <1>0, <1>32 DEF SendWire
<1>33. CASE NextWire
  BY <1>0, <1>33 DEF NextWire
<1>34. CASE ReaderRetryFails
  BY <1>0, <1>34 DEF ReaderRetryFails
<1> QED
  BY <1>1, <1>2, <1>3, <1>4, <1>5, <1>6, <1>7, <1>8, <1>9, <1>10, <1>11, <1>12, <1>13, <1>14, <1>15, <1>16, <1>17, <1>18, <1>19, <1>20, <1>21, <1>22, <1>23, <1>24, <1>25, <1>26, <1>27, <1>28, <1>29, <1>30, <1>31,
     <1>32, <1>33, <1>34
     DEF Next, ConsumerNext, LockHolderNext, ReaderNext, LoopNext, ControlNext

----------------------------------------------------------------------------
LEMMA ConsistentHolds == Spec => []Consistent
  BY ConsistentAtFirst, ConsistentStep, PTL DEF Spec

\* Every variable of the session, of the threads in it and of the transport keeps
\* to its range: no count of missed polls passes the limit that fails the session.
THEOREM TypeCorrect == Spec => []TypeOK
<1>1. Consistent => TypeOK
  BY DEF Consistent
<1> QED
  BY <1>1, ConsistentHolds, PTL

\* Whatever start, recovery or stop fails, the state, the leases, the publisher's
\* subscriptions and what the consumers hold agree whenever the lock is free.
THEOREM DemandAccountedHolds == Spec => []DemandAccounted
<1>1. Consistent => DemandAccounted
  BY DEF Consistent, LockShape, DemandShape, DemandAccounted, LockFree, Wanted, Unlocked
<1> QED
  BY <1>1, ConsistentHolds, PTL

\* reserve_idle_for_research() and reserve_idle_for_control() exclude every other
\* use of the scanner by the session until they return.
THEOREM ReservationIsQuietHolds == Spec => []ReservationIsQuiet
<1>1. Consistent => ReservationIsQuiet
  BY DEF Consistent, TypeOK, LockShape, ReservedShape, ReservationIsQuiet, Reconnecting
<1> QED
  BY <1>1, ConsistentHolds, PTL

\* No loss of the transport is overlooked by a session that goes on running.
THEOREM InterruptionIsSeenHolds == Spec => []InterruptionIsSeen
<1>1. Consistent => InterruptionIsSeen
  BY WaterfallAssumption DEF Consistent, TypeOK, RunningShape, InterruptionIsSeen, SomeoneMarks
<1> QED
  BY <1>1, ConsistentHolds, PTL

\* close() is final: no late answer, miss, mark, lease or recovery reopens the session.
THEOREM ClosedIsFinalHolds == Spec => ClosedIsFinal
<1> DEFINE Final == state = "closed" => state' = "closed" /\ leases' = {} /\ open' = {}
<1>1. ASSUME Consistent, [Next]_vars PROVE [Final]_vars
  <2> SUFFICES ASSUME Consistent, Next, state = "closed"
               PROVE  state' = "closed" /\ leases' = {} /\ open' = {}
    BY <1>1 DEF vars
  <2>1. lock = Unlocked /\ leases = {} /\ open = {}
    BY DEF Consistent, TypeOK, LockShape, DemandShape, Unlocked
  <2>2. Consistent'
    BY ConsistentStep
  <2>3. state' = "closed"
    BY <2>1 DEF Next, ConsumerNext, LockHolderNext, ReaderNext, LoopNext, ControlNext,
       Subscribe, EnterCommand, StartSucceeds, StartFails, CloseLease, Release, StopSucceeds,
       StopFails, CloseSession, CloseEnds, ReaderDrops, ReaderMarks, ReaderReopens, LoopSees,
       SendWire, NextWire, ReaderRetryFails, LoopRecovers, LoopGivesUp, LoopPolls, LoopAnswered, LoopMisses, LoopLosesLink,
       LoopMarks, LoopRecordsFrame, LoopRecordsMiss, Reserve, Unreserve, BeginReconnect,
       ReconnectMarks, ReconnectOpens, ReconnectRecovers, ReconnectEnds, BeginRecover, Mark,
       Starting, Unlocked
  <2>4. leases' = {} /\ open' = {}
    BY <2>2, <2>3 DEF Consistent, TypeOK, LockShape, DemandShape, Unlocked
  <2> QED
    BY <2>3, <2>4
<1> QED
  BY <1>1, ConsistentHolds, PTL DEF Spec, ClosedIsFinal
=============================================================================
