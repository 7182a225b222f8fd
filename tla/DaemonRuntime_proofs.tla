------------------------ MODULE DaemonRuntime_proofs ------------------------
(* Proofs about DaemonRuntime, for any number of controls and losses.       *)
(*                                                                          *)
(* Locked says which lock each thread has at each place and what stop()     *)
(* leaves behind; OneMutation and TerminalIsQuiet follow from it.  Told     *)
(* says the same of the queue of transitions.                               *)
EXTENDS DaemonRuntime, FiniteSetTheorems, SequenceTheorems, TLAPS

Starting == {"connecting", "startsPsi", "awaitsPsi", "startsAudio",
             "cleaning", "cleaned"}
Scoped == {"acting", "refused", "reconnecting", "reopening", "restoring"}
SlotSteps == Scoped \cup {"waterfall", "starts", "pushes", "awaits",
                          "refreshes", "repushes", "reawaits", "admitted"}
ControlSteps == Scoped \cup {"new", "admitted", "done"}
MainSteps == PollSteps \cup Starting \cup {"new", "loop", "leaving", "gone", "refused"}
StopSteps == {"stopping", "closing", "joining"}
Emit == {"emit", "emitting", "telling"}
Silent == ~alive /\ ~interval

(* TypeOK but for the count of transitions: the places of the threads, the  *)
(* flags, and the rest.                                                     *)
Places ==
  /\ state \in {"idle", "starting", "running", "stopping", "stopped", "failed"}
  /\ lifecycle \in Users \cup {"none", "other"}
  /\ slot \in Users \cup {"none"}
  /\ at \in [Users -> MainSteps \cup ControlSteps]
  /\ at["main"] \in MainSteps
  /\ \A c \in Controls : at[c] \in ControlSteps
  /\ own \in [Owners -> {"idle", "done"} \cup StopSteps \cup Emit]
Flags ==
  /\ network \in BOOLEAN /\ stopped \in BOOLEAN /\ emitting \in BOOLEAN
  /\ link \in BOOLEAN /\ alive \in BOOLEAN
  /\ reader \in {"receives", "opens", "announces"}
  /\ interval \in BOOLEAN /\ active \in BOOLEAN /\ saved \in BOOLEAN
  /\ seen \in BOOLEAN /\ first \in BOOLEAN
Values ==
  /\ losses \in 0 .. MaxLosses
  /\ lastPsi \in {"never", "fresh", "stale"}
  /\ since \in {"never", "recent", "rested"}
  /\ hand \in [Owners -> Nat]
  /\ pending \in Seq(Nat) /\ told \in Seq(Nat)
  /\ made \in Nat

(* Who is where has which lock.                                             *)
Locks ==
  /\ \A t \in Users : at[t] \in SlotSteps => slot = t
  /\ \A t \in Users : at[t] \in Scoped => lifecycle = t
  /\ at["main"] \in Starting => lifecycle = "main"
  /\ \A o \in Owners : own[o] \in StopSteps => lifecycle = o
  /\ own["main"] \in StopSteps => at["main"] = "leaving"
  /\ own["main"] \in Emit => at["main"] \in {"loop", "leaving"}
  /\ own["main"] # "done"

(* What the state says, and what a stopped runtime is.                      *)
States ==
  /\ state = "idle" <=> at["main"] = "new"
  /\ state = "starting" => at["main"] \in Starting
  /\ at["main"] \in Starting => state = "starting"
  /\ state = "stopping" <=> Stopping # {}
  /\ stopped <=> state \in {"stopped", "failed"}
  /\ Stopping # {} \/ stopped => at["main"] \notin PollSteps
  /\ stopped => /\ Silent /\ ReaderIdle /\ (link => network)
                /\ \A t \in Users : at[t] \in Scoped => at[t] = "refused"
  /\ \A o \in Owners : own[o] = "joining" => Silent
  /\ at["main"] = "cleaned" => Silent

Locked == Places /\ Flags /\ Locks /\ States

(* The queue of transitions: who emits holds the flag, the numbers run on   *)
(* from the delivered over the one in hand to the waiting, and whoever made *)
(* a transition that waits is on its way to emit it.                        *)
Emitters == {o \in Owners : own[o] \in {"emitting", "telling"}}
Held == IF \E o \in Owners : own[o] = "telling" THEN 1 ELSE 0
Flagged ==
  /\ \A o \in Owners : hand[o] # 0 <=> own[o] = "telling"
  /\ \A o, p \in Emitters : o = p
  /\ emitting <=> Emitters # {}
Numbered ==
  /\ Len(told) + Held + Len(pending) = made
  /\ \A i \in 1 .. Len(told) : told[i] = i
  /\ \A o \in Owners : own[o] = "telling" => hand[o] = Len(told) + 1
  /\ \A i \in 1 .. Len(pending) : pending[i] = Len(told) + Held + i
Carried ==
  pending # <<>> => \/ \E o \in Owners : own[o] \in Emit
                    \/ Stopping # {}
                    \/ at["main"] \in Starting
Told == Flagged /\ Numbered /\ Carried

(* How many transitions there can have been.                                *)
Counted ==
  /\ made <= 4
  /\ state = "idle" => made = 0
  /\ state = "starting" => made = 1
  /\ state = "running" => made = 2
  /\ state = "stopping" => made = 3

(* The names of threads differ.                                             *)
LEMMA Names ==
  /\ "main" \in Users /\ "main" \notin Controls /\ "other" \notin Users
  /\ "none" \notin Users /\ Controls \subseteq Users
  /\ Owners = {"main", "other"} /\ \A t \in Users : t = "main" \/ t \in Controls
  BY RuntimeAssumption DEF Users, Owners

(* Every step keeps the types of the flags.                                *)
LEMMA FlagsStep ==
  ASSUME Flags, [Next]_vars
  PROVE  Flags'
<1> USE Names DEF locks, wire, psi, clocks, news, Goes, Flags
<1>1. CASE BeginStart
  BY <1>1 DEF BeginStart, Transition
<1>2. CASE Connects
  BY <1>2 DEF Connects
<1>3. CASE StartPushes
  BY <1>3 DEF StartPushes, PushBegins
<1>4. CASE StartAwaits
  BY <1>4 DEF StartAwaits, PushSucceeds, PushFails
<1>5. CASE AudioStarts
  BY <1>5 DEF AudioStarts, Transition
<1>6. CASE StartCleans
  BY <1>6 DEF StartCleans, Silences
<1>7. CASE StartFails
  BY <1>7 DEF StartFails, Closes, Transition
<1>8. CASE StopRequested
  BY <1>8 DEF StopRequested, Returned
<1>9. ASSUME NEW o \in Owners, StopReturns(o) PROVE Flags'
  BY <1>9 DEF StopReturns, MayStop, Returned
<1>10. ASSUME NEW o \in Owners, BeginStop(o) PROVE Flags'
  BY <1>10 DEF BeginStop, Transition, MayStop, Returned
<1>11. ASSUME NEW o \in Owners, StopPsi(o) PROVE Flags'
  BY <1>11 DEF StopPsi, PushFails
<1>12. ASSUME NEW o \in Owners, CloseScanner(o) PROVE Flags'
  BY <1>12 DEF CloseScanner, Silences
<1>13. ASSUME NEW o \in Owners, EndStop(o) PROVE Flags'
  BY <1>13 DEF EndStop, Closes, Transition
<1>14. ASSUME NEW o \in Owners, EmitBegins(o) PROVE Flags'
  BY <1>14 DEF EmitBegins
<1>15. ASSUME NEW o \in Owners, EmitTakes(o) PROVE Flags'
  BY <1>15 DEF EmitTakes
<1>16. ASSUME NEW o \in Owners, EmitTells(o) PROVE Flags'
  BY <1>16 DEF EmitTells
<1>17. CASE PollWaterfall
  BY <1>17 DEF PollWaterfall, Returned, Ready
<1>18. CASE WaterfallEnds
  BY <1>18 DEF WaterfallEnds
<1>19. CASE PollLooks
  BY <1>19 DEF PollLooks, Returned, Ready, Inactive
<1>20. CASE PollYields
  BY <1>20 DEF PollYields
<1>21. CASE PollCommits
  BY <1>21 DEF PollCommits
<1>22. CASE PollTakesSlot
  BY <1>22 DEF PollTakesSlot
<1>23. CASE PollReconnects
  BY <1>23 DEF PollReconnects
<1>24. CASE PollStarts
  BY <1>24 DEF PollStarts, PollRests
<1>25. CASE PollPushes
  BY <1>25 DEF PollPushes, PushBegins, PollRests, PollDies
<1>26. CASE PollAwaits
  BY <1>26 DEF PollAwaits, PushSucceeds, PushFails, PollRests, PollDies
<1>27. CASE PollRefreshes
  BY <1>27 DEF PollRefreshes, PushFails, PollRests
<1>28. CASE PollRepushes
  BY <1>28 DEF PollRepushes, PushBegins, PollRests
<1>29. CASE PollReawaits
  BY <1>29 DEF PollReawaits, PushSucceeds, PushFails, PollRests
<1>30. ASSUME NEW c \in Controls, BeginControl(c) PROVE Flags'
  BY <1>30 DEF BeginControl
<1>31. ASSUME NEW t \in Users, Enter(t) PROVE Flags'
  BY <1>31 DEF Enter, WaitsFor
<1>32. ASSUME NEW t \in Users, EnterTimesOut(t) PROVE Flags'
  BY <1>32 DEF EnterTimesOut, Leaves, WaitsFor
<1>33. ASSUME NEW t \in Users, ActEnds(t) PROVE Flags'
  BY <1>33 DEF ActEnds, Leaves
<1>34. ASSUME NEW t \in Users, Reconnects(t) PROVE Flags'
  <2>1. CASE saved' = interval /\ Silences
    BY <1>34, <2>1 DEF Reconnects, Silences
  <2>2. CASE UNCHANGED <<wire, psi, saved>>
    BY <1>34, <2>2 DEF Reconnects
  <2> QED  BY <1>34, <2>1, <2>2 DEF Reconnects
<1>35. ASSUME NEW t \in Users, ReopenFails(t) PROVE Flags'
  BY <1>35 DEF ReopenFails, Leaves, Restored
<1>36. ASSUME NEW t \in Users, Reopens(t) PROVE Flags'
  BY <1>36 DEF Reopens, PushBegins, Leaves, Restored
<1>37. ASSUME NEW t \in Users, Restores(t) PROVE Flags'
  BY <1>37 DEF Restores, PushSucceeds, Leaves, Restored
<1>38. CASE FrameArrives
  BY <1>38 DEF FrameArrives, Awaited
<1>39. CASE FrameSets
  BY <1>39 DEF FrameSets, Awaited
<1>40. CASE LinkLost
  BY <1>40 DEF LinkLost
<1>41. CASE ReaderWaits
  BY <1>41 DEF ReaderWaits
<1>42. CASE ReaderReopens
  BY <1>42 DEF ReaderReopens
<1>43. CASE ReaderAnnounces
  BY <1>43 DEF ReaderAnnounces
<1>44. CASE Age
  BY <1>44 DEF Age
<1>45. CASE Rest
  BY <1>45 DEF Rest
<1>46. CASE UNCHANGED vars
  BY <1>46 DEF vars
<1> QED
  BY <1>1, <1>2, <1>3, <1>4, <1>5, <1>6, <1>7, <1>8, <1>9, <1>10, <1>11, <1>12,
     <1>13, <1>14, <1>15, <1>16, <1>17, <1>18, <1>19, <1>20, <1>21, <1>22,
     <1>23, <1>24, <1>25, <1>26, <1>27, <1>28, <1>29, <1>30, <1>31, <1>32,
     <1>33, <1>34, <1>35, <1>36, <1>37, <1>38, <1>39, <1>40, <1>41, <1>42,
     <1>43, <1>44, <1>45, <1>46
  DEF Next, Main, Start, Poll, Scope, Stops, Ends, Reader

(* Every step keeps the types of counts, clocks and queues.                *)
LEMMA ValuesStep ==
  ASSUME Values, [Next]_vars
  PROVE  Values'
<1> USE Names DEF locks, wire, psi, clocks, news, Goes, Values
<1>1. CASE BeginStart
  BY <1>1 DEF BeginStart, Transition
<1>2. CASE Connects
  BY <1>2 DEF Connects
<1>3. CASE StartPushes
  BY <1>3 DEF StartPushes, PushBegins
<1>4. CASE StartAwaits
  BY <1>4 DEF StartAwaits, PushSucceeds, PushFails
<1>5. CASE AudioStarts
  <2>1. made + 1 \in Nat /\ Append(pending, made + 1) \in Seq(Nat)
    OBVIOUS
  <2> QED  BY <1>5, <2>1 DEF AudioStarts, Transition
<1>6. CASE StartCleans
  BY <1>6 DEF StartCleans, Silences
<1>7. CASE StartFails
  BY <1>7 DEF StartFails, Closes, Transition
<1>8. CASE StopRequested
  BY <1>8 DEF StopRequested, Returned
<1>9. ASSUME NEW o \in Owners, StopReturns(o) PROVE Values'
  BY <1>9 DEF StopReturns, MayStop, Returned
<1>10. ASSUME NEW o \in Owners, BeginStop(o) PROVE Values'
  BY <1>10 DEF BeginStop, Transition, MayStop, Returned
<1>11. ASSUME NEW o \in Owners, StopPsi(o) PROVE Values'
  BY <1>11 DEF StopPsi, PushFails
<1>12. ASSUME NEW o \in Owners, CloseScanner(o) PROVE Values'
  BY <1>12 DEF CloseScanner, Silences
<1>13. ASSUME NEW o \in Owners, EndStop(o) PROVE Values'
  BY <1>13 DEF EndStop, Closes, Transition
<1>14. ASSUME NEW o \in Owners, EmitBegins(o) PROVE Values'
  BY <1>14 DEF EmitBegins
<1>15. ASSUME NEW o \in Owners, EmitTakes(o) PROVE Values'
  <2>1. CASE UNCHANGED <<hand, pending>>
    BY <1>15, <2>1 DEF EmitTakes
  <2>2. CASE pending # <<>>
    <3>1. Head(pending) \in Nat /\ Tail(pending) \in Seq(Nat)
      BY <2>2
    <3> QED  BY <1>15, <2>2, <3>1 DEF EmitTakes
  <2> QED  BY <1>15, <2>1, <2>2 DEF EmitTakes
<1>16. ASSUME NEW o \in Owners, EmitTells(o) PROVE Values'
  BY <1>16 DEF EmitTells
<1>17. CASE PollWaterfall
  BY <1>17 DEF PollWaterfall, Returned, Ready
<1>18. CASE WaterfallEnds
  BY <1>18 DEF WaterfallEnds
<1>19. CASE PollLooks
  BY <1>19 DEF PollLooks, Returned, Ready, Inactive
<1>20. CASE PollYields
  BY <1>20 DEF PollYields
<1>21. CASE PollCommits
  BY <1>21 DEF PollCommits
<1>22. CASE PollTakesSlot
  BY <1>22 DEF PollTakesSlot
<1>23. CASE PollReconnects
  BY <1>23 DEF PollReconnects
<1>24. CASE PollStarts
  BY <1>24 DEF PollStarts, PollRests
<1>25. CASE PollPushes
  BY <1>25 DEF PollPushes, PushBegins, PollRests, PollDies
<1>26. CASE PollAwaits
  BY <1>26 DEF PollAwaits, PushSucceeds, PushFails, PollRests, PollDies
<1>27. CASE PollRefreshes
  BY <1>27 DEF PollRefreshes, PushFails, PollRests
<1>28. CASE PollRepushes
  BY <1>28 DEF PollRepushes, PushBegins, PollRests
<1>29. CASE PollReawaits
  BY <1>29 DEF PollReawaits, PushSucceeds, PushFails, PollRests
<1>30. ASSUME NEW c \in Controls, BeginControl(c) PROVE Values'
  BY <1>30 DEF BeginControl
<1>31. ASSUME NEW t \in Users, Enter(t) PROVE Values'
  BY <1>31 DEF Enter, WaitsFor
<1>32. ASSUME NEW t \in Users, EnterTimesOut(t) PROVE Values'
  BY <1>32 DEF EnterTimesOut, Leaves, WaitsFor
<1>33. ASSUME NEW t \in Users, ActEnds(t) PROVE Values'
  BY <1>33 DEF ActEnds, Leaves
<1>34. ASSUME NEW t \in Users, Reconnects(t) PROVE Values'
  BY <1>34 DEF Reconnects, Silences, Leaves
<1>35. ASSUME NEW t \in Users, ReopenFails(t) PROVE Values'
  BY <1>35 DEF ReopenFails, Leaves, Restored
<1>36. ASSUME NEW t \in Users, Reopens(t) PROVE Values'
  BY <1>36 DEF Reopens, PushBegins, Leaves, Restored
<1>37. ASSUME NEW t \in Users, Restores(t) PROVE Values'
  BY <1>37 DEF Restores, PushSucceeds, Leaves, Restored
<1>38. CASE FrameArrives
  BY <1>38 DEF FrameArrives, Awaited
<1>39. CASE FrameSets
  BY <1>39 DEF FrameSets, Awaited
<1>40. CASE LinkLost
  BY <1>40, RuntimeAssumption DEF LinkLost
<1>41. CASE ReaderWaits
  BY <1>41 DEF ReaderWaits
<1>42. CASE ReaderReopens
  BY <1>42 DEF ReaderReopens
<1>43. CASE ReaderAnnounces
  BY <1>43 DEF ReaderAnnounces
<1>44. CASE Age
  BY <1>44 DEF Age
<1>45. CASE Rest
  BY <1>45 DEF Rest
<1>46. CASE UNCHANGED vars
  BY <1>46 DEF vars
<1> QED
  BY <1>1, <1>2, <1>3, <1>4, <1>5, <1>6, <1>7, <1>8, <1>9, <1>10, <1>11, <1>12,
     <1>13, <1>14, <1>15, <1>16, <1>17, <1>18, <1>19, <1>20, <1>21, <1>22,
     <1>23, <1>24, <1>25, <1>26, <1>27, <1>28, <1>29, <1>30, <1>31, <1>32,
     <1>33, <1>34, <1>35, <1>36, <1>37, <1>38, <1>39, <1>40, <1>41, <1>42,
     <1>43, <1>44, <1>45, <1>46
  DEF Next, Main, Start, Poll, Scope, Stops, Ends, Reader

(* Every step leaves each thread at one of its places.                     *)
LEMMA PlacesStep ==
  ASSUME Places, [Next]_vars
  PROVE  Places'
<1> USE Names DEF locks, wire, psi, clocks, news, Goes, Places, Starting,
   Scoped, ControlSteps, MainSteps, PollSteps, StopSteps, Emit
<1>1. CASE BeginStart
  BY <1>1 DEF BeginStart, Transition
<1>2. CASE Connects
  BY <1>2 DEF Connects
<1>3. CASE StartPushes
  BY <1>3 DEF StartPushes, PushBegins
<1>4. CASE StartAwaits
  BY <1>4 DEF StartAwaits, PushSucceeds, PushFails
<1>5. CASE AudioStarts
  BY <1>5 DEF AudioStarts, Transition
<1>6. CASE StartCleans
  BY <1>6 DEF StartCleans, Silences
<1>7. CASE StartFails
  BY <1>7 DEF StartFails, Closes, Transition
<1>8. CASE StopRequested
  BY <1>8 DEF StopRequested, Returned
<1>9. ASSUME NEW o \in Owners, StopReturns(o) PROVE Places'
  BY <1>9 DEF StopReturns, MayStop, Returned
<1>10. ASSUME NEW o \in Owners, BeginStop(o) PROVE Places'
  BY <1>10 DEF BeginStop, Transition, MayStop, Returned
<1>11. ASSUME NEW o \in Owners, StopPsi(o) PROVE Places'
  BY <1>11 DEF StopPsi, PushFails
<1>12. ASSUME NEW o \in Owners, CloseScanner(o) PROVE Places'
  BY <1>12 DEF CloseScanner, Silences
<1>13. ASSUME NEW o \in Owners, EndStop(o) PROVE Places'
  BY <1>13 DEF EndStop, Closes, Transition
<1>14. ASSUME NEW o \in Owners, EmitBegins(o) PROVE Places'
  BY <1>14 DEF EmitBegins
<1>15. ASSUME NEW o \in Owners, EmitTakes(o) PROVE Places'
  BY <1>15 DEF EmitTakes
<1>16. ASSUME NEW o \in Owners, EmitTells(o) PROVE Places'
  BY <1>16 DEF EmitTells
<1>17. CASE PollWaterfall
  BY <1>17 DEF PollWaterfall, Returned, Ready
<1>18. CASE WaterfallEnds
  BY <1>18 DEF WaterfallEnds
<1>19. CASE PollLooks
  BY <1>19 DEF PollLooks, Returned, Ready, Inactive
<1>20. CASE PollYields
  BY <1>20 DEF PollYields
<1>21. CASE PollCommits
  BY <1>21 DEF PollCommits
<1>22. CASE PollTakesSlot
  BY <1>22 DEF PollTakesSlot
<1>23. CASE PollReconnects
  BY <1>23 DEF PollReconnects
<1>24. CASE PollStarts
  BY <1>24 DEF PollStarts, PollRests
<1>25. CASE PollPushes
  BY <1>25 DEF PollPushes, PushBegins, PollRests, PollDies
<1>26. CASE PollAwaits
  BY <1>26 DEF PollAwaits, PushSucceeds, PushFails, PollRests, PollDies
<1>27. CASE PollRefreshes
  BY <1>27 DEF PollRefreshes, PushFails, PollRests
<1>28. CASE PollRepushes
  BY <1>28 DEF PollRepushes, PushBegins, PollRests
<1>29. CASE PollReawaits
  BY <1>29 DEF PollReawaits, PushSucceeds, PushFails, PollRests
<1>30. ASSUME NEW c \in Controls, BeginControl(c) PROVE Places'
  BY <1>30 DEF BeginControl
<1>31. ASSUME NEW t \in Users, Enter(t) PROVE Places'
  BY <1>31 DEF Enter, WaitsFor
<1>32. ASSUME NEW t \in Users, EnterTimesOut(t) PROVE Places'
  BY <1>32 DEF EnterTimesOut, Leaves, WaitsFor
<1>33. ASSUME NEW t \in Users, ActEnds(t) PROVE Places'
  BY <1>33 DEF ActEnds, Leaves
<1>34. ASSUME NEW t \in Users, Reconnects(t) PROVE Places'
  BY <1>34 DEF Reconnects, Silences, Leaves
<1>35. ASSUME NEW t \in Users, ReopenFails(t) PROVE Places'
  BY <1>35 DEF ReopenFails, Leaves, Restored
<1>36. ASSUME NEW t \in Users, Reopens(t) PROVE Places'
  BY <1>36 DEF Reopens, PushBegins, Leaves, Restored
<1>37. ASSUME NEW t \in Users, Restores(t) PROVE Places'
  BY <1>37 DEF Restores, PushSucceeds, Leaves, Restored
<1>38. CASE FrameArrives
  BY <1>38 DEF FrameArrives, Awaited
<1>39. CASE FrameSets
  BY <1>39 DEF FrameSets, Awaited
<1>40. CASE LinkLost
  BY <1>40 DEF LinkLost
<1>41. CASE ReaderWaits
  BY <1>41 DEF ReaderWaits
<1>42. CASE ReaderReopens
  BY <1>42 DEF ReaderReopens
<1>43. CASE ReaderAnnounces
  BY <1>43 DEF ReaderAnnounces
<1>44. CASE Age
  BY <1>44 DEF Age
<1>45. CASE Rest
  BY <1>45 DEF Rest
<1>46. CASE UNCHANGED vars
  BY <1>46 DEF vars
<1> QED
  BY <1>1, <1>2, <1>3, <1>4, <1>5, <1>6, <1>7, <1>8, <1>9, <1>10, <1>11, <1>12,
     <1>13, <1>14, <1>15, <1>16, <1>17, <1>18, <1>19, <1>20, <1>21, <1>22,
     <1>23, <1>24, <1>25, <1>26, <1>27, <1>28, <1>29, <1>30, <1>31, <1>32,
     <1>33, <1>34, <1>35, <1>36, <1>37, <1>38, <1>39, <1>40, <1>41, <1>42,
     <1>43, <1>44, <1>45, <1>46
  DEF Next, Main, Start, Poll, Scope, Stops, Ends, Reader

(* Every step leaves each thread with the locks of its place.              *)
LEMMA LocksStep ==
  ASSUME Locked, [Next]_vars
  PROVE  Locks'
<1> USE Names DEF locks, wire, psi, clocks, news, Goes, Locks, Locked, Places,
   Starting, Scoped, SlotSteps, ControlSteps, MainSteps, PollSteps, StopSteps,
   Emit
<1>1. CASE BeginStart
  BY <1>1 DEF BeginStart, Transition
<1>2. CASE Connects
  BY <1>2 DEF Connects
<1>3. CASE StartPushes
  BY <1>3 DEF StartPushes, PushBegins
<1>4. CASE StartAwaits
  BY <1>4 DEF StartAwaits, PushSucceeds, PushFails
<1>5. CASE AudioStarts
  BY <1>5 DEF AudioStarts, Transition
<1>6. CASE StartCleans
  BY <1>6 DEF StartCleans, Silences
<1>7. CASE StartFails
  BY <1>7 DEF StartFails, Closes, Transition
<1>8. CASE StopRequested
  BY <1>8 DEF StopRequested, Returned
<1>9. ASSUME NEW o \in Owners, StopReturns(o) PROVE Locks'
  BY <1>9 DEF StopReturns, MayStop, Returned
<1>10. ASSUME NEW o \in Owners, BeginStop(o) PROVE Locks'
  BY <1>10 DEF BeginStop, Transition, MayStop, Returned
<1>11. ASSUME NEW o \in Owners, StopPsi(o) PROVE Locks'
  BY <1>11 DEF StopPsi, PushFails
<1>12. ASSUME NEW o \in Owners, CloseScanner(o) PROVE Locks'
  BY <1>12 DEF CloseScanner, Silences
<1>13. ASSUME NEW o \in Owners, EndStop(o) PROVE Locks'
  BY <1>13 DEF EndStop, Closes, Transition
<1>14. ASSUME NEW o \in Owners, EmitBegins(o) PROVE Locks'
  BY <1>14 DEF EmitBegins
<1>15. ASSUME NEW o \in Owners, EmitTakes(o) PROVE Locks'
  BY <1>15 DEF EmitTakes
<1>16. ASSUME NEW o \in Owners, EmitTells(o) PROVE Locks'
  BY <1>16 DEF EmitTells
<1>17. CASE PollWaterfall
  BY <1>17 DEF PollWaterfall, Returned, Ready
<1>18. CASE WaterfallEnds
  BY <1>18 DEF WaterfallEnds
<1>19. CASE PollLooks
  BY <1>19 DEF PollLooks, Returned, Ready, Inactive
<1>20. CASE PollYields
  BY <1>20 DEF PollYields
<1>21. CASE PollCommits
  BY <1>21 DEF PollCommits
<1>22. CASE PollTakesSlot
  BY <1>22 DEF PollTakesSlot
<1>23. CASE PollReconnects
  BY <1>23 DEF PollReconnects
<1>24. CASE PollStarts
  BY <1>24 DEF PollStarts, PollRests
<1>25. CASE PollPushes
  BY <1>25 DEF PollPushes, PushBegins, PollRests, PollDies
<1>26. CASE PollAwaits
  BY <1>26 DEF PollAwaits, PushSucceeds, PushFails, PollRests, PollDies
<1>27. CASE PollRefreshes
  BY <1>27 DEF PollRefreshes, PushFails, PollRests
<1>28. CASE PollRepushes
  BY <1>28 DEF PollRepushes, PushBegins, PollRests
<1>29. CASE PollReawaits
  BY <1>29 DEF PollReawaits, PushSucceeds, PushFails, PollRests
<1>30. ASSUME NEW c \in Controls, BeginControl(c) PROVE Locks'
  BY <1>30 DEF BeginControl
<1>31. ASSUME NEW t \in Users, Enter(t) PROVE Locks'
  BY <1>31 DEF Enter, WaitsFor
<1>32. ASSUME NEW t \in Users, EnterTimesOut(t) PROVE Locks'
  BY <1>32 DEF EnterTimesOut, Leaves, WaitsFor
<1>33. ASSUME NEW t \in Users, ActEnds(t) PROVE Locks'
  BY <1>33 DEF ActEnds, Leaves
<1>34. ASSUME NEW t \in Users, Reconnects(t) PROVE Locks'
  BY <1>34 DEF Reconnects, Silences, Leaves
<1>35. ASSUME NEW t \in Users, ReopenFails(t) PROVE Locks'
  BY <1>35 DEF ReopenFails, Leaves, Restored
<1>36. ASSUME NEW t \in Users, Reopens(t) PROVE Locks'
  BY <1>36 DEF Reopens, PushBegins, Leaves, Restored
<1>37. ASSUME NEW t \in Users, Restores(t) PROVE Locks'
  BY <1>37 DEF Restores, PushSucceeds, Leaves, Restored
<1>38. CASE FrameArrives
  BY <1>38 DEF FrameArrives, Awaited
<1>39. CASE FrameSets
  BY <1>39 DEF FrameSets, Awaited
<1>40. CASE LinkLost
  BY <1>40 DEF LinkLost
<1>41. CASE ReaderWaits
  BY <1>41 DEF ReaderWaits
<1>42. CASE ReaderReopens
  BY <1>42 DEF ReaderReopens
<1>43. CASE ReaderAnnounces
  BY <1>43 DEF ReaderAnnounces
<1>44. CASE Age
  BY <1>44 DEF Age
<1>45. CASE Rest
  BY <1>45 DEF Rest
<1>46. CASE UNCHANGED vars
  BY <1>46 DEF vars
<1> QED
  BY <1>1, <1>2, <1>3, <1>4, <1>5, <1>6, <1>7, <1>8, <1>9, <1>10, <1>11, <1>12,
     <1>13, <1>14, <1>15, <1>16, <1>17, <1>18, <1>19, <1>20, <1>21, <1>22,
     <1>23, <1>24, <1>25, <1>26, <1>27, <1>28, <1>29, <1>30, <1>31, <1>32,
     <1>33, <1>34, <1>35, <1>36, <1>37, <1>38, <1>39, <1>40, <1>41, <1>42,
     <1>43, <1>44, <1>45, <1>46
  DEF Next, Main, Start, Poll, Scope, Stops, Ends, Reader

(* Every step keeps state, places and transport in agreement.              *)
LEMMA StatesStep ==
  ASSUME Locked, [Next]_vars
  PROVE  States'
<1> USE Names DEF locks, wire, psi, clocks, news, Goes, States, Locked, Places,
   Flags, Locks, Stopping, Starting, Scoped, SlotSteps, ControlSteps,
   MainSteps, PollSteps, StopSteps, Emit, Silent, ReaderIdle
<1>1. CASE BeginStart
  BY <1>1 DEF BeginStart, Transition
<1>2. CASE Connects
  BY <1>2 DEF Connects
<1>3. CASE StartPushes
  BY <1>3 DEF StartPushes, PushBegins
<1>4. CASE StartAwaits
  BY <1>4 DEF StartAwaits, PushSucceeds, PushFails
<1>5. CASE AudioStarts
  BY <1>5 DEF AudioStarts, Transition
<1>6. CASE StartCleans
  BY <1>6 DEF StartCleans, Silences
<1>7. CASE StartFails
  BY <1>7 DEF StartFails, Closes, Transition
<1>8. CASE StopRequested
  BY <1>8 DEF StopRequested, Returned
<1>9. ASSUME NEW o \in Owners, StopReturns(o) PROVE States'
  BY <1>9 DEF StopReturns, MayStop, Returned
<1>10. ASSUME NEW o \in Owners, BeginStop(o) PROVE States'
  BY <1>10 DEF BeginStop, Transition, MayStop, Returned
<1>11. ASSUME NEW o \in Owners, StopPsi(o) PROVE States'
  BY <1>11 DEF StopPsi, PushFails
<1>12. ASSUME NEW o \in Owners, CloseScanner(o) PROVE States'
  BY <1>12 DEF CloseScanner, Silences
<1>13. ASSUME NEW o \in Owners, EndStop(o) PROVE States'
  BY <1>13 DEF EndStop, Closes, Transition
<1>14. ASSUME NEW o \in Owners, EmitBegins(o) PROVE States'
  BY <1>14 DEF EmitBegins
<1>15. ASSUME NEW o \in Owners, EmitTakes(o) PROVE States'
  BY <1>15 DEF EmitTakes
<1>16. ASSUME NEW o \in Owners, EmitTells(o) PROVE States'
  BY <1>16 DEF EmitTells
<1>17. CASE PollWaterfall
  BY <1>17 DEF PollWaterfall, Returned, Ready
<1>18. CASE WaterfallEnds
  BY <1>18 DEF WaterfallEnds
<1>19. CASE PollLooks
  BY <1>19 DEF PollLooks, Returned, Ready, Inactive
<1>20. CASE PollYields
  BY <1>20 DEF PollYields
<1>21. CASE PollCommits
  BY <1>21 DEF PollCommits
<1>22. CASE PollTakesSlot
  BY <1>22 DEF PollTakesSlot
<1>23. CASE PollReconnects
  BY <1>23 DEF PollReconnects
<1>24. CASE PollStarts
  BY <1>24 DEF PollStarts, PollRests
<1>25. CASE PollPushes
  BY <1>25 DEF PollPushes, PushBegins, PollRests, PollDies
<1>26. CASE PollAwaits
  BY <1>26 DEF PollAwaits, PushSucceeds, PushFails, PollRests, PollDies
<1>27. CASE PollRefreshes
  BY <1>27 DEF PollRefreshes, PushFails, PollRests
<1>28. CASE PollRepushes
  BY <1>28 DEF PollRepushes, PushBegins, PollRests
<1>29. CASE PollReawaits
  BY <1>29 DEF PollReawaits, PushSucceeds, PushFails, PollRests
<1>30. ASSUME NEW c \in Controls, BeginControl(c) PROVE States'
  BY <1>30 DEF BeginControl
<1>31. ASSUME NEW t \in Users, Enter(t) PROVE States'
  BY <1>31 DEF Enter, WaitsFor
<1>32. ASSUME NEW t \in Users, EnterTimesOut(t) PROVE States'
  BY <1>32 DEF EnterTimesOut, Leaves, WaitsFor
<1>33. ASSUME NEW t \in Users, ActEnds(t) PROVE States'
  BY <1>33 DEF ActEnds, Leaves
<1>34. ASSUME NEW t \in Users, Reconnects(t) PROVE States'
  BY <1>34 DEF Reconnects, Silences, Leaves
<1>35. ASSUME NEW t \in Users, ReopenFails(t) PROVE States'
  BY <1>35 DEF ReopenFails, Leaves, Restored
<1>36. ASSUME NEW t \in Users, Reopens(t) PROVE States'
  BY <1>36 DEF Reopens, PushBegins, Leaves, Restored
<1>37. ASSUME NEW t \in Users, Restores(t) PROVE States'
  BY <1>37 DEF Restores, PushSucceeds, Leaves, Restored
<1>38. CASE FrameArrives
  BY <1>38 DEF FrameArrives, Awaited
<1>39. CASE FrameSets
  BY <1>39 DEF FrameSets, Awaited
<1>40. CASE LinkLost
  BY <1>40 DEF LinkLost
<1>41. CASE ReaderWaits
  BY <1>41 DEF ReaderWaits
<1>42. CASE ReaderReopens
  BY <1>42 DEF ReaderReopens
<1>43. CASE ReaderAnnounces
  BY <1>43 DEF ReaderAnnounces
<1>44. CASE Age
  BY <1>44 DEF Age
<1>45. CASE Rest
  BY <1>45 DEF Rest
<1>46. CASE UNCHANGED vars
  BY <1>46 DEF vars
<1> QED
  BY <1>1, <1>2, <1>3, <1>4, <1>5, <1>6, <1>7, <1>8, <1>9, <1>10, <1>11, <1>12,
     <1>13, <1>14, <1>15, <1>16, <1>17, <1>18, <1>19, <1>20, <1>21, <1>22,
     <1>23, <1>24, <1>25, <1>26, <1>27, <1>28, <1>29, <1>30, <1>31, <1>32,
     <1>33, <1>34, <1>35, <1>36, <1>37, <1>38, <1>39, <1>40, <1>41, <1>42,
     <1>43, <1>44, <1>45, <1>46
  DEF Next, Main, Start, Poll, Scope, Stops, Ends, Reader

(* A step that makes, takes and delivers no transition.                     *)
Quiet == /\ UNCHANGED <<state, news, own>>
         /\ at["main"] \in Starting => at'["main"] \in Starting

(* Most steps do not touch the transitions or who emits them.              *)
LEMMA QuietSteps ==
  ASSUME Locked, [Next]_vars
  PROVE  \/ Quiet
         \/ BeginStart \/ AudioStarts \/ StartFails
         \/ \E o \in Owners : Stops(o) \/ Ends(o)
<1> USE Names DEF Quiet, news, Starting, Goes
<1>1. CASE Connects \/ StartPushes \/ StartAwaits \/ StartCleans
  BY <1>1 DEF Connects, StartPushes, StartAwaits, StartCleans, Locked, Places
<1>2. CASE Poll \/ StopRequested
  <2>1. UNCHANGED <<state, news, own>> /\ at["main"] \notin Starting
    BY <1>2 DEF Poll, StopRequested, PollWaterfall, WaterfallEnds, PollLooks,
       PollYields, PollCommits, PollTakesSlot, PollReconnects, PollStarts,
       PollPushes, PollAwaits, PollRefreshes, PollRepushes, PollReawaits
  <2> QED  BY <2>1
<1>3. ASSUME NEW t \in Users, Scope(t) PROVE Quiet
  <2>1. UNCHANGED <<state, news, own>> /\ at[t] \notin Starting
    BY <1>3 DEF Scope, Enter, EnterTimesOut, ActEnds, Reconnects, ReopenFails,
       Reopens, Restores, WaitsFor
  <2>2. at'["main"] = at["main"] \/ t = "main"
    BY <1>3 DEF Scope, Enter, EnterTimesOut, ActEnds, Reconnects, ReopenFails,
       Reopens, Restores, Leaves, Locked, Places
  <2> QED  BY <2>1, <2>2
<1>4. ASSUME NEW c \in Controls, BeginControl(c) PROVE Quiet
  BY <1>4 DEF BeginControl, Locked, Places
<1>5. CASE Reader \/ FrameArrives \/ LinkLost \/ Age \/ Rest \/ UNCHANGED vars
  BY <1>5 DEF Reader, FrameSets, ReaderWaits, ReaderReopens, ReaderAnnounces,
     FrameArrives, LinkLost, Age, Rest, vars
<1> QED
  BY <1>1, <1>2, <1>3, <1>4, <1>5 DEF Next, Main, Start, Owners

(* A transition more, while the emission stays where it is.                 *)
LEMMA OneMore ==
  ASSUME Values, Flagged, Numbered, NEW next, Transition(next),
         \A o \in Owners : own'[o] = own[o] \/
           {own[o], own'[o]} \cap {"emitting", "telling"} = {}
  PROVE  Flagged' /\ Numbered'
<1>1. /\ Emitters' = Emitters /\ Held' = Held
      /\ \A o \in Owners : own'[o] = "telling" <=> own[o] = "telling"
  BY DEF Emitters, Held
<1>2. Flagged'
  BY <1>1 DEF Flagged, Transition
<1>3. /\ pending \in Seq(Nat) /\ made \in Nat /\ told \in Seq(Nat)
      /\ pending' = Append(pending, made + 1)
      /\ made' = made + 1 /\ UNCHANGED <<hand, told>> /\ Held \in Nat
  BY DEF Values, Transition, Held
<1>4. /\ Len(pending') = Len(pending) + 1
      /\ \A i \in 1 .. Len(pending) : pending'[i] = pending[i]
      /\ pending'[Len(pending) + 1] = made + 1
  BY <1>3
<1>5. \A i \in 1 .. Len(pending') : i \in 1 .. Len(pending) \/ i = Len(pending) + 1
  BY <1>3, <1>4
<1>6. Numbered'
  <2>1. Len(told') + Held' + Len(pending') = made'
    BY <1>1, <1>3, <1>4 DEF Numbered
  <2>2. \A i \in 1 .. Len(told') : told'[i] = i
    BY <1>3 DEF Numbered
  <2>3. \A o \in Owners : own'[o] = "telling" => hand'[o] = Len(told') + 1
    BY <1>1, <1>3 DEF Numbered
  <2>4. pending'[Len(pending) + 1] = Len(told) + Held + (Len(pending) + 1)
    BY <1>3, <1>4 DEF Numbered
  <2>5. \A i \in 1 .. Len(pending') : pending'[i] = Len(told') + Held' + i
    BY <1>1, <1>3, <1>4, <1>5, <2>4 DEF Numbered
  <2> QED  BY <2>1, <2>2, <2>3, <2>5 DEF Numbered
<1> QED  BY <1>2, <1>6

(* Every step keeps the queue of transitions numbered and carried.         *)
LEMMA ToldStep ==
  ASSUME Locked, Values, Told, [Next]_vars
  PROVE  Told'
<1> USE Names DEF news
<1>1. own \in [Owners -> {"idle", "done"} \cup StopSteps \cup Emit]
  BY DEF Locked, Places
<1>2. CASE Quiet
  <2>1. Emitters' = Emitters /\ Held' = Held /\ Stopping' = Stopping
    BY <1>2 DEF Quiet, Emitters, Held, Stopping
  <2>2. Flagged' /\ Numbered'
    BY <1>2, <2>1 DEF Quiet, Flagged, Numbered, Told
  <2>3. Carried'
    BY <1>2, <2>1 DEF Quiet, Carried, Told
  <2> QED  BY <2>2, <2>3 DEF Told
<1>3. CASE BeginStart
  <2>1. Flagged' /\ Numbered'
    BY <1>3, OneMore DEF BeginStart, Told
  <2>2. Carried'
    BY <1>3 DEF BeginStart, Goes, Carried, Starting, Locked, Places
  <2> QED  BY <2>1, <2>2 DEF Told
<1>4. CASE AudioStarts \/ StartFails
  <2>1. CASE UNCHANGED <<own, news>> /\ at'["main"] \in Starting
    <3>1. Emitters' = Emitters /\ Held' = Held
      BY <2>1 DEF Emitters, Held
    <3> QED  BY <2>1, <3>1 DEF Told, Flagged, Numbered, Carried
  <2>2. CASE /\ \E next : Transition(next)
             /\ own' = [own EXCEPT !["main"] = "emit"]
    <3>1. own["main"] \notin Emit
      BY <1>4 DEF AudioStarts, StartFails, Locked, Locks
    <3>2. \A o \in Owners : own'[o] = own[o] \/
            {own[o], own'[o]} \cap {"emitting", "telling"} = {}
      BY <1>1, <2>2, <3>1 DEF Emit
    <3>3. Flagged' /\ Numbered'
      BY <2>2, <3>2, OneMore DEF Told
    <3>4. Carried'
      BY <1>1, <2>2 DEF Carried, Emit
    <3> QED  BY <3>3, <3>4 DEF Told
  <2> QED  BY <1>4, <2>1, <2>2 DEF AudioStarts, StartFails, Goes, Starting, Locked, Places
<1>5. ASSUME NEW o \in Owners, Stops(o) PROVE Told'
  <2>1. CASE BeginStop(o)
    <3>1. own[o] = "idle" /\ own' = [own EXCEPT ![o] = "stopping"]
      BY <2>1 DEF BeginStop, MayStop, Returned
    <3>2. \A p \in Owners : own'[p] = own[p] \/
            {own[p], own'[p]} \cap {"emitting", "telling"} = {}
      BY <1>1, <3>1
    <3>3. Flagged' /\ Numbered'
      BY <2>1, <3>2, OneMore DEF Told, BeginStop
    <3>4. Stopping' # {}
      BY <1>1, <3>1 DEF Stopping
    <3> QED  BY <3>3, <3>4 DEF Told, Carried
  <2>2. CASE StopReturns(o)
    <3>1. /\ own[o] = "idle" /\ UNCHANGED news
          /\ own' = own \/ own' = [own EXCEPT ![o] = "done"]
          /\ at["main"] \in Starting => at'["main"] \in Starting
      BY <2>2 DEF StopReturns, MayStop, Returned, Goes, Locked, Places, Starting
    <3>2. /\ Emitters' = Emitters /\ Held' = Held /\ Stopping' = Stopping
          /\ \A p \in Owners : own'[p] = "telling" <=> own[p] = "telling"
          /\ \A p \in Owners : own'[p] \in Emit <=> own[p] \in Emit
      BY <1>1, <3>1 DEF Emitters, Held, Stopping, Emit
    <3> QED  BY <3>1, <3>2 DEF Told, Flagged, Numbered, Carried
  <2> QED  BY <1>5, <2>1, <2>2 DEF Stops
<1>6. ASSUME NEW o \in Owners, Ends(o) PROVE Told'
  <2>1. CASE StopPsi(o) \/ CloseScanner(o)
    <3>1. /\ own[o] \in StopSteps /\ UNCHANGED <<news, at>>
          /\ own' = [own EXCEPT ![o] = "closing"] \/ own' = [own EXCEPT ![o] = "joining"]
      BY <2>1 DEF StopPsi, CloseScanner, StopSteps
    <3>2. /\ Emitters' = Emitters /\ Held' = Held /\ Stopping' # {}
          /\ \A p \in Owners : own'[p] = "telling" <=> own[p] = "telling"
      BY <1>1, <3>1 DEF Emitters, Held, Stopping, StopSteps
    <3> QED  BY <3>1, <3>2 DEF Told, Flagged, Numbered, Carried
  <2>2. CASE EndStop(o)
    <3>1. /\ own[o] = "joining" /\ own' = [own EXCEPT ![o] = "emit"]
          /\ \E next : Transition(next)
      BY <2>2 DEF EndStop
    <3>2. \A p \in Owners : own'[p] = own[p] \/
            {own[p], own'[p]} \cap {"emitting", "telling"} = {}
      BY <1>1, <3>1
    <3>3. Flagged' /\ Numbered'
      BY <3>1, <3>2, OneMore DEF Told
    <3>4. Carried'
      BY <1>1, <3>1 DEF Carried, Emit
    <3> QED  BY <3>3, <3>4 DEF Told
  <2>3. CASE EmitBegins(o)
    <3>1. /\ own[o] = "emit" /\ emitting' = TRUE /\ UNCHANGED <<hand, pending, made, told, at>>
          /\ own' = [own EXCEPT ![o] = IF emitting THEN "idle" ELSE "emitting"]
      BY <2>3 DEF EmitBegins
    <3>2. Held' = Held /\ \A p \in Owners : own'[p] = "telling" <=> own[p] = "telling"
      BY <1>1, <3>1 DEF Held
    <3>3. Numbered'
      BY <3>1, <3>2 DEF Told, Numbered
    <3>4. CASE emitting
      <4>1. Emitters' = Emitters /\ Emitters # {} /\ Emitters \subseteq Owners
        BY <1>1, <3>1, <3>4 DEF Emitters, Told, Flagged
      <4>2. \E p \in Owners : own'[p] \in Emit
        BY <4>1 DEF Emitters, Emit
      <4> QED  BY <3>1, <3>2, <3>3, <4>1, <4>2 DEF Told, Flagged, Carried
    <3>5. CASE ~emitting
      <4>1. Emitters = {} /\ Emitters' = {o}
        BY <1>1, <3>1, <3>5 DEF Emitters, Told, Flagged
      <4>2. own'[o] \in Emit
        BY <1>1, <3>1, <3>5 DEF Emit
      <4> QED  BY <3>1, <3>2, <3>3, <4>1, <4>2 DEF Told, Flagged, Carried
    <3> QED  BY <3>4, <3>5
  <2>4. CASE EmitTakes(o) /\ pending = <<>>
    <3>1. /\ own[o] = "emitting" /\ emitting' = FALSE
          /\ UNCHANGED <<hand, pending, made, told, at>>
          /\ own' = [own EXCEPT ![o] = "idle"]
      BY <2>4 DEF EmitTakes
    <3>2. /\ Emitters = {o} /\ Emitters' = {} /\ Held' = Held
          /\ \A p \in Owners : own'[p] = "telling" <=> own[p] = "telling"
      BY <1>1, <3>1 DEF Emitters, Held, Told, Flagged
    <3> QED  BY <2>4, <3>1, <3>2 DEF Told, Flagged, Numbered, Carried
  <2>5. CASE EmitTakes(o) /\ pending # <<>>
    <3>1. /\ own[o] = "emitting" /\ UNCHANGED <<emitting, made, told, at>>
          /\ pending' = Tail(pending) /\ hand' = [hand EXCEPT ![o] = Head(pending)]
          /\ own' = [own EXCEPT ![o] = "telling"]
      BY <2>5 DEF EmitTakes
    <3>2. /\ Emitters = {o} /\ Emitters' = {o} /\ Held = 0 /\ Held' = 1
          /\ \A p \in Owners \ {o} : own[p] # "telling" /\ own'[p] # "telling"
          /\ own'[o] = "telling"
      BY <1>1, <3>1 DEF Emitters, Held, Told, Flagged
    <3>3. /\ pending \in Seq(Nat) /\ told \in Seq(Nat) /\ Len(pending) > 0
          /\ Len(pending') = Len(pending) - 1
          /\ \A i \in 1 .. Len(pending') : pending'[i] = pending[i + 1]
          /\ Head(pending) = pending[1]
      BY <2>5, <3>1 DEF Values
    <3>4. Head(pending) = Len(told) + 1
      BY <3>2, <3>3 DEF Told, Numbered
    <3>5. /\ hand'[o] = Len(told) + 1 /\ hand'[o] # 0
          /\ \A p \in Owners \ {o} : hand'[p] = hand[p]
      BY <3>1, <3>3, <3>4 DEF Values
    <3>6. Flagged'
      BY <3>1, <3>2, <3>5 DEF Told, Flagged
    <3>7. Numbered'
      <4>1. Len(told') + Held' + Len(pending') = made'
        <5>1. Len(told) + Held + Len(pending) = made
          BY DEF Told, Numbered
        <5>2. Len(told) \in Nat /\ Len(pending) \in Nat
          BY <3>3
        <5>3. told' = told /\ made' = made
          BY <3>1
        <5>4. Held = 0 /\ Held' = 1 /\ Len(pending') = Len(pending) - 1
          BY <3>2, <3>3
        <5> QED  BY <5>1, <5>2, <5>3, <5>4
      <4>2. \A i \in 1 .. Len(pending') : pending'[i] = Len(told') + Held' + i
        <5>1. TAKE i \in 1 .. Len(pending')
        <5>2. pending'[i] = pending[i + 1] /\ i + 1 \in 1 .. Len(pending)
          BY <3>3
        <5>3. pending[i + 1] = Len(told) + (i + 1)
          BY <3>2, <3>3, <5>2 DEF Told, Numbered
        <5> QED  BY <3>1, <3>2, <3>3, <5>2, <5>3
      <4> QED  BY <3>1, <3>2, <3>5, <4>1, <4>2 DEF Told, Numbered
    <3>8. Carried'
      BY <3>2 DEF Carried, Emit
    <3> QED  BY <3>6, <3>7, <3>8 DEF Told
  <2>6. CASE EmitTells(o)
    <3>1. /\ own[o] = "telling" /\ UNCHANGED <<emitting, made, pending, at>>
          /\ told' = Append(told, hand[o]) /\ hand' = [hand EXCEPT ![o] = 0]
          /\ own' = [own EXCEPT ![o] = "emitting"]
      BY <2>6 DEF EmitTells
    <3>2. /\ Emitters = {o} /\ Emitters' = {o} /\ Held = 1 /\ Held' = 0
          /\ \A p \in Owners : own'[p] # "telling"
          /\ \A p \in Owners \ {o} : own[p] # "telling" /\ hand[p] = 0
          /\ own'[o] = "emitting"
      BY <1>1, <3>1 DEF Emitters, Held, Told, Flagged
    <3>3. /\ told \in Seq(Nat) /\ hand[o] = Len(told) + 1
          /\ Len(told') = Len(told) + 1
          /\ \A i \in 1 .. Len(told) : told'[i] = told[i]
          /\ told'[Len(told) + 1] = Len(told) + 1
      BY <3>1 DEF Values, Told, Numbered
    <3>4. \A p \in Owners : hand'[p] = 0
      BY <3>1, <3>2 DEF Values
    <3>5. Flagged'
      BY <3>1, <3>2, <3>4 DEF Told, Flagged
    <3>6. Numbered'
      <4>1. \A i \in 1 .. Len(told') : i \in 1 .. Len(told) \/ i = Len(told) + 1
        BY <3>3
      <4>2. \A i \in 1 .. Len(told') : told'[i] = i
        BY <3>3, <4>1 DEF Told, Numbered
      <4>3. pending \in Seq(Nat) /\ made \in Nat
        BY DEF Values
      <4> QED  BY <3>1, <3>2, <3>3, <4>2, <4>3 DEF Told, Numbered
    <3>7. Carried'
      BY <3>2 DEF Carried, Emit
    <3> QED  BY <3>5, <3>6, <3>7 DEF Told
  <2> QED  BY <1>6, <2>1, <2>2, <2>3, <2>4, <2>5, <2>6 DEF Ends
<1> QED
  BY <1>2, <1>3, <1>4, <1>5, <1>6, QuietSteps

(* Every step keeps the count of transitions within its state.             *)
LEMMA CountedStep ==
  ASSUME Locked, Values, Counted, [Next]_vars
  PROVE  Counted'
<1> USE Names DEF news
<1>1. made \in Nat
  BY DEF Values
<1>2. CASE Quiet
  BY <1>2 DEF Quiet, Counted
<1>3. CASE BeginStart
  BY <1>1, <1>3 DEF BeginStart, Transition, Counted, Locked, States
<1>4. CASE AudioStarts \/ StartFails
  <2>1. at["main"] \in Starting
    BY <1>4 DEF AudioStarts, StartFails, Starting
  <2> QED  BY <1>1, <1>4, <2>1 DEF AudioStarts, StartFails, Transition, Counted, Locked, States
<1>5. ASSUME NEW o \in Owners, BeginStop(o) PROVE Counted'
  <2>1. state \notin {"idle", "starting", "stopping", "stopped", "failed"}
    <3>1. lifecycle = "none" /\ ~stopped /\ state # "idle"
      BY <1>5 DEF BeginStop, MayStop
    <3>2. Stopping = {} /\ at["main"] \notin Starting
      BY <3>1 DEF Locked, Locks, Stopping, StopSteps, Owners
    <3> QED  BY <3>1, <3>2 DEF Locked, States
  <2>2. made = 2
    BY <2>1 DEF Counted, Locked, Places
  <2> QED  BY <1>5, <2>2 DEF BeginStop, Transition, Counted
<1>6. ASSUME NEW o \in Owners, EndStop(o) PROVE Counted'
  <2>1. state = "stopping"
    BY <1>6 DEF EndStop, Locked, States, Stopping
  <2> QED  BY <1>1, <1>6, <2>1 DEF EndStop, Transition, Counted
<1>7. ASSUME NEW o \in Owners, \/ StopReturns(o) \/ StopPsi(o) \/ CloseScanner(o)
                               \/ EmitBegins(o) \/ EmitTakes(o) \/ EmitTells(o)
      PROVE  Counted'
  BY <1>7 DEF StopReturns, StopPsi, CloseScanner, EmitBegins, EmitTakes, EmitTells, Counted
<1> QED
  BY <1>2, <1>3, <1>4, <1>5, <1>6, <1>7, QuietSteps DEF Stops, Ends

----------------------------------------------------------------------------
Inv == Flags /\ Values /\ Places /\ Locks /\ States /\ Told /\ Counted

(* The runtime starts in the invariant.                                    *)
LEMMA InvInit == Init => Inv
<1> SUFFICES ASSUME Init PROVE Inv
  OBVIOUS
<1> USE Names DEF Init
<1>1. Flags
  BY DEF Flags
<1>2. Values
  BY RuntimeAssumption DEF Values
<1>3. Places
  BY DEF Places, MainSteps, ControlSteps
<1>4. Locks
  BY DEF Locks, SlotSteps, Scoped, Starting, StopSteps, Emit
<1>5. States
  BY DEF States, Stopping, Starting, PollSteps
<1>6. Emitters = {} /\ Held = 0
  BY DEF Emitters, Held
<1>7. Told
  BY <1>6 DEF Told, Flagged, Numbered, Carried
<1>8. Counted
  BY DEF Counted
<1> QED  BY <1>1, <1>2, <1>3, <1>4, <1>5, <1>7, <1>8 DEF Inv

(* All of it is inductive.                                                 *)
LEMMA InvHolds == Spec => []Inv
<1>1. Inv /\ [Next]_vars => Inv'
  BY FlagsStep, ValuesStep, PlacesStep, LocksStep, StatesStep, ToldStep,
     CountedStep DEF Inv, Locked
<1> QED  BY <1>1, InvInit, PTL DEF Spec

(* Type correctness: threads, locks, flags and queues keep their types, and *)
(* a runtime makes four transitions at most.                                *)
THEOREM TypeCorrect == Spec => []TypeOK
<1>1. Inv => TypeOK
  <2> SUFFICES ASSUME Inv PROVE TypeOK
    OBVIOUS
  <2>1. /\ state \in {"idle", "starting", "running", "stopping", "stopped", "failed"}
        /\ lifecycle \in Users \cup {"none", "other"} /\ slot \in Users \cup {"none"}
    BY DEF Inv, Places
  <2>2. at \in [Users -> PollSteps \cup
          {"new", "connecting", "startsPsi", "awaitsPsi", "startsAudio", "cleaning",
           "cleaned", "loop", "leaving", "gone", "acting", "refused", "done"}]
    <3>1. MainSteps \cup ControlSteps \subseteq PollSteps \cup
            {"new", "connecting", "startsPsi", "awaitsPsi", "startsAudio", "cleaning",
             "cleaned", "loop", "leaving", "gone", "acting", "refused", "done"}
      BY DEF MainSteps, ControlSteps, Scoped, Starting, PollSteps
    <3> QED  BY <3>1 DEF Inv, Places
  <2>3. own \in [Owners -> {"idle", "stopping", "closing", "joining", "emit",
                           "emitting", "telling", "done"}]
    BY DEF Inv, Places, StopSteps, Emit
  <2>4. made \in 0 .. 4
    BY DEF Inv, Values, Counted
  <2> QED  BY <2>1, <2>2, <2>3, <2>4 DEF Inv, Flags, Values, TypeOK
<1> QED  BY <1>1, InvHolds, PTL

(* Who mutates the scanner: a user with the slot, or a caller of stop().    *)
LEMMA Alone ==
  ASSUME Inv
  PROVE  /\ \A t, u \in Mutating : t = u
         /\ \A o, p \in Stopping : o = p
         /\ Mutating = {} \/ Stopping = {}
<1> USE Names
<1>1. \A t \in Mutating : slot = t
  BY DEF Inv, Locks, Mutating, SlotSteps, Scoped
<1>2. \A o \in Stopping : lifecycle = o /\ own[o] \in StopSteps
  BY DEF Inv, Locks, Stopping, StopSteps
<1>3. ASSUME NEW t \in Mutating, NEW o \in Stopping PROVE FALSE
  <2>1. CASE at[t] \in Scoped
    <3>1. lifecycle = t /\ t = "main" /\ o = "main"
      BY <1>2, <1>3, <2>1 DEF Inv, Locks, Mutating, Stopping
    <3> QED  BY <1>2, <1>3, <2>1, <3>1 DEF Inv, Locks, Scoped
  <2>2. CASE at[t] \notin Scoped
    <3>1. t = "main" /\ at[t] \in PollSteps
      BY <1>3, <2>2 DEF Inv, Places, Mutating, ControlSteps, PollSteps, Scoped
    <3> QED  BY <1>3, <3>1 DEF Inv, States
  <2> QED  BY <2>1, <2>2
<1> QED  BY <1>1, <1>2, <1>3

(* One control, one recovery of poll() or one stop() changes the scanner at *)
(* a time.                                                                  *)
THEOREM OneMutationHolds == Spec => []OneMutation
<1>1. Inv => OneMutation
  <2> SUFFICES ASSUME Inv PROVE OneMutation
    OBVIOUS
  <2>1. Cardinality(Mutating) = 0 \/ (Cardinality(Mutating) = 1 /\ Mutating # {})
    <3>1. CASE Mutating = {}
      BY <3>1, FS_EmptySet, Zenon
    <3>2. CASE Mutating # {}
      <4>1. PICK t \in Mutating : Mutating = {t}
        BY <3>2, Alone
      <4> QED  BY <4>1, FS_Singleton
    <3> QED  BY <3>1, <3>2
  <2>2. Cardinality(Stopping) = 0 \/ (Cardinality(Stopping) = 1 /\ Stopping # {})
    <3>1. CASE Stopping = {}
      BY <3>1, FS_EmptySet, Zenon
    <3>2. CASE Stopping # {}
      <4>1. PICK o \in Stopping : Stopping = {o}
        BY <3>2, Alone
      <4> QED  BY <4>1, FS_Singleton
    <3> QED  BY <3>1, <3>2
  <2> QED  BY <2>1, <2>2, Alone, FS_EmptySet DEF OneMutation
<1> QED  BY <1>1, InvHolds, PTL

(* A stopped runtime leaves the scanner stopped: nobody changes it, the     *)
(* reader has ended, and only a UDP socket may still be open.               *)
THEOREM TerminalIsQuietHolds == Spec => []TerminalIsQuiet
<1>1. Inv => TerminalIsQuiet
  <2> SUFFICES ASSUME Inv, stopped PROVE TerminalIsQuiet
    BY DEF TerminalIsQuiet
  <2>1. Stopping = {}
    BY DEF Inv, States
  <2>2. \A t \in Users : t \notin Mutating
    BY Names DEF Inv, States, Places, Mutating, PollSteps, Scoped, ControlSteps
  <2> QED  BY <2>1, <2>2 DEF Inv, States, Silent, TerminalIsQuiet, Mutating
<1> QED  BY <1>1, InvHolds, PTL

(* Listeners are told of every transition once and in order, and one that   *)
(* waits has a thread that delivers it.                                     *)
THEOREM TransitionsDeliveredHolds == Spec => []TransitionsDelivered
<1>1. Inv => TransitionsDelivered
  <2> SUFFICES ASSUME Inv PROVE TransitionsDelivered
    OBVIOUS
  <2> USE Names
  <2>1. told \in Seq(Nat) /\ pending \in Seq(Nat) /\ made \in Nat
    BY DEF Inv, Values
  <2>2. InHand \in Seq(Nat) /\ Len(InHand) = Held /\ (Held = 1 => InHand[1] = Len(told) + 1)
    <3>1. CASE \E o \in Owners : hand[o] # 0
      <4>1. PICK o \in Owners : hand[o] # 0
        BY <3>1
      <4>2. (CHOOSE p \in Owners : hand[p] # 0) = o
        BY <4>1 DEF Inv, Told, Flagged, Emitters
      <4>3. InHand = <<Len(told) + 1>> /\ Held = 1
        BY <3>1, <4>1, <4>2 DEF InHand, Held, Inv, Told, Flagged, Numbered
      <4> QED  BY <2>1, <4>3
    <3>2. CASE \A o \in Owners : hand[o] = 0
      BY <3>2 DEF InHand, Held, Inv, Told, Flagged
    <3> QED  BY <3>1, <3>2
  <2>3. told \o InHand \o pending = [k \in 1 .. made |-> k]
    <3>1. /\ Len(told) + Held + Len(pending) = made /\ Held \in {0, 1}
          /\ \A i \in 1 .. Len(told) : told[i] = i
          /\ \A i \in 1 .. Len(pending) : pending[i] = Len(told) + Held + i
      BY DEF Inv, Told, Numbered, Held
    <3>2. /\ told \o InHand \in Seq(Nat) /\ Len(told \o InHand) = Len(told) + Held
          /\ \A k \in 1 .. Len(told) + Held : (told \o InHand)[k] = k
      BY <2>1, <2>2, <3>1
    <3> DEFINE front == told \o InHand
    <3> HIDE DEF front
    <3>3. /\ front \in Seq(Nat) /\ Len(front) = Len(told) + Held
          /\ \A k \in 1 .. Len(front) : front[k] = k
      BY <3>2 DEF front
    <3>4. Len(front) + Len(pending) = made
          /\ \A i \in 1 .. Len(pending) : pending[i] = Len(front) + i
      BY <3>1, <3>3
    <3>5. /\ front \o pending \in Seq(Nat) /\ Len(front \o pending) = made
          /\ \A k \in 1 .. made : (front \o pending)[k] =
                IF k <= Len(front) THEN front[k] ELSE pending[k - Len(front)]
      BY <2>1, <3>3, <3>4, ConcatProperties
    <3>6. ASSUME NEW k \in 1 .. made PROVE (front \o pending)[k] = k
      <4>1. CASE k <= Len(front)
        BY <2>1, <3>3, <3>4, <3>5, <4>1
      <4>2. CASE ~(k <= Len(front))
        <5>1. k - Len(front) \in 1 .. Len(pending)
          BY <2>1, <3>3, <3>4, <4>2
        <5> QED  BY <2>1, <3>3, <3>4, <3>5, <4>2, <5>1
      <4> QED  BY <4>1, <4>2
    <3>7. front \o pending = [k \in 1 .. made |-> k]
      <4>1. /\ [k \in 1 .. made |-> k] \in Seq(Nat)
            /\ Len([k \in 1 .. made |-> k]) = made
        BY <2>1
      <4> QED  BY <3>5, <3>6, <4>1, SeqEqual
    <3> QED  BY <3>7 DEF front
  <2>4. pending # <<>> => \/ \E o \in Owners : own[o] \in Emit
                          \/ lifecycle # "none"
    BY DEF Inv, Told, Carried, Locks, Stopping, StopSteps, Owners
  <2> QED  BY <2>3, <2>4 DEF TransitionsDelivered, Emit
<1> QED  BY <1>1, InvHolds, PTL
=============================================================================
