---------------------- MODULE FavoritesUsbWrite_proofs ----------------------
(* Proofs about FavoritesUsbWrite, for every plan, any number of other      *)
(* writers and any number of failures.                                      *)
(*                                                                          *)
(* Typed adds to the types which step works on which kind of file; each of  *)
(* the five safety properties then has an invariant of its own that needs   *)
(* nothing but Typed beside it: Barred (the mutation barrier), Ordered (the *)
(* order of the plan), Guarded (what a primitive knows before it destroys), *)
(* Settled (what a final phase says), Undoing (what a run with one failure  *)
(* has done and has still to do).                                           *)
EXTENDS FavoritesUsbWrite, TLAPS

Removing == {"displace", "move", "displaced", "put_back", "unlink",
             "unlink_again"}
Rewriting == {"open", "truncate", "write", "verify"}

(* A primitive that removes works on a file of the removals, one that       *)
(* rewrites on another file.                                                *)
Shape ==
    /\ pc = "barrier" => cur # None
    /\ pc \in Removing => cur \in Removals(mode)
    /\ pc \in Rewriting => cur \notin Removals(mode)

Typed == TypeOK /\ Shape

LEMMA ContentsHasEnds ==
  ASSUME NEW f \in Files
  PROVE  /\ Baseline(f) \in Contents /\ Intended(f) \in Contents
         /\ From(f) \in Contents /\ Want(f) \in Contents
         /\ "torn" \in Contents /\ "absent" \in Contents
  BY DEF Baseline, Intended, From, Want, Contents

LEMMA PlanInFiles ==
  /\ Steps("activate") \subseteq Files /\ Steps("recover") \subseteq Files
  /\ Removals("activate") = Removed /\ Removals("recover") = Introduced
  /\ Removed \subseteq Files /\ Introduced \subseteq Files
  /\ Catalog \in Files
  BY PlanAssumption DEF Steps, Writes, CatalogStep, Removals, Files

LEMMA FaultType ==
  ASSUME TypeOK, Fault
  PROVE  faults' \in Seq(Pcs) /\ Len(faults') <= MaxFaults
  BY ValuesAssumption DEF TypeOK, Fault

LEMMA AbandonType ==
  ASSUME NEW a, Abandon(a)
  PROVE  pc' \in {"incomplete", "report", "raised", "require"} /\ artifact' = a
  BY DEF Abandon

LEMMA TransitionType ==
  ASSUME pc \in Publishing
  PROVE  PhaseOf(pc) \in Phases \ {"prepared", "mutation_started"} /\ NextOf(pc) \in Pcs
  BY DEF Publishing, PhaseOf, NextOf, Phases, Pcs

LEMMA TwoFaultsType ==
  ASSUME TypeOK, Len(faults) + 2 <= MaxFaults, faults' = faults \o <<pc, pc>>
  PROVE  faults' \in Seq(Pcs) /\ Len(faults') <= MaxFaults
<1>1. faults \in Seq(Pcs) /\ <<pc, pc>> \in Seq(Pcs) /\ Len(<<pc, pc>>) = 2
  BY DEF TypeOK
<1> QED  BY <1>1, ValuesAssumption

LEMMA TypedInit == Init => Typed
<1> SUFFICES ASSUME Init PROVE Typed
  OBVIOUS
<1>1. media \in [Files -> Contents]
  BY ContentsHasEnds DEF Init
<1>2. faults \in Seq(Pcs) /\ Len(faults) <= MaxFaults
  BY ValuesAssumption DEF Init
<1>3. pc = "backup" /\ pc \in Pcs /\ pc \notin Inside
  BY DEF Init, Pcs, Inside
<1>4. todo \subseteq Files
  BY PlanInFiles DEF Init
<1> QED  BY <1>1, <1>2, <1>3, <1>4 DEF Init, Typed, TypeOK, Shape, Removing,
   Rewriting

LEMMA TypedStep ==
  ASSUME Typed, [Next]_vars
  PROVE  Typed'
<1> USE DEF Typed, Shape, disk, host, work
<1>1. CASE Backup
  BY <1>1 DEF Backup, TypeOK, Pcs, Inside, Ended, Removing, Rewriting
<1>2. CASE Staging
  BY <1>2 DEF Staging, TypeOK, Pcs, Inside, Removing, Rewriting
<1>3. CASE PublishPrepared
  BY <1>3, FaultType DEF PublishPrepared, Published, Unsynchronized,
     NotReplaced, TypeOK, Pcs, Inside, Ended, Removing, Rewriting, Phases
<1>4. CASE Preactivation
  BY <1>4, AbandonType DEF Preactivation, Verify, TypeOK, Pcs, Publishing,
     Inside, Ended, Removing, Rewriting
<1>5. CASE Precheck
  BY <1>5, AbandonType DEF Precheck, Verify, TypeOK, Pcs, Publishing, Inside,
     Ended, Removing, Rewriting
<1>6. ASSUME NEW f \in Files, Begin(f) PROVE Typed'
  <2>1. CASE Abandon(None)
    BY <1>6, <2>1, AbandonType DEF Begin, TypeOK, Pcs, Publishing, Inside,
       Ended, Removing, Rewriting
  <2>2. CASE /\ pc' \in {"barrier", "displace", "open"} /\ cur' = f
             /\ pc' = "displace" => f \in Removals(mode)
             /\ pc' = "open" => f \notin Removals(mode)
             /\ UNCHANGED artifact
    BY <1>6, <2>2, NoneAssumption DEF Begin, TypeOK, Pcs, Inside, Removing,
       Rewriting, Removals
  <2> QED  BY <1>6, <2>1, <2>2 DEF Begin
<1>7. CASE Barrier
  BY <1>7, FaultType DEF Barrier, Published, Unsynchronized, NotReplaced,
     TypeOK, Pcs, Publishing, Inside, Removing, Rewriting, Phases
<1>8. CASE ReconciliationFails
  <2>1. faults' \in Seq(Pcs) /\ Len(faults') <= MaxFaults
    BY <1>8, TwoFaultsType DEF ReconciliationFails
  <2>2. manifest' \in Phases \cup {None}
    BY <1>8, TransitionType DEF ReconciliationFails, TypeOK, Phases
  <2> QED  BY <1>8, <2>1, <2>2 DEF ReconciliationFails, TypeOK, Pcs, Ended,
     Inside, Removing, Rewriting
<1>9. CASE Open
  <2>1. media' \in [Files -> Contents] /\ held' \in BOOLEAN
    BY <1>9, ContentsHasEnds DEF Open, TypeOK
  <2>2. pc' \in {"stepped", "truncate", "write"} \/ Abandon(None)
    BY <1>9 DEF Open
  <2>3. cur \in Files /\ cur \notin Removals(mode)
    BY <1>9, PlanInFiles DEF Open, TypeOK, Inside, Rewriting
  <2> QED  BY <1>9, <2>1, <2>2, <2>3, AbandonType DEF Open, TypeOK, Pcs,
     Publishing, Inside, Ended, Removing, Rewriting, Removals
<1>10. CASE Truncate
  BY <1>10, ContentsHasEnds DEF Truncate, Through, TypeOK, Pcs, Inside,
     Removing, Rewriting
<1>11. CASE Write
  BY <1>11, ContentsHasEnds, FaultType, AbandonType DEF Write, Through, TypeOK,
     Pcs, Publishing, Inside, Ended, Removing, Rewriting
<1>12. CASE Readback
  BY <1>12, AbandonType DEF Readback, TypeOK, Pcs, Publishing, Inside, Ended,
     Removing, Rewriting
<1>13. CASE Displace
  BY <1>13, AbandonType DEF Displace, TypeOK, Pcs, Publishing, Inside, Ended,
     Removing, Rewriting
<1>14. CASE Move
  <2>1. cur \in Files /\ media[cur] \in Contents
    BY <1>14 DEF Move, TypeOK, Inside
  <2>2. temp' = <<cur, media[cur]>> /\ temp' \in Files \X Contents /\ temp' # None
    BY <1>14, <2>1, NoneAssumption DEF Move
  <2>3. media' \in [Files -> Contents]
    BY <1>14, <2>1, ContentsHasEnds DEF Move, TypeOK
  <2> QED  BY <1>14, <2>1, <2>2, <2>3 DEF Move, TypeOK, Pcs, Inside, Removing,
     Rewriting, Removals
<1>15. CASE Displaced
  BY <1>15, AbandonType DEF Displaced, TypeOK, Pcs, Publishing, Inside, Ended,
     Removing, Rewriting
<1>16. CASE PutBack
  BY <1>16, ContentsHasEnds, FaultType, AbandonType DEF PutBack, TypeOK, Pcs,
     Publishing, Ended, Removing, Rewriting
<1>17. CASE Unlink
  BY <1>17, FaultType, AbandonType DEF Unlink, TypeOK, Pcs, Publishing, Inside,
     Ended, Removing, Rewriting, Removals
<1>18. CASE UnlinkAgain
  BY <1>18, FaultType, AbandonType DEF UnlinkAgain, TypeOK, Pcs, Publishing,
     Inside, Ended, Removing, Rewriting
<1>19. CASE Stepped
  BY <1>19 DEF Stepped, TypeOK, Pcs, Inside, Removing, Rewriting
<1>20. CASE FinalReadback
  BY <1>20, AbandonType DEF FinalReadback, TypeOK, Pcs, Publishing, Inside,
     Ended, Removing, Rewriting
<1>21. CASE StepFails
  BY <1>21, FaultType, AbandonType DEF StepFails, TypeOK, Pcs, Publishing,
     Inside, Ended, Removing, Rewriting
<1>22. CASE ObservationFails
  BY <1>22, FaultType DEF ObservationFails, TypeOK, Pcs, Inside, Ended,
     Removing, Rewriting
<1>23. CASE PublishTransition
  <2>1. PhaseOf(pc) \in Phases /\ NextOf(pc) \in Pcs
    BY <1>23, TransitionType DEF PublishTransition
  <2>2. /\ manifest' \in Phases \cup {None} /\ synced' \in Phases \cup {None}
        /\ leftover' \in BOOLEAN /\ rollback' \in Phases \cup {None}
    BY <1>23, <2>1 DEF PublishTransition, Published, Unsynchronized,
       NotReplaced, TypeOK
  <2>3. faults' \in Seq(Pcs) /\ Len(faults') <= MaxFaults
    BY <1>23, FaultType DEF PublishTransition, Published, Unsynchronized,
       NotReplaced, TypeOK
  <2>4. pc' \in Pcs \ (Inside \cup {"barrier"}) /\ again' \in BOOLEAN
    BY <1>23, <2>1 DEF PublishTransition, TypeOK, NextOf, Publishing, Pcs,
       Inside, Ended
  <2> QED  BY <1>23, <2>2, <2>3, <2>4 DEF PublishTransition, TypeOK, Inside,
     Removing, Rewriting
<1>24. CASE Recover
  BY <1>24, PlanInFiles DEF Recover, TypeOK, Pcs, Publishing, Inside, Removing,
     Rewriting
<1>25. CASE CleanArtifact
  BY <1>25, FaultType, AbandonType DEF CleanArtifact, TypeOK, Pcs, Publishing,
     Inside, Ended, Removing, Rewriting
<1>26. CASE PublishReport
  BY <1>26, FaultType DEF PublishReport, TypeOK, Pcs, Inside, Ended, Removing,
     Rewriting
<1>27. CASE Crash
  BY <1>27 DEF Crash, TypeOK, Pcs, Inside, Ended, Removing, Rewriting
<1>28. CASE PowerLoss
  BY <1>28 DEF PowerLoss, TypeOK, Pcs, Inside, Ended, Removing, Rewriting
<1>29. ASSUME NEW w \in Writers, NEW f \in Files, OtherWriter(w, f) PROVE Typed'
  BY <1>29 DEF OtherWriter, TypeOK, Contents
<1>30. CASE UNCHANGED vars \/ Stopped
  BY <1>30 DEF vars, Stopped, TypeOK, Inside, Removing, Rewriting, Removals
<1> QED
  BY <1>1, <1>2, <1>3, <1>4, <1>5, <1>6, <1>7, <1>8, <1>9, <1>10, <1>11, <1>12,
     <1>13, <1>14, <1>15, <1>16, <1>17, <1>18, <1>19, <1>20, <1>21, <1>22,
     <1>23, <1>24, <1>25, <1>26, <1>27, <1>28, <1>29, <1>30 DEF Next

LEMMA TypedHolds == Spec => []Typed
<1>1. Init => Typed
  BY TypedInit
<1>2. Typed /\ [Next]_vars => Typed'
  BY TypedStep
<1> QED  BY <1>1, <1>2, PTL DEF Spec

(* Type correctness: the variables keep their types, a primitive always has *)
(* a file, and a removal in progress always has its temporary file.         *)
THEOREM TypeCorrect == Spec => []TypeOK
<1>1. Typed => TypeOK
  BY DEF Typed
<1> QED  BY <1>1, TypedHolds, PTL

-----------------------------------------------------------------------------
(* The barrier. Recorded is final. Before it the medium is as it was, no    *)
(* document is displaced, and the activation has not passed its barrier; a  *)
(* recovery may walk through the plan, since it finds nothing to change.    *)
Early == {"backup", "staging", "prepare"}
Recorded == /\ synced \notin {None, "prepared"}
            /\ manifest \notin {None, "prepared"}
            /\ pc \notin Early
Fresh ==
    /\ Untouched /\ artifact = None
    /\ pc \notin {"truncate", "write", "verify", "move", "displaced",
                  "put_back", "unlink", "unlink_again"}
    /\ mode = "activate" =>
         /\ pc \notin {"open", "displace", "stepped"}
         /\ pc \in {"preactivation", "precheck", "loop", "barrier"} =>
              rollback = "prepared"
Barred == Recorded \/ Fresh

LEMMA LateTransition ==
  ASSUME pc \in Publishing
  PROVE  /\ PhaseOf(pc) \notin {None, "prepared"}
         /\ NextOf(pc) \in {"begin_recovery", "recover", "report"}
  BY NoneAssumption, TransitionType DEF Publishing, PhaseOf, NextOf

LEMMA RecordedStays ==
  ASSUME Typed, Recorded, [Next]_vars
  PROVE  Recorded'
<1> USE NoneAssumption DEF Recorded, Early, host
<1>1. ASSUME UNCHANGED <<manifest, synced>>, pc' \notin Early PROVE Recorded'
  BY <1>1
<1>2. CASE Preactivation \/ Precheck \/ Open \/ Truncate \/ Write \/ Readback
  BY <1>1, <1>2, AbandonType DEF Preactivation, Precheck, Verify, Open,
     Truncate, Write, Readback
<1>3. CASE Displace \/ Move \/ Displaced \/ PutBack \/ Unlink \/ UnlinkAgain
  BY <1>1, <1>3, AbandonType DEF Displace, Move, Displaced, PutBack, Unlink,
     UnlinkAgain
<1>4. CASE Stepped \/ FinalReadback \/ StepFails \/ ObservationFails \/ Recover \/ CleanArtifact
  BY <1>1, <1>4, AbandonType DEF Stepped, FinalReadback, StepFails,
     ObservationFails, Recover, CleanArtifact
<1>5. ASSUME NEW f \in Files, Begin(f) PROVE Recorded'
  BY <1>1, <1>5, AbandonType DEF Begin
<1>6. CASE Backup \/ Staging \/ PublishPrepared
  BY <1>6 DEF Backup, Staging, PublishPrepared
<1>7. CASE Barrier
  BY <1>7 DEF Barrier, Published, Unsynchronized, NotReplaced, Phases
<1>8. CASE ReconciliationFails
  BY <1>8, LateTransition DEF ReconciliationFails, Phases
<1>9. CASE PublishTransition
  BY <1>9, LateTransition DEF PublishTransition, Published, Unsynchronized,
     NotReplaced
<1>10. CASE PublishReport
  BY <1>10 DEF PublishReport
<1>11. CASE Crash \/ PowerLoss \/ Stopped \/ UNCHANGED vars
  BY <1>11 DEF Crash, PowerLoss, Stopped, vars
<1>12. ASSUME NEW w \in Writers, NEW f \in Files, OtherWriter(w, f) PROVE Recorded'
  BY <1>1, <1>12 DEF OtherWriter
<1> QED
  BY <1>2, <1>3, <1>4, <1>5, <1>6, <1>7, <1>8, <1>9, <1>10, <1>11, <1>12
     DEF Next

LEMMA FreshStays ==
  ASSUME Typed, Fresh, [Next]_vars
  PROVE  Barred'
<1> USE DEF Fresh, disk, work
<1> SUFFICES Recorded' \/ Fresh'
  BY DEF Barred
<1>1. ASSUME UNCHANGED disk
      PROVE  Untouched'
  BY <1>1 DEF Untouched
<1>2. CASE Backup \/ Staging \/ PublishPrepared
  BY <1>1, <1>2 DEF Backup, Staging, PublishPrepared
<1>3. CASE Preactivation \/ Precheck
  BY <1>1, <1>3, AbandonType DEF Preactivation, Precheck, Verify
<1>4. ASSUME NEW f \in Files, Begin(f) PROVE Fresh'
  BY <1>1, <1>4, AbandonType DEF Begin
<1>5. CASE Barrier
  BY <1>1, <1>5, NoneAssumption DEF Barrier, Published, Unsynchronized,
     NotReplaced, Recorded, Early, Phases
<1>6. CASE ReconciliationFails
  BY <1>1, <1>6 DEF ReconciliationFails
<1>7. CASE Open
  <2>1. mode = "recover" /\ media[cur] \in {Want(cur)} \cup Writers
    BY <1>7 DEF Open, Typed, TypeOK, Inside, Untouched, Want
  <2>2. cur \in Files /\ From(cur) \notin Writers
    BY <1>7, ValuesAssumption DEF Open, Typed, TypeOK, Inside, From, Baseline,
       Intended
  <2>3. media[cur] # "absent"
    BY <1>7, <2>1, PlanInFiles, ValuesAssumption DEF Open, Typed, Shape,
       Rewriting, Want, Baseline
  <2>4. UNCHANGED disk /\ ((pc' = "stepped" /\ UNCHANGED artifact) \/ Abandon(None))
    BY <1>7, <2>1, <2>2, <2>3 DEF Open
  <2> QED  BY <1>1, <1>7, <2>1, <2>4, AbandonType DEF Open
<1>8. CASE Displace
  <2>1. mode = "recover" /\ media[cur] \in {Baseline(cur)} \cup Writers
    BY <1>8 DEF Displace, Typed, TypeOK, Inside, Untouched
  <2>2. From(cur) = "intended" /\ Baseline(cur) = "absent"
    BY <1>8, <2>1, PlanAssumption DEF Displace, Typed, Shape, Removing,
       Removals, From, Baseline, Intended
  <2>3. (pc' = "stepped" /\ UNCHANGED artifact) \/ Abandon(None)
    BY <1>8, <2>1, <2>2, ValuesAssumption DEF Displace
  <2> QED  BY <1>1, <1>8, <2>1, <2>3, AbandonType DEF Displace
<1>9. CASE Stepped
  BY <1>1, <1>9 DEF Stepped
<1>10. CASE FinalReadback \/ StepFails \/ ObservationFails
  BY <1>1, <1>10, AbandonType DEF FinalReadback, StepFails, ObservationFails
<1>11. CASE PublishTransition
  BY <1>1, <1>11, LateTransition DEF PublishTransition, Publishing
<1>12. CASE Recover
  BY <1>1, <1>12 DEF Recover
<1>13. CASE CleanArtifact \/ Truncate \/ Write \/ Readback \/ Move
              \/ Displaced \/ PutBack \/ Unlink \/ UnlinkAgain
  BY <1>13 DEF CleanArtifact, Truncate, Write, Readback, Move, Displaced,
     PutBack, Unlink, UnlinkAgain
<1>14. CASE PublishReport \/ Crash \/ PowerLoss \/ Stopped \/ UNCHANGED vars
  BY <1>1, <1>14 DEF PublishReport, Crash, PowerLoss, Stopped, vars
<1>15. ASSUME NEW w \in Writers, NEW f \in Files, OtherWriter(w, f) PROVE Fresh'
  <2>1. Untouched'
    BY <1>15 DEF OtherWriter, Untouched, Typed, TypeOK
  <2> QED  BY <1>15, <2>1 DEF OtherWriter
<1> QED
  BY <1>2, <1>3, <1>4, <1>5, <1>6, <1>7, <1>8, <1>9, <1>10, <1>11, <1>12, <1>13,
     <1>14, <1>15 DEF Next

(* The mutation barrier (favorites_write_usb.py): while anything on the     *)
(* medium differs from the baseline through this operation, the phase that  *)
(* survives a loss of power says that a mutation started.                   *)
THEOREM MutationRecordedHolds == Spec => []MutationRecorded
<1>1. Init => Barred
  BY DEF Init, Barred, Fresh, Untouched
<1>2. Typed /\ Barred /\ [Next]_vars => Barred'
  BY RecordedStays, FreshStays DEF Barred
<1>3. Barred => MutationRecorded
  BY DEF Barred, Recorded, Fresh, MutationRecorded
<1> QED  BY <1>1, <1>2, <1>3, TypedHolds, PTL DEF Spec

-----------------------------------------------------------------------------
(* The order of the plan. Present: a document that is written and no longer *)
(* to do is there, and so are those both snapshots have; the catalog is not *)
(* what this mode starts from once it is no longer to do; and CatalogResolves *)
(* in terms of the two ends of the mode. InOrder: a step on the catalog has *)
(* no document to write left, a removal no catalog either, and what a       *)
(* rewrite knows of its file.                                               *)
AtFile == Inside \cup {"barrier"}
Present ==
    /\ \A f \in Changed \cup Kept : media[f] # "absent"
    /\ \A f \in Writes(mode) \ todo : media[f] # "absent"
    /\ Catalog \in todo \/ media[Catalog] # From(Catalog)
    /\ media[Catalog] = From(Catalog) =>
         \A f \in Files : From(f) # "absent" => media[f] # "absent"
    /\ media[Catalog] = Want(Catalog) =>
         \A f \in Files : Want(f) # "absent" => media[f] # "absent"
InOrder ==
    /\ pc \in AtFile /\ cur \notin Writes(mode) => todo \cap Writes(mode) = {}
    /\ pc \in AtFile /\ cur \in Removals(mode) => Catalog \notin todo
    /\ pc \in {"truncate", "write", "verify"} /\ ~held => media[cur] \in Writers
    /\ pc \in {"write", "verify"} /\ held => media[cur] \in {"torn", Want(cur)}
    /\ pc = "stepped" /\ cur \notin Removals(mode) =>
         media[cur] \in {Want(cur)} \cup Writers
Ordered == Present /\ InOrder

(* Of the files of a plan whose catalog changes.                            *)
LEMMA PlanFacts ==
  ASSUME Catalog \in Changed, mode \in {"activate", "recover"}
  PROVE  /\ Catalog \in Files /\ From(Catalog) # Want(Catalog)
         /\ Catalog \notin Writes(mode) \cup Removals(mode)
         /\ Removals(mode) \cap (Changed \cup Kept \cup Writes(mode)) = {}
         /\ Changed \cup Kept \cup Writes(mode) \subseteq Files
         /\ \A f \in Files :
              /\ From(f) # "absent" => f \in Changed \cup Kept \cup Removals(mode)
              /\ Want(f) # "absent" <=> f \notin Removals(mode)
              /\ Want(f) # "absent" => f \in Changed \cup Kept \cup Writes(mode)
              /\ {From(f), Want(f)} \cap Writers = {}
              /\ "torn" \notin {From(f), Want(f)}
  BY PlanAssumption, ValuesAssumption
  DEF Files, Writes, Removals, From, Want, Baseline, Intended

(* A step that leaves the medium and the work alone and is not on a file.   *)
LEMMA QuietStep ==
  ASSUME Ordered, UNCHANGED <<media, mode, todo, cur, held>>, pc' \notin AtFile
  PROVE  Ordered'
  BY DEF Ordered, Present, InOrder, AtFile, Inside, From, Want, Writes, Removals

(* What a rewrite, a removal and another writer do to Present.              *)
LEMMA RewriteKeepsPresent ==
  ASSUME Catalog \in Changed, Typed, Ordered, pc \in Inside,
         cur \notin Removals(mode), UNCHANGED <<mode, todo>>,
         NEW c \in {"torn", Want(cur)}, media' = [media EXCEPT ![cur] = c]
  PROVE  Present'
<1>1. mode \in {"activate", "recover"} /\ cur \in Files /\ media \in [Files -> Contents]
  BY DEF Typed, TypeOK
<1>2. c # "absent" /\ media'[cur] = c /\ \A f \in Files \ {cur} : media'[f] = media[f]
  BY <1>1, PlanFacts
<1>3. cur = Catalog => todo \cap Writes(mode) = {}
  BY <1>1, PlanFacts DEF Ordered, InOrder, AtFile
<1>4. /\ \A f \in Files : From(f)' = From(f) /\ Want(f)' = Want(f)
      /\ Writes(mode)' = Writes(mode)
  BY DEF From, Want, Writes
<1> QED  BY <1>1, <1>2, <1>3, <1>4, PlanFacts DEF Ordered, Present

LEMMA RemovalKeepsPresent ==
  ASSUME Catalog \in Changed, Typed, Ordered, pc \in Inside,
         cur \in Removals(mode), UNCHANGED <<mode, todo>>,
         NEW c, media' = [media EXCEPT ![cur] = c]
  PROVE  Present'
<1>1. mode \in {"activate", "recover"} /\ cur \in Files /\ media \in [Files -> Contents]
  BY DEF Typed, TypeOK
<1>2. \A f \in Files \ {cur} : media'[f] = media[f]
  BY <1>1
<1>3. media[Catalog] # From(Catalog)
  BY <1>1 DEF Ordered, Present, InOrder, AtFile
<1>4. /\ \A f \in Files : From(f)' = From(f) /\ Want(f)' = Want(f)
      /\ Writes(mode)' = Writes(mode)
  BY DEF From, Want, Writes
<1> QED  BY <1>1, <1>2, <1>3, <1>4, PlanFacts DEF Ordered, Present

LEMMA OtherWriterKeepsPresent ==
  ASSUME Catalog \in Changed, Typed, Ordered, UNCHANGED <<mode, todo>>,
         NEW f \in Files, NEW w \in Writers, media' = [media EXCEPT ![f] = w]
  PROVE  Present'
<1>1. mode \in {"activate", "recover"} /\ media \in [Files -> Contents]
  BY DEF Typed, TypeOK
<1>2. w # "absent" /\ media'[f] = w /\ \A g \in Files \ {f} : media'[g] = media[g]
  BY <1>1, ValuesAssumption
<1>3. /\ \A g \in Files : From(g)' = From(g) /\ Want(g)' = Want(g)
      /\ Writes(mode)' = Writes(mode)
  BY DEF From, Want, Writes
<1> QED  BY <1>1, <1>2, <1>3, PlanFacts DEF Ordered, Present

(* A step on the file cur that leaves the medium as it is.                  *)
LEMMA StillPresent ==
  ASSUME Present, UNCHANGED <<media, mode, todo>>
  PROVE  Present'
  BY DEF Present, From, Want, Writes

LEMMA OrderedInit ==
  ASSUME Catalog \in Changed, Init
  PROVE  Ordered
<1>1. /\ mode = "activate" /\ todo = Steps(mode) /\ Catalog \in todo
      /\ \A f \in Files : media[f] = From(f)
      /\ pc \notin AtFile /\ pc \notin Inside
  BY DEF Init, Steps, CatalogStep, From, AtFile, Inside
<1>2. Writes(mode) \subseteq todo
  BY <1>1 DEF Steps
<1>3. \A f \in Changed \cup Kept : From(f) # "absent" /\ f \in Files
  BY <1>1, PlanAssumption DEF From, Baseline, Files
<1> QED  BY <1>1, <1>2, <1>3, PlanFacts DEF Ordered, Present, InOrder, Inside

LEMMA OrderedStep ==
  ASSUME Catalog \in Changed, Typed, Ordered, [Next]_vars
  PROVE  Ordered'
<1> USE DEF disk, work, host
<1>1. mode \in {"activate", "recover"} /\ (pc \in Inside => cur \in Files)
  BY DEF Typed, TypeOK
<1>2. ASSUME NEW a, Abandon(a) PROVE pc' \notin AtFile
  BY <1>2, AbandonType DEF AtFile, Inside
<1>3. CASE Backup \/ Staging \/ PublishPrepared \/ Preactivation \/ Precheck
  BY <1>2, <1>3, QuietStep DEF Backup, Staging, PublishPrepared, Preactivation,
     Precheck, Verify, AtFile, Inside
<1>4. ASSUME NEW f \in Files, Begin(f) PROVE Ordered'
  <2>1. CASE Abandon(None) /\ UNCHANGED cur
    BY <1>2, <1>4, <2>1, QuietStep DEF Begin
  <2>2. CASE pc' \in {"barrier", "displace", "open"} /\ cur' = f
    <3>1. Present'
      BY <1>4, StillPresent DEF Begin, Ordered
    <3>2. f \notin Writes(mode) => todo \cap Writes(mode) = {}
      BY <1>4 DEF Begin, NextFiles
    <3>3. f \in Removals(mode) => Catalog \notin todo
      BY <1>1, <1>4, PlanFacts DEF Begin, NextFiles
    <3>4. Writes(mode)' = Writes(mode) /\ Removals(mode)' = Removals(mode)
      BY <1>4 DEF Begin, Writes, Removals
    <3> QED  BY <1>4, <2>2, <3>1, <3>2, <3>3, <3>4 DEF Begin, Ordered, InOrder
  <2> QED  BY <1>4, <2>1, <2>2 DEF Begin
<1>5. CASE Barrier
  <2>1. Present'
    BY <1>5, StillPresent DEF Barrier, Ordered
  <2> QED  BY <1>5, <2>1 DEF Barrier, Ordered, InOrder, AtFile, Inside, Writes,
     Removals
<1>6. CASE ReconciliationFails
  BY <1>6, QuietStep DEF ReconciliationFails, AtFile, Inside
<1>7. CASE Open
  <2>1. pc \in Inside /\ cur \in Files /\ cur \notin Removals(mode)
    BY <1>1, <1>7 DEF Open, Typed, Shape, Rewriting, Inside
  <2>2. Present'
    BY <1>7, <2>1, StillPresent, RewriteKeepsPresent DEF Open, Ordered
  <2>3. CASE Abandon(None) /\ UNCHANGED <<media, held>>
    BY <1>2, <1>7, <2>3, QuietStep DEF Open
  <2>4. CASE pc' = "stepped" /\ UNCHANGED <<media, held>> /\ media[cur] = Want(cur)
    BY <1>7, <2>1, <2>2, <2>4 DEF Open, Ordered, InOrder, AtFile, Inside, Want,
       Writes, Removals
  <2>5. CASE pc' = "truncate" /\ held' = TRUE
    BY <1>7, <2>1, <2>2, <2>5 DEF Open, Ordered, InOrder, AtFile, Inside,
       Writes, Removals
  <2>6. CASE pc' = "write" /\ held' = TRUE /\ media'[cur] = "torn"
    BY <1>7, <2>1, <2>2, <2>6 DEF Open, Ordered, InOrder, AtFile, Inside, Want,
       Writes, Removals
  <2> QED  BY <1>7, <2>1, <2>3, <2>4, <2>5, <2>6 DEF Open, Typed, TypeOK
<1>8. CASE Truncate
  <2>1. pc \in Inside /\ cur \in Files /\ cur \notin Removals(mode)
    BY <1>1, <1>8 DEF Truncate, Typed, Shape, Rewriting, Inside
  <2>2. Present'
    BY <1>8, <2>1, StillPresent, RewriteKeepsPresent DEF Truncate, Through,
       Ordered
  <2>3. held => media'[cur] = "torn"
    BY <1>8, <2>1 DEF Truncate, Through, Typed, TypeOK
  <2> QED  BY <1>8, <2>1, <2>2, <2>3 DEF Truncate, Through, Ordered, InOrder,
     AtFile, Inside, Want, Writes, Removals
<1>9. CASE Write
  <2>1. pc \in Inside /\ cur \in Files /\ cur \notin Removals(mode)
    BY <1>1, <1>9 DEF Write, Typed, Shape, Rewriting, Inside
  <2>2. Present'
    BY <1>9, <2>1, StillPresent, RewriteKeepsPresent DEF Write, Through, Ordered
  <2>3. CASE Abandon(None)
    BY <1>2, <1>9, <2>2, <2>3 DEF Ordered, InOrder, AtFile, Inside
  <2>4. CASE Through(Want(cur)) /\ pc' = "verify"
    <3>1. held => media'[cur] = Want(cur)
      BY <2>1, <2>4 DEF Through, Typed, TypeOK
    <3> QED  BY <1>9, <2>1, <2>2, <2>4, <3>1 DEF Write, Through, Ordered,
       InOrder, AtFile, Inside, Want, Writes, Removals
  <2> QED  BY <1>9, <2>3, <2>4 DEF Write
<1>10. CASE Readback \/ Displace \/ Displaced \/ Unlink \/ UnlinkAgain
  <2>1. UNCHANGED <<media, mode, todo, cur, held>>
    BY <1>10 DEF Readback, Displace, Displaced, Unlink, UnlinkAgain
  <2>2. CASE pc' \notin AtFile
    BY <2>1, <2>2, QuietStep
  <2>3. CASE pc' \in AtFile
    <3>1. pc \in Inside /\ pc' \in {"stepped", "move", "unlink", "put_back", "unlink_again"}
      BY <1>2, <1>10, <2>3 DEF Readback, Displace, Displaced, Unlink,
         UnlinkAgain, Inside
    <3>2. pc' = "stepped" => media[cur] = Want(cur) \/ cur \in Removals(mode)
      BY <1>2, <1>10, <2>3 DEF Readback, Displace, Displaced, Unlink,
         UnlinkAgain, Typed, Shape, Removing
    <3> QED  BY <2>1, <3>1, <3>2, StillPresent DEF Ordered, InOrder, AtFile,
       Want, Writes, Removals
  <2> QED  BY <2>2, <2>3
<1>11. CASE Move
  <2>1. pc \in Inside /\ cur \in Removals(mode)
    BY <1>11 DEF Move, Typed, Shape, Removing, Inside
  <2>2. Present'
    BY <1>11, <2>1, RemovalKeepsPresent DEF Move
  <2> QED  BY <1>11, <2>1, <2>2 DEF Move, Ordered, InOrder, AtFile, Writes,
     Removals
<1>12. CASE PutBack
  <2>1. pc \in Inside /\ cur \in Removals(mode)
    BY <1>12 DEF PutBack, Typed, Shape, Removing, Inside
  <2>2. Present'
    BY <1>12, <2>1, StillPresent, RemovalKeepsPresent DEF PutBack, Ordered
  <2> QED  BY <1>2, <1>12, <2>2 DEF PutBack, Ordered, InOrder, AtFile, Inside
<1>13. CASE Stepped
  <2>1. /\ media[cur] \in {Want(cur)} \cup Writers \/ cur \in Removals(mode)
        /\ cur \in Files /\ todo' = todo \ {cur} /\ pc' \notin AtFile
        /\ UNCHANGED <<media, mode>>
    BY <1>1, <1>13 DEF Stepped, Ordered, InOrder, Inside, AtFile
  <2>2. cur = Catalog => media[Catalog] # From(Catalog)
    BY <1>1, <2>1, PlanFacts
  <2>3. cur \in Writes(mode) => media[cur] # "absent"
    BY <1>1, <2>1, PlanFacts, ValuesAssumption
  <2> QED  BY <2>1, <2>2, <2>3 DEF Ordered, Present, InOrder, AtFile, Inside,
     From, Want, Writes
<1>14. CASE FinalReadback \/ StepFails \/ ObservationFails \/ CleanArtifact
  BY <1>2, <1>14, QuietStep DEF FinalReadback, StepFails, ObservationFails,
     CleanArtifact, AtFile, Inside
<1>15. CASE PublishTransition
  BY <1>15, LateTransition, QuietStep DEF PublishTransition, AtFile, Inside,
     Publishing
<1>16. CASE Recover
  <2>1. CASE UNCHANGED <<mode, todo>> /\ pc' = "incomplete"
    BY <1>16, <2>1, QuietStep DEF Recover, AtFile, Inside
  <2>2. CASE mode' = "recover" /\ todo' = Steps("recover") /\ pc' = "loop"
    <3>1. Catalog \in todo' /\ Writes("recover") \subseteq todo'
      BY <2>2 DEF Steps, CatalogStep
    <3>2. \/ mode = "recover" /\ \A f \in Files : From(f)' = From(f) /\ Want(f)' = Want(f)
          \/ mode = "activate" /\ \A f \in Files : From(f)' = Want(f) /\ Want(f)' = From(f)
      BY <1>1, <2>2 DEF From, Want
    <3> QED  BY <1>1, <1>16, <2>2, <3>1, <3>2, PlanFacts DEF Recover, Ordered,
       Present, InOrder, AtFile, Inside
  <2> QED  BY <1>16, <2>1, <2>2 DEF Recover
<1>17. CASE PublishReport \/ Crash \/ PowerLoss
  BY <1>17, QuietStep DEF PublishReport, Crash, PowerLoss, AtFile, Inside
<1>18. ASSUME NEW w \in Writers, NEW f \in Files, OtherWriter(w, f) PROVE Ordered'
  <2>1. Present'
    BY <1>18, OtherWriterKeepsPresent DEF OtherWriter
  <2>2. media' = [media EXCEPT ![f] = w] /\ media \in [Files -> Contents]
        /\ UNCHANGED <<pc, mode, todo, cur>> /\ held' = (held /\ cur # f)
    BY <1>18 DEF OtherWriter, Typed, TypeOK
  <2>3. cur = f => media'[cur] \in Writers
    BY <2>2
  <2>4. pc \in Inside /\ cur # f => media'[cur] = media[cur]
    BY <1>1, <2>2
  <2> QED  BY <2>1, <2>2, <2>3, <2>4 DEF Ordered, InOrder, AtFile, Inside, Want,
     Writes, Removals, Typed, TypeOK
<1>19. CASE Stopped \/ UNCHANGED vars
  BY <1>19 DEF Stopped, vars, Ordered, Present, InOrder, AtFile, Inside, From,
     Want, Writes, Removals
<1> QED
  BY <1>3, <1>4, <1>5, <1>6, <1>7, <1>8, <1>9, <1>10, <1>11, <1>12, <1>13,
     <1>14,
     <1>15, <1>16, <1>17, <1>18, <1>19 DEF Next

(* Whichever catalog is whole on the medium, the documents it stands for    *)
(* are all there: documents are written before the catalog and removed      *)
(* after it, by the activation and by the recovery.                         *)
THEOREM CatalogResolvesHolds == Spec => []CatalogResolves
<1>1. Init => (Catalog \in Changed => Ordered)
  BY OrderedInit
<1>2. Typed /\ (Catalog \in Changed => Ordered) /\ [Next]_vars
        => (Catalog \in Changed => Ordered)'
  BY OrderedStep
<1>3. Typed /\ (Catalog \in Changed => Ordered) => CatalogResolves
  <2> SUFFICES ASSUME Typed, Ordered, Catalog \in Changed PROVE CatalogResolves
    BY DEF CatalogResolves
  <2>1. mode \in {"activate", "recover"} /\ Catalog \in Files
    BY PlanFacts DEF Typed, TypeOK
  <2>2. Baseline(Catalog) = "baseline" /\ Intended(Catalog) = "intended"
    BY PlanAssumption DEF Baseline, Intended
  <2> QED  BY <2>1, <2>2 DEF Ordered, Present, From, Want, CatalogResolves
<1> QED  BY <1>1, <1>2, <1>3, TypedHolds, PTL DEF Spec

-----------------------------------------------------------------------------
(* What every primitive knows before it destroys something: the content it  *)
(* overwrites is not another program's while it holds the file, the bounded *)
(* temporary file it reuses is free, and the one it unlinks was verified.   *)
Removal == pc \in Removing \/ (pc = "barrier" /\ cur \in Removals(mode))
Guarded ==
    /\ pc \in {"truncate", "write", "verify"} /\ held => media[cur] \notin Writers
    /\ Removal /\ pc \in {"barrier", "displace", "move"} => temp = None
    /\ pc \in {"unlink", "unlink_again"} => temp[2] \notin Writers
    /\ Removal => artifact = None
    /\ artifact # None => temp # None /\ temp[2] \notin Writers

LEMMA EndsAreNotWriters ==
  \A f \in Files : {From(f), Want(f), "torn"} \cap Writers = {}
  BY ValuesAssumption DEF From, Want, Baseline, Intended

LEMMA GuardedStep ==
  ASSUME Typed, Guarded, [Next]_vars
  PROVE  Guarded'
<1> USE DEF disk, work, host
<1>1. (pc \in Inside => cur \in Files) /\ media \in [Files -> Contents]
  BY DEF Typed, TypeOK
<1>2. ASSUME UNCHANGED temp, UNCHANGED artifact \/ artifact' = None,
             pc' \notin AtFile
      PROVE  Guarded'
  BY <1>2 DEF Guarded, Removal, Removing, AtFile, Inside
<1>3. ASSUME NEW a, Abandon(a) PROVE pc' \notin AtFile /\ artifact' = a
  BY <1>3, AbandonType DEF AtFile, Inside
<1>4. CASE Backup \/ Staging \/ PublishPrepared \/ Preactivation \/ Precheck
  BY <1>2, <1>3, <1>4 DEF Backup, Staging, PublishPrepared, Preactivation,
     Precheck, Verify, AtFile, Inside
<1>5. ASSUME NEW f \in Files, Begin(f) PROVE Guarded'
  <2>1. CASE Abandon(None)
    BY <1>2, <1>3, <1>5, <2>1 DEF Begin
  <2>2. CASE pc' \in {"barrier", "displace", "open"} /\ cur' = f /\ UNCHANGED artifact
    <3>1. Removals(mode)' = Removals(mode)
      BY <1>5 DEF Begin, Removals
    <3>2. Removal' => temp = None /\ artifact = None
      BY <1>5, <2>2, <3>1, AbandonType DEF Begin, Removal, Removing
    <3> QED  BY <1>5, <2>2, <3>2 DEF Begin, Guarded
  <2> QED  BY <1>5, <2>1, <2>2 DEF Begin
<1>6. CASE Barrier
  <2>1. Removal' => Removal
    BY <1>6 DEF Barrier, Removal, Removing, Removals
  <2> QED  BY <1>6, <2>1 DEF Barrier, Guarded
<1>7. CASE ReconciliationFails \/ FinalReadback \/ StepFails \/ ObservationFails \/ Stepped
  BY <1>2, <1>3, <1>7 DEF ReconciliationFails, FinalReadback, StepFails,
     ObservationFails, Stepped, AtFile, Inside
<1>8. CASE PublishTransition
  BY <1>2, <1>8, LateTransition DEF PublishTransition, AtFile, Inside,
     Publishing
<1>9. CASE Recover \/ PublishReport \/ Crash \/ PowerLoss
  BY <1>2, <1>9 DEF Recover, PublishReport, Crash, PowerLoss, AtFile, Inside
<1>10. CASE Open
  <2>1. CASE Abandon(None)
    BY <1>2, <1>3, <1>10, <2>1 DEF Open
  <2>2. CASE pc' \in {"stepped", "truncate", "write"} /\ UNCHANGED artifact
    <3>1. pc' # "stepped" => media'[cur] \notin Writers
      BY <1>1, <1>10, <2>2, EndsAreNotWriters DEF Open, Inside, Abandon
    <3> QED  BY <1>10, <2>2, <3>1 DEF Open, Guarded, Removal, Removing
  <2> QED  BY <1>10, <2>1, <2>2 DEF Open
<1>11. CASE Truncate
  <2>1. held => media'[cur] = "torn"
    BY <1>1, <1>11 DEF Truncate, Through, Inside
  <2> QED  BY <1>1, <1>11, <2>1, EndsAreNotWriters DEF Truncate, Guarded,
     Removal, Removing, Inside
<1>12. CASE Write
  <2>1. CASE Abandon(None)
    BY <1>2, <1>3, <1>12, <2>1 DEF Write
  <2>2. CASE Through(Want(cur)) /\ pc' = "verify" /\ UNCHANGED artifact
    <3>1. held => media'[cur] = Want(cur)
      BY <1>1, <1>12, <2>2 DEF Write, Through, Inside
    <3> QED  BY <1>1, <1>12, <2>2, <3>1, EndsAreNotWriters DEF Write, Guarded,
       Removal, Removing, Inside
  <2> QED  BY <1>12, <2>1, <2>2 DEF Write
<1>13. CASE Readback \/ Displace
  BY <1>2, <1>3, <1>13 DEF Readback, Displace, Guarded, Removal, Removing
<1>14. CASE Move
  BY <1>14 DEF Move, Guarded, Removal, Removing
<1>15. CASE Displaced
  BY <1>1, <1>2, <1>3, <1>15, EndsAreNotWriters DEF Displaced, Guarded, Removal,
     Removing, Inside
<1>16. CASE PutBack
  BY <1>3, <1>16 DEF PutBack, Guarded, Removal, Removing, AtFile, Inside
<1>17. CASE Unlink
  <2>1. artifact = None /\ temp # None /\ temp[2] \notin Writers
    BY <1>17 DEF Unlink, Guarded, Removal, Removing, Typed, TypeOK
  <2>2. CASE pc' \notin AtFile
    BY <1>3, <1>17, <2>1, <2>2 DEF Unlink, Guarded, Removal, Removing, AtFile,
       Inside
  <2>3. CASE pc' \in {"stepped", "unlink_again"} /\ UNCHANGED artifact /\ (pc' = "unlink_again" => UNCHANGED temp)
    BY <1>17, <2>1, <2>3 DEF Guarded, Removal, Removing
  <2> QED  BY <1>3, <1>17, <2>2, <2>3 DEF Unlink
<1>18. CASE UnlinkAgain
  BY <1>2, <1>3, <1>18 DEF UnlinkAgain, Guarded, Removal, Removing
<1>19. CASE CleanArtifact
  BY <1>2, <1>3, <1>19 DEF CleanArtifact, Guarded, Removal, Removing
<1>20. ASSUME NEW w \in Writers, NEW f \in Files, OtherWriter(w, f) PROVE Guarded'
  <2>1. Removal' <=> Removal
    BY <1>20 DEF OtherWriter, Removal, Removals
  <2>2. pc \in Inside /\ held' => media'[cur] = media[cur]
    BY <1>1, <1>20 DEF OtherWriter
  <2> QED  BY <1>20, <2>1, <2>2 DEF OtherWriter, Guarded, Inside
<1>21. CASE Stopped \/ UNCHANGED vars
  BY <1>21 DEF Stopped, vars, Guarded, Removal, Removals
<1> QED
  BY <1>4, <1>5, <1>6, <1>7, <1>8, <1>9, <1>10, <1>11, <1>12, <1>13, <1>14,
     <1>15,
     <1>16, <1>17, <1>18, <1>19, <1>20, <1>21 DEF Next

LEMMA ForeignStep ==
  ASSUME Typed, Guarded, [Next]_vars, pc # "put_back",
         NEW w \in Writers, Survives(w)
  PROVE  Survives(w)'
<1> USE DEF disk, work, host
<1>1. (pc \in Inside => cur \in Files) /\ media \in [Files -> Contents]
  BY DEF Typed, TypeOK
<1>2. ASSUME UNCHANGED disk PROVE Survives(w)'
  BY <1>2 DEF Survives
<1>3. ASSUME UNCHANGED media, temp # None => temp[2] # w PROVE Survives(w)'
  BY <1>3 DEF Survives
<1>4. ASSUME NEW g \in Files, NEW c, media' = [media EXCEPT ![g] = c],
             media[g] # w, UNCHANGED temp
      PROVE  Survives(w)'
  <2>1. \A f \in Files : media[f] = w => media'[f] = w
    BY <1>1, <1>4
  <2> QED  BY <1>4, <2>1 DEF Survives
<1>5. CASE Backup \/ Staging \/ PublishPrepared \/ Preactivation \/ Precheck \/ Barrier
  BY <1>2, <1>5 DEF Backup, Staging, PublishPrepared, Preactivation, Precheck,
     Verify, Barrier
<1>6. ASSUME NEW f \in Files, Begin(f) PROVE Survives(w)'
  BY <1>2, <1>6 DEF Begin
<1>7. CASE ReconciliationFails \/ FinalReadback \/ StepFails \/ ObservationFails \/ Stepped
  BY <1>2, <1>7 DEF ReconciliationFails, FinalReadback, StepFails,
     ObservationFails, Stepped
<1>8. CASE PublishTransition \/ Recover \/ PublishReport \/ Crash \/ PowerLoss \/ Stopped \/ UNCHANGED vars
  BY <1>2, <1>8 DEF PublishTransition, Recover, PublishReport, Crash, PowerLoss,
     Stopped, vars
<1>9. CASE Readback \/ Displace \/ Displaced
  BY <1>2, <1>9 DEF Readback, Displace, Displaced
<1>10. CASE Open
  <2>1. CASE UNCHANGED media
    BY <1>2, <1>10, <2>1 DEF Open
  <2>2. CASE media' = [media EXCEPT ![cur] = "torn"] /\ media[cur] = "absent"
    BY <1>1, <1>4, <1>10, <2>2, ValuesAssumption DEF Open, Inside
  <2> QED  BY <1>10, <2>1, <2>2 DEF Open
<1>11. CASE Truncate \/ Write
  <2>1. UNCHANGED temp /\ cur \in Files /\ pc \in {"truncate", "write", "verify"}
    BY <1>1, <1>11 DEF Truncate, Write, Inside
  <2>2. \E c : Through(c)
    BY <1>11 DEF Truncate, Write
  <2> QED  BY <1>2, <1>4, <2>1, <2>2 DEF Through, Guarded
<1>12. CASE Move
  <2>1. temp = None /\ cur \in Files /\ temp' = <<cur, media[cur]>> /\ temp' # None
    BY <1>1, <1>12, NoneAssumption DEF Move, Inside, Guarded, Removal, Removing
  <2>2. \A f \in Files \ {cur} : media'[f] = media[f]
    BY <1>1, <1>12 DEF Move
  <2> QED  BY <2>1, <2>2 DEF Survives
<1>13. CASE Unlink \/ UnlinkAgain \/ CleanArtifact
  BY <1>3, <1>13 DEF Unlink, UnlinkAgain, CleanArtifact, Guarded
<1>14. ASSUME NEW v \in Writers, NEW f \in Files, OtherWriter(v, f) PROVE Survives(w)'
  BY <1>4, <1>14 DEF OtherWriter
<1> QED
  BY <1>5, <1>6, <1>7, <1>8, <1>9, <1>10, <1>11, <1>12, <1>13, <1>14 DEF Next,
     PutBack

(* Another program's file survives every step of the operation but the      *)
(* activation's put-back, whatever was replaced under its hands.            *)
THEOREM ForeignKeptHolds == Spec => ForeignKept
<1>1. Init => Guarded
  BY DEF Init, Guarded, Removal, Removing
<1>2. Typed /\ Guarded /\ [Next]_vars => Guarded'
  BY GuardedStep
<1>3. Typed /\ Guarded /\ [Next]_vars
        => [pc # "put_back" => \A w \in Writers : Survives(w) => Survives(w)']_vars
  BY ForeignStep
<1> QED  BY <1>1, <1>2, <1>3, TypedHolds, PTL DEF Spec, ForeignKept

-----------------------------------------------------------------------------
(* The phase in memory is the one readers see until the run is over, a final *)
(* phase is only followed by the report, and it is proposed only where the  *)
(* medium has just been read back; nothing on the medium moves after that   *)
(* but what other programs replace.                                         *)
Activated == temp = None /\ \A f \in Files : media[f] \in {Intended(f)} \cup Writers
Agreed == pc \notin {"raised", "crashed", "power_lost"} => rollback = manifest
Settled ==
    /\ Agreed
    /\ pc \in Early => manifest = None
    /\ manifest \in {"completed", "recovered"} => pc \in Ended \cup {"report"}
    /\ pc = "complete" \/ (manifest = "completed" /\ pc # "power_lost") => Activated
    /\ pc = "recovered" \/ (manifest = "recovered" /\ pc # "power_lost") => Untouched
    /\ report # None => /\ pc \in {"done", "failed", "power_lost"}
                        /\ pc # "power_lost" => report = manifest
    /\ pc = "done" => report = "completed"

LEMMA SettledMedium ==
  ASSUME UNCHANGED disk
  PROVE  UNCHANGED <<Activated, Untouched>>
  BY DEF disk, Activated, Untouched

LEMMA SettledStep ==
  ASSUME Typed, Settled, [Next]_vars
  PROVE  Settled'
<1> USE NoneAssumption DEF host, work, Early, Ended
(* A step before a final phase that leaves the host directory alone.        *)
<1>1. ASSUME UNCHANGED <<manifest, report, rollback>>, pc \notin Ended \cup {"report"},
             pc' \notin {"complete", "recovered", "done"},
             pc' \in Early => pc \in Early
      PROVE  Settled'
  BY <1>1 DEF Settled, Agreed
<1>2. ASSUME NEW a, Abandon(a)
      PROVE  pc' \notin {"complete", "recovered", "done"} \cup Early
  BY <1>2, AbandonType
<1>3. CASE Backup \/ Staging \/ Preactivation \/ Precheck \/ StepFails \/ ObservationFails
  BY <1>1, <1>2, <1>3 DEF Backup, Staging, Preactivation, Precheck, Verify,
     StepFails, ObservationFails
<1>4. CASE Open \/ Truncate \/ Write \/ Readback \/ Stepped \/ CleanArtifact \/ Recover
  BY <1>1, <1>2, <1>4 DEF Open, Truncate, Write, Readback, Stepped,
     CleanArtifact, Recover
<1>5. CASE Displace \/ Move \/ Displaced \/ PutBack \/ Unlink \/ UnlinkAgain
  BY <1>1, <1>2, <1>5 DEF Displace, Move, Displaced, PutBack, Unlink,
     UnlinkAgain
<1>6. ASSUME NEW f \in Files, Begin(f) PROVE Settled'
  BY <1>1, <1>2, <1>6 DEF Begin
<1>7. CASE PublishPrepared
  BY <1>7 DEF PublishPrepared, Published, Unsynchronized, NotReplaced, Settled,
     Agreed, Phases
<1>8. CASE Barrier
  BY <1>8 DEF Barrier, Published, Unsynchronized, NotReplaced, Settled, Agreed
<1>9. CASE ReconciliationFails
  <2>1. manifest' \in {"completed", "recovered"} => pc \in {"complete", "recovered"} /\ PhaseOf(pc) = manifest'
    BY <1>9, LateTransition DEF ReconciliationFails, Settled, PhaseOf,
       Publishing
  <2>2. PhaseOf("complete") = "completed" /\ PhaseOf("recovered") = "recovered"
    BY DEF PhaseOf
  <2> QED  BY <1>9, <2>1, <2>2, SettledMedium DEF ReconciliationFails, Settled,
     Agreed, Publishing
<1>10. CASE FinalReadback
  <2>1. CASE Abandon(None)
    BY <1>1, <1>2, <1>10, <2>1 DEF FinalReadback
  <2>2. CASE /\ temp = None /\ \A f \in Files : media[f] = Want(f)
             /\ pc' = IF mode = "activate" THEN "complete" ELSE "recovered"
    <3>1. IF mode = "activate" THEN Activated ELSE Untouched
      BY <2>2 DEF Want, Activated, Untouched
    <3> QED  BY <1>10, <2>2, <3>1, SettledMedium DEF FinalReadback, Settled,
       Agreed
  <2> QED  BY <1>10, <2>1, <2>2 DEF FinalReadback
<1>11. CASE PublishTransition
  <2>1. CASE UNCHANGED <<manifest, rollback>> /\ pc' \in {pc, "raised"}
    BY <1>11, <2>1, SettledMedium DEF PublishTransition, Settled, Agreed,
       Publishing
  <2>2. CASE manifest' = PhaseOf(pc) /\ rollback' = PhaseOf(pc) /\ pc' = NextOf(pc)
    <3>1. PhaseOf(pc) = "completed" => pc = "complete"
      BY <1>11 DEF PublishTransition, Publishing, PhaseOf
    <3>2. PhaseOf(pc) = "recovered" => pc = "recovered"
      BY <1>11 DEF PublishTransition, Publishing, PhaseOf
    <3>3. PhaseOf(pc) \in {"completed", "recovered"} => NextOf(pc) = "report"
      BY <1>11 DEF PublishTransition, Publishing, PhaseOf, NextOf
    <3>4. report = None /\ pc' \in {"begin_recovery", "recover", "report"}
      BY <1>11, <2>2, LateTransition DEF PublishTransition, Publishing, Settled
    <3> QED  BY <1>11, <2>2, <3>1, <3>2, <3>3, <3>4, SettledMedium
       DEF PublishTransition, Settled, Agreed
  <2> QED  BY <1>11, <2>1, <2>2 DEF PublishTransition, Published,
     Unsynchronized, NotReplaced
<1>12. CASE PublishReport
  BY <1>12, SettledMedium DEF PublishReport, Settled, Agreed
<1>13. CASE Crash \/ Stopped \/ UNCHANGED vars
  BY <1>13, SettledMedium DEF Crash, Stopped, vars, disk, Settled, Agreed
<1>14. CASE PowerLoss
  BY <1>14 DEF PowerLoss, Settled, Agreed
<1>15. ASSUME NEW w \in Writers, NEW f \in Files, OtherWriter(w, f) PROVE Settled'
  <2>1. media' = [media EXCEPT ![f] = w] /\ media \in [Files -> Contents] /\ UNCHANGED temp
    BY <1>15 DEF OtherWriter, Typed, TypeOK
  <2>2. (Activated => Activated') /\ (Untouched => Untouched')
    BY <2>1 DEF Activated, Untouched
  <2> QED  BY <1>15, <2>2 DEF OtherWriter, Settled, Agreed
<1> QED
  BY <1>3, <1>4, <1>5, <1>6, <1>7, <1>8, <1>9, <1>10, <1>11, <1>12, <1>13,
     <1>14,
     <1>15 DEF Next

(* COMPLETED, RECOVERED and the report tell the truth about the medium and  *)
(* about each other, and success is returned only with a completed report.  *)
THEOREM VerdictIsTrueHolds == Spec => []VerdictIsTrue
<1>1. Init => Settled
  BY NoneAssumption DEF Init, Settled, Agreed, Early, Phases
<1>2. Typed /\ Settled /\ [Next]_vars => Settled'
  BY SettledStep
<1>3. Settled => VerdictIsTrue
  BY DEF Settled, Activated, VerdictIsTrue
<1> QED  BY <1>1, <1>2, <1>3, TypedHolds, PTL DEF Spec
-----------------------------------------------------------------------------
(* One failure alone. Until it happens the run goes straight; where it      *)
(* happens every file is the baseline or the intended one, and what is      *)
(* displaced is handed over; the recovery then meets no failure.            *)
Alone ==
    /\ wrote = {} /\ Len(faults) <= 1
    /\ \A i \in DOMAIN faults : faults[i] \notin {"write", "displaced"}

AllBaseline == \A f \in Files : media[f] = Baseline(f)
AllIntended == \A f \in Files : media[f] = Intended(f)

(* A file that is still to do: the recovery also finds some that the        *)
(* activation never reached. *)
Pending(f) == media[f] = From(f) \/ (mode = "recover" /\ media[f] = Want(f))

(* The temporary file while no removal is in progress. *)
Parked == IF artifact = None THEN None ELSE <<artifact, "baseline">>

Starting == {"backup", "staging", "prepare", "preactivation", "precheck"}
Working == {"loop", "barrier"} \cup Inside

Started ==
    pc \in Starting =>
        /\ mode = "activate" /\ todo = Steps("activate") /\ AllBaseline
        /\ temp = None /\ artifact = None /\ ~leftover /\ faults = <<>>
        /\ pc \in {"preactivation", "precheck"} => rollback = "prepared"

Halfway ==
    pc \in Working =>
        /\ ~leftover /\ pc \notin {"put_back", "unlink_again"}
        /\ \A f \in Files \ todo : media[f] = Want(f)
        /\ \A f \in todo : (pc \in Inside /\ f = cur) \/ Pending(f)
        /\ mode = "activate" =>
              /\ faults = <<>> /\ artifact = None /\ rollback # None
              /\ rollback = "prepared" => AllBaseline /\ pc \notin Inside
        /\ mode = "recover" => faults # <<>>
        /\ pc = "barrier" =>
              cur \in todo /\ mode = "activate" /\ rollback = "prepared"
        /\ pc \notin {"displaced", "unlink"} => temp = Parked
        /\ pc \in {"displace", "move", "displaced", "unlink"} => artifact = None

InFile ==
    pc \in Inside =>
        /\ cur \in todo
        /\ pc \in {"open", "displace"} => Pending(cur)
        /\ pc \in {"truncate", "move"} => media[cur] = From(cur)
        /\ pc \in {"truncate", "write", "verify"} => held
        /\ pc \in {"verify", "stepped"} => media[cur] = Want(cur)
        /\ pc \in {"displaced", "unlink"} =>
              media[cur] = "absent" /\ temp = <<cur, From(cur)>>

Recovering ==
    pc \in {"require", "begin_recovery", "recover"} =>
        /\ faults # <<>> /\ ~leftover /\ temp = Parked
        /\ \A f \in Files : media[f] \in {Baseline(f), Intended(f)}

Finished ==
    /\ pc # "incomplete"
    /\ pc = "recovered" =>
          AllBaseline /\ temp = None /\ ~leftover /\ faults # <<>>
    /\ pc = "complete" => AllIntended /\ temp = None
    /\ pc \in {"report", "raised", "done", "failed"} =>
          temp = None /\ (AllBaseline \/ AllIntended)

Undoing == Started /\ Halfway /\ InFile /\ Recovering /\ Finished

LEMMA OnlyFault ==
  ASSUME Typed, Alone', Fault
  PROVE  faults = <<>> /\ faults' # <<>> /\ pc \notin {"write", "displaced"}
<1>1. faults \in Seq(Pcs) /\ pc \in Pcs /\ faults' = Append(faults, pc)
  BY DEF Typed, TypeOK, Fault
<1>2. Len(faults') = Len(faults) + 1 /\ Len(faults') <= 1 /\ Len(faults) \in Nat
  BY <1>1 DEF Alone
<1>3. faults = <<>> /\ 1 \in DOMAIN faults' /\ faults'[1] = pc
  BY <1>1, <1>2
<1> QED  BY <1>1, <1>2, <1>3 DEF Alone

LEMMA AloneBefore ==
  ASSUME Typed, [Next]_vars, Alone'
  PROVE  /\ Alone /\ wrote' = wrote /\ ~ReconciliationFails
         /\ \A w \in Writers, f \in Files : ~OtherWriter(w, f)
<1>1. faults \in Seq(Pcs) /\ pc \in Pcs /\ Len(faults) \in Nat
  BY DEF Typed, TypeOK
<1>2. ~ReconciliationFails
  <2> SUFFICES ASSUME ReconciliationFails PROVE FALSE
    OBVIOUS
  <2>1. faults' = faults \o <<pc, pc>> /\ Len(faults') <= 1
    BY DEF ReconciliationFails, Alone
  <2>2. Len(faults') = Len(faults) + 2
    BY <1>1, <2>1
  <2> QED  BY <1>1, <2>1, <2>2
<1>3. \A w \in Writers, f \in Files : ~OtherWriter(w, f)
  BY DEF OtherWriter, Alone
<1>4. wrote' = wrote /\ (faults' = faults \/ faults' = Append(faults, pc))
  <2>1. CASE Backup \/ Staging \/ PublishPrepared \/ Preactivation \/ Precheck
             \/ (\E f \in Files : Begin(f)) \/ Barrier \/ Open \/ Truncate
             \/ Write \/ Readback \/ Displace \/ Move \/ Displaced
    BY <2>1 DEF Backup, Staging, PublishPrepared, Preactivation, Precheck,
       Verify, Begin, Barrier, Open, Truncate, Write, Readback, Displace,
       Move, Displaced, Fault, Published, Unsynchronized, NotReplaced
  <2>2. CASE PutBack \/ Unlink \/ UnlinkAgain \/ Stepped \/ FinalReadback
             \/ StepFails \/ ObservationFails \/ PublishTransition \/ Recover
             \/ CleanArtifact \/ PublishReport \/ Crash \/ PowerLoss \/ Stopped
             \/ UNCHANGED vars
    BY <2>2 DEF PutBack, Unlink, UnlinkAgain, Stepped, FinalReadback,
       StepFails, ObservationFails, PublishTransition, Recover, CleanArtifact,
       PublishReport, Crash, PowerLoss, Stopped, vars, Fault, Published,
       Unsynchronized, NotReplaced
  <2> QED  BY <1>2, <1>3, <2>1, <2>2 DEF Next
<1>5. CASE faults' = faults
  BY <1>2, <1>3, <1>4, <1>5 DEF Alone
<1>6. CASE faults' = Append(faults, pc)
  <2>1. /\ Len(faults') = Len(faults) + 1
        /\ \A i \in 1 .. Len(faults) : faults'[i] = faults[i]
        /\ DOMAIN faults = 1 .. Len(faults) /\ DOMAIN faults' = 1 .. Len(faults')
    BY <1>1, <1>6
  <2>2. Len(faults) <= 1 /\ \A i \in DOMAIN faults : faults[i] \notin {"write", "displaced"}
    BY <1>1, <2>1 DEF Alone
  <2> QED  BY <1>2, <1>3, <1>4, <2>2 DEF Alone
<1> QED  BY <1>4, <1>5, <1>6

LEMMA EndsOf ==
  ASSUME NEW f \in Files, mode \in {"activate", "recover"}
  PROVE  /\ mode = "activate" => From(f) = Baseline(f) /\ Want(f) = Intended(f)
         /\ mode = "recover" => From(f) = Intended(f) /\ Want(f) = Baseline(f)
         /\ f \in Removals(mode) => Want(f) = "absent"
         /\ f \in Removed => Baseline(f) = "baseline" /\ Intended(f) = "absent"
         /\ f \notin Steps("activate") => Baseline(f) = Intended(f)
         /\ f \in Steps("recover")
BY PlanAssumption DEF From, Want, Baseline, Intended, Removals, Steps, Writes,
   CatalogStep, Files

(* A failed activation whose barrier is behind it goes to the recovery.     *)
LEMMA AbandonedHalfway ==
  ASSUME Typed, Halfway, pc \in Working, mode = "activate", NEW a, Abandon(a)
  PROVE  pc' = IF rollback = "prepared" THEN "report" ELSE "require"
BY DEF Abandon, Halfway

(* Steps that end the run, and those before the first file. *)
LEMMA UndoingEnds ==
  ASSUME pc' \in {"report", "raised", "done", "failed"}, temp' = None,
         AllBaseline' \/ AllIntended'
  PROVE  Undoing'
BY DEF Undoing, Started, Halfway, InFile, Recovering, Finished, Starting,
   Working, Inside

LEMMA UndoingRecovers ==
  ASSUME pc' \in {"require", "begin_recovery", "recover"}, faults' # <<>>,
         ~leftover', temp' = Parked',
         \A f \in Files : media'[f] \in {Baseline(f), Intended(f)}
  PROVE  Undoing'
BY DEF Undoing, Started, Halfway, InFile, Recovering, Finished, Starting,
   Working, Inside

LEMMA UndoingStops ==
  ASSUME pc' \in {"crashed", "power_lost"}
  PROVE  Undoing'
BY DEF Undoing, Started, Halfway, InFile, Recovering, Finished, Starting,
   Working, Inside

LEMMA StartingStep ==
  ASSUME Typed, Undoing, Alone',
         Backup \/ Staging \/ PublishPrepared \/ Preactivation \/ Precheck
  PROVE  Undoing'
<1> USE DEF disk, host, work
<1>1. pc \in Starting /\ Started
  BY DEF Undoing, Backup, Staging, PublishPrepared, Preactivation, Precheck,
     Verify, Starting
<1>2. /\ UNCHANGED disk /\ mode' = mode /\ todo' = todo /\ artifact' = artifact
      /\ pc' \in Starting \cup {"loop", "raised"}
      /\ pc' \in Starting \cup {"loop"} => faults' = faults /\ leftover' = leftover
      /\ pc' \in {"preactivation", "precheck", "loop"} => rollback' = "prepared"
  BY <1>1 DEF Started, AllBaseline, Starting, Backup, Staging, PublishPrepared,
     Preactivation, Precheck, Verify, Published, Unsynchronized, NotReplaced
<1>3. AllBaseline'
  BY <1>1, <1>2 DEF Started, AllBaseline
<1>4. CASE pc' = "raised"
  BY <1>1, <1>2, <1>3, <1>4, UndoingEnds DEF Started
<1>5. CASE pc' \in Starting
  BY <1>1, <1>2, <1>3, <1>5 DEF Undoing, Started, Halfway, InFile, Recovering,
     Finished, Starting, Working, Inside
<1>6. CASE pc' = "loop"
  <2>1. /\ \A f \in Files \ todo' : media'[f] = Want(f)'
        /\ \A f \in todo' : Pending(f)'
    <3>1. todo' \subseteq Files /\ mode' = "activate" /\ todo' = Steps("activate")
      BY <1>1, <1>2, PlanInFiles DEF Started
    <3>2. \A f \in Files : From(f)' = Baseline(f) /\ Want(f)' = Intended(f)
      BY <3>1 DEF From, Want
    <3>3. \A f \in Files : f \notin Steps("activate") => Baseline(f) = Intended(f)
      BY EndsOf DEF Typed, TypeOK
    <3> QED  BY <1>3, <3>1, <3>2, <3>3 DEF AllBaseline, Pending
  <2>2. Halfway'
    BY <1>1, <1>2, <1>3, <1>6, <2>1, NoneAssumption DEF Started, Halfway,
       Working, Inside, Parked, Phases
  <2> QED  BY <1>6, <2>2 DEF Undoing, Started, InFile, Recovering, Finished,
     Starting, Inside
<1> QED  BY <1>2, <1>4, <1>5, <1>6

(* Where a failure can be alone, every file is one of its two ends.         *)
LEMMA FilesWhole ==
  ASSUME Typed, Undoing, pc \in Working \ {"write", "displaced"}
  PROVE  \A f \in Files : media[f] \in {Baseline(f), Intended(f)}
<1> SUFFICES ASSUME NEW f \in Files PROVE media[f] \in {From(f), Want(f)}
  BY EndsOf DEF Typed, TypeOK
<1>1. CASE f \notin todo
  BY <1>1 DEF Undoing, Halfway
<1>2. CASE f \in todo /\ ~(pc \in Inside /\ f = cur)
  BY <1>2 DEF Undoing, Halfway, Pending
<1>3. CASE f \in todo /\ pc \in Inside /\ f = cur
  <2>1. CASE pc \in {"open", "displace"}
    BY <1>3, <2>1 DEF Undoing, InFile, Pending
  <2>2. CASE pc \in {"truncate", "move", "verify", "stepped"}
    BY <1>3, <2>2 DEF Undoing, InFile
  <2>3. CASE pc = "unlink"
    BY <1>3, <2>3, EndsOf DEF Undoing, InFile, Typed, Shape, TypeOK, Removing
  <2>4. pc \notin {"put_back", "unlink_again"}
    BY <1>3 DEF Undoing, Halfway
  <2> QED  BY <1>3, <2>1, <2>2, <2>3, <2>4 DEF Inside
<1> QED  BY <1>1, <1>2, <1>3

LEMMA StepFailsUndoing ==
  ASSUME Typed, Undoing, Alone', StepFails
  PROVE  Undoing'
<1> USE DEF disk, host, work
<1>1. /\ faults = <<>> /\ faults' # <<>> /\ pc \notin {"write", "displaced"}
      /\ UNCHANGED <<media, temp, leftover>>
  BY OnlyFault DEF StepFails
<1>2. CASE pc \in Starting
  <2>1. pc' \in {"raised", "report"} \/ (pc' = "require" /\ artifact' = None)
    BY <1>2, AbandonType DEF StepFails, Starting, Undoing, Started, Abandon
  <2>2. AllBaseline' /\ temp' = None /\ ~leftover'
    BY <1>1, <1>2 DEF Undoing, Started, AllBaseline
  <2> QED  BY <1>1, <2>1, <2>2, UndoingEnds, UndoingRecovers DEF AllBaseline,
     Parked
<1>3. CASE pc \in Working
  <2>1. mode = "activate" /\ temp = None /\ artifact' = None /\ ~leftover
    BY <1>1, <1>3 DEF StepFails, Abandon, Undoing, Halfway, Parked, Typed,
       TypeOK, Working, Inside
  <2>2. pc' = IF rollback = "prepared" THEN "report" ELSE "require"
    BY <1>3, <2>1, AbandonedHalfway DEF StepFails, Undoing, Working, Inside
  <2>3. rollback = "prepared" => AllBaseline'
    BY <1>1, <1>3, <2>1 DEF Undoing, Halfway, AllBaseline
  <2>4. \A f \in Files : media'[f] \in {Baseline(f), Intended(f)}
    BY <1>1, <1>3, FilesWhole
  <2> QED  BY <1>1, <2>1, <2>2, <2>3, <2>4, UndoingEnds, UndoingRecovers
     DEF Parked
<1>4. CASE pc = "recover"
  BY <1>1, <1>4 DEF Undoing, Recovering
<1> QED  BY <1>2, <1>3, <1>4 DEF StepFails, Starting, Working, Inside

(* A step on a file leaves the others alone. *)
LEMMA InsideStep ==
  ASSUME Typed, Undoing, pc \in Inside, pc' \in Inside \ {"put_back", "unlink_again"},
         UNCHANGED <<mode, todo, cur, leftover, faults, rollback, artifact>>,
         \A f \in Files \ {cur} : media'[f] = media[f],
         pc' \notin {"displaced", "unlink"} => temp' = Parked,
         pc' \in {"displace", "move", "displaced", "unlink"} => artifact = None,
         InFile'
  PROVE  Undoing'
<1>1. pc \in Working /\ pc' \in Working /\ todo \subseteq Files /\ cur \in todo
  BY DEF Working, Undoing, InFile, Typed, TypeOK
<1>2. \A f \in Files : Want(f)' = Want(f) /\ From(f)' = From(f)
  BY DEF Want, From
<1>3. \A f \in Files \ todo' : media'[f] = Want(f)'
  BY <1>1, <1>2 DEF Undoing, Halfway
<1>4. \A f \in todo' : (pc' \in Inside /\ f = cur') \/ Pending(f)'
  BY <1>1, <1>2 DEF Undoing, Halfway, Pending
<1>5. Halfway'
  BY <1>1, <1>3, <1>4 DEF Undoing, Halfway, Parked, Inside
<1> QED  BY <1>5 DEF Undoing, Started, Recovering, Finished, Starting, Inside

LEMMA BeginUndoing ==
  ASSUME Typed, Undoing, Alone', NEW f \in Files, Begin(f)
  PROVE  Undoing'
<1> USE DEF disk, host, work
<1>1. /\ pc = "loop" /\ pc \in Working /\ f \in todo /\ Halfway
      /\ UNCHANGED <<media, temp, leftover, mode, todo, faults, rollback>>
  BY DEF Begin, NextFiles, Undoing, Working
<1>2. temp = Parked /\ (f \in Removals(mode) => artifact = None)
      /\ (mode = "activate" => artifact = None)
  BY <1>1 DEF Halfway, Begin
<1>3. /\ pc' = IF mode = "activate" /\ rollback = "prepared" THEN "barrier"
               ELSE IF f \in Removals(mode) THEN "displace" ELSE "open"
      /\ cur' = f /\ artifact' = artifact
  BY <1>2 DEF Begin, Parked
<1>4. pc' \in Working /\ (pc' \in Inside <=> pc' # "barrier")
  BY <1>3 DEF Working, Inside
<1>5. \A g \in todo : Pending(g)'
  BY <1>1 DEF Halfway, Pending, Inside, From, Want
<1>6. \A g \in Files \ todo : media[g] = Want(g)'
  BY <1>1 DEF Halfway, Want
<1>7. mode = "activate" =>
        rollback # None /\ (rollback = "prepared" => AllBaseline' /\ pc' = "barrier")
  BY <1>1, <1>3 DEF Halfway, AllBaseline
<1>8. pc' = "barrier" => mode = "activate" /\ rollback = "prepared"
  BY <1>3
<1>9. Halfway'
  BY <1>1, <1>2, <1>3, <1>4, <1>5, <1>6, <1>7, <1>8 DEF Halfway, Parked
<1>10. InFile'
  BY <1>1, <1>3, <1>5 DEF InFile
<1> QED  BY <1>3, <1>9, <1>10 DEF Undoing, Started, Recovering, Finished, Starting

LEMMA BarrierUndoing ==
  ASSUME Typed, Undoing, Alone', Barrier
  PROVE  Undoing'
<1> USE DEF disk, host, work
<1>1. /\ pc = "barrier" /\ pc \in Working /\ mode = "activate" /\ ~leftover
      /\ temp = None /\ artifact = None /\ rollback = "prepared" /\ AllBaseline
      /\ faults = <<>> /\ cur \in Files
      /\ UNCHANGED <<media, temp, mode, todo, cur, artifact>>
  BY DEF Barrier, Undoing, Halfway, Parked, Working, Typed, Shape, TypeOK
<1>2. AllBaseline'
  BY <1>1 DEF AllBaseline
<1>3. CASE pc' = "report"
  BY <1>1, <1>2, <1>3, UndoingEnds
<1>4. CASE pc' = "require"
  <2>1. Fault /\ leftover' = leftover
    BY <1>1, <1>4 DEF Barrier, Unsynchronized
  <2>2. \A f \in Files : media'[f] \in {Baseline(f), Intended(f)}
    BY <1>2 DEF AllBaseline
  <2> QED  BY <1>1, <1>4, <2>1, <2>2, OnlyFault, UndoingRecovers DEF Parked
<1>5. CASE /\ UNCHANGED <<leftover, faults>> /\ rollback' = "mutation_started"
           /\ pc' = IF cur \in Removals(mode) THEN "displace" ELSE "open"
  <2>1. pc' \in Working /\ pc' \in Inside /\ pc' # "barrier"
    BY <1>5 DEF Working, Inside
  <2>2. Halfway'
    <3>1. \A f \in todo : Pending(f)'
      BY <1>1 DEF Undoing, Halfway, Pending, From, Want, Inside
    <3>2. \A f \in Files \ todo : media[f] = Want(f)'
      BY <1>1 DEF Undoing, Halfway, Want
    <3>3. rollback' # None /\ rollback' # "prepared"
      BY <1>5, NoneAssumption DEF Phases
    <3> QED  BY <1>1, <1>5, <2>1, <3>1, <3>2, <3>3 DEF Halfway, Parked
  <2>3. InFile'
    <3>1. cur \in todo /\ Pending(cur)'
      BY <1>1 DEF Undoing, Halfway, Pending, From, Want, Inside
    <3> QED  BY <1>1, <1>5, <2>1, <3>1 DEF InFile
  <2> QED  BY <2>1, <2>2, <2>3, <1>5 DEF Undoing, Started, Recovering, Finished, Starting
<1> QED  BY <1>1, <1>3, <1>4, <1>5 DEF Barrier, Published

LEMMA RewritingUndoing ==
  ASSUME Typed, Undoing, Alone', Open \/ Truncate \/ Write \/ Readback
  PROVE  Undoing'
<1> USE DEF disk, host, work
<1>1. /\ pc \in Rewriting /\ pc \in Inside /\ cur \in Files /\ cur \in todo
      /\ cur \notin Removals(mode) /\ temp = Parked /\ mode \in {"activate", "recover"}
      /\ media \in [Files -> Contents] /\ InFile
  BY DEF Open, Truncate, Write, Readback, Rewriting, Inside, Undoing, InFile,
     Halfway, Working, Typed, Shape, TypeOK
<1>2. From(cur) \in {"absent", "baseline", "intended"} /\ Want(cur) # "absent"
  BY <1>1, PlanInFiles DEF From, Want, Baseline, Intended, Removals
<1>3. CASE Open
  <2>1. media[cur] \in {From(cur), Want(cur)}
    BY <1>1, <1>3 DEF Open, InFile, Pending
  <2>2. /\ UNCHANGED <<temp, leftover, mode, todo, cur, faults, rollback, artifact>>
        /\ \A f \in Files \ {cur} : media'[f] = media[f]
        /\ pc' \in {"stepped", "truncate", "write"}
        /\ pc' = "stepped" => media'[cur] = Want(cur)
        /\ pc' = "truncate" => media'[cur] = From(cur) /\ held'
        /\ pc' = "write" => held'
    BY <1>1, <1>3, <2>1 DEF Open
  <2>3. InFile'
    BY <1>1, <2>2 DEF InFile, From, Want
  <2> QED  BY <1>1, <2>2, <2>3, InsideStep DEF Parked, Inside
<1>4. CASE Truncate
  <2>1. /\ UNCHANGED <<temp, leftover, mode, todo, cur, held, faults, rollback, artifact>>
        /\ \A f \in Files \ {cur} : media'[f] = media[f]
        /\ pc = "truncate" /\ pc' = "write"
    BY <1>1, <1>4 DEF Truncate, Through
  <2>2. InFile'
    BY <1>1, <2>1 DEF InFile
  <2> QED  BY <1>1, <2>1, <2>2, InsideStep DEF Parked, Inside
<1>5. CASE Write
  <2>1. pc = "write" /\ held /\ ~Fault
    BY <1>1, <1>5, OnlyFault DEF Write, InFile
  <2>2. /\ UNCHANGED <<temp, leftover, mode, todo, cur, held, faults, rollback, artifact>>
        /\ media' = [media EXCEPT ![cur] = Want(cur)] /\ pc' = "verify"
    BY <1>5, <2>1 DEF Write, Through
  <2>3. media'[cur] = Want(cur) /\ \A f \in Files \ {cur} : media'[f] = media[f]
    BY <1>1, <2>2
  <2>4. InFile'
    BY <1>1, <2>1, <2>2, <2>3 DEF InFile, Want
  <2> QED  BY <1>1, <2>2, <2>3, <2>4, InsideStep DEF Parked, Inside
<1>6. CASE Readback
  <2>1. pc = "verify" /\ held /\ media[cur] = Want(cur)
    BY <1>1, <1>6 DEF Readback, InFile
  <2>2. /\ UNCHANGED <<media, temp, leftover, mode, todo, cur, held, faults, rollback, artifact>>
        /\ pc' = "stepped"
    BY <1>6, <2>1 DEF Readback
  <2>3. InFile'
    BY <1>1, <2>1, <2>2 DEF InFile, Want
  <2> QED  BY <1>1, <2>2, <2>3, InsideStep DEF Parked, Inside
<1> QED  BY <1>3, <1>4, <1>5, <1>6

LEMMA RemovingUndoing ==
  ASSUME Typed, Undoing, Alone',
         Displace \/ Move \/ Displaced \/ PutBack \/ Unlink \/ UnlinkAgain
  PROVE  Undoing'
<1> USE DEF disk, host, work
<1>1. /\ pc \in {"displace", "move", "displaced", "unlink"} /\ pc \in Inside
      /\ cur \in Files /\ cur \in todo /\ cur \in Removals(mode)
      /\ mode \in {"activate", "recover"} /\ artifact = None
      /\ media \in [Files -> Contents] /\ InFile
  BY DEF Displace, Move, Displaced, PutBack, Unlink, UnlinkAgain, Removing,
     Inside, Undoing, InFile, Halfway, Working, Typed, Shape, TypeOK
<1>2. /\ Want(cur) = "absent" /\ From(cur) # "absent"
      /\ mode = "activate" => cur \in Removed /\ From(cur) = "baseline"
  BY <1>1, EndsOf, PlanAssumption DEF From, Baseline, Intended, Removals, Files
<1>3. CASE Displace
  <2>1. pc = "displace" /\ temp = None /\ Pending(cur)
    BY <1>1, <1>3 DEF Displace, Undoing, Halfway, Working, Parked, InFile
  <2>2. /\ UNCHANGED <<media, temp, leftover, mode, todo, cur, held, faults, rollback, artifact>>
        /\ pc' \in {"move", "stepped"}
        /\ pc' = "move" => media[cur] = From(cur)
        /\ pc' = "stepped" => media[cur] = Want(cur)
    BY <1>2, <1>3, <2>1 DEF Displace, Pending
  <2>3. InFile'
    BY <1>1, <2>2 DEF InFile, From, Want
  <2> QED  BY <1>1, <2>1, <2>2, <2>3, InsideStep DEF Parked, Inside
<1>4. CASE Move
  <2>1. pc = "move" /\ media[cur] = From(cur)
    BY <1>1, <1>4 DEF Move, InFile
  <2>2. /\ UNCHANGED <<leftover, mode, todo, cur, held, faults, rollback, artifact>>
        /\ temp' = <<cur, From(cur)>> /\ media'[cur] = "absent"
        /\ \A f \in Files \ {cur} : media'[f] = media[f]
        /\ pc' = "displaced"
    BY <1>1, <1>4, <2>1 DEF Move
  <2>3. InFile'
    BY <1>1, <2>2 DEF InFile, From
  <2> QED  BY <1>1, <2>2, <2>3, InsideStep DEF Parked, Inside
<1>5. CASE Displaced
  <2>1. pc = "displaced" /\ media[cur] = "absent" /\ temp = <<cur, From(cur)>>
    BY <1>1, <1>5 DEF Displaced, InFile
  <2>2. /\ UNCHANGED <<media, temp, leftover, mode, todo, cur, held, faults, rollback, artifact>>
        /\ pc' = "unlink"
    BY <1>5, <2>1 DEF Displaced
  <2>3. InFile'
    BY <1>1, <2>1, <2>2 DEF InFile, From
  <2> QED  BY <1>1, <2>2, <2>3, InsideStep DEF Parked, Inside
<1>6. CASE Unlink
  <2>1. /\ pc = "unlink" /\ media[cur] = "absent"
        /\ temp = <<cur, From(cur)>> /\ temp # None
    BY <1>1, <1>6 DEF Unlink, InFile, Typed, TypeOK
  <2>2. CASE temp' = None
    <3>1. /\ UNCHANGED <<media, leftover, mode, todo, cur, held, faults, rollback, artifact>>
          /\ pc' = "stepped"
      BY <1>6, <2>1, <2>2 DEF Unlink
    <3>2. InFile'
      BY <1>1, <1>2, <2>1, <3>1 DEF InFile, Want
    <3> QED  BY <1>1, <2>2, <3>1, <3>2, InsideStep DEF Parked, Inside
  <2>3. CASE temp' # None
    <3>1. Fault /\ faults = <<>> /\ faults' # <<>> /\ pc \in Working
      BY <1>6, <2>1, <2>3, OnlyFault DEF Unlink, Working, Inside
    <3>2. mode = "activate" /\ rollback # "prepared" /\ ~leftover
      BY <1>1, <3>1 DEF Undoing, Halfway
    <3>3. Abandon(cur) /\ UNCHANGED <<media, temp, leftover>>
      BY <1>6, <2>3, <3>2 DEF Unlink
    <3>4. pc' = "require" /\ artifact' = cur
      BY <3>1, <3>2, <3>3, AbandonedHalfway, AbandonType DEF Undoing
    <3>5. temp' = Parked'
      BY <1>1, <1>2, <2>1, <3>2, <3>3, <3>4, NoneAssumption DEF Parked
    <3>6. \A f \in Files : media'[f] \in {Baseline(f), Intended(f)}
      BY <2>1, <3>1, <3>3, FilesWhole
    <3> QED  BY <3>1, <3>2, <3>3, <3>4, <3>5, <3>6, UndoingRecovers
  <2> QED  BY <2>2, <2>3
<1> QED  BY <1>1, <1>3, <1>4, <1>5, <1>6 DEF PutBack, UnlinkAgain

LEMMA SteppedUndoing ==
  ASSUME Typed, Undoing, Alone', Stepped
  PROVE  Undoing'
<1> USE DEF disk, host, work
<1>1. /\ pc = "stepped" /\ pc \in Inside /\ pc \in Working /\ pc' = "loop"
      /\ pc' \notin Inside /\ pc' \in Working
      /\ todo' = todo \ {cur} /\ media[cur] = Want(cur) /\ cur \in todo
      /\ UNCHANGED <<media, temp, leftover, mode, faults, rollback, artifact>>
  BY DEF Stepped, Undoing, InFile, Inside, Working
<1>2. \A f \in Files : Want(f)' = Want(f) /\ From(f)' = From(f)
  BY <1>1 DEF Want, From
<1>3. \A f \in Files \ todo' : media'[f] = Want(f)'
  BY <1>1, <1>2 DEF Undoing, Halfway
<1>4. \A f \in todo' : Pending(f)'
  BY <1>1, <1>2 DEF Undoing, Halfway, Pending, Typed, TypeOK
<1>5. Halfway'
  BY <1>1, <1>3, <1>4 DEF Undoing, Halfway, Parked
<1> QED  BY <1>1, <1>5 DEF Undoing, Started, InFile, Recovering, Finished,
   Starting

LEMMA FinalReadbackUndoing ==
  ASSUME Typed, Undoing, Alone', FinalReadback
  PROVE  Undoing'
<1> USE DEF disk, host, work
<1>1. /\ pc = "loop" /\ pc \in Working /\ todo = {} /\ artifact = None
      /\ mode \in {"activate", "recover"}
      /\ UNCHANGED <<media, temp, leftover, faults>>
  BY DEF FinalReadback, Working, Typed, TypeOK
<1>2. temp = None /\ \A f \in Files : media[f] = Want(f)
  BY <1>1 DEF Undoing, Halfway, Parked
<1>3. pc' = IF mode = "activate" THEN "complete" ELSE "recovered"
  BY <1>2 DEF FinalReadback
<1>4. CASE mode = "activate"
  <2>1. AllIntended'
    BY <1>1, <1>2, <1>4 DEF AllIntended, Want
  <2> QED  BY <1>1, <1>2, <1>3, <1>4, <2>1 DEF Undoing, Started, Halfway,
     InFile, Recovering, Finished, Starting, Working, Inside
<1>5. CASE mode = "recover"
  <2>1. AllBaseline' /\ ~leftover' /\ faults' # <<>>
    BY <1>1, <1>2, <1>5 DEF AllBaseline, Want, Undoing, Halfway
  <2> QED  BY <1>1, <1>2, <1>3, <1>5, <2>1 DEF Undoing, Started, Halfway,
     InFile, Recovering, Finished, Starting, Working, Inside
<1> QED  BY <1>1, <1>4, <1>5

LEMMA PublishingUndoing ==
  ASSUME Typed, Undoing, Alone', PublishTransition \/ ObservationFails
  PROVE  Undoing'
<1> USE DEF disk, host, work
<1>1. /\ UNCHANGED <<media, temp, artifact>>
      /\ pc \in {"require", "begin_recovery", "recovered", "complete"}
  BY DEF PublishTransition, ObservationFails, Publishing, Undoing, Finished
<1>2. CASE pc = "complete"
  <2>1. AllIntended' /\ temp' = None
    BY <1>1, <1>2 DEF Undoing, Finished, AllIntended
  <2>2. pc' \in {"complete", "report", "raised"}
    BY <1>2 DEF PublishTransition, ObservationFails, NextOf
  <2>3. CASE pc' = "complete"
    BY <2>1, <2>3 DEF Undoing, Started, Halfway, InFile, Recovering, Finished,
       Starting, Working, Inside
  <2> QED  BY <2>1, <2>2, <2>3, UndoingEnds
<1>3. CASE pc # "complete"
  <2>1. faults # <<>> /\ ~leftover
    BY <1>1, <1>3 DEF Undoing, Recovering, Finished
  <2>2. ~Fault
    BY <2>1, OnlyFault
  <2>3. UNCHANGED <<leftover, faults>> /\ pc' = NextOf(pc)
    BY <2>1, <2>2 DEF PublishTransition, ObservationFails, Published,
       Unsynchronized, NotReplaced
  <2>4. CASE pc = "recovered"
    <3>1. AllBaseline' /\ temp' = None /\ pc' = "report"
      BY <1>1, <2>3, <2>4 DEF Undoing, Finished, AllBaseline, NextOf
    <3> QED  BY <3>1, UndoingEnds
  <2>5. CASE pc \in {"require", "begin_recovery"}
    <3>1. pc' \in {"begin_recovery", "recover"}
      BY <2>3, <2>5 DEF NextOf
    <3>2. /\ temp' = Parked'
          /\ \A f \in Files : media'[f] \in {Baseline(f), Intended(f)}
      BY <1>1, <2>5 DEF Undoing, Recovering, Parked
    <3> QED  BY <2>1, <2>3, <3>1, <3>2, UndoingRecovers
  <2> QED  BY <1>1, <1>3, <2>4, <2>5
<1> QED  BY <1>2, <1>3

LEMMA RecoverUndoing ==
  ASSUME Typed, Undoing, Alone', Recover
  PROVE  Undoing'
<1> USE DEF disk, host, work
<1>1. /\ pc = "recover" /\ faults # <<>> /\ ~leftover /\ temp = Parked
      /\ \A f \in Files : media[f] \in {Baseline(f), Intended(f)}
  BY DEF Recover, Undoing, Recovering
<1>2. /\ mode' = "recover" /\ todo' = Steps("recover") /\ pc' = "loop"
      /\ UNCHANGED <<media, temp, leftover, artifact, faults>>
  BY <1>1 DEF Recover, Parked
<1>3. \A f \in Files : f \in todo'
  BY <1>2, EndsOf DEF Typed, TypeOK
<1>4. \A f \in todo' : Pending(f)'
  BY <1>1, <1>2, PlanInFiles DEF Pending, From, Want
<1>5. Halfway'
  BY <1>1, <1>2, <1>3, <1>4 DEF Halfway, Parked
<1> QED  BY <1>2, <1>5 DEF Undoing, Started, InFile, Recovering, Finished,
   Starting, Inside

LEMMA CleanArtifactUndoing ==
  ASSUME Typed, Undoing, Alone', CleanArtifact
  PROVE  Undoing'
<1> USE DEF disk, host, work
<1>1. /\ pc = "loop" /\ pc \in Working /\ mode = "recover" /\ artifact \in Removed
      /\ artifact \in Files /\ artifact \notin todo /\ faults # <<>> /\ Halfway
  BY PlanInFiles, PlanAssumption DEF CleanArtifact, Working, Undoing, Halfway,
     Typed, TypeOK
<1>2. media[artifact] = "baseline"
  BY <1>1, EndsOf DEF Halfway
<1>3. /\ temp' = None /\ artifact' = None /\ pc' = pc
      /\ UNCHANGED <<media, leftover, mode, todo, faults>>
  BY <1>1, <1>2, OnlyFault DEF CleanArtifact
<1>4. \A f \in Files : Want(f)' = Want(f) /\ From(f)' = From(f)
  BY <1>3 DEF Want, From
<1>5. \A f \in todo' : Pending(f)'
  BY <1>1, <1>3, <1>4 DEF Halfway, Pending, Inside, Typed, TypeOK
<1>6. Halfway'
  BY <1>1, <1>3, <1>4, <1>5 DEF Halfway, Parked
<1> QED  BY <1>1, <1>3, <1>6 DEF Undoing, Started, InFile, Recovering, Finished,
   Starting, Inside

LEMMA PublishReportUndoing ==
  ASSUME Typed, Undoing, Alone', PublishReport
  PROVE  Undoing'
<1>1. /\ pc = "report" /\ pc' \in {"done", "failed", "raised"}
      /\ UNCHANGED disk
  BY DEF PublishReport
<1>2. temp' = None /\ (AllBaseline' \/ AllIntended')
  BY <1>1 DEF disk, Undoing, Finished, AllBaseline, AllIntended
<1> QED  BY <1>1, <1>2, UndoingEnds

LEMMA UndoingStep ==
  ASSUME Typed, Alone => Undoing, [Next]_vars
  PROVE  (Alone => Undoing)'
<1> SUFFICES ASSUME Alone' PROVE Undoing'
  OBVIOUS
<1>1. Undoing /\ ~ReconciliationFails /\ \A w \in Writers, f \in Files : ~OtherWriter(w, f)
  BY AloneBefore
<1>2. CASE Backup \/ Staging \/ PublishPrepared \/ Preactivation \/ Precheck
  BY <1>1, <1>2, StartingStep
<1>3. CASE StepFails
  BY <1>1, <1>3, StepFailsUndoing
<1>4. ASSUME NEW f \in Files, Begin(f) PROVE Undoing'
  BY <1>1, <1>4, BeginUndoing
<1>5. CASE Barrier
  BY <1>1, <1>5, BarrierUndoing
<1>6. CASE Open \/ Truncate \/ Write \/ Readback
  BY <1>1, <1>6, RewritingUndoing
<1>7. CASE Displace \/ Move \/ Displaced \/ PutBack \/ Unlink \/ UnlinkAgain
  BY <1>1, <1>7, RemovingUndoing
<1>8. CASE Stepped
  BY <1>1, <1>8, SteppedUndoing
<1>9. CASE FinalReadback
  BY <1>1, <1>9, FinalReadbackUndoing
<1>10. CASE ObservationFails \/ PublishTransition
  BY <1>1, <1>10, PublishingUndoing
<1>11. CASE Recover
  BY <1>1, <1>11, RecoverUndoing
<1>12. CASE CleanArtifact
  BY <1>1, <1>12, CleanArtifactUndoing
<1>13. CASE PublishReport
  BY <1>1, <1>13, PublishReportUndoing
<1>14. CASE Crash \/ PowerLoss
  BY <1>14, UndoingStops DEF Crash, PowerLoss
<1>15. CASE UNCHANGED vars \/ Stopped
  BY <1>1, <1>15 DEF Stopped, vars, Undoing, Started, Halfway, InFile,
     Recovering, Finished, AllBaseline, AllIntended, Pending, Parked, From, Want
<1> QED
  BY <1>1, <1>2, <1>3, <1>4, <1>5, <1>6, <1>7, <1>8, <1>9, <1>10, <1>11,
     <1>12, <1>13, <1>14, <1>15 DEF Next

(* A run that meets one failure and no other writer ends with the whole     *)
(* baseline or the whole intended tree, wherever the failure strikes but    *)
(* inside a rewrite or at the readback of a displaced document.             *)
THEOREM OneFaultIsUndoneHolds == Spec => []OneFaultIsUndone
<1>1. Init => (Alone => Undoing)
  <2> SUFFICES ASSUME Init PROVE Undoing
    OBVIOUS
  <2>1. AllBaseline /\ pc = "backup" /\ faults = <<>>
    BY DEF Init, AllBaseline
  <2> QED  BY <2>1 DEF Init, Undoing, Started, Halfway, InFile, Recovering,
     Finished, Starting, Working, Inside
<1>2. Typed /\ (Alone => Undoing) /\ [Next]_vars => (Alone => Undoing)'
  BY UndoingStep
<1>3. (Alone => Undoing) => OneFaultIsUndone
  BY DEF Alone, Undoing, Finished, AllBaseline, AllIntended, OneFaultIsUndone
<1> QED  BY <1>1, <1>2, <1>3, TypedHolds, PTL DEF Spec

=============================================================================
