------------------------- MODULE FavoritesUsbWrite -------------------------
(***************************************************************************)
(* One durable write of scanner Favorites to a mounted USB medium           *)
(* (favorites_write_usb.py): a verified host backup and staging tree, a     *)
(* rollback manifest whose phase is published before the medium is touched, *)
(* the activation file by file, and the recovery of the original files when *)
(* anything after the first change fails.                                   *)
(*                                                                          *)
(* A file is one of four contents or what another writer put in its place.  *)
(* The host may die between any two steps; every call may fail where the    *)
(* code converts the failure; other programs may replace files of the       *)
(* medium by renaming over them, once each.                                 *)
(***************************************************************************)
EXTENDS Naturals, Sequences

CONSTANTS
    Catalog,      \* f_list.cfg
    Changed,      \* managed files that differ between baseline and intended
    Introduced,   \* documents only the intended snapshot has
    Removed,      \* documents only the baseline snapshot has
    Kept,         \* managed files alike in both
    Writers,      \* other programs that replace one file of the medium each
    MaxFaults,    \* bound on the failures injected into one run
    None

Files == Changed \cup Introduced \cup Removed \cup Kept

ASSUME PlanAssumption ==
    /\ Catalog \in Changed \cup Kept
    /\ Changed \cap Introduced = {} /\ Changed \cap Removed = {}
    /\ Changed \cap Kept = {} /\ Introduced \cap Removed = {}
    /\ Introduced \cap Kept = {} /\ Removed \cap Kept = {}
    /\ Changed \cup Introduced \cup Removed # {}      \* never a no-op plan

ASSUME ValuesAssumption ==
    /\ Writers \cap {"absent", "baseline", "intended", "torn"} = {}
    /\ MaxFaults \in Nat

Contents == {"absent", "baseline", "intended", "torn"} \cup Writers
Phases == {"prepared", "mutation_started", "recovery_required",
           "recovery_in_progress", "recovered", "recovery_incomplete",
           "completed"}

ASSUME NoneAssumption ==
    /\ None \notin Files /\ None \notin Phases
    /\ None \notin Files \X Contents

Baseline(f) == IF f \in Introduced THEN "absent" ELSE "baseline"
Intended(f) == IF f \in Removed THEN "absent"
               ELSE IF f \in Kept THEN "baseline" ELSE "intended"

VARIABLES
    media,      \* media[f]: content of the managed file f on the medium
    temp,       \* the bounded temporary file: <<f, content>>, or None
    manifest,   \* phase readers of the host directory see, or None
    synced,     \* phase that outlives a loss of power, or None
    leftover,   \* a manifest temporary file could not be removed
    report,     \* phase the operation report binds, or None
    pc,
    mode,       \* "activate", later "recover"
    todo,       \* files this mode still has to bring to their wanted content
    cur,        \* the file a primitive is working on
    held,       \* the open descriptor is still the file named cur
    rollback,   \* the phase the workflow holds in memory
    artifact,   \* the displaced document whose provenance was carried over
    again,      \* a transition was published once in vain
    faults,     \* where failures were injected, in order
    wrote       \* the other writers that have acted

disk == <<media, temp>>
host == <<manifest, synced, leftover, report>>
work == <<mode, todo, cur, held>>
vars == <<media, temp, manifest, synced, leftover, report, pc, mode, todo,
          cur, held, rollback, artifact, again, faults, wrote>>

Publishing == {"require", "begin_recovery", "recovered", "incomplete",
               "complete"}
Inside == {"open", "truncate", "write", "verify", "stepped", "displace",
           "move", "displaced", "put_back", "unlink", "unlink_again"}
Ended == {"done", "failed", "raised", "crashed", "power_lost"}
Pcs == {"backup", "staging", "prepare", "preactivation", "precheck", "loop",
        "barrier", "recover", "report"} \cup Publishing \cup Inside \cup Ended

(* What the file f may hold before, and must hold after, the step of the    *)
(* current mode: recovery is the activation with its two ends exchanged.    *)
From(f) == IF mode = "activate" THEN Baseline(f) ELSE Intended(f)
Want(f) == IF mode = "activate" THEN Intended(f) ELSE Baseline(f)

(* Mutant: the catalog and the removals do not wait for the documents.       *)
NextFilesUnordered == todo

(* The three groups of a plan: documents written while the old catalog      *)
(* rules, the catalog, documents removed once the new catalog rules.        *)
Writes(m) == (IF m = "activate" THEN Changed \cup Introduced
              ELSE Changed \cup Removed \cup Kept) \ {Catalog}
CatalogStep(m) == IF m = "activate" THEN {Catalog} \cap Changed ELSE {Catalog}
Removals(m) == IF m = "activate" THEN Removed ELSE Introduced
Steps(m) == Writes(m) \cup CatalogStep(m) \cup Removals(m)

NextFiles ==
    IF todo \cap Writes(mode) # {} THEN todo \cap Writes(mode)
    ELSE IF Catalog \in todo THEN {Catalog}
    ELSE todo

(* The phase each publication proposes, and the step that follows it.       *)
PhaseOf(p) == CASE p = "require" -> "recovery_required"
                [] p = "begin_recovery" -> "recovery_in_progress"
                [] p = "recovered" -> "recovered"
                [] p = "incomplete" -> "recovery_incomplete"
                [] p = "complete" -> "completed"
NextOf(p) == CASE p = "require" -> "begin_recovery"
               [] p = "begin_recovery" -> "recover"
               [] OTHER -> "report"

Init ==
    /\ media = [f \in Files |-> Baseline(f)]
    /\ temp = None /\ manifest = None /\ synced = None
    /\ leftover = FALSE /\ report = None
    /\ pc = "backup" /\ mode = "activate" /\ todo = Steps("activate")
    /\ cur = None /\ held = FALSE /\ rollback = None /\ artifact = None
    /\ again = FALSE /\ faults = <<>> /\ wrote = {}

-----------------------------------------------------------------------------
Fault == Len(faults) < MaxFaults /\ faults' = Append(faults, pc)

(* A failure inside the workflow: before the manifest says that a mutation  *)
(* started it is reported, after that it leads to recovery, and a failure   *)
(* of the recovery is recorded as an incomplete recovery.                   *)
Abandon(a) ==
    /\ pc' = IF mode = "recover" THEN "incomplete"
             ELSE IF rollback = "prepared" THEN "report"
             ELSE IF rollback = None THEN "raised" ELSE "require"
    /\ artifact' = a

(* A check of the target, the backup or the staging tree, or a call on the  *)
(* medium that leaves it as it was, fails.                                  *)
StepFails ==
    /\ pc \in {"backup", "staging", "preactivation", "precheck", "loop",
               "recover", "open", "truncate", "verify", "stepped",
               "displace", "move", "displaced"}
    /\ Fault
    /\ IF pc = "recover" THEN pc' = "incomplete" /\ artifact' = None
       ELSE Abandon(None)
    /\ UNCHANGED <<disk, host, work, rollback, again, wrote>>

(* The whole tree is copied to the host and read back.                      *)
Backup ==
    /\ pc = "backup"
    /\ pc' = IF \A f \in Files : media[f] = Baseline(f)
             THEN "staging" ELSE "raised"
    /\ UNCHANGED <<disk, host, work, rollback, artifact, again, faults, wrote>>

Staging ==
    /\ pc = "staging"
    /\ pc' = "prepare"
    /\ UNCHANGED <<disk, host, work, rollback, artifact, again, faults, wrote>>

(* The three ways a guarded replace of the manifest can go: durable; visible *)
(* but with the directory not synchronized; not replaced, with or without    *)
(* the temporary file left behind (which then refuses every later attempt).  *)
Published(p) ==
    /\ ~leftover
    /\ manifest' = p /\ synced' = p
    /\ UNCHANGED <<leftover, faults>>
Unsynchronized(p) ==
    /\ ~leftover /\ Fault
    /\ manifest' = p
    /\ UNCHANGED <<synced, leftover>>
NotReplaced ==
    /\ UNCHANGED <<manifest, synced>>
    /\ \/ ~leftover /\ Fault /\ leftover' \in BOOLEAN
       \/ leftover /\ UNCHANGED <<leftover, faults>>

(* A raised PREPARED writer ends the run even when its bytes are visible.   *)
PublishPrepared ==
    /\ pc = "prepare"
    /\ \/ Published("prepared") /\ rollback' = "prepared"
          /\ pc' = "preactivation"
       \/ (Unsynchronized("prepared") \/ NotReplaced) /\ pc' = "raised"
          /\ UNCHANGED rollback
    /\ UNCHANGED <<disk, report, work, artifact, again, wrote>>

(* The complete tree is still the baseline: once before the activation and  *)
(* once more inside it.                                                     *)
Verify(here, next) ==
    /\ pc = here
    /\ IF \A f \in Files : media[f] = Baseline(f)
       THEN pc' = next /\ UNCHANGED artifact ELSE Abandon(None)
    /\ UNCHANGED <<disk, host, work, rollback, again, faults, wrote>>
Preactivation == Verify("preactivation", "precheck")
Precheck == Verify("precheck", "loop")

-----------------------------------------------------------------------------
(* The next file of the plan. No step of the activation, and no removal of  *)
(* the recovery, begins while the bounded temporary file exists. The first  *)
(* step of the activation goes through the barrier.                         *)
Begin(f) ==
    /\ pc = "loop" /\ f \in NextFiles
    /\ \/ f \notin Removals(mode)
       \/ artifact = None
    /\ IF temp # None /\ (mode = "activate" \/ f \in Removals(mode))
       THEN Abandon(None) /\ UNCHANGED cur
       ELSE /\ pc' = IF mode = "activate" /\ rollback = "prepared"
                     THEN "barrier"
                     ELSE IF f \in Removals(mode) THEN "displace" ELSE "open"
            /\ cur' = f
            /\ UNCHANGED artifact
    /\ UNCHANGED <<disk, host, mode, todo, held, rollback, again, faults,
                   wrote>>

(* Mutant: a phase that became visible is taken as published, as the other  *)
(* transitions take it.                                                      *)
BarrierTrustsVisible ==
    /\ pc = "barrier"
    /\ \/ /\ Published("mutation_started")
          /\ rollback' = "mutation_started"
          /\ pc' = IF cur \in Removals(mode) THEN "displace" ELSE "open"
       \/ /\ Unsynchronized("mutation_started")
          /\ rollback' = "mutation_started"
          /\ pc' = IF cur \in Removals(mode) THEN "displace" ELSE "open"
       \/ /\ NotReplaced
          /\ pc' = "report"
          /\ UNCHANGED rollback
    /\ UNCHANGED <<disk, report, work, artifact, again, wrote>>

(* The barrier: MUTATION_STARTED is published and the directory synchronized *)
(* before the first change. When its writer raises, nothing is changed, even *)
(* if the phase became visible: then the outer workflow recovers. When the   *)
(* outcome cannot be read back the run ends without a report.                *)
Barrier ==
    /\ pc = "barrier"
    /\ \/ /\ Published("mutation_started")
          /\ rollback' = "mutation_started"
          /\ pc' = IF cur \in Removals(mode) THEN "displace" ELSE "open"
       \/ /\ Unsynchronized("mutation_started")
          /\ rollback' = "mutation_started"
          /\ pc' = "require"
       \/ /\ NotReplaced
          /\ pc' = "report"
          /\ UNCHANGED rollback
    /\ UNCHANGED <<disk, report, work, artifact, again, wrote>>

(* The manifest cannot be read back after its writer failed: two failures.  *)
ReconciliationFails ==
    /\ pc \in {"prepare", "barrier"} \cup Publishing
    /\ ~leftover /\ Len(faults) + 2 <= MaxFaults
    /\ faults' = faults \o <<pc, pc>>
    /\ manifest' \in {manifest,
                      CASE pc = "prepare" -> "prepared"
                        [] pc = "barrier" -> "mutation_started"
                        [] OTHER -> PhaseOf(pc)}
    /\ pc' = "raised"
    /\ UNCHANGED <<disk, synced, leftover, report, work, rollback, artifact,
                   again, wrote>>

(* Mutant: whatever the file holds is replaced.                              *)
OpenBlindly ==
    /\ pc = "open"
    /\ \/ media[cur] = Want(cur)
          /\ pc' = "stepped" /\ UNCHANGED <<media, held, artifact>>
       \/ /\ media[cur] \notin {Want(cur), "absent"}
          /\ pc' = "truncate" /\ held' = TRUE /\ UNCHANGED <<media, artifact>>
       \/ /\ media[cur] = From(cur) /\ media[cur] = "absent"
          /\ media' = [media EXCEPT ![cur] = "torn"]
          /\ pc' = "write" /\ held' = TRUE /\ UNCHANGED artifact
       \/ /\ media[cur] = "absent" /\ media[cur] \notin {From(cur), Want(cur)}
          /\ Abandon(None) /\ UNCHANGED <<media, held>>
    /\ UNCHANGED <<temp, host, mode, todo, cur, rollback, again, faults, wrote>>

(* The guarded exact-state write: the file must hold what this operation     *)
(* knows of it. It is opened without truncation, verified through the        *)
(* descriptor, rewritten in place, and read back under its name.             *)
Open ==
    /\ pc = "open"
    /\ \/ media[cur] = Want(cur)
          /\ pc' = "stepped" /\ UNCHANGED <<media, held, artifact>>
       \/ /\ media[cur] = From(cur) /\ media[cur] \notin {Want(cur), "absent"}
          /\ pc' = "truncate" /\ held' = TRUE /\ UNCHANGED <<media, artifact>>
       \/ /\ media[cur] = From(cur) /\ media[cur] = "absent"
          /\ media' = [media EXCEPT ![cur] = "torn"]
          /\ pc' = "write" /\ held' = TRUE /\ UNCHANGED artifact
       \/ /\ media[cur] \notin {From(cur), Want(cur)}
          /\ Abandon(None) /\ UNCHANGED <<media, held>>
    /\ UNCHANGED <<temp, host, mode, todo, cur, rollback, again, faults, wrote>>

(* Writes through the descriptor reach the named file only while it is held. *)
Through(content) ==
    media' = IF held THEN [media EXCEPT ![cur] = content] ELSE media

Truncate ==
    /\ pc = "truncate"
    /\ Through("torn")
    /\ pc' = "write"
    /\ UNCHANGED <<temp, host, work, rollback, artifact, again, faults, wrote>>

Write ==
    /\ pc = "write"
    /\ \/ Through(Want(cur)) /\ pc' = "verify" /\ UNCHANGED <<artifact, faults>>
       \/ Fault /\ Abandon(None) /\ (Through("torn") \/ Through(Want(cur)))
    /\ UNCHANGED <<temp, host, work, rollback, again, wrote>>

Readback ==
    /\ pc = "verify"
    /\ IF held /\ media[cur] = Want(cur)
       THEN pc' = "stepped" /\ UNCHANGED artifact ELSE Abandon(None)
    /\ UNCHANGED <<disk, host, work, rollback, again, faults, wrote>>

(* A document that only the other snapshot has is moved to the temporary     *)
(* name, read back there, and unlinked.                                      *)
Displace ==
    /\ pc = "displace"
    /\ IF media[cur] = From(cur) THEN pc' = "move" /\ UNCHANGED artifact
       ELSE IF media[cur] = "absent" /\ mode = "recover"
            THEN pc' = "stepped" /\ UNCHANGED artifact
       ELSE Abandon(None)
    /\ UNCHANGED <<disk, host, work, rollback, again, faults, wrote>>

Move ==
    /\ pc = "move"
    /\ temp' = <<cur, media[cur]>>
    /\ media' = [media EXCEPT ![cur] = "absent"]
    /\ pc' = "displaced"
    /\ UNCHANGED <<host, work, rollback, artifact, again, faults, wrote>>

Displaced ==
    /\ pc = "displaced"
    /\ IF temp[2] = From(cur)
       THEN IF mode = "recover" /\ media[cur] # "absent"
            THEN Abandon(None)
            ELSE pc' = "unlink" /\ UNCHANGED artifact
       ELSE IF media[cur] = "absent" THEN pc' = "put_back" /\ UNCHANGED artifact
            ELSE Abandon(None)
    /\ UNCHANGED <<disk, host, work, rollback, again, faults, wrote>>

(* What was displaced is not what was verified. The activation renames it    *)
(* back over the name it found free; the recovery recreates it only if the   *)
(* name is still free, and leaves the temporary file. Either is best effort. *)
PutBack ==
    /\ pc = "put_back"
    /\ IF mode = "activate"
       THEN \/ temp' = None /\ media' = [media EXCEPT ![cur] = temp[2]]
               /\ UNCHANGED faults
            \/ Fault /\ UNCHANGED disk
       ELSE /\ UNCHANGED temp
            /\ IF media[cur] # "absent" THEN UNCHANGED <<media, faults>>
               ELSE \/ media' = [media EXCEPT ![cur] = temp[2]]
                       /\ UNCHANGED faults
                    \/ Fault /\ \/ UNCHANGED media
                                \/ media' = [media EXCEPT ![cur] = "torn"]
    /\ Abandon(None)
    /\ UNCHANGED <<host, work, rollback, again, wrote>>

(* Mutant: the provenance of the displaced document is not carried over.    *)
UnlinkForgetsProvenance ==
    /\ pc = "unlink"
    /\ \/ temp' = None /\ UNCHANGED faults
          /\ IF mode = "recover" /\ media[cur] # "absent" THEN Abandon(None)
             ELSE pc' = "stepped" /\ UNCHANGED artifact
       \/ Fault /\ UNCHANGED temp
          /\ IF mode = "activate" THEN Abandon(None)
             ELSE pc' = "unlink_again" /\ UNCHANGED artifact
    /\ UNCHANGED <<media, host, work, rollback, again, wrote>>

(* Mutant: the recovery, too, hands a document on instead of retrying.       *)
UnlinkNeverRetries ==
    /\ pc = "unlink"
    /\ \/ temp' = None /\ UNCHANGED faults
          /\ IF mode = "recover" /\ media[cur] # "absent" THEN Abandon(None)
             ELSE pc' = "stepped" /\ UNCHANGED artifact
       \/ Fault /\ UNCHANGED temp
          /\ Abandon(cur)
    /\ UNCHANGED <<media, host, work, rollback, again, wrote>>

(* A failed unlink hands the displaced document on with its provenance: the  *)
(* activation to the recovery, the recovery to one second attempt.           *)
Unlink ==
    /\ pc = "unlink"
    /\ \/ temp' = None /\ UNCHANGED faults
          /\ IF mode = "recover" /\ media[cur] # "absent" THEN Abandon(None)
             ELSE pc' = "stepped" /\ UNCHANGED artifact
       \/ Fault /\ UNCHANGED temp
          /\ IF mode = "activate" THEN Abandon(cur)
             ELSE pc' = "unlink_again" /\ UNCHANGED artifact
    /\ UNCHANGED <<media, host, work, rollback, again, wrote>>

UnlinkAgain ==
    /\ pc = "unlink_again"
    /\ \/ media[cur] = "absent" /\ temp' = None
          /\ pc' = "stepped" /\ UNCHANGED <<artifact, faults>>
       \/ media[cur] # "absent" /\ Abandon(None) /\ UNCHANGED <<temp, faults>>
       \/ Fault /\ Abandon(None) /\ UNCHANGED temp
    /\ UNCHANGED <<media, host, work, rollback, again, wrote>>

Stepped ==
    /\ pc = "stepped"
    /\ todo' = todo \ {cur} /\ pc' = "loop"
    /\ UNCHANGED <<disk, host, mode, cur, held, rollback, artifact, again,
                   faults, wrote>>

(* All files done: two exact readbacks, and no temporary file.               *)
FinalReadback ==
    /\ pc = "loop" /\ todo = {} /\ artifact = None
    /\ IF temp = None /\ \A f \in Files : media[f] = Want(f)
       THEN /\ pc' = IF mode = "activate" THEN "complete" ELSE "recovered"
            /\ UNCHANGED artifact
       ELSE Abandon(None)
    /\ UNCHANGED <<disk, host, work, rollback, again, faults, wrote>>

-----------------------------------------------------------------------------
(* The artifact is observed before three of the transitions; when that       *)
(* fails the run ends with the phase as it is.                               *)
ObservationFails ==
    /\ pc \in {"require", "begin_recovery", "incomplete"} /\ ~again
    /\ Fault
    /\ pc' = "raised"
    /\ UNCHANGED <<disk, host, work, rollback, artifact, again, wrote>>

(* After the first change one transition is tried twice, and a phase that    *)
(* became visible is taken as published.                                     *)
PublishTransition ==
    /\ pc \in Publishing
    /\ \/ /\ Published(PhaseOf(pc)) \/ Unsynchronized(PhaseOf(pc))
          /\ rollback' = PhaseOf(pc) /\ again' = FALSE /\ pc' = NextOf(pc)
       \/ /\ NotReplaced
          /\ again' = ~again /\ pc' = IF again THEN "raised" ELSE pc
          /\ UNCHANGED rollback
    /\ UNCHANGED <<disk, report, work, artifact, wrote>>

(* Recovery starts from a medium without a temporary file, or with the one   *)
(* document whose provenance the activation handed over.                     *)
Recover ==
    /\ pc = "recover"
    /\ IF temp = IF artifact = None THEN None ELSE <<artifact, "baseline">>
       THEN /\ mode' = "recover" /\ todo' = Steps("recover")
            /\ pc' = "loop"
            /\ UNCHANGED artifact
       ELSE /\ pc' = "incomplete" /\ artifact' = None
            /\ UNCHANGED <<mode, todo>>
    /\ UNCHANGED <<disk, host, cur, held, rollback, again, faults, wrote>>

(* With every baseline file restored, the displaced document is deleted.     *)
CleanArtifact ==
    /\ pc = "loop" /\ mode = "recover" /\ artifact # None
    /\ todo \subseteq Removals("recover")
    /\ \/ media[artifact] = "baseline" /\ temp' = None /\ artifact' = None
          /\ UNCHANGED <<pc, faults>>
       \/ media[artifact] # "baseline" /\ Abandon(None)
          /\ UNCHANGED <<temp, faults>>
       \/ Fault /\ Abandon(None) /\ UNCHANGED temp
    /\ UNCHANGED <<media, host, work, rollback, again, wrote>>

(* Mutant: a report that was not written is returned all the same.           *)
PublishReportBlindly ==
    /\ pc = "report"
    /\ \/ /\ report' = rollback
          /\ pc' = IF rollback = "completed" THEN "done" ELSE "failed"
          /\ \/ synced' = manifest /\ UNCHANGED faults
             \/ Fault /\ UNCHANGED synced
       \/ Fault /\ pc' = (IF rollback = "completed" THEN "done" ELSE "failed")
          /\ UNCHANGED <<report, synced>>
    /\ UNCHANGED <<disk, manifest, leftover, work, rollback, artifact, again,
                   wrote>>

(* One terminal report, bound to the phase of the manifest; a report that    *)
(* became visible is taken as published. Synchronizing its directory also    *)
(* settles the manifest's last replacement.                                  *)
PublishReport ==
    /\ pc = "report"
    /\ \/ /\ report' = rollback
          /\ pc' = IF rollback = "completed" THEN "done" ELSE "failed"
          /\ \/ synced' = manifest /\ UNCHANGED faults
             \/ Fault /\ UNCHANGED synced
       \/ Fault /\ pc' = "raised" /\ UNCHANGED <<report, synced>>
    /\ UNCHANGED <<disk, manifest, leftover, work, rollback, artifact, again,
                   wrote>>

-----------------------------------------------------------------------------
(* The process dies: what it wrote stays, what it knew is gone.              *)
Crash ==
    /\ pc \notin Ended
    /\ pc' = "crashed"
    /\ UNCHANGED <<disk, host, work, rollback, artifact, again, faults, wrote>>

(* The host loses power: an unsynchronized replacement of the manifest may   *)
(* be undone. The medium is left at its worst, with every change kept.       *)
PowerLoss ==
    /\ pc # "power_lost"
    /\ pc' = "power_lost"
    /\ manifest' \in {manifest, synced} /\ synced' = manifest'
    /\ report' \in {report, None}
    /\ UNCHANGED <<disk, leftover, work, rollback, artifact, again, faults,
                   wrote>>

(* Another program puts a file of its own in the place of a managed one.     *)
OtherWriter(w, f) ==
    /\ pc \notin Ended /\ w \notin wrote /\ media[f] \notin Writers
    /\ media' = [media EXCEPT ![f] = w]
    /\ held' = (held /\ cur # f)
    /\ wrote' = wrote \cup {w}
    /\ UNCHANGED <<temp, host, pc, mode, todo, cur, rollback, artifact, again,
                   faults>>

Stopped == pc = "power_lost" /\ UNCHANGED vars

Next ==
    \/ Backup \/ Staging \/ PublishPrepared \/ Preactivation \/ Precheck
    \/ (\E f \in Files : Begin(f)) \/ Barrier \/ ReconciliationFails
    \/ Open \/ Truncate \/ Write \/ Readback
    \/ Displace \/ Move \/ Displaced \/ PutBack \/ Unlink \/ UnlinkAgain
    \/ Stepped \/ FinalReadback \/ StepFails
    \/ ObservationFails \/ PublishTransition \/ Recover \/ CleanArtifact
    \/ PublishReport
    \/ Crash \/ PowerLoss \/ (\E w \in Writers, f \in Files : OtherWriter(w, f))
    \/ Stopped

Spec == Init /\ [][Next]_vars

-----------------------------------------------------------------------------
(* Every variable has its type, a displaced document carried to the recovery *)
(* is one the plan removes, and only a step on a file runs without one.      *)
TypeOK ==
    /\ media \in [Files -> Contents]
    /\ temp \in {None} \cup (Files \X Contents)
    /\ manifest \in Phases \cup {None} /\ synced \in Phases \cup {None}
    /\ leftover \in BOOLEAN /\ report \in Phases \cup {None}
    /\ pc \in Pcs /\ mode \in {"activate", "recover"} /\ todo \subseteq Files
    /\ cur \in Files \cup {None} /\ (pc \in Inside => cur # None)
    /\ (pc \in {"displaced", "put_back", "unlink", "unlink_again"} => temp # None)
    /\ held \in BOOLEAN /\ rollback \in Phases \cup {None}
    /\ artifact \in Removed \cup {None}
    /\ again \in BOOLEAN /\ faults \in Seq(Pcs) /\ Len(faults) <= MaxFaults
    /\ wrote \subseteq Writers

(* The operation has left no trace on the medium: other writers' files apart *)
(* it is the baseline.                                                       *)
Untouched == temp = None /\ \A f \in Files : media[f] \in {Baseline(f)} \cup Writers

(* The medium never differs from the baseline through this operation unless  *)
(* the phase that survives a loss of power says that a mutation started: a   *)
(* host that comes back always knows that the backup is needed.              *)
MutationRecorded == Untouched \/ synced \notin {None, "prepared"}

(* The verdicts are true of the medium: COMPLETED means every managed file   *)
(* is the intended one, RECOVERED that every one is the baseline, nothing is *)
(* left displaced, and what the caller is told is what the report and the    *)
(* manifest say. (After a loss of power the medium's own cache decides.)     *)
VerdictIsTrue ==
    /\ pc # "power_lost" =>
         /\ manifest = "completed" =>
              temp = None /\ \A f \in Files : media[f] \in {Intended(f)} \cup Writers
         /\ manifest = "recovered" => Untouched
         /\ report # None => report = manifest
    /\ pc = "done" => report = "completed"

(* Whichever catalog is whole on the medium, the documents it stands for are *)
(* all there, at every moment and so after every crash: documents are        *)
(* written before the catalog and removed after it, in both directions.      *)
CatalogResolves ==
    (Catalog \in Changed /\ pc # "power_lost") =>
        /\ media[Catalog] = "baseline" =>
             \A f \in Files : Baseline(f) # "absent" => media[f] # "absent"
        /\ media[Catalog] = "intended" =>
             \A f \in Files : Intended(f) # "absent" => media[f] # "absent"

(* Another program's file survives: it keeps its name or is parked under the *)
(* bounded temporary name. The one exception is the activation's put-back,   *)
(* which renames over a name it found free without holding it.               *)
Survives(w) == (\E f \in Files : media[f] = w) \/ (temp # None /\ temp[2] = w)
ForeignKept ==
    [][pc # "put_back" => \A w \in Writers : Survives(w) => Survives(w)']_vars

(* One failure alone, with nobody else writing, never leaves the medium half *)
(* way: it ends as the whole intended or the whole baseline tree. Two places *)
(* are excepted, where the code leaves the recovery incomplete: a rewrite    *)
(* that stops inside a file, and a displaced document that cannot be read    *)
(* back.                                                                     *)
OneFaultIsUndone ==
    (/\ pc \in {"done", "failed", "raised"} /\ wrote = {} /\ Len(faults) <= 1
     /\ \A i \in DOMAIN faults : faults[i] \notin {"write", "displaced"}) =>
        /\ temp = None
        /\ \/ \A f \in Files : media[f] = Baseline(f)
           \/ \A f \in Files : media[f] = Intended(f)
=============================================================================
