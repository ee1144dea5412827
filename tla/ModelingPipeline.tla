--------------------------- MODULE ModelingPipeline --------------------------
(***************************************************************************)
(* internal/modeling's transaction boundary for one project: Pipeline's    *)
(* Advance and Reset, run by concurrent callers, over FileProjectStore     *)
(* (one JSON file and the in-memory index) and FileArtifactStore (staging  *)
(* directories, committed files, manifest).                                *)
(*                                                                         *)
(* One step is what happens between two points where another goroutine or  *)
(* a crash can intervene: a locked Save, one file written, one rename, one *)
(* manifest append, one RemoveAll.  Projects share neither files nor       *)
(* records, so one project is modelled; ids, listing and capacity are left *)
(* to the store's own module.                                              *)
(***************************************************************************)
EXTENDS ModelingProject, FiniteSets

CONSTANTS
    Workers,      \* goroutines inside Advance or Reset
    MaxFiles,     \* MaxProjectBytes, with every artifact one unit
    MaxBatch,     \* bound: most drafts one stage run returns
    MaxRevision,  \* bound: no new work starts near this revision
    MaxCrashes,   \* bound: process deaths in one behaviour
    Faults,       \* which of AllFaults may happen
    NoProject     \* "not in the index" and "no working copy"

AllFaults == {"crash", "cancel", "artifact_io", "project_io"}

ASSUME PipelineAssumption ==
    /\ MaxFiles \in Nat /\ MaxBatch \in Nat
    /\ MaxRevision \in Nat /\ MaxCrashes \in Nat
    /\ Faults \subseteq AllFaults
    /\ NoProject \notin Project

VARIABLES
    disk,      \* <root>/projects/<id>.json
    index,     \* FileProjectStore.byID[id]; NoProject while the process is down
    files,     \* <root>/artifacts/<id>/<stage>/<artifactID>-<name>
    staging,   \* files under <root>/artifacts/<id>/staging/<batch>/
    manifest,  \* lines of manifest.jsonl
    worker,    \* what each goroutine is doing
    crashes    \* how often the process has died

vars == <<disk, index, files, staging, manifest, worker, crashes>>

\* A batch belongs to one run, and a run is named by the revision its Begin
\* saved: newBatchID's random ids are as unique as that.
BatchFile == [batch: Nat, ref: Ref]

\* Where a goroutine stands.  The run phases are those between a Begin that was
\* saved and the end of Advance.
RunPhase == {"running", "staging", "writing", "committing", "appending",
             "cleaning", "discarding", "saving", "failing"}
Phase == {"idle", "loaded", "resetting"} \union RunPhase

Worker ==
    [phase: Phase,
     stage: Stage,
     working: Project \union {NoProject},  \* Advance's working copy
     drafts: SUBSET Ref,                   \* the batch, then the refs to record
     left: SUBSET Ref,                     \* of the batch, still to write or rename
     failing: BOOLEAN,                     \* inside fail(), on WithoutCancel
     blocked: BOOLEAN,                     \* StageOutput.Blocked
     cancelled: BOOLEAN]                   \* the caller's ctx is done

IdleWorker ==
    [phase |-> "idle", stage |-> FirstStage, working |-> NoProject,
     drafts |-> {}, left |-> {}, failing |-> FALSE, blocked |-> FALSE,
     cancelled |-> FALSE]

Up == index # NoProject
Fault(f) == f \in Faults
At(w, phase) == worker[w].phase = phase
InRun(w) == worker[w].phase \in RunPhase
BatchOf(w) == worker[w].working.revision

\* Mutant of CtxDone: fail() writes on the caller's own ctx.
CtxDoneEverywhere(w) == worker[w].cancelled

\* fail() runs on context.WithoutCancel, everything else on the caller's ctx.
CtxDone(w) == worker[w].cancelled /\ ~worker[w].failing

Become(w, changes) == worker' = [worker EXCEPT ![w] = changes]
GoTo(w, phase) == Become(w, [worker[w] EXCEPT !.phase = phase])
Return(w) == Become(w, IdleWorker)

\* fail(): the failure that ends the run, keeping this evidence if any.
FailWithout(w) ==
    Become(w, [worker[w] EXCEPT !.phase = "failing", !.failing = TRUE,
                                !.drafts = {}, !.left = {}])

(***************************************************************************)
(* FileProjectStore.Save: check ctx and revision, write the file, then the *)
(* index, all under the lock.  A write that fails touches neither.         *)
(***************************************************************************)
\* Mutant of CanSave: the revision is not compared.
CanSaveAnyRevision(w, p) == Up /\ ~CtxDone(w)

CanSave(w, p) == Up /\ ~CtxDone(w) /\ CanReplaceFrom(p, index)

StoreSaved(p) == disk' = p /\ index' = p

\* Mutant of SaveRefused: the index moves although the file was not written.
SaveRefusedLate(w, p) ==
    /\ UNCHANGED disk
    /\ \/ CanSave(w, p) /\ Fault("project_io") /\ index' = p
       \/ ~CanSave(w, p) /\ UNCHANGED index

\* Save returned an error: canceled, conflict, or the file was not written.
SaveRefused(w, p) ==
    /\ \/ ~CanSave(w, p)
       \/ Fault("project_io")
    /\ UNCHANGED <<disk, index>>

(***************************************************************************)
(* Reset: Get and Save are two steps, so a stage run may save in between.  *)
(***************************************************************************)
ResetGet(w, s) ==
    /\ Up /\ At(w, "idle")
    /\ index.revision < MaxRevision
    /\ Become(w, [IdleWorker EXCEPT !.phase = "resetting", !.stage = s,
                                    !.working = index])
    /\ UNCHANGED <<disk, index, files, staging, manifest, crashes>>

ResetResult(w) == Bump(Reset(worker[w].working, worker[w].stage))

ResetSave(w) ==
    /\ At(w, "resetting")
    /\ \/ CanSave(w, ResetResult(w)) /\ StoreSaved(ResetResult(w))
       \/ SaveRefused(w, ResetResult(w))
    /\ Return(w)
    /\ UNCHANGED <<files, staging, manifest, crashes>>

(***************************************************************************)
(* Advance, steps 1-3: load, check the transition, persist "running".      *)
(***************************************************************************)
Load(w, s) ==
    /\ Up /\ At(w, "idle")
    /\ CanAdvance(index, s)
    /\ index.revision + 2 <= MaxRevision
    /\ Become(w, [IdleWorker EXCEPT !.phase = "loaded", !.stage = s,
                                    !.working = index])
    /\ UNCHANGED <<disk, index, files, staging, manifest, crashes>>

BeginResult(w) == Bump(Begin(worker[w].working, worker[w].stage))

SaveBegin(w) ==
    /\ At(w, "loaded")
    /\ \/ /\ CanSave(w, BeginResult(w))
          /\ StoreSaved(BeginResult(w))
          /\ Become(w, [worker[w] EXCEPT !.phase = "running",
                                         !.working = BeginResult(w)])
       \/ SaveRefused(w, BeginResult(w)) /\ Return(w)
    /\ UNCHANGED <<files, staging, manifest, crashes>>

(***************************************************************************)
(* Step 6: the stage.  It may answer anything, and it may answer an error  *)
(* with evidence; a timeout or a canceled ctx is one of those errors, and  *)
(* a stage that is already finished may still answer after a cancel.       *)
(***************************************************************************)
Outputs(s) == {refs \in SUBSET RefsOf(s) : Cardinality(refs) <= MaxBatch}

StageReturns(w) ==
    /\ At(w, "running")
    /\ \E drafts \in Outputs(worker[w].stage), blocked \in BOOLEAN :
        Become(w, [worker[w] EXCEPT
            !.phase = IF drafts = {} THEN "saving" ELSE "staging",
            !.drafts = drafts, !.left = drafts, !.blocked = blocked])
    /\ UNCHANGED <<disk, index, files, staging, manifest, crashes>>

StageFails(w) ==
    /\ At(w, "running")
    /\ \E evidence \in Outputs(worker[w].stage) :
        /\ evidence = EvidenceIn(evidence)
        /\ Become(w, [worker[w] EXCEPT
            !.phase = IF evidence = {} THEN "failing" ELSE "staging",
            !.failing = TRUE, !.drafts = evidence, !.left = evidence])
    /\ UNCHANGED <<disk, index, files, staging, manifest, crashes>>

(***************************************************************************)
(* Step 8, FileArtifactStore.Stage: measure what the project occupies,     *)
(* then write the drafts one by one.  Nothing is locked between the two.   *)
(***************************************************************************)
Used == Cardinality(files) + Cardinality(staging)
\* Mutant of FitsBudget: what other batches have staged is not counted.
FitsBudgetCommitted(drafts) == Cardinality(files) + Cardinality(drafts) <= MaxFiles

FitsBudget(drafts) == Used + Cardinality(drafts) <= MaxFiles

\* Mutant of StageRejected: Advance returns without recording the failure.
StageRejectedSilently(w) ==
    /\ At(w, "staging")
    /\ Return(w)
    /\ UNCHANGED <<disk, index, files, staging, manifest, crashes>>

\* ctx.Err, a draft that does not validate, or a batch over the budget: nothing
\* has been written.  (Any draft may be one that does not validate.)
StageRejected(w) ==
    /\ At(w, "staging")
    /\ FailWithout(w)
    /\ UNCHANGED <<disk, index, files, staging, manifest, crashes>>

StageMeasured(w) ==
    /\ At(w, "staging")
    /\ ~CtxDone(w) /\ FitsBudget(worker[w].drafts)
    /\ GoTo(w, "writing")
    /\ UNCHANGED <<disk, index, files, staging, manifest, crashes>>

WriteDraft(w, r) ==
    /\ At(w, "writing") /\ r \in worker[w].left
    /\ staging' = staging \union {[batch |-> BatchOf(w), ref |-> r]}
    /\ LET left == worker[w].left \ {r}
       IN  Become(w, IF left # {} THEN [worker[w] EXCEPT !.left = left]
                     ELSE [worker[w] EXCEPT !.phase = "committing",
                                            !.left = worker[w].drafts])
    /\ UNCHANGED <<disk, index, files, manifest, crashes>>

\* Stage gives up in the middle and removes nothing.
WriteFails(w) ==
    /\ At(w, "writing") /\ Fault("artifact_io")
    /\ FailWithout(w)
    /\ UNCHANGED <<disk, index, files, staging, manifest, crashes>>

(***************************************************************************)
(* Step 9, Commit: rename each file unless it is committed already, append *)
(* the manifest, remove the staging directory.                             *)
(***************************************************************************)
BatchFiles(w) == {f \in staging : f.batch = BatchOf(w)}

\* ctx is checked once, on entry.
CommitEntered(w) == worker[w].left # worker[w].drafts

\* Mutant of CommitFile: the manifest is appended after the first rename.
CommitOneFile(w, r) ==
    /\ At(w, "committing") /\ r \in worker[w].left
    /\ files' = files \union {r}
    /\ staging' = staging \ {[batch |-> BatchOf(w), ref |-> r]}
    /\ Become(w, [worker[w] EXCEPT !.left = {}, !.phase = "appending"])
    /\ UNCHANGED <<disk, index, manifest, crashes>>

CommitFile(w, r) ==
    /\ At(w, "committing") /\ r \in worker[w].left
    /\ CtxDone(w) => CommitEntered(w)
    /\ IF r \in files
       THEN UNCHANGED <<files, staging>>
       ELSE /\ files' = files \union {r}
            /\ staging' = staging \ {[batch |-> BatchOf(w), ref |-> r]}
    /\ LET left == worker[w].left \ {r}
       IN  Become(w, [worker[w] EXCEPT
            !.left = left, !.phase = IF left = {} THEN "appending" ELSE @])
    /\ UNCHANGED <<disk, index, manifest, crashes>>

AppendManifest(w) ==
    /\ At(w, "appending")
    /\ manifest' = manifest
         \union {[batch |-> BatchOf(w), ref |-> r] : r \in worker[w].drafts}
    /\ GoTo(w, "cleaning")
    /\ UNCHANGED <<disk, index, files, staging, crashes>>

CleanStaging(w) ==
    /\ At(w, "cleaning")
    /\ staging' = staging \ BatchFiles(w)
    /\ GoTo(w, IF worker[w].failing THEN "failing" ELSE "saving")
    /\ UNCHANGED <<disk, index, files, manifest, crashes>>

\* Mutant of CommitFails: the error is dropped and the batch recorded anyway.
CommitErrorDropped(w) ==
    /\ worker[w].phase \in {"committing", "appending", "cleaning"}
    /\ Fault("artifact_io")
    /\ GoTo(w, IF worker[w].failing THEN "failing" ELSE "saving")
    /\ UNCHANGED <<disk, index, files, staging, manifest, crashes>>

CommitFails(w) ==
    /\ \/ At(w, "committing") /\ CtxDone(w) /\ ~CommitEntered(w)
       \/ /\ worker[w].phase \in {"committing", "appending", "cleaning"}
          /\ Fault("artifact_io")
    /\ GoTo(w, "discarding")
    /\ UNCHANGED <<disk, index, files, staging, manifest, crashes>>

\* persist and persistEvidence discard the batch on the ctx they were given; a
\* discard that fails is logged.
Discard(w) ==
    /\ At(w, "discarding")
    /\ \/ ~CtxDone(w) /\ staging' = staging \ BatchFiles(w)
       \/ (CtxDone(w) \/ Fault("artifact_io")) /\ UNCHANGED staging
    /\ FailWithout(w)
    /\ UNCHANGED <<disk, index, files, manifest, crashes>>

(***************************************************************************)
(* Steps 10-11 and fail()'s state write.  Either way Advance then returns; *)
(* a Save that is refused here is an error reply and nothing else.         *)
(***************************************************************************)
RunResult(w) ==
    LET wk == worker[w]
        from == InputsBefore(wk.working, wk.stage)
    IN  Bump(IF wk.blocked THEN Hold(wk.working, wk.stage, wk.drafts, from)
             ELSE Complete(wk.working, wk.stage, wk.drafts, from))

SaveResult(w) ==
    /\ At(w, "saving")
    /\ \/ CanSave(w, RunResult(w)) /\ StoreSaved(RunResult(w))
       \/ SaveRefused(w, RunResult(w))
    /\ Return(w)
    /\ UNCHANGED <<files, staging, manifest, crashes>>

FailResult(w) ==
    Bump(FailWith(worker[w].working, worker[w].stage, worker[w].drafts))

SaveFailure(w) ==
    /\ At(w, "failing")
    /\ \/ CanSave(w, FailResult(w)) /\ StoreSaved(FailResult(w))
       \/ SaveRefused(w, FailResult(w))
    /\ Return(w)
    /\ UNCHANGED <<files, staging, manifest, crashes>>

(***************************************************************************)
(* The environment: callers that give up, and the process dying.           *)
(***************************************************************************)
Cancel(w) ==
    /\ Fault("cancel")
    /\ ~At(w, "idle") /\ ~worker[w].cancelled
    /\ Become(w, [worker[w] EXCEPT !.cancelled = TRUE])
    /\ UNCHANGED <<disk, index, files, staging, manifest, crashes>>

\* What the Save a goroutine is in would write.
SaveInProgress(w) ==
    CASE At(w, "resetting") -> ResetResult(w)
      [] At(w, "loaded") -> BeginResult(w)
      [] At(w, "saving") -> RunResult(w)
      [] At(w, "failing") -> FailResult(w)

\* Memory is lost; a Save may have renamed its file and not reached the index.
Crash ==
    /\ Fault("crash") /\ Up /\ crashes < MaxCrashes
    /\ \/ UNCHANGED disk
       \/ \E w \in Workers :
            /\ worker[w].phase \in {"resetting", "loaded", "saving", "failing"}
            /\ CanSave(w, SaveInProgress(w))
            /\ disk' = SaveInProgress(w)
    /\ index' = NoProject
    /\ worker' = [w \in Workers |-> IdleWorker]
    /\ crashes' = crashes + 1
    /\ UNCHANGED <<files, staging, manifest>>

\* OpenFileProjectStore: loadExisting.
Restart ==
    /\ ~Up
    /\ index' = disk
    /\ UNCHANGED <<disk, files, staging, manifest, worker, crashes>>

(***************************************************************************)
(* Specification                                                           *)
(***************************************************************************)
Init ==
    /\ disk = NewProject
    /\ index = NewProject
    /\ files = {}
    /\ staging = {}
    /\ manifest = {}
    /\ worker = [w \in Workers |-> IdleWorker]
    /\ crashes = 0

\* The steps a goroutine takes on its own once Advance or Reset was called.
Artifacts(w) ==
    \/ StageRejected(w) \/ StageMeasured(w)
    \/ \E r \in Ref : WriteDraft(w, r) \/ CommitFile(w, r)
    \/ WriteFails(w) \/ AppendManifest(w) \/ CleanStaging(w)
    \/ CommitFails(w) \/ Discard(w)

Proceed(w) ==
    \/ ResetSave(w) \/ SaveBegin(w)
    \/ StageReturns(w) \/ StageFails(w)
    \/ Artifacts(w)
    \/ SaveResult(w) \/ SaveFailure(w)

Call(w) == \E s \in Stage : Load(w, s) \/ ResetGet(w, s)

Next ==
    \/ \E w \in Workers : Call(w) \/ Proceed(w) \/ Cancel(w)
    \/ Crash \/ Restart

Spec == Init /\ [][Next]_vars

\* A goroutine that was started is scheduled, and step 4's timeout bounds the
\* stage, so every phase of a run ends.  Nobody is obliged to call.
Fairness == \A w \in Workers : WF_vars(Proceed(w))

FairSpec == Spec /\ Fairness

(***************************************************************************)
(* Properties                                                              *)
(***************************************************************************)

\* Every variable stays in the values the Go types and the phases allow.
TypeOK ==
    /\ disk \in Project
    /\ index \in Project \union {NoProject}
    /\ files \subseteq Ref
    /\ staging \subseteq BatchFile
    /\ manifest \subseteq BatchFile
    /\ worker \in [Workers -> Worker]
    /\ crashes \in Nat

\* "Artifacts are committed before state": whatever the project on disk refers
\* to, and whatever a run in flight was handed as input, can be opened, through
\* resets, failed commits, lost races and crashes.
ReferencedFilesExist ==
    /\ AllRefs(disk) \subseteq files
    /\ \A w \in Workers : ~At(w, "idle") => AllRefs(worker[w].working) \subseteq files

\* Commit: "a manifest line always describes a file that exists".
ManifestDescribesFiles == \A line \in manifest : line.ref \in files

\* "Two concurrent advances cannot both win": no two goroutines run a stage
\* that they both believe they began, and the one whose revision is still on
\* disk holds exactly what is on disk.
OwnsDisk(w) == InRun(w) /\ worker[w].working.revision = disk.revision

SingleOwner ==
    /\ \A v, w \in Workers :
         InRun(v) /\ InRun(w) /\ v # w =>
            worker[v].working.revision # worker[w].working.revision
    /\ \A w \in Workers : OwnsDisk(w) => worker[w].working = disk

\* Complete: "code generated from a previous register IR must not survive a new
\* extraction".  A recorded output was computed from exactly the earlier
\* references the project still records, and stages after the current one have
\* nothing recorded.
OutputFromRecordedInputs ==
    \A s \in Stage :
        /\ OutputIn(disk.artifacts[s]) # {} => disk.madeFrom[s] = InputsBefore(disk, s)
        /\ s > disk.current => disk.artifacts[s] = {}

\* Save writes the file before the index, so what callers read is what a
\* restart would find.
IndexIsDisk == Up => index = disk

\* The project as callers can see it moves by whole transitions, each on the
\* record the previous one left, however many goroutines and crashes there are.
Lifecycle == INSTANCE ProjectLifecycle WITH project <- disk, published <- files
ImplementsLifecycle == Lifecycle!Spec

\* NewBatch to Discard: unless a ctx was canceled, a disk write failed or the
\* process died, staging only holds the batches of runs still in flight.
InFlight(b) == \E w \in Workers : InRun(w) /\ BatchOf(w) = b
StagingBelongsToRuns == \A f \in staging : InFlight(f.batch)

\* Stage: the project never occupies more than MaxProjectBytes.
BudgetHolds == Used <= MaxFiles

\* File comment of pipeline.go: "running" on disk with no goroutine behind it
\* means that the process died.
RunningMeansOwnedOrCrashed ==
    disk.status = "running" => crashes > 0 \/ \E w \in Workers : OwnsDisk(w)

\* File comment of pipeline.go: after a crash "a redo of the current stage is
\* always legal".
RedoLegalAfterCrash ==
    (Up /\ disk.status = "running" /\ \A w \in Workers : ~InRun(w))
        => CanAdvance(disk, disk.current)

\* fail() writes state on context.WithoutCancel: a run that fails while it still
\* owns the project leaves it blocked, canceled or not.
FailureIsRecorded ==
    [][\A w \in Workers :
        (At(w, "failing") /\ OwnsDisk(w) /\ worker'[w].phase = "idle" /\ index' # NoProject)
            => disk'.status = "blocked"]_vars

\* Reset "drops that stage's artifacts": evidence the project presents is
\* evidence its verify stage still records.
EvidenceBackedByVerify == disk.evidence \subseteq disk.artifacts[StageVerify]

\* A stage that began does not stay "running" for ever.
RunSettles == disk.status = "running" ~> disk.status # "running"

=============================================================================
