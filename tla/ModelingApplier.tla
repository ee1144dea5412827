---------------------------- MODULE ModelingApplier ---------------------------
(***************************************************************************)
(* internal/modeling's FileApplier: Plan and Apply for one project, run by *)
(* concurrent callers against a source tree that people edit as well.  The *)
(* project moves meanwhile by the steps of ProjectLifecycle.               *)
(*                                                                         *)
(* One step is one file read, one audited write, the receipt's commit or   *)
(* the Save.  A file's content is the version of its human part and how    *)
(* many copies of each generated fragment it holds; the order of appends   *)
(* decides nothing.  Paths, symlinks and size limits are left out: they    *)
(* refuse a manifest, which a plan may do here for the reasons modelled.   *)
(***************************************************************************)
EXTENDS ModelingProject, FiniteSets

CONSTANTS
    Appliers,     \* goroutines inside Plan or Apply
    NumFiles,     \* entries of the apply manifest, in order
    MaxRevision,  \* bound: no new work starts near this revision
    MaxEdits,     \* bound: changes people make to the tree
    MaxPublished, \* bound: artifacts the pipeline publishes
    Faults,       \* which of AllFaults may happen
    People,       \* what people do to the tree: "edit", "remove"
    Absent,       \* no such file
    NoProject     \* no project was loaded

AllFaults == {"crash", "cancel", "audit", "artifact_io", "project_io", "tree_io"}

ASSUME ApplierAssumption ==
    /\ NumFiles \in Nat /\ NumFiles >= 1
    /\ MaxRevision \in Nat /\ MaxEdits \in Nat /\ MaxPublished \in Nat
    /\ Faults \subseteq AllFaults
    /\ People \subseteq {"edit", "remove"}
    /\ NoProject \notin Project

VARIABLES
    project,    \* what FileProjectStore holds
    published,  \* artifacts that can be opened
    tree,       \* the files below QemuRoot that the manifest names
    edits,      \* changes of each by people and failing writes (history)
    applier     \* what each goroutine is doing, and its last ApplyResult

vars == <<project, published, tree, edits, applier>>

File == 1..NumFiles

\* Mutant of ActionOf: build files first, the new source file last.
CreateLast(f) == IF f = NumFiles THEN "create" ELSE "modify"

\* Render: the device source is new, then the two build files are appended to.
ActionOf(f) == IF f = 1 THEN "create" ELSE "modify"

Content == [human: Nat, copies: [ArtifactIDs -> Nat]]
MaybeContent == Content \union {Absent}

ASSUME AbsentAssumption == Absent \notin Content

HumanText == [human |-> 0, copies |-> [g \in ArtifactIDs |-> 0]]
WithFragment(c, g) == [c EXCEPT !.copies[g] = @ + 1]

Phase == {"idle", "planning", "preparing", "writing", "recording", "saving",
          "reported"}

Applier ==
    [phase: Phase,
     planned: Project \union {NoProject},  \* the project the plan was made from
     next: 1..(NumFiles + 1),              \* the manifest entry it is at
     seen: [File -> MaybeContent],         \* behind BaseDigest
     bytes: [File -> MaybeContent],        \* pendingWrite.content
     written: SUBSET File,                 \* ApplyResult.Written
     touched: SUBSET File,                 \* files its tool calls changed (history)
     partial: BOOLEAN,                     \* ApplyResult.Partial
     receipt: SUBSET Ref,                  \* ApplyResult.Evidence
     cancelled: BOOLEAN]                   \* the caller's ctx is done

IdleApplier ==
    [phase |-> "idle", planned |-> NoProject, next |-> 1,
     seen |-> [f \in File |-> Absent], bytes |-> [f \in File |-> Absent],
     written |-> {}, touched |-> {}, partial |-> FALSE, receipt |-> {},
     cancelled |-> FALSE]

Fault(f) == f \in Faults
At(w, phase) == applier[w].phase = phase
Resting(w) == applier[w].phase \in {"idle", "reported"}
Become(w, a) == applier' = [applier EXCEPT ![w] = a]
Report(w) == Become(w, [applier[w] EXCEPT !.phase = "reported"])

\* The bytes of one emit run are rendered from one register IR: one id names
\* the manifest, the diff and every file.
Emitted(p) == {r.id : r \in OutputIn(p.artifacts[StageEmit])}
Generation(w) == CHOOSE g \in Emitted(applier[w].planned) : TRUE

Here(w) == applier[w].next
Last(w) == Here(w) = NumFiles

(***************************************************************************)
(* plan: reload the project under the caller's scope, require what emit    *)
(* left, then read each target.                                            *)
(***************************************************************************)
PlanStarts(w) ==
    /\ Resting(w)
    /\ project.revision < MaxRevision
    /\ Emitted(project) # {}
    /\ Become(w, [IdleApplier EXCEPT !.phase = "planning", !.planned = project])
    /\ UNCHANGED <<project, published, tree, edits>>

\* A create needs its target absent, a modify needs it present.
Acceptable(f) == (ActionOf(f) = "create") <=> (tree[f] = Absent)

PlanFile(w) ==
    /\ At(w, "planning") /\ Acceptable(Here(w))
    /\ Become(w, [applier[w] EXCEPT
            !.seen[Here(w)] = tree[Here(w)],
            !.next = IF Last(w) THEN 1 ELSE @ + 1,
            !.phase = IF Last(w) THEN "preparing" ELSE @])
    /\ UNCHANGED <<project, published, tree, edits>>

\* A target that is not as it must be, an artifact that cannot be read, or the
\* end of Plan, which writes nothing.
PlanEnds(w) ==
    /\ At(w, "planning")
    /\ Report(w)
    /\ UNCHANGED <<project, published, tree, edits>>

(***************************************************************************)
(* prepare and compose: read every target again, compare it with the plan, *)
(* and fix the bytes of every write before the first one.                  *)
(***************************************************************************)
AsPlanned(w, f) ==
    /\ ActionOf(f) = "create" => tree[f] = Absent
    /\ ActionOf(f) = "modify" => tree[f] = applier[w].seen[f]

Composed(w, f) ==
    WithFragment(IF ActionOf(f) = "create" THEN HumanText ELSE tree[f], Generation(w))

PrepareFile(w) ==
    /\ At(w, "preparing") /\ AsPlanned(w, Here(w))
    /\ Become(w, [applier[w] EXCEPT
            !.bytes[Here(w)] = Composed(w, Here(w)),
            !.next = IF Last(w) THEN 1 ELSE @ + 1,
            !.phase = IF Last(w) THEN "writing" ELSE @])
    /\ UNCHANGED <<project, published, tree, edits>>

PrepareRefuses(w) ==
    /\ At(w, "preparing")
    /\ Report(w)
    /\ UNCHANGED <<project, published, tree, edits>>

(***************************************************************************)
(* Apply's write loop, one audited tool call per file.  The call waits for *)
(* an approval, writes, then appends the "completed" audit line; an error  *)
(* from any of these is a refusal to the loop.                             *)
(***************************************************************************)
\* Execute looks at ctx first, so a canceled call writes nothing.
WritesHere(w) ==
    /\ At(w, "writing") /\ ~applier[w].cancelled
    /\ tree' = [tree EXCEPT ![Here(w)] = applier[w].bytes[Here(w)]]
    /\ UNCHANGED <<project, published, edits>>

ToolWrites(w) ==
    /\ WritesHere(w)
    /\ Become(w, [applier[w] EXCEPT
            !.written = @ \union {Here(w)}, !.touched = @ \union {Here(w)},
            !.next = @ + 1, !.phase = IF Last(w) THEN "recording" ELSE @])

\* What the loop does with an error: nothing landed is an ordinary refusal.
Stopped(a) ==
    IF a.written = {} THEN [a EXCEPT !.phase = "reported"]
    ELSE [a EXCEPT !.phase = "recording", !.partial = TRUE]

ToolRefuses(w) ==
    /\ At(w, "writing")
    /\ Become(w, Stopped(applier[w]))
    /\ UNCHANGED <<project, published, tree, edits>>

\* The file is written, the audit line is not: its write failed, or ctx was
\* canceled in between.
ToolWritesUnaudited(w) ==
    /\ WritesHere(w)
    /\ \E c \in BOOLEAN :
        /\ Fault(IF c THEN "cancel" ELSE "audit")
        /\ Become(w, Stopped([applier[w] EXCEPT
                !.touched = @ \union {Here(w)}, !.cancelled = c]))

\* os.WriteFile truncates first: when it fails, or the process dies inside it,
\* what the file held is gone.
Truncated(w) ==
    /\ Fault("tree_io")
    /\ At(w, "writing") /\ ~applier[w].cancelled
    /\ tree' = [tree EXCEPT ![Here(w)] = HumanText]
    /\ edits' = [edits EXCEPT ![Here(w)] = @ + 1]

ToolTruncates(w) ==
    /\ Truncated(w)
    /\ Become(w, Stopped([applier[w] EXCEPT !.touched = @ \union {Here(w)}]))
    /\ UNCHANGED <<project, published>>

(***************************************************************************)
(* commitPlan and record: the receipt first, then the state, which is      *)
(* saved on context.WithoutCancel.                                         *)
(***************************************************************************)
Receipts == {r \in RefsOf(StageEmit) : r.kind = "evidence"}

\* Mutant of CommitPlan: the references are kept although Commit failed.
CommitPlanUnchecked(w) ==
    /\ At(w, "recording")
    /\ \E r \in Receipts :
        /\ published' = published \union (IF applier[w].cancelled THEN {} ELSE {r})
        /\ Become(w, [applier[w] EXCEPT !.phase = "saving", !.receipt = {r}])
    /\ UNCHANGED <<project, tree, edits>>

CommitPlan(w) ==
    /\ At(w, "recording")
    /\ \/ /\ ~applier[w].cancelled
          /\ \E r \in Receipts :
               /\ published' = published \union {r}
               /\ Become(w, [applier[w] EXCEPT !.phase = "saving", !.receipt = {r}])
       \/ /\ applier[w].cancelled \/ Fault("artifact_io")
          /\ Become(w, [applier[w] EXCEPT !.phase = "saving"])
          /\ UNCHANGED published
    /\ UNCHANGED <<project, tree, edits>>

\* Mutant of Landed: the record is read again instead of the planned one.
LandedOnLatest(w) ==
    Bump(IF applier[w].partial
         THEN ApplyFailed(project, StageEmit, applier[w].receipt)
         ELSE Applied(project, StageEmit, applier[w].receipt))

Landed(w) ==
    LET a == applier[w]
    IN  Bump(IF a.partial THEN ApplyFailed(a.planned, StageEmit, a.receipt)
             ELSE Applied(a.planned, StageEmit, a.receipt))

\* Mutant of CanRecord: the Save uses the caller's ctx.
CanRecordUncancelled(w) ==
    /\ ~applier[w].cancelled
    /\ applier[w].partial \/ CanApplied(applier[w].planned, StageEmit)
    /\ CanReplaceFrom(Landed(w), project)

\* Applied refuses a project whose stage is running; Save refuses a stale one.
CanRecord(w) ==
    /\ applier[w].partial \/ CanApplied(applier[w].planned, StageEmit)
    /\ CanReplaceFrom(Landed(w), project)

\* A record that is refused is logged and changes nothing.
RecordLanding(w) ==
    /\ At(w, "saving")
    /\ \/ CanRecord(w) /\ project' = Landed(w)
       \/ (~CanRecord(w) \/ Fault("project_io")) /\ UNCHANGED project
    /\ Report(w)
    /\ UNCHANGED <<published, tree, edits>>

(***************************************************************************)
(* The environment: the pipeline, people, callers that give up, and the    *)
(* process dying.                                                          *)
(***************************************************************************)
Lifecycle == INSTANCE ProjectLifecycle

\* An emit run ends Blocked with the one file set it rendered, or fails.  A
\* Reset to a later stage is a finding of its own and is left out here.
EmitAwaitsApply ==
    /\ project.current <= StageEmit => project'.current <= StageEmit
    /\ \A r, q \in OutputIn(project'.artifacts[StageEmit]) : r = q
    /\ project'.lastError = "awaiting_human" /\ project'.current = StageEmit
         => Emitted(project') # {}

PipelineStep ==
    /\ project.revision < MaxRevision
    /\ Lifecycle!BeginStage \/ Lifecycle!Settle \/ Lifecycle!ResetStage
    /\ EmitAwaitsApply
    /\ UNCHANGED <<tree, edits, applier>>

\* A Commit of the pipeline, one file of it.
PipelinePublishes ==
    /\ Cardinality(published) < MaxPublished
    /\ \E r \in Ref \ published : published' = published \union {r}
    /\ UNCHANGED <<project, tree, edits, applier>>

TotalEdits == LET sum[f \in 0..NumFiles] == IF f = 0 THEN 0 ELSE edits[f] + sum[f - 1]
              IN  sum[NumFiles]

\* A person, or another project's apply, adds to a build file.
PersonEdits(f) ==
    /\ "edit" \in People /\ TotalEdits < MaxEdits
    /\ ActionOf(f) = "modify" /\ tree[f] # Absent
    /\ tree' = [tree EXCEPT ![f].human = @ + 1]
    /\ edits' = [edits EXCEPT ![f] = @ + 1]
    /\ UNCHANGED <<project, published, applier>>

\* change's refusal says "reset the project or remove the file".
PersonRemoves(f) ==
    /\ "remove" \in People /\ TotalEdits < MaxEdits
    /\ ActionOf(f) = "create" /\ tree[f] # Absent
    /\ tree' = [tree EXCEPT ![f] = Absent]
    /\ edits' = [edits EXCEPT ![f] = @ + 1]
    /\ UNCHANGED <<project, published, applier>>

Cancel(w) ==
    /\ Fault("cancel") /\ ~Resting(w) /\ ~applier[w].cancelled
    /\ Become(w, [applier[w] EXCEPT !.cancelled = TRUE])
    /\ UNCHANGED <<project, published, tree, edits>>

Crash ==
    /\ Fault("crash")
    /\ applier' = [w \in Appliers |-> IdleApplier]
    /\ UNCHANGED <<tree, edits>> \/ \E w \in Appliers : Truncated(w)
    /\ UNCHANGED <<project, published>>

(***************************************************************************)
(* Specification                                                           *)
(***************************************************************************)
Init ==
    /\ project = NewProject
    /\ published = {}
    /\ tree = [f \in File |-> IF ActionOf(f) = "create" THEN Absent ELSE HumanText]
    /\ edits = [f \in File |-> 0]
    /\ applier = [w \in Appliers |-> IdleApplier]

ApplierStep(w) ==
    \/ PlanStarts(w) \/ PlanFile(w) \/ PlanEnds(w)
    \/ PrepareFile(w) \/ PrepareRefuses(w)
    \/ ToolWrites(w) \/ ToolRefuses(w) \/ ToolWritesUnaudited(w)
    \/ ToolTruncates(w)
    \/ CommitPlan(w) \/ RecordLanding(w)

Next ==
    \/ \E w \in Appliers : ApplierStep(w) \/ Cancel(w)
    \/ \E f \in File : PersonEdits(f) \/ PersonRemoves(f)
    \/ PipelineStep \/ PipelinePublishes \/ Crash

Spec == Init /\ [][Next]_vars

(***************************************************************************)
(* Properties                                                              *)
(***************************************************************************)

\* Every variable stays in the values the Go types and the phases allow.
TypeOK ==
    /\ project \in Project
    /\ published \subseteq Ref
    /\ tree \in [File -> MaybeContent]
    /\ edits \in [File -> Nat]
    /\ applier \in [Appliers -> Applier]

\* Apply appends: however many applies run, fail, are canceled or repeated, a
\* build file holds at most one copy of a generated fragment, as long as nobody
\* removes the source file the applies are refused for.
AppendedOnce ==
    \A f \in File : tree[f] # Absent => \A g \in ArtifactIDs : tree[f].copies[g] <= 1

\* A file that holds no fragment and less than people put there: one of them
\* removed it, or a failing write truncated it.
Lost(f) ==
    /\ edits[f] > IF tree[f] = Absent THEN 0 ELSE tree[f].human
    /\ tree[f] # Absent => \A g \in ArtifactIDs : tree[f].copies[g] = 0

Holds(f, g) == tree[f] # Absent /\ tree[f].copies[g] >= 1

\* Applied: verify runs "after an apply", so a project past emit has every file
\* of the very generation it records in the tree, but for one that a person
\* removed or a failing write truncated.
PastEmitMeansLanded ==
    project.current > StageEmit =>
        /\ Emitted(project) # {}
        /\ \A g \in Emitted(project), f \in File : Holds(f, g) \/ Lost(f)

\* Apply commits its plan "before the state moves": the project never refers to
\* a receipt that cannot be opened.
ReferencesArePublished == AllRefs(project) \subseteq published

\* record: "a canceled apply that wrote files must not leave the project
\* claiming it is still waiting for one", if nobody moved the project meanwhile.
UnmovedSince(w) ==
    project.revision = applier[w].planned.revision /\ applier[w].planned.status # "running"

ApplyIsRecorded ==
    [][\A w \in Appliers :
        (At(w, "saving") /\ UnmovedSince(w) /\ applier'[w].phase = "reported")
            => \/ project'.lastError = "apply_partial"
               \/ project'.current > StageEmit]_vars

\* Nothing an applier does moves the project other than from the record it
\* planned on.
ImplementsLifecycle == Lifecycle!Spec

\* ApplyResult: "Written and Skipped are exact".
ReportIsExact == \A w \in Appliers : At(w, "reported") => applier[w].touched = applier[w].written

\* FileChange: "a failed apply can never destroy code the agent did not write".
FailedApplyKeepsEdits ==
    \A w \in Appliers : At(w, "reported") /\ applier[w].partial =>
        \A f \in File : ActionOf(f) = "modify" => tree[f].human = edits[f]

=============================================================================
