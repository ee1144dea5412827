--------------------------- MODULE ModelingProject ---------------------------
(***************************************************************************)
(* The value layer of internal/modeling: a Project and the transitions     *)
(* type.go defines on it.  A transition here is a function from a project  *)
(* to the project the Go method leaves behind, paired with a Can... guard  *)
(* for the method's error returns.  Nothing in this module has state; the  *)
(* state machines that store projects EXTEND it.                           *)
(*                                                                         *)
(* Abstractions.  A stage is its index in StageOrder.  The kinds plan,     *)
(* regir, code and diff are one kind "output", because the transitions     *)
(* tell only evidence apart.  A reference list is a set.  Titles, owners   *)
(* and times never change a transition and are left out.                   *)
(***************************************************************************)
EXTENDS Integers

CONSTANTS
    NumStages,    \* len(StageOrder): five in the program
    ArtifactIDs   \* content addresses

ASSUME NumStagesAssumption == NumStages \in Nat /\ NumStages >= 2

Stage == 1..NumStages
FirstStage == 1
LastStage == NumStages
StageEmit == NumStages - 1
StageVerify == NumStages

Status == {"pending", "running", "blocked", "done"}
Kind == {"output", "evidence"}

\* The error categories the transitions store; classify's closed set is the one
\* category "stage_failed".
Category == {"none", "stage_failed", "awaiting_human", "apply_partial"}

Ref == [stage: Stage, kind: Kind, id: ArtifactIDs]
RefsOf(s) == {r \in Ref : r.stage = s}
EvidenceIn(refs) == {r \in refs : r.kind = "evidence"}
OutputIn(refs) == {r \in refs : r.kind = "output"}

\* madeFrom is a history field: the references a stage's recorded batch was
\* computed from.  No transition reads it.
Project ==
    [current: Stage, status: Status, artifacts: [Stage -> SUBSET Ref],
     evidence: SUBSET Ref, lastError: Category, revision: Nat,
     madeFrom: [Stage -> SUBSET Ref]]

\* What FileProjectStore.Create writes: first stage, pending, revision 1.
NewProject ==
    [current |-> FirstStage, status |-> "pending",
     artifacts |-> [s \in Stage |-> {}], evidence |-> {},
     lastError |-> "none", revision |-> 1,
     madeFrom |-> [s \in Stage |-> {}]]

AllRefs(p) == (UNION {p.artifacts[s] : s \in Stage}) \union p.evidence

\* The references of every earlier stage, which is all a stage run is given.
InputsBefore(p, s) == UNION {p.artifacts[t] : t \in {u \in Stage : u < s}}

Bump(p) == [p EXCEPT !.revision = @ + 1]

(***************************************************************************)
(* Transitions                                                             *)
(***************************************************************************)

\* A redo of the current stage, or the next stage once the current one is done.
CanAdvance(p, to) ==
    /\ p.status # "running"
    /\ \/ to = p.current
       \/ to = p.current + 1 /\ p.status = "done"

Begin(p, s) ==
    [p EXCEPT !.current = s, !.status = "running", !.lastError = "none"]

\* Mutant of ClearAfter: off by one, the next stage keeps its references.
ClearAfterNext(p, s) ==
    [p EXCEPT !.artifacts = [t \in Stage |-> IF t > s + 1 THEN {} ELSE p.artifacts[t]],
              !.madeFrom = [t \in Stage |-> IF t > s + 1 THEN {} ELSE p.madeFrom[t]],
              !.evidence = IF s < StageVerify THEN {} ELSE p.evidence]

ClearAfter(p, s) ==
    [p EXCEPT !.artifacts = [t \in Stage |-> IF t > s THEN {} ELSE p.artifacts[t]],
              !.madeFrom = [t \in Stage |-> IF t > s THEN {} ELSE p.madeFrom[t]],
              !.evidence = IF s < StageVerify THEN {} ELSE p.evidence]

\* Complete, Hold and FailWith all require the stage to be the one running.
IsRunning(p, s) == p.status = "running" /\ p.current = s

\* record: replace the stage's references, drop everything downstream, and take
\* Evidence over from a Verify run.
Record(p, s, refs, from) ==
    LET cleared == ClearAfter(p, s)
    IN  [cleared EXCEPT !.artifacts[s] = refs,
                        !.madeFrom[s] = from,
                        !.evidence = IF s = StageVerify THEN EvidenceIn(refs) ELSE @,
                        !.lastError = "none"]

\* Mutant of Complete: no special case for the last stage.
CompletePastEnd(p, s, refs, from) ==
    [Record(p, s, refs, from) EXCEPT !.current = s + 1, !.status = "pending"]

Complete(p, s, refs, from) ==
    [Record(p, s, refs, from) EXCEPT
        !.current = IF s = LastStage THEN s ELSE s + 1,
        !.status = IF s = LastStage THEN "done" ELSE "pending"]

Hold(p, s, refs, from) ==
    [Record(p, s, refs, from) EXCEPT
        !.current = s, !.status = "blocked", !.lastError = "awaiting_human"]

\* FailWith: a failed run appends its evidence and keeps what was recorded.
FailWith(p, s, refs) ==
    [p EXCEPT !.status = "blocked", !.lastError = "stage_failed",
              !.artifacts[s] = @ \union refs]

\* Applied and ApplyFailed record a landing of the stage's files in the tree.
CanApplied(p, s) == p.status # "running" /\ p.artifacts[s] # {}

Applied(p, s, refs) ==
    LET landed == [p EXCEPT !.artifacts[s] = @ \union refs, !.lastError = "none"]
    IN  IF s < p.current THEN landed
        ELSE [landed EXCEPT
                !.current = IF s = LastStage THEN s ELSE s + 1,
                !.status = IF s = LastStage THEN "done" ELSE "pending"]

ApplyFailed(p, s, refs) ==
    [p EXCEPT !.artifacts[s] = @ \union refs, !.current = s,
              !.status = "blocked", !.lastError = "apply_partial"]

Reset(p, s) ==
    LET cleared == ClearAfter([p EXCEPT !.artifacts[s] = {}, !.madeFrom[s] = {}], s)
    IN  [cleared EXCEPT !.current = s, !.status = "pending", !.lastError = "none"]

\* Mutant of CanReplaceFrom: a writer that did not start from the stored project.
CanReplaceStale(new, old) == new.revision <= old.revision + 1

\* The optimistic-concurrency check of every Save.
CanReplaceFrom(new, old) == new.revision = old.revision + 1

=============================================================================
