--------------------------- MODULE ProjectLifecycle --------------------------
(***************************************************************************)
(* What the modeling package promises about one project, with no workers,  *)
(* no files in staging, no memory index and no crash: a single record that *)
(* moves by whole transitions, and a set of published artifacts that only  *)
(* grows.  A run that settles does so on the very record its Begin stored, *)
(* and it may only reference what is published already.                    *)
(*                                                                         *)
(* ModelingPipeline implements this specification.  ModelingApplier uses   *)
(* its steps in place of the pipeline, and implements it as well.          *)
(***************************************************************************)
EXTENDS ModelingProject

VARIABLES
    project,     \* what a reader of the store sees
    published    \* artifacts that can be opened

lifecycleVars == <<project, published>>

Init == project = NewProject /\ published = {}

\* Content addressing: an artifact once published stays as it is.
Publish ==
    /\ \E refs \in SUBSET Ref : published' = published \union refs
    /\ UNCHANGED project

BeginStage ==
    /\ \E s \in Stage :
        /\ CanAdvance(project, s)
        /\ project' = Bump(Begin(project, s))
    /\ UNCHANGED published

Settle ==
    /\ project.status = "running"
    /\ \E refs \in SUBSET (published \intersect RefsOf(project.current)) :
        LET s == project.current
            from == InputsBefore(project, s)
        IN  \/ project' = Bump(Complete(project, s, refs, from))
            \/ project' = Bump(Hold(project, s, refs, from))
            \/ /\ refs = EvidenceIn(refs)
               /\ project' = Bump(FailWith(project, s, refs))
    /\ UNCHANGED published

ResetStage ==
    /\ \E s \in Stage : project' = Bump(Reset(project, s))
    /\ UNCHANGED published

\* An apply landed all of a stage's files, or some of them, and its receipt is
\* published if there is one.
Land ==
    /\ \E s \in Stage : \E refs \in SUBSET (published \intersect RefsOf(s)) :
        /\ refs = EvidenceIn(refs)
        /\ \/ CanApplied(project, s) /\ project' = Bump(Applied(project, s, refs))
           \/ project' = Bump(ApplyFailed(project, s, refs))
    /\ UNCHANGED published

Next == Publish \/ BeginStage \/ Settle \/ ResetStage \/ Land

Spec == Init /\ [][Next]_lifecycleVars

=============================================================================
