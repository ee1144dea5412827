------------------------ MODULE ModelingPipelineProofs -----------------------
(***************************************************************************)
(* What holds of ModelingPipeline for every number of stages, workers,     *)
(* artifacts and revisions, and under any choice of faults unless a        *)
(* theorem names the faults it excludes.                                   *)
(*                                                                         *)
(* The argument.  Every Save raises the stored revision by one, so a       *)
(* working copy whose revision is the stored one is the stored project,    *)
(* and a Begin that is saved gets a revision no other run has.  A batch is *)
(* recorded only after its last rename, and files are never removed.       *)
(***************************************************************************)
EXTENDS ModelingPipeline, FiniteSetTheorems, TLAPS

(***************************************************************************)
(* The value layer: every transition returns a project, keeps its          *)
(* revision, and refers to nothing but what it referred to before and the  *)
(* references it was given.                                                *)
(***************************************************************************)
\* type.go's transitions stay within Project.Validate's closed sets.
LEMMA ClearAfterProject ==
    ASSUME NEW p \in Project, NEW s \in Stage
    PROVE  /\ ClearAfter(p, s) \in Project
           /\ ClearAfter(p, s).revision = p.revision
           /\ AllRefs(ClearAfter(p, s)) \subseteq AllRefs(p)
<1> DEFINE q == ClearAfter(p, s)
<1>1. q \in Project /\ q.revision = p.revision
  BY DEF ClearAfter, Project
<1>2. \A t \in Stage : q.artifacts[t] \subseteq p.artifacts[t]
  BY DEF ClearAfter, Project
<1>3. q.evidence \subseteq p.evidence
  BY DEF ClearAfter, Project
<1>4. QED BY <1>1, <1>2, <1>3 DEF AllRefs

\* record() refers to what was recorded before and to the new batch.
LEMMA RecordProject ==
    ASSUME NEW p \in Project, NEW s \in Stage,
           NEW refs \in SUBSET Ref, NEW from \in SUBSET Ref
    PROVE  /\ Record(p, s, refs, from) \in Project
           /\ Record(p, s, refs, from).revision = p.revision
           /\ AllRefs(Record(p, s, refs, from)) \subseteq AllRefs(p) \union refs
<1> DEFINE c == ClearAfter(p, s)
           q == Record(p, s, refs, from)
<1>1. c \in Project /\ c.revision = p.revision /\ AllRefs(c) \subseteq AllRefs(p)
  BY ClearAfterProject
<1>2. EvidenceIn(refs) \in SUBSET Ref /\ EvidenceIn(refs) \subseteq refs
  BY DEF EvidenceIn
<1>3. "none" \in Category
  BY DEF Category
<1> HIDE DEF c
<1>4. q = [c EXCEPT !.artifacts[s] = refs, !.madeFrom[s] = from,
                    !.evidence = IF s = StageVerify THEN EvidenceIn(refs) ELSE @,
                    !.lastError = "none"]
  BY DEF Record, c
<1> HIDE DEF q
<1>5. q \in Project /\ q.revision = p.revision
  BY <1>1, <1>2, <1>3, <1>4 DEF Project
<1>6. /\ \A t \in Stage : q.artifacts[t] \subseteq c.artifacts[t] \union refs
      /\ q.evidence \subseteq c.evidence \union refs
  BY <1>1, <1>2, <1>4 DEF Project
<1>7. AllRefs(q) \subseteq AllRefs(c) \union refs
  BY <1>6 DEF AllRefs
<1>8. QED BY <1>1, <1>5, <1>7 DEF q

\* Complete and Hold return a project that refers to nothing but the old project's
\* references and the recorded ones.
LEMMA CompleteHoldProject ==
    ASSUME NEW p \in Project, NEW s \in Stage,
           NEW refs \in SUBSET Ref, NEW from \in SUBSET Ref
    PROVE  /\ Complete(p, s, refs, from) \in Project
           /\ Complete(p, s, refs, from).revision = p.revision
           /\ AllRefs(Complete(p, s, refs, from)) \subseteq AllRefs(p) \union refs
           /\ Hold(p, s, refs, from) \in Project
           /\ Hold(p, s, refs, from).revision = p.revision
           /\ AllRefs(Hold(p, s, refs, from)) \subseteq AllRefs(p) \union refs
<1> DEFINE r == Record(p, s, refs, from)
<1>1. r \in Project /\ r.revision = p.revision
      /\ AllRefs(r) \subseteq AllRefs(p) \union refs
  BY RecordProject
<1>2. /\ {"done", "pending", "blocked"} \subseteq Status
      /\ "awaiting_human" \in Category
  BY DEF Status, Category
<1>3. s # LastStage => s + 1 \in Stage
  BY NumStagesAssumption DEF Stage, LastStage
<1> HIDE DEF r
<1>4. Complete(p, s, refs, from) =
        [r EXCEPT !.current = IF s = LastStage THEN s ELSE s + 1,
                  !.status = IF s = LastStage THEN "done" ELSE "pending"]
  BY DEF Complete, r
<1>5. Hold(p, s, refs, from) =
        [r EXCEPT !.current = s, !.status = "blocked", !.lastError = "awaiting_human"]
  BY DEF Hold, r
<1>6. /\ Complete(p, s, refs, from) \in Project
      /\ Complete(p, s, refs, from).revision = r.revision
      /\ Complete(p, s, refs, from).artifacts = r.artifacts
      /\ Complete(p, s, refs, from).evidence = r.evidence
  BY <1>1, <1>2, <1>3, <1>4 DEF Project
<1>7. /\ Hold(p, s, refs, from) \in Project
      /\ Hold(p, s, refs, from).revision = r.revision
      /\ Hold(p, s, refs, from).artifacts = r.artifacts
      /\ Hold(p, s, refs, from).evidence = r.evidence
  BY <1>1, <1>2, <1>5 DEF Project
<1>8. /\ AllRefs(Complete(p, s, refs, from)) = AllRefs(r)
      /\ AllRefs(Hold(p, s, refs, from)) = AllRefs(r)
  BY <1>6, <1>7 DEF AllRefs
<1>9. QED BY <1>1, <1>6, <1>7, <1>8

\* FailWith returns a project and only adds the evidence it is given.
LEMMA FailWithProject ==
    ASSUME NEW p \in Project, NEW s \in Stage, NEW refs \in SUBSET Ref
    PROVE  /\ FailWith(p, s, refs) \in Project
           /\ FailWith(p, s, refs).revision = p.revision
           /\ AllRefs(FailWith(p, s, refs)) \subseteq AllRefs(p) \union refs
<1> DEFINE q == FailWith(p, s, refs)
<1>1. "blocked" \in Status /\ "stage_failed" \in Category
  BY DEF Status, Category
<1>2. q \in Project /\ q.revision = p.revision /\ q.evidence = p.evidence
  BY <1>1 DEF FailWith, Project
<1>3. \A t \in Stage : q.artifacts[t] \subseteq p.artifacts[t] \union refs
  BY DEF FailWith, Project
<1> HIDE DEF q
<1>4. AllRefs(q) \subseteq AllRefs(p) \union refs
  BY <1>2, <1>3 DEF AllRefs
<1>5. QED BY <1>2, <1>4 DEF q

\* Begin returns a running project and leaves every reference alone.
LEMMA BeginProject ==
    ASSUME NEW p \in Project, NEW s \in Stage
    PROVE  /\ Begin(p, s) \in Project
           /\ Begin(p, s).revision = p.revision
           /\ AllRefs(Begin(p, s)) = AllRefs(p)
           /\ IsRunning(Begin(p, s), s)
<1>1. "running" \in Status /\ "none" \in Category
  BY DEF Status, Category
<1>2. QED BY <1>1 DEF Begin, Project, AllRefs, IsRunning

\* Reset returns a project and only drops references.
LEMMA ResetProject ==
    ASSUME NEW p \in Project, NEW s \in Stage
    PROVE  /\ Reset(p, s) \in Project
           /\ Reset(p, s).revision = p.revision
           /\ AllRefs(Reset(p, s)) \subseteq AllRefs(p)
<1> DEFINE d == [p EXCEPT !.artifacts[s] = {}, !.madeFrom[s] = {}]
           c == ClearAfter(d, s)
<1>1. d \in Project /\ d.revision = p.revision /\ d.evidence = p.evidence
  BY DEF Project
<1>2. \A t \in Stage : d.artifacts[t] \subseteq p.artifacts[t]
  BY DEF Project
<1> HIDE DEF d
<1>3. AllRefs(d) \subseteq AllRefs(p)
  BY <1>1, <1>2 DEF AllRefs
<1>4. c \in Project /\ c.revision = d.revision /\ AllRefs(c) \subseteq AllRefs(d)
  BY <1>1, ClearAfterProject
<1> HIDE DEF c
<1>5. Reset(p, s) = [c EXCEPT !.current = s, !.status = "pending", !.lastError = "none"]
  BY DEF Reset, c, d
<1>6. "pending" \in Status /\ "none" \in Category
  BY DEF Status, Category
<1>7. /\ Reset(p, s) \in Project
      /\ Reset(p, s).revision = c.revision
      /\ Reset(p, s).artifacts = c.artifacts
      /\ Reset(p, s).evidence = c.evidence
  BY <1>4, <1>5, <1>6 DEF Project
<1>8. AllRefs(Reset(p, s)) = AllRefs(c)
  BY <1>7 DEF AllRefs
<1>9. QED BY <1>1, <1>3, <1>4, <1>7, <1>8

\* Save's revision increment changes nothing else.
LEMMA BumpProject ==
    ASSUME NEW p \in Project
    PROVE  /\ Bump(p) \in Project
           /\ Bump(p).revision = p.revision + 1
           /\ AllRefs(Bump(p)) = AllRefs(p)
           /\ Bump(p).status = p.status /\ Bump(p).current = p.current
<1>1. Bump(p) \in Project /\ Bump(p).revision = p.revision + 1
      /\ Bump(p).artifacts = p.artifacts /\ Bump(p).evidence = p.evidence
      /\ Bump(p).status = p.status /\ Bump(p).current = p.current
  BY DEF Bump, Project
<1>2. QED BY <1>1 DEF AllRefs

\* The inputs of a stage are references.
LEMMA InputsBeforeRefs ==
    ASSUME NEW p \in Project, NEW s \in Stage
    PROVE  InputsBefore(p, s) \in SUBSET Ref
  BY DEF InputsBefore, Project

\* Create writes a valid project that refers to nothing.
LEMMA NewProjectProject == NewProject \in Project /\ AllRefs(NewProject) = {}
<1>1. "pending" \in Status /\ "none" \in Category /\ FirstStage \in Stage
  BY NumStagesAssumption DEF Status, Category, FirstStage, Stage
<1>2. QED BY <1>1 DEF NewProject, Project, AllRefs

(***************************************************************************)
(* Fresh projects: what Complete's comment asks of a recorded output.      *)
(***************************************************************************)
\* A stage that records outputs was given what the project still records, and
\* nothing is recorded past the current stage.
Fresh(p) ==
    \A s \in Stage :
        /\ OutputIn(p.artifacts[s]) # {} => p.madeFrom[s] = InputsBefore(p, s)
        /\ s > p.current => p.artifacts[s] = {}

\* The inputs of a stage depend on the earlier stages only.
LEMMA SameInputs ==
    ASSUME NEW p, NEW q, NEW s \in Stage,
           \A t \in Stage : t < s => q.artifacts[t] = p.artifacts[t]
    PROVE  InputsBefore(q, s) = InputsBefore(p, s)
  BY DEF InputsBefore

\* One stage is rewritten, the later ones emptied, the earlier ones kept: a
\* fresh project stays fresh if the rewritten stage was made from its inputs.
LEMMA RewriteIsFresh ==
    ASSUME NEW p \in Project, NEW q \in Project, NEW s \in Stage, Fresh(p),
           \A t \in Stage : t < s => /\ q.artifacts[t] = p.artifacts[t]
                                     /\ q.madeFrom[t] = p.madeFrom[t],
           \A t \in Stage : t > s => q.artifacts[t] = {},
           OutputIn(q.artifacts[s]) # {} => q.madeFrom[s] = InputsBefore(p, s),
           q.current \in Stage, q.current >= s
    PROVE  Fresh(q)
<1> SUFFICES ASSUME NEW t \in Stage
             PROVE  /\ OutputIn(q.artifacts[t]) # {} => q.madeFrom[t] = InputsBefore(q, t)
                    /\ t > q.current => q.artifacts[t] = {}
  BY DEF Fresh
<1>1. s \in Int /\ t \in Int /\ q.current \in Int
  BY NumStagesAssumption DEF Stage
<1>2. CASE t < s
  <2>1. InputsBefore(q, t) = InputsBefore(p, t)
    <3>1. \A u \in Stage : u < t => u < s
      BY <1>1, <1>2, NumStagesAssumption DEF Stage
    <3>2. QED BY <3>1, SameInputs
  <2>2. QED BY <1>1, <1>2, <2>1 DEF Fresh
<1>3. CASE t = s
  <2>1. InputsBefore(q, s) = InputsBefore(p, s)
    BY SameInputs
  <2>2. QED BY <1>1, <1>3, <2>1
<1>4. CASE t > s
  <2>1. q.artifacts[t] = {} /\ OutputIn({}) = {}
    BY <1>4 DEF OutputIn
  <2>2. QED BY <2>1
<1>5. QED BY <1>1, <1>2, <1>3, <1>4

\* Begin moves to a stage no earlier than the current one.
LEMMA BeginIsFresh ==
    ASSUME NEW p \in Project, NEW s \in Stage, Fresh(p), CanAdvance(p, s)
    PROVE  Fresh(Begin(p, s))
<1> DEFINE q == Begin(p, s)
<1>1. q.artifacts = p.artifacts /\ q.madeFrom = p.madeFrom /\ q.current = s
  BY DEF Begin, Project
<1>2. s \in Int /\ p.current \in Int /\ s >= p.current
  BY NumStagesAssumption DEF CanAdvance, Stage, Project
<1> HIDE DEF q
<1>3. \A t \in Stage : InputsBefore(q, t) = InputsBefore(p, t)
  BY <1>1 DEF InputsBefore
<1>4. \A t \in Stage : t > s => t > p.current
  BY <1>2, NumStagesAssumption DEF Stage
<1>5. Fresh(q)
  BY <1>1, <1>3, <1>4 DEF Fresh
<1>6. QED BY <1>5 DEF q

\* Complete and Hold record a batch with the references it was computed from.
LEMMA SettleIsFresh ==
    ASSUME NEW p \in Project, NEW s \in Stage, NEW refs \in SUBSET Ref, Fresh(p)
    PROVE  /\ Fresh(Complete(p, s, refs, InputsBefore(p, s)))
           /\ Fresh(Hold(p, s, refs, InputsBefore(p, s)))
<1> DEFINE from == InputsBefore(p, s)
           c == ClearAfter(p, s)
           r == Record(p, s, refs, from)
           done == Complete(p, s, refs, from)
           held == Hold(p, s, refs, from)
<1>1. from \in SUBSET Ref
  BY InputsBeforeRefs
<1>2. from = InputsBefore(p, s)
  OBVIOUS
<1> HIDE DEF from
<1>3. c \in Project
  BY ClearAfterProject
<1>4. /\ c.artifacts = [t \in Stage |-> IF t > s THEN {} ELSE p.artifacts[t]]
      /\ c.madeFrom = [t \in Stage |-> IF t > s THEN {} ELSE p.madeFrom[t]]
  BY DEF ClearAfter, Project
<1>5. r \in Project
  BY <1>1, RecordProject
<1>6. /\ r.artifacts = [c.artifacts EXCEPT ![s] = refs]
      /\ r.madeFrom = [c.madeFrom EXCEPT ![s] = from]
  BY <1>3 DEF Record, Project
<1>7. done \in Project /\ held \in Project
  BY <1>1, CompleteHoldProject
<1>8. /\ done.artifacts = r.artifacts /\ done.madeFrom = r.madeFrom
      /\ done.current = IF s = LastStage THEN s ELSE s + 1
  BY <1>5 DEF Complete, Project
<1>9. held.artifacts = r.artifacts /\ held.madeFrom = r.madeFrom /\ held.current = s
  BY <1>5 DEF Hold, Project
<1>10. done.current \in Stage /\ done.current >= s
  BY <1>8, NumStagesAssumption DEF Stage, LastStage
<1> HIDE DEF c, r, done, held
<1>11. s \in Int /\ \A t \in Stage : t \in Int
  BY NumStagesAssumption DEF Stage
<1>12. \A t \in Stage :
         /\ t < s => r.artifacts[t] = p.artifacts[t] /\ r.madeFrom[t] = p.madeFrom[t]
         /\ t > s => r.artifacts[t] = {}
  <2> TAKE t \in Stage
  <2>1. c.artifacts[t] = IF t > s THEN {} ELSE p.artifacts[t]
    BY <1>4
  <2>2. c.madeFrom[t] = IF t > s THEN {} ELSE p.madeFrom[t]
    BY <1>4
  <2>3. t # s => r.artifacts[t] = c.artifacts[t] /\ r.madeFrom[t] = c.madeFrom[t]
    BY <1>4, <1>6
  <2>4. t \in Int /\ s \in Int
    BY <1>11
  <2>5. (t < s => ~(t > s) /\ t # s) /\ (t > s => t # s)
    BY <2>4
  <2>6. QED BY <2>1, <2>2, <2>3, <2>5
<1>13. r.madeFrom[s] = InputsBefore(p, s)
  BY <1>2, <1>4, <1>6
<1>14. Fresh(done)
  BY <1>7, <1>8, <1>10, <1>12, <1>13, RewriteIsFresh
<1>15. held.current \in Stage /\ held.current >= s
  BY <1>9, <1>11
<1>16. Fresh(held)
  BY <1>7, <1>9, <1>12, <1>13, <1>15, RewriteIsFresh
<1>17. QED BY <1>14, <1>16 DEF done, held, from

\* A failed run adds evidence to its stage and no output.
LEMMA FailWithIsFresh ==
    ASSUME NEW p \in Project, NEW s \in Stage, NEW refs \in SUBSET Ref, Fresh(p),
           p.current = s, refs = EvidenceIn(refs)
    PROVE  Fresh(FailWith(p, s, refs))
<1> DEFINE q == FailWith(p, s, refs)
<1>1. q \in Project
  BY FailWithProject
<1>2. /\ q.artifacts = [p.artifacts EXCEPT ![s] = @ \union refs]
      /\ q.madeFrom = p.madeFrom /\ q.current = s
  BY DEF FailWith, Project
<1>3. OutputIn(p.artifacts[s] \union refs) = OutputIn(p.artifacts[s])
  <2>1. \A r \in refs : r.kind # "output"
    BY DEF EvidenceIn
  <2>2. QED BY <2>1 DEF OutputIn
<1> HIDE DEF q
<1>4. s \in Int /\ \A t \in Stage : t \in Int
  BY NumStagesAssumption DEF Stage
<1>5. p.artifacts \in [Stage -> SUBSET Ref]
  BY DEF Project
<1>6. q.artifacts[s] = p.artifacts[s] \union refs
  BY <1>2, <1>5
<1>7. \A t \in Stage : t # s => q.artifacts[t] = p.artifacts[t]
  BY <1>2, <1>5
<1>8. OutputIn(q.artifacts[s]) # {} => q.madeFrom[s] = InputsBefore(p, s)
  BY <1>2, <1>3, <1>6 DEF Fresh
<1>9. \A t \in Stage : t > s => q.artifacts[t] = {}
  BY <1>4, <1>7 DEF Fresh
<1>10. \A t \in Stage : t < s => q.artifacts[t] = p.artifacts[t] /\ q.madeFrom[t] = p.madeFrom[t]
  BY <1>2, <1>4, <1>7
<1>11. q.current \in Stage /\ q.current >= s
  BY <1>2, <1>4
<1>12. Fresh(q)
  BY <1>1, <1>8, <1>9, <1>10, <1>11, RewriteIsFresh
<1>13. QED BY <1>12 DEF q

\* Reset empties the stage and everything downstream of it.
LEMMA ResetIsFresh ==
    ASSUME NEW p \in Project, NEW s \in Stage, Fresh(p)
    PROVE  Fresh(Reset(p, s))
<1> DEFINE d == [p EXCEPT !.artifacts[s] = {}, !.madeFrom[s] = {}]
           c == ClearAfter(d, s)
           q == Reset(p, s)
<1>1. d \in Project /\ q \in Project
  BY ResetProject DEF Project
<1>2. /\ d.artifacts = [p.artifacts EXCEPT ![s] = {}]
      /\ d.madeFrom = [p.madeFrom EXCEPT ![s] = {}]
  BY DEF Project
<1> HIDE DEF d
<1>3. c \in Project
  BY <1>1, ClearAfterProject
<1>4. /\ c.artifacts = [t \in Stage |-> IF t > s THEN {} ELSE d.artifacts[t]]
      /\ c.madeFrom = [t \in Stage |-> IF t > s THEN {} ELSE d.madeFrom[t]]
  BY <1>1 DEF ClearAfter, Project
<1> HIDE DEF c
<1>5. q = [c EXCEPT !.current = s, !.status = "pending", !.lastError = "none"]
  BY DEF Reset, c, d
<1> HIDE DEF q
<1>6. q.artifacts = c.artifacts /\ q.madeFrom = c.madeFrom /\ q.current = s
  BY <1>3, <1>5 DEF Project
<1>7. s \in Int /\ \A t \in Stage : t \in Int
  BY NumStagesAssumption DEF Stage
<1>8. p.artifacts \in [Stage -> SUBSET Ref] /\ p.madeFrom \in [Stage -> SUBSET Ref]
  BY DEF Project
<1>9. \A t \in Stage :
        /\ t < s => q.artifacts[t] = p.artifacts[t] /\ q.madeFrom[t] = p.madeFrom[t]
        /\ t > s => q.artifacts[t] = {}
  <2> TAKE t \in Stage
  <2>1. q.artifacts[t] = IF t > s THEN {} ELSE d.artifacts[t]
    BY <1>4, <1>6
  <2>2. q.madeFrom[t] = IF t > s THEN {} ELSE d.madeFrom[t]
    BY <1>4, <1>6
  <2>3. t # s => d.artifacts[t] = p.artifacts[t] /\ d.madeFrom[t] = p.madeFrom[t]
    BY <1>2, <1>8
  <2>4. t \in Int /\ s \in Int
    BY <1>7
  <2>5. (t < s => ~(t > s) /\ t # s) /\ (t > s => t # s)
    BY <2>4
  <2>6. QED BY <2>1, <2>2, <2>3, <2>5
<1>10. q.artifacts[s] = {} /\ OutputIn({}) = {}
  BY <1>2, <1>4, <1>6, <1>7, <1>8 DEF OutputIn
<1>11. q.current \in Stage /\ q.current >= s
  BY <1>6, <1>7
<1>12. Fresh(q)
  BY <1>1, <1>9, <1>10, <1>11, RewriteIsFresh
<1>13. QED BY <1>12 DEF q

\* The revision increment of a Save disturbs none of it.
LEMMA BumpIsFresh ==
    ASSUME NEW p \in Project, Fresh(p)
    PROVE  Fresh(Bump(p))
<1> DEFINE q == Bump(p)
<1>1. q.artifacts = p.artifacts /\ q.madeFrom = p.madeFrom /\ q.current = p.current
  BY DEF Bump, Project
<1> HIDE DEF q
<1>2. Fresh(q)
  BY <1>1 DEF Fresh, InputsBefore
<1>3. QED BY <1>2 DEF q

(***************************************************************************)
(* The inductive invariant.                                                *)
(***************************************************************************)
\* Phases in which the whole batch has been renamed, or is empty.
Landed == {"appending", "cleaning", "saving", "failing"}

\* A goroutine's record, against the project on disk and the committed files.
WorkerInv(k, d, fs) ==
    /\ k.phase # "idle" =>
         /\ k.working \in Project
         /\ k.working.revision <= d.revision
         /\ k.working.revision = d.revision => k.working = d
         /\ AllRefs(k.working) \subseteq fs
    /\ k.phase \notin RunPhase \/ k.phase = "running" =>
         k.drafts = {} /\ k.left = {} /\ ~k.failing
    /\ k.phase = "loaded" => CanAdvance(k.working, k.stage)
    /\ k.phase \in RunPhase =>
         /\ IsRunning(k.working, k.stage)
         /\ k.drafts \subseteq RefsOf(k.stage)
         /\ k.left \subseteq k.drafts
         /\ k.failing => k.drafts = EvidenceIn(k.drafts)
    /\ k.phase = "committing" => (k.drafts \ k.left) \subseteq fs
    /\ k.phase \in Landed => k.drafts \subseteq fs
    /\ k.phase = "failing" => k.failing

IInv ==
    /\ TypeOK
    /\ Up => index = disk
    /\ ~Up => \A w \in Workers : worker[w] = IdleWorker
    /\ AllRefs(disk) \subseteq files
    /\ ManifestDescribesFiles
    /\ \A w \in Workers : WorkerInv(worker[w], disk, files)
    /\ \A v, w \in Workers :
         InRun(v) /\ InRun(w) /\ v # w =>
            worker[v].working.revision # worker[w].working.revision

\* A goroutine outside Advance and Reset satisfies the invariant of goroutines.
LEMMA IdleWorkerInv ==
    /\ IdleWorker \in Worker
    /\ IdleWorker.phase = "idle"
    /\ \A d, fs : WorkerInv(IdleWorker, d, fs)
<1>1. FirstStage \in Stage /\ "idle" \in Phase
  BY NumStagesAssumption DEF FirstStage, Stage, Phase
<1>2. IdleWorker \in Worker /\ IdleWorker.phase = "idle"
  BY <1>1 DEF IdleWorker, Worker
<1>3. "idle" \notin RunPhase /\ "idle" \notin Landed
  BY DEF RunPhase, Landed
<1>4. IdleWorker.drafts = {} /\ IdleWorker.left = {} /\ ~IdleWorker.failing
  BY DEF IdleWorker
<1>5. QED BY <1>2, <1>3, <1>4 DEF WorkerInv

\* Files only grow, and a store that has moved on leaves a copy stale.
LEMMA WorkerInvStable ==
    ASSUME NEW k, NEW d \in Project, NEW d2 \in Project, NEW fs, NEW fs2,
           WorkerInv(k, d, fs), fs \subseteq fs2,
           d2 = d \/ d2.revision = d.revision + 1
    PROVE  WorkerInv(k, d2, fs2)
<1>1. d.revision \in Nat /\ d2.revision \in Nat
  BY DEF Project
<1>2. ASSUME k.phase # "idle"
      PROVE  /\ k.working \in Project
             /\ k.working.revision <= d2.revision
             /\ k.working.revision = d2.revision => k.working = d2
             /\ AllRefs(k.working) \subseteq fs2
  <2>1. k.working \in Project /\ k.working.revision \in Nat
    BY <1>2 DEF WorkerInv, Project
  <2>2. QED BY <1>1, <1>2, <2>1 DEF WorkerInv
<1>3. QED BY <1>2 DEF WorkerInv

\* A step of one goroutine that leaves the project store alone.
LEMMA LocalStep ==
    ASSUME IInv, NEW w \in Workers, NEW k \in Worker,
           Up, UNCHANGED <<disk, index, crashes>>,
           worker' = [worker EXCEPT ![w] = k],
           files \subseteq files', files' \subseteq Ref,
           staging' \subseteq BatchFile, manifest' \subseteq BatchFile,
           \A line \in manifest' : line.ref \in files',
           WorkerInv(k, disk, files'),
           k.phase \in RunPhase => InRun(w) /\ k.working = worker[w].working
    PROVE  IInv'
<1>1. TypeOK'
  BY DEF IInv, TypeOK
<1>2. Up' /\ index' = disk'
  BY DEF IInv, Up
<1>3. AllRefs(disk')  \subseteq files' /\ ManifestDescribesFiles'
  BY DEF IInv, ManifestDescribesFiles
<1>4. ASSUME NEW v \in Workers
      PROVE  WorkerInv(worker'[v], disk', files')
  <2>1. CASE v = w
    BY <2>1 DEF IInv, TypeOK
  <2>2. CASE v # w
    <3>1. WorkerInv(worker[v], disk, files) /\ disk \in Project
      BY DEF IInv, TypeOK
    <3>2. WorkerInv(worker[v], disk, files')
      BY <3>1, WorkerInvStable
    <3>3. QED BY <2>2, <3>2 DEF IInv, TypeOK
  <2>3. QED BY <2>1, <2>2
<1>5. ASSUME NEW u \in Workers, NEW v \in Workers, u # v,
             worker'[u].phase \in RunPhase, worker'[v].phase \in RunPhase
      PROVE  worker'[u].working.revision # worker'[v].working.revision
  <2>1. \A x \in Workers : worker'[x].phase \in RunPhase =>
            InRun(x) /\ worker'[x].working = worker[x].working
    BY DEF IInv, TypeOK, InRun
  <2>2. QED BY <1>5, <2>1 DEF IInv
<1>6. AllRefs(disk)' \subseteq files'
  BY <1>3
<1>7. QED BY <1>1, <1>2, <1>4, <1>5, <1>6, <1>3 DEF IInv, InRun

\* A Save that goes through: one revision on, and the saver is the only
\* goroutine whose copy can have the new one.
LEMMA StoreStep ==
    ASSUME IInv, NEW w \in Workers, NEW k \in Worker, NEW p \in Project,
           Up, p.revision = disk.revision + 1, AllRefs(p) \subseteq files,
           disk' = p, index' = p, worker' = [worker EXCEPT ![w] = k],
           UNCHANGED <<files, staging, manifest, crashes>>,
           WorkerInv(k, p, files),
           k.phase \in RunPhase => k.working = p
    PROVE  IInv'
<1>1. TypeOK'
  BY DEF IInv, TypeOK
<1>2. Up' /\ index' = disk'
  BY PipelineAssumption DEF Up
<1>3. AllRefs(disk)' \subseteq files' /\ ManifestDescribesFiles'
  BY DEF IInv, ManifestDescribesFiles
<1>4. ASSUME NEW v \in Workers
      PROVE  WorkerInv(worker'[v], disk', files')
  <2>1. CASE v = w
    BY <2>1 DEF IInv, TypeOK
  <2>2. CASE v # w
    <3>1. WorkerInv(worker[v], disk, files) /\ disk \in Project
      BY DEF IInv, TypeOK
    <3>2. WorkerInv(worker[v], p, files)
      BY <3>1, WorkerInvStable
    <3>3. QED BY <2>2, <3>2 DEF IInv, TypeOK
  <2>3. QED BY <2>1, <2>2
<1>5. ASSUME NEW u \in Workers, NEW v \in Workers, u # v,
             worker'[u].phase \in RunPhase, worker'[v].phase \in RunPhase
      PROVE  worker'[u].working.revision # worker'[v].working.revision
  <2>1. ASSUME NEW x \in Workers, x # w, worker'[x].phase \in RunPhase
        PROVE  worker'[x] = worker[x] /\ InRun(x) /\ worker[x].working.revision \in Nat
               /\ worker[x].working.revision <= disk.revision
    <3>1. worker'[x] = worker[x] /\ InRun(x)
      BY <2>1 DEF IInv, TypeOK, InRun
    <3>2. worker[x].phase # "idle"
      BY <3>1 DEF InRun, RunPhase
    <3>3. worker[x].working \in Project /\ worker[x].working.revision <= disk.revision
      BY <3>2 DEF IInv, WorkerInv
    <3>4. QED BY <3>1, <3>3 DEF Project
  <2>2. worker'[w] = k /\ disk.revision \in Nat
    BY DEF IInv, TypeOK, Project
  <2>3. CASE u = w
    BY <1>5, <2>1, <2>2, <2>3
  <2>4. CASE v = w
    BY <1>5, <2>1, <2>2, <2>4
  <2>5. CASE u # w /\ v # w
    BY <1>5, <2>1, <2>5 DEF IInv
  <2>6. QED BY <2>3, <2>4, <2>5
<1>6. QED BY <1>1, <1>2, <1>3, <1>4, <1>5 DEF IInv, InRun

(***************************************************************************)
(* Every action preserves the invariant.                                   *)
(***************************************************************************)
\* What the invariant says of a goroutine that is not idle.
LEMMA BusyWorker ==
    ASSUME IInv, NEW w \in Workers, worker[w].phase # "idle"
    PROVE  /\ worker[w] \in Worker /\ worker[w].stage \in Stage
           /\ worker[w].working \in Project /\ BatchOf(w) \in Nat
           /\ Up /\ index = disk /\ disk \in Project
           /\ WorkerInv(worker[w], disk, files)
           /\ AllRefs(worker[w].working) \subseteq files
           /\ worker[w].drafts \in SUBSET Ref
<1>1. worker[w] \in Worker /\ WorkerInv(worker[w], disk, files) /\ disk \in Project
  BY DEF IInv, TypeOK
<1>2. Up /\ index = disk
  BY IdleWorkerInv DEF IInv
<1>3. worker[w].working \in Project /\ AllRefs(worker[w].working) \subseteq files
  BY <1>1 DEF WorkerInv
<1>4. BatchOf(w) \in Nat
  BY <1>3 DEF BatchOf, Project
<1>5. QED BY <1>1, <1>2, <1>3, <1>4 DEF Worker

\* Entering Advance or Reset: the Get hands over the stored project.
LEMMA CallStep ==
    ASSUME IInv, NEW w \in Workers, NEW s \in Stage, Load(w, s) \/ ResetGet(w, s)
    PROVE  IInv'
<1> DEFINE k(phase) == [IdleWorker EXCEPT !.phase = phase, !.stage = s, !.working = index]
<1>1. PICK phase \in {"loaded", "resetting"} :
        /\ worker' = [worker EXCEPT ![w] = k(phase)]
        /\ phase = "loaded" => CanAdvance(index, s)
  BY DEF Load, ResetGet, Become
<1>2. /\ Up /\ index \in Project /\ index = disk
      /\ UNCHANGED <<disk, index, files, staging, manifest, crashes>>
  BY DEF Load, ResetGet, IInv, TypeOK, Up
<1>3. /\ k(phase) \in Worker /\ k(phase).phase = phase /\ k(phase).working = index
      /\ k(phase).drafts = {} /\ k(phase).left = {} /\ ~k(phase).failing
      /\ k(phase).stage = s
  BY <1>2, IdleWorkerInv DEF Worker, IdleWorker, Phase
<1>4. phase \notin RunPhase /\ phase \notin Landed /\ phase # "committing" /\ phase # "failing"
  BY DEF RunPhase, Landed
<1>5. WorkerInv(k(phase), disk, files')
  BY <1>1, <1>2, <1>3, <1>4 DEF WorkerInv, IInv, Project
<1> HIDE DEF k
<1>6. QED
  BY <1>1, <1>2, <1>3, <1>4, <1>5, LocalStep DEF IInv, TypeOK, ManifestDescribesFiles

\* Every way a goroutine leaves Advance or Reset without a Save.
LEMMA ReturnStep ==
    ASSUME IInv, NEW w \in Workers, Up, Return(w),
           UNCHANGED <<disk, index, files, staging, manifest, crashes>>
    PROVE  IInv'
<1>1. IdleWorker.phase \notin RunPhase
  BY IdleWorkerInv DEF RunPhase
<1>2. QED
  BY <1>1, IdleWorkerInv, LocalStep
     DEF Return, Become, IInv, TypeOK, ManifestDescribesFiles

\* A Save at the end of Advance or Reset, accepted or refused.
LEMMA FinalSaveStep ==
    ASSUME IInv, NEW w \in Workers, NEW p \in Project, worker[w].phase # "idle",
           AllRefs(p) \subseteq files,
           (CanSave(w, p) /\ StoreSaved(p)) \/ SaveRefused(w, p),
           Return(w), UNCHANGED <<files, staging, manifest, crashes>>
    PROVE  IInv'
<1>1. Up /\ index = disk
  BY BusyWorker
<1>2. CASE SaveRefused(w, p)
  BY <1>1, <1>2, ReturnStep DEF SaveRefused
<1>3. CASE CanSave(w, p) /\ StoreSaved(p)
  <2>1. p.revision = disk.revision + 1 /\ disk' = p /\ index' = p
    BY <1>1, <1>3 DEF CanSave, StoreSaved, CanReplaceFrom
  <2>2. IdleWorker.phase \notin RunPhase
    BY IdleWorkerInv DEF RunPhase
  <2>3. QED
    BY <1>1, <2>1, <2>2, IdleWorkerInv, StoreStep DEF Return, Become
<1>4. QED BY <1>2, <1>3

\* The three results a goroutine may save at its end refer to committed files.
LEMMA ResultProject ==
    ASSUME IInv, NEW w \in Workers, worker[w].phase # "idle"
    PROVE  /\ At(w, "resetting") =>
                ResetResult(w) \in Project /\ AllRefs(ResetResult(w)) \subseteq files
           /\ At(w, "saving") =>
                RunResult(w) \in Project /\ AllRefs(RunResult(w)) \subseteq files
           /\ At(w, "failing") =>
                FailResult(w) \in Project /\ AllRefs(FailResult(w)) \subseteq files
           /\ At(w, "loaded") =>
                BeginResult(w) \in Project /\ AllRefs(BeginResult(w)) \subseteq files
<1> DEFINE p == worker[w].working
           s == worker[w].stage
           refs == worker[w].drafts
           from == InputsBefore(p, s)
<1>1. /\ p \in Project /\ s \in Stage /\ refs \in SUBSET Ref
      /\ AllRefs(p) \subseteq files
      /\ worker[w].phase \in Landed => refs \subseteq files
  BY BusyWorker DEF WorkerInv
<1>2. from \in SUBSET Ref
  BY <1>1, InputsBeforeRefs
<1>3. ResetResult(w) \in Project /\ AllRefs(ResetResult(w)) \subseteq files
  BY <1>1, ResetProject, BumpProject DEF ResetResult
<1>4. BeginResult(w) \in Project /\ AllRefs(BeginResult(w)) \subseteq files
  BY <1>1, BeginProject, BumpProject DEF BeginResult
<1>5. ASSUME At(w, "saving")
      PROVE  RunResult(w) \in Project /\ AllRefs(RunResult(w)) \subseteq files
  <2>1. refs \subseteq files
    BY <1>1, <1>5 DEF At, Landed
  <2>2. /\ Complete(p, s, refs, from) \in Project
        /\ AllRefs(Complete(p, s, refs, from)) \subseteq files
        /\ Hold(p, s, refs, from) \in Project
        /\ AllRefs(Hold(p, s, refs, from)) \subseteq files
    BY <1>1, <1>2, <2>1, CompleteHoldProject
  <2>3. RunResult(w) = Bump(Complete(p, s, refs, from))
        \/ RunResult(w) = Bump(Hold(p, s, refs, from))
    BY DEF RunResult
  <2>4. QED BY <2>2, <2>3, BumpProject
<1>6. ASSUME At(w, "failing")
      PROVE  FailResult(w) \in Project /\ AllRefs(FailResult(w)) \subseteq files
  <2>1. refs \subseteq files
    BY <1>1, <1>6 DEF At, Landed
  <2>2. QED BY <1>1, <2>1, FailWithProject, BumpProject DEF FailResult
<1>7. QED BY <1>3, <1>4, <1>5, <1>6

\* Step 3 of Advance, accepted or refused, keeps the invariant.
LEMMA SaveBeginStep ==
    ASSUME IInv, NEW w \in Workers, SaveBegin(w)
    PROVE  IInv'
<1> DEFINE p == BeginResult(w)
           k == [worker[w] EXCEPT !.phase = "running", !.working = p]
<1>1. At(w, "loaded") /\ worker[w].phase # "idle"
  BY DEF SaveBegin, At
<1>2. /\ worker[w] \in Worker /\ worker[w].stage \in Stage
      /\ worker[w].working \in Project /\ Up /\ index = disk
      /\ p \in Project /\ AllRefs(p) \subseteq files
      /\ UNCHANGED <<files, staging, manifest, crashes>>
  BY <1>1, BusyWorker, ResultProject DEF SaveBegin
<1>3. CASE SaveRefused(w, p) /\ Return(w)
  BY <1>2, <1>3, ReturnStep DEF SaveRefused
<1>4. CASE CanSave(w, p) /\ StoreSaved(p) /\ Become(w, k)
  <2>1. p.revision = disk.revision + 1 /\ disk' = p /\ index' = p
    BY <1>2, <1>4 DEF CanSave, StoreSaved, CanReplaceFrom
  <2>2. IsRunning(p, worker[w].stage)
    BY <1>2, BeginProject, BumpProject DEF BeginResult, IsRunning
  <2> HIDE DEF p
  <2>3. k \in Worker /\ k.phase = "running" /\ k.working = p /\ k.stage = worker[w].stage
    BY <1>2 DEF Worker, Phase, RunPhase
  <2>4. worker[w].drafts = {} /\ worker[w].left = {} /\ ~worker[w].failing
    BY <1>1, <1>2, BusyWorker DEF WorkerInv, At, RunPhase
  <2>5. k.drafts = {} /\ k.left = {} /\ ~k.failing
    BY <1>2, <2>4 DEF Worker
  <2> HIDE DEF k
  <2>6. "running" \in RunPhase /\ "running" \notin Landed
    BY DEF RunPhase, Landed
  <2>7. WorkerInv(k, p, files)
    BY <1>2, <2>2, <2>3, <2>5, <2>6 DEF WorkerInv, EvidenceIn, Project
  <2>8. QED
    BY <1>2, <1>4, <2>1, <2>3, <2>7, StoreStep DEF Become, k
<1>5. QED BY <1>1, <1>3, <1>4 DEF SaveBegin

\* Every step of a run between its Begin and its last Save: the working copy
\* stays, the store stays, files and staging move.
LEMMA RunStep ==
    ASSUME IInv, NEW w \in Workers, NEW k \in Worker, InRun(w),
           UNCHANGED <<disk, index, crashes>>,
           worker' = [worker EXCEPT ![w] = k],
           k.phase \in RunPhase, k.phase # "running",
           k.working = worker[w].working, k.stage = worker[w].stage,
           k.drafts \subseteq RefsOf(k.stage), k.left \subseteq k.drafts,
           k.failing => k.drafts = EvidenceIn(k.drafts),
           k.phase = "committing" => (k.drafts \ k.left) \subseteq files',
           k.phase \in Landed => k.drafts \subseteq files',
           k.phase = "failing" => k.failing,
           files \subseteq files', files' \subseteq Ref,
           staging' \subseteq BatchFile, manifest' \subseteq BatchFile,
           \A line \in manifest' : line.ref \in files'
    PROVE  IInv'
<1>1. worker[w].phase # "idle"
  BY DEF InRun, RunPhase
<1>2. /\ Up /\ WorkerInv(worker[w], disk, files)
  BY <1>1, BusyWorker
<1>3. WorkerInv(k, disk, files')
  BY <1>1, <1>2 DEF WorkerInv, InRun, RunPhase
<1>4. QED BY <1>2, <1>3, LocalStep

\* A run's record before a step.
LEMMA RunWorker ==
    ASSUME IInv, NEW w \in Workers, InRun(w)
    PROVE  /\ worker[w] \in Worker /\ worker[w].phase # "idle"
           /\ worker[w].working \in Project /\ BatchOf(w) \in Nat
           /\ worker[w].drafts \subseteq RefsOf(worker[w].stage)
           /\ worker[w].drafts \subseteq Ref
           /\ worker[w].left \subseteq worker[w].drafts
           /\ worker[w].failing => worker[w].drafts = EvidenceIn(worker[w].drafts)
           /\ At(w, "committing") => (worker[w].drafts \ worker[w].left) \subseteq files
           /\ worker[w].phase \in Landed => worker[w].drafts \subseteq files
           /\ files \subseteq Ref /\ staging \subseteq BatchFile
           /\ manifest \subseteq BatchFile /\ \A line \in manifest : line.ref \in files
           /\ At(w, "running") => ~worker[w].failing
<1>1. worker[w].phase # "idle"
  BY DEF InRun, RunPhase
<1>2. /\ worker[w] \in Worker /\ WorkerInv(worker[w], disk, files)
      /\ worker[w].working \in Project /\ BatchOf(w) \in Nat
      /\ worker[w].drafts \subseteq Ref
  BY <1>1, BusyWorker
<1>3. /\ files \subseteq Ref /\ staging \subseteq BatchFile
      /\ manifest \subseteq BatchFile /\ \A line \in manifest : line.ref \in files
  BY DEF IInv, TypeOK, ManifestDescribesFiles
<1>4. QED BY <1>1, <1>2, <1>3 DEF WorkerInv, InRun, At

\* Whatever the stage answers, the invariant is kept.
LEMMA StageStep ==
    ASSUME IInv, NEW w \in Workers, StageReturns(w) \/ StageFails(w)
    PROVE  IInv'
<1>1. At(w, "running") /\ InRun(w)
      /\ UNCHANGED <<disk, index, files, staging, manifest, crashes>>
  BY DEF StageReturns, StageFails, At, InRun, RunPhase
<1>2. worker[w] \in Worker /\ ~worker[w].failing
  BY <1>1, RunWorker
<1>3. CASE StageReturns(w)
  <2>1. PICK drafts \in Outputs(worker[w].stage), blocked \in BOOLEAN :
            Become(w, [worker[w] EXCEPT
              !.phase = IF drafts = {} THEN "saving" ELSE "staging",
              !.drafts = drafts, !.left = drafts, !.blocked = blocked])
    BY <1>3 DEF StageReturns
  <2> DEFINE k == [worker[w] EXCEPT
              !.phase = IF drafts = {} THEN "saving" ELSE "staging",
              !.drafts = drafts, !.left = drafts, !.blocked = blocked]
  <2>2. drafts \subseteq RefsOf(worker[w].stage) /\ drafts \subseteq Ref
    BY DEF Outputs, RefsOf
  <2>3. /\ k \in Worker /\ k.phase \in {"saving", "staging"}
        /\ k.phase = "saving" => drafts = {}
        /\ k.drafts = drafts /\ k.left = drafts /\ ~k.failing
        /\ k.working = worker[w].working /\ k.stage = worker[w].stage
    BY <1>2, <2>2 DEF Worker, Phase, RunPhase
  <2> HIDE DEF k
  <2>4. worker' = [worker EXCEPT ![w] = k]
    BY <2>1 DEF Become, k
  <2>5. QED
    BY <1>1, <2>2, <2>3, <2>4, RunStep, RunWorker DEF RunPhase, Landed
<1>4. CASE StageFails(w)
  <2>1. PICK drafts \in Outputs(worker[w].stage) :
            /\ drafts = EvidenceIn(drafts)
            /\ Become(w, [worker[w] EXCEPT
                 !.phase = IF drafts = {} THEN "failing" ELSE "staging",
                 !.failing = TRUE, !.drafts = drafts, !.left = drafts])
    BY <1>4 DEF StageFails
  <2> DEFINE k == [worker[w] EXCEPT
                 !.phase = IF drafts = {} THEN "failing" ELSE "staging",
                 !.failing = TRUE, !.drafts = drafts, !.left = drafts]
  <2>2. drafts \subseteq RefsOf(worker[w].stage) /\ drafts \subseteq Ref
    BY DEF Outputs, RefsOf
  <2>3. /\ k \in Worker /\ k.phase \in {"failing", "staging"}
        /\ k.phase = "failing" => drafts = {}
        /\ k.drafts = drafts /\ k.left = drafts /\ k.failing
        /\ k.working = worker[w].working /\ k.stage = worker[w].stage
    BY <1>2, <2>2 DEF Worker, Phase, RunPhase
  <2> HIDE DEF k
  <2>4. worker' = [worker EXCEPT ![w] = k]
    BY <2>1 DEF Become, k
  <2>5. QED
    BY <1>1, <2>1, <2>2, <2>3, <2>4, RunStep, RunWorker DEF RunPhase, Landed
<1>5. QED BY <1>3, <1>4

\* fail(): the batch is dropped, the run ends in a state write.
LEMMA FailWithoutStep ==
    ASSUME IInv, NEW w \in Workers, InRun(w), FailWithout(w),
           staging' \subseteq staging,
           UNCHANGED <<disk, index, files, manifest, crashes>>
    PROVE  IInv'
<1> DEFINE k == [worker[w] EXCEPT !.phase = "failing", !.failing = TRUE,
                                  !.drafts = {}, !.left = {}]
<1>1. worker[w] \in Worker
  BY RunWorker
<1>2. /\ k \in Worker /\ k.phase = "failing" /\ k.failing
      /\ k.drafts = {} /\ k.left = {}
      /\ k.working = worker[w].working /\ k.stage = worker[w].stage
  BY <1>1 DEF Worker, Phase, RunPhase
<1> HIDE DEF k
<1>3. worker' = [worker EXCEPT ![w] = k]
  BY DEF FailWithout, Become, k
<1>4. QED
  BY <1>2, <1>3, RunStep, RunWorker DEF RunPhase, EvidenceIn

\* A step that only moves the phase of a run whose batch is as far along.
LEMMA GoToStep ==
    ASSUME IInv, NEW w \in Workers, InRun(w), NEW phase \in RunPhase, GoTo(w, phase),
           UNCHANGED <<disk, index, crashes>>,
           phase # "committing", phase # "running",
           phase \in Landed => worker[w].phase \in Landed,
           phase = "failing" => worker[w].failing,
           files' = files, staging' \subseteq staging, manifest' \subseteq BatchFile,
           \A line \in manifest' : line.ref \in files
    PROVE  IInv'
<1> DEFINE k == [worker[w] EXCEPT !.phase = phase]
<1>1. worker[w] \in Worker
  BY RunWorker
<1>2. /\ k \in Worker /\ k.phase = phase /\ k.failing = worker[w].failing
      /\ k.drafts = worker[w].drafts /\ k.left = worker[w].left
      /\ k.working = worker[w].working /\ k.stage = worker[w].stage
  BY <1>1 DEF Worker, Phase
<1> HIDE DEF k
<1>3. worker' = [worker EXCEPT ![w] = k]
  BY DEF GoTo, Become, k
<1>4. QED
  BY <1>2, <1>3, RunStep, RunWorker

\* Writing one draft into staging keeps the invariant.
LEMMA WriteDraftStep ==
    ASSUME IInv, NEW w \in Workers, NEW r \in Ref, WriteDraft(w, r)
    PROVE  IInv'
<1> DEFINE left == worker[w].left \ {r}
           k == IF left # {} THEN [worker[w] EXCEPT !.left = left]
                ELSE [worker[w] EXCEPT !.phase = "committing", !.left = worker[w].drafts]
<1>1. /\ At(w, "writing") /\ InRun(w)
      /\ staging' = staging \union {[batch |-> BatchOf(w), ref |-> r]}
      /\ worker' = [worker EXCEPT ![w] = k]
      /\ UNCHANGED <<disk, index, files, manifest, crashes>>
  BY DEF WriteDraft, At, InRun, RunPhase, Become
<1>2. worker[w] \in Worker /\ BatchOf(w) \in Nat /\ worker[w].left \subseteq worker[w].drafts
  BY <1>1, RunWorker
<1>3. staging' \subseteq BatchFile
  BY <1>1, <1>2, RunWorker DEF BatchFile
<1>4. /\ k \in Worker /\ k.phase \in {"writing", "committing"}
      /\ k.phase = "committing" => k.left = k.drafts
      /\ k.drafts = worker[w].drafts /\ k.left \subseteq k.drafts
      /\ k.failing = worker[w].failing
      /\ k.working = worker[w].working /\ k.stage = worker[w].stage
  BY <1>1, <1>2 DEF Worker, Phase, RunPhase, At
<1> HIDE DEF k
<1>5. QED
  BY <1>1, <1>3, <1>4, RunStep, RunWorker DEF RunPhase, Landed

\* Renaming one staged file keeps the invariant: after the last one the whole
\* batch is committed.
LEMMA CommitFileStep ==
    ASSUME IInv, NEW w \in Workers, NEW r \in Ref, CommitFile(w, r)
    PROVE  IInv'
<1> DEFINE left == worker[w].left \ {r}
           k == [worker[w] EXCEPT !.left = left,
                                  !.phase = IF left = {} THEN "appending" ELSE @]
<1>1. /\ At(w, "committing") /\ InRun(w) /\ r \in worker[w].left
      /\ worker' = [worker EXCEPT ![w] = k]
      /\ files' = files \union {r} /\ staging' \subseteq staging
      /\ UNCHANGED <<disk, index, manifest, crashes>>
  BY DEF CommitFile, At, InRun, RunPhase, Become
<1>2. /\ worker[w] \in Worker /\ worker[w].left \subseteq worker[w].drafts
      /\ (worker[w].drafts \ worker[w].left) \subseteq files
  BY <1>1, RunWorker
<1>3. /\ k \in Worker /\ k.phase \in {"appending", "committing"}
      /\ k.phase = "appending" => k.left = {}
      /\ k.drafts = worker[w].drafts /\ k.left = left
      /\ k.failing = worker[w].failing
      /\ k.working = worker[w].working /\ k.stage = worker[w].stage
  BY <1>1, <1>2 DEF Worker, Phase, RunPhase, At
<1>4. (k.drafts \ k.left) \subseteq files' /\ k.left \subseteq k.drafts
  BY <1>1, <1>2, <1>3
<1> HIDE DEF k
<1>5. QED
  BY <1>1, <1>3, <1>4, RunStep, RunWorker DEF RunPhase, Landed

\* Every step of the artifact store keeps the invariant.
LEMMA ArtifactsStep ==
    ASSUME IInv, NEW w \in Workers, Artifacts(w)
    PROVE  IInv'
<1>1. CASE StageRejected(w)
  BY <1>1, FailWithoutStep DEF StageRejected, At, InRun, RunPhase
<1>2. CASE StageMeasured(w)
  BY <1>2, GoToStep, RunWorker DEF StageMeasured, At, InRun, RunPhase, Landed
<1>3. CASE \E r \in Ref : WriteDraft(w, r) \/ CommitFile(w, r)
  BY <1>3, WriteDraftStep, CommitFileStep
<1>4. CASE WriteFails(w)
  BY <1>4, FailWithoutStep DEF WriteFails, At, InRun, RunPhase
<1>5. CASE AppendManifest(w)
  <2>1. InRun(w) /\ worker[w].phase \in Landed /\ At(w, "appending")
    BY <1>5 DEF AppendManifest, At, InRun, RunPhase, Landed
  <2>2. /\ manifest' \subseteq BatchFile
        /\ \A line \in manifest' : line.ref \in files
    BY <1>5, <2>1, RunWorker DEF AppendManifest, BatchFile
  <2>3. QED
    BY <1>5, <2>1, <2>2, GoToStep DEF AppendManifest, RunPhase, Landed
<1>6. CASE CleanStaging(w)
  <2>1. InRun(w) /\ worker[w].phase \in Landed
    BY <1>6 DEF CleanStaging, At, InRun, RunPhase, Landed
  <2>2. worker[w].failing \in BOOLEAN
    BY <2>1, RunWorker DEF Worker
  <2>3. QED
    BY <1>6, <2>1, <2>2, GoToStep, RunWorker DEF CleanStaging, RunPhase, Landed
<1>7. CASE CommitFails(w)
  BY <1>7, GoToStep, RunWorker DEF CommitFails, At, InRun, RunPhase, Landed
<1>8. CASE Discard(w)
  BY <1>8, FailWithoutStep DEF Discard, At, InRun, RunPhase
<1>9. QED
  BY <1>1, <1>2, <1>3, <1>4, <1>5, <1>6, <1>7, <1>8 DEF Artifacts

\* Every step a goroutine takes on its own keeps the invariant.
LEMMA ProceedStep ==
    ASSUME IInv, NEW w \in Workers, Proceed(w)
    PROVE  IInv'
<1>1. CASE ResetSave(w)
  <2>1. At(w, "resetting") /\ worker[w].phase # "idle"
    BY <1>1 DEF ResetSave, At
  <2>2. QED
    BY <1>1, <2>1, ResultProject, FinalSaveStep DEF ResetSave
<1>2. CASE SaveBegin(w)
  BY <1>2, SaveBeginStep
<1>3. CASE StageReturns(w) \/ StageFails(w)
  BY <1>3, StageStep
<1>4. CASE Artifacts(w)
  BY <1>4, ArtifactsStep
<1>5. CASE SaveResult(w)
  <2>1. At(w, "saving") /\ worker[w].phase # "idle"
    BY <1>5 DEF SaveResult, At
  <2>2. QED
    BY <1>5, <2>1, ResultProject, FinalSaveStep DEF SaveResult
<1>6. CASE SaveFailure(w)
  <2>1. At(w, "failing") /\ worker[w].phase # "idle"
    BY <1>6 DEF SaveFailure, At
  <2>2. QED
    BY <1>6, <2>1, ResultProject, FinalSaveStep DEF SaveFailure
<1>7. QED
  BY <1>1, <1>2, <1>3, <1>4, <1>5, <1>6 DEF Proceed

\* A caller that gives up disturbs nothing the invariant speaks of.
LEMMA CancelStep ==
    ASSUME IInv, NEW w \in Workers, Cancel(w)
    PROVE  IInv'
<1> DEFINE k == [worker[w] EXCEPT !.cancelled = TRUE]
<1>1. worker[w].phase # "idle" /\ worker' = [worker EXCEPT ![w] = k]
      /\ UNCHANGED <<disk, index, files, staging, manifest, crashes>>
  BY DEF Cancel, At, Become
<1>2. worker[w] \in Worker /\ WorkerInv(worker[w], disk, files) /\ Up
  BY <1>1, BusyWorker
<1>3. /\ k \in Worker /\ k.phase = worker[w].phase /\ k.working = worker[w].working
      /\ k.stage = worker[w].stage /\ k.drafts = worker[w].drafts
      /\ k.left = worker[w].left /\ k.failing = worker[w].failing
  BY <1>2 DEF Worker
<1> HIDE DEF k
<1>4. WorkerInv(k, disk, files')
  BY <1>1, <1>2, <1>3 DEF WorkerInv
<1>5. QED
  BY <1>1, <1>2, <1>3, <1>4, LocalStep
     DEF IInv, TypeOK, InRun, ManifestDescribesFiles

\* The process may die anywhere, a Save half way through included.
LEMMA CrashStep ==
    ASSUME IInv, Crash
    PROVE  IInv'
<1>1. /\ index' = NoProject /\ worker' = [w \in Workers |-> IdleWorker]
      /\ crashes' = crashes + 1 /\ UNCHANGED <<files, staging, manifest>>
  BY DEF Crash
<1>2. disk' \in Project /\ AllRefs(disk') \subseteq files
  <2>1. CASE disk' = disk
    BY <2>1 DEF IInv, TypeOK
  <2>2. CASE disk' # disk
    <3>1. PICK w \in Workers :
            /\ worker[w].phase \in {"resetting", "loaded", "saving", "failing"}
            /\ disk' = SaveInProgress(w)
      BY <2>2 DEF Crash
    <3>2. \/ At(w, "resetting") /\ disk' = ResetResult(w)
          \/ At(w, "loaded") /\ disk' = BeginResult(w)
          \/ At(w, "saving") /\ disk' = RunResult(w)
          \/ At(w, "failing") /\ disk' = FailResult(w)
      BY <3>1 DEF SaveInProgress, At
    <3>3. worker[w].phase # "idle"
      BY <3>1
    <3>4. QED BY <3>2, <3>3, ResultProject
  <2>3. QED BY <2>1, <2>2
<1>3. TypeOK'
  BY <1>1, <1>2, IdleWorkerInv DEF IInv, TypeOK
<1>4. ~Up'
  BY <1>1 DEF Up
<1>5. \A w \in Workers : worker'[w] = IdleWorker
  BY <1>1
<1>6. AllRefs(disk)' \subseteq files' /\ ManifestDescribesFiles'
  BY <1>1, <1>2 DEF IInv, ManifestDescribesFiles
<1>7. IdleWorker.phase \notin RunPhase
  BY IdleWorkerInv DEF RunPhase
<1>8. QED
  BY <1>3, <1>4, <1>5, <1>6, <1>7, IdleWorkerInv DEF IInv, InRun

\* Opening the store again rebuilds the index from the file.
LEMMA RestartStep ==
    ASSUME IInv, Restart
    PROVE  IInv'
<1>1. /\ ~Up /\ index' = disk
      /\ UNCHANGED <<disk, files, staging, manifest, worker, crashes>>
  BY DEF Restart
<1>2. TypeOK' /\ Up'
  BY <1>1, PipelineAssumption DEF IInv, TypeOK, Up
<1>3. QED
  BY <1>1, <1>2, IdleWorkerInv DEF IInv, InRun, ManifestDescribesFiles

\* Every step keeps the invariant.
LEMMA NextStep == IInv /\ [Next]_vars => IInv'
<1> SUFFICES ASSUME IInv, [Next]_vars PROVE IInv'
  OBVIOUS
<1>1. CASE UNCHANGED vars
  BY <1>1 DEF vars, IInv, TypeOK, Up, InRun, ManifestDescribesFiles
<1>2. CASE \E w \in Workers : Call(w) \/ Proceed(w) \/ Cancel(w)
  BY <1>2, CallStep, ProceedStep, CancelStep DEF Call
<1>3. CASE Crash \/ Restart
  BY <1>3, CrashStep, RestartStep
<1>4. QED BY <1>1, <1>2, <1>3 DEF Next

\* A project that was just created satisfies the invariant.
LEMMA InitInv == Init => IInv
<1> SUFFICES ASSUME Init PROVE IInv
  OBVIOUS
<1>1. TypeOK
  BY NewProjectProject, IdleWorkerInv DEF Init, TypeOK
<1>2. Up
  BY NewProjectProject, PipelineAssumption DEF Init, Up
<1>3. IdleWorker.phase \notin RunPhase
  BY IdleWorkerInv DEF RunPhase
<1>4. QED
  BY <1>1, <1>2, <1>3, IdleWorkerInv, NewProjectProject
     DEF Init, IInv, InRun, ManifestDescribesFiles

(***************************************************************************)
(* Theorems                                                                *)
(***************************************************************************)
\* The strengthened invariant holds in every reachable state.
THEOREM InductiveInvariant == Spec => []IInv
  BY InitInv, NextStep, PTL DEF Spec

\* Whatever the faults, the project, the files and the goroutines stay within
\* the values type.go allows.
THEOREM TypeCorrect == Spec => []TypeOK
<1>1. IInv => TypeOK
  BY DEF IInv
<1>2. QED BY <1>1, InductiveInvariant, PTL

\* Artifacts before state: no project, on disk or in a run's hands, ever refers
\* to an artifact that is not committed.
THEOREM ReferencedFilesExistAlways == Spec => []ReferencedFilesExist
<1>1. IInv => ReferencedFilesExist
  BY BusyWorker DEF IInv, ReferencedFilesExist, At
<1>2. QED BY <1>1, InductiveInvariant, PTL

\* A manifest line always describes a committed file.
THEOREM ManifestDescribesFilesAlways == Spec => []ManifestDescribesFiles
<1>1. IInv => ManifestDescribesFiles
  BY DEF IInv
<1>2. QED BY <1>1, InductiveInvariant, PTL

\* Two concurrent advances cannot both own the project.
THEOREM SingleOwnerAlways == Spec => []SingleOwner
<1>1. IInv => SingleOwner
  BY DEF IInv, SingleOwner, OwnsDisk, WorkerInv, InRun, RunPhase
<1>2. QED BY <1>1, InductiveInvariant, PTL

\* The memory index never shows what a restart would not find.
THEOREM IndexIsDiskAlways == Spec => []IndexIsDisk
<1>1. IInv => IndexIsDisk
  BY DEF IInv, IndexIsDisk
<1>2. QED BY <1>1, InductiveInvariant, PTL

(***************************************************************************)
(* The pipeline implements the lifecycle.                                  *)
(***************************************************************************)
\* The instance's copies of the value layer are the value layer.
LEMMA SameValueLayer ==
    /\ Lifecycle!Stage = Stage /\ Lifecycle!Ref = Ref /\ Lifecycle!NewProject = NewProject
    /\ \A p, s : /\ Lifecycle!Begin(p, s) = Begin(p, s)
                 /\ Lifecycle!Reset(p, s) = Reset(p, s)
                 /\ Lifecycle!CanAdvance(p, s) = CanAdvance(p, s)
                 /\ Lifecycle!InputsBefore(p, s) = InputsBefore(p, s)
    /\ \A p : Lifecycle!Bump(p) = Bump(p)
    /\ \A s : Lifecycle!RefsOf(s) = RefsOf(s)
    /\ \A refs : Lifecycle!EvidenceIn(refs) = EvidenceIn(refs)
    /\ \A p, s, refs : Lifecycle!FailWith(p, s, refs) = FailWith(p, s, refs)
    /\ \A p, s, refs, from :
         /\ Lifecycle!Complete(p, s, refs, from) = Complete(p, s, refs, from)
         /\ Lifecycle!Hold(p, s, refs, from) = Hold(p, s, refs, from)
<1>1. Lifecycle!Stage = Stage /\ Lifecycle!Kind = Kind /\ Lifecycle!FirstStage = FirstStage
      /\ Lifecycle!LastStage = LastStage /\ Lifecycle!StageVerify = StageVerify
  BY DEF Lifecycle!Stage, Stage, Lifecycle!Kind, Kind, Lifecycle!FirstStage, FirstStage,
         Lifecycle!LastStage, LastStage, Lifecycle!StageVerify, StageVerify
<1>2. Lifecycle!Ref = Ref
  BY <1>1 DEF Lifecycle!Ref, Ref
<1>3. \A s : Lifecycle!RefsOf(s) = RefsOf(s)
  BY <1>2 DEF Lifecycle!RefsOf, RefsOf
<1>4. \A refs : Lifecycle!EvidenceIn(refs) = EvidenceIn(refs)
  BY DEF Lifecycle!EvidenceIn, EvidenceIn
<1>5. Lifecycle!NewProject = NewProject
  BY <1>1 DEF Lifecycle!NewProject, NewProject
<1>6. \A p, s : /\ Lifecycle!Begin(p, s) = Begin(p, s)
                /\ Lifecycle!CanAdvance(p, s) = CanAdvance(p, s)
                /\ Lifecycle!InputsBefore(p, s) = InputsBefore(p, s)
  BY <1>1 DEF Lifecycle!Begin, Begin, Lifecycle!CanAdvance, CanAdvance,
              Lifecycle!InputsBefore, InputsBefore
<1>7. \A p, s : Lifecycle!ClearAfter(p, s) = ClearAfter(p, s)
  BY <1>1 DEF Lifecycle!ClearAfter, ClearAfter
<1>8. \A p, s : Lifecycle!Reset(p, s) = Reset(p, s)
  BY <1>7 DEF Lifecycle!Reset, Reset
<1>9. \A p, s, refs, from : Lifecycle!Record(p, s, refs, from) = Record(p, s, refs, from)
  BY <1>1, <1>4, <1>7 DEF Lifecycle!Record, Record
<1>10. \A p, s, refs, from :
         /\ Lifecycle!Complete(p, s, refs, from) = Complete(p, s, refs, from)
         /\ Lifecycle!Hold(p, s, refs, from) = Hold(p, s, refs, from)
  BY <1>1, <1>9 DEF Lifecycle!Complete, Complete, Lifecycle!Hold, Hold
<1>11. \A p, s, refs : Lifecycle!FailWith(p, s, refs) = FailWith(p, s, refs)
  BY DEF Lifecycle!FailWith, FailWith
<1>12. \A p : Lifecycle!Bump(p) = Bump(p)
  BY DEF Lifecycle!Bump, Bump
<1>13. QED
  BY <1>1, <1>2, <1>3, <1>4, <1>5, <1>6, <1>8, <1>10, <1>11, <1>12

\* A result saved at the end of a run is one revision past the run's copy.
LEMMA SettledRevision ==
    ASSUME NEW p \in Project, NEW s \in Stage, NEW refs \in SUBSET Ref
    PROVE  LET from == InputsBefore(p, s)
           IN  /\ Bump(Complete(p, s, refs, from)).revision = p.revision + 1
               /\ Bump(Hold(p, s, refs, from)).revision = p.revision + 1
<1> DEFINE from == InputsBefore(p, s)
<1>1. from \in SUBSET Ref
  BY InputsBeforeRefs
<1> HIDE DEF from
<1>2. /\ Complete(p, s, refs, from) \in Project
      /\ Complete(p, s, refs, from).revision = p.revision
      /\ Hold(p, s, refs, from) \in Project
      /\ Hold(p, s, refs, from).revision = p.revision
  BY <1>1, CompleteHoldProject
<1>3. /\ Bump(Complete(p, s, refs, from)).revision = p.revision + 1
      /\ Bump(Hold(p, s, refs, from)).revision = p.revision + 1
  BY <1>2, BumpProject
<1>4. QED BY <1>3 DEF from

\* A Save that goes through writes a transition of the stored project.
LEMMA SaveMaps ==
    ASSUME IInv, NEW w \in Workers, UNCHANGED files,
           worker[w].phase \in {"resetting", "loaded", "saving", "failing"},
           CanSave(w, SaveInProgress(w)), disk' = SaveInProgress(w)
    PROVE  Lifecycle!BeginStage \/ Lifecycle!Settle \/ Lifecycle!ResetStage
<1> DEFINE p == worker[w].working
           s == worker[w].stage
           refs == worker[w].drafts
<1>1. /\ p \in Project /\ s \in Stage /\ index = disk /\ disk \in Project
      /\ WorkerInv(worker[w], disk, files) /\ refs \in SUBSET Ref
  BY BusyWorker
<1>2. SaveInProgress(w).revision = disk.revision + 1
  BY <1>1 DEF CanSave, CanReplaceFrom
<1>3. p.revision \in Nat /\ disk.revision \in Nat
  BY <1>1 DEF Project
<1>4. ASSUME p.revision + 1 = disk.revision + 1
      PROVE  p = disk
  BY <1>1, <1>3, <1>4 DEF WorkerInv
<1>5. CASE At(w, "resetting")
  <2>1. disk' = Bump(Reset(p, s))
    BY <1>5 DEF SaveInProgress, ResetResult, At
  <2>2. disk' = Bump(Reset(disk, s))
    BY <1>1, <1>2, <1>4, <2>1, ResetProject, BumpProject
  <2>3. QED
    BY <1>1, <2>2, SameValueLayer DEF Lifecycle!ResetStage
<1>6. CASE At(w, "loaded")
  <2>1. disk' = Bump(Begin(p, s)) /\ CanAdvance(p, s)
    BY <1>1, <1>6 DEF SaveInProgress, BeginResult, At, WorkerInv
  <2>2. disk' = Bump(Begin(disk, s)) /\ CanAdvance(disk, s)
    BY <1>1, <1>2, <1>4, <2>1, BeginProject, BumpProject
  <2>3. QED
    BY <1>1, <2>2, SameValueLayer DEF Lifecycle!BeginStage
<1>7. ASSUME At(w, "saving") \/ At(w, "failing")
      PROVE  /\ IsRunning(p, s) /\ refs \subseteq files /\ refs \subseteq RefsOf(s)
             /\ At(w, "failing") => refs = EvidenceIn(refs)
  BY <1>1, <1>7 DEF WorkerInv, At, RunPhase, Landed
<1>8. CASE At(w, "saving")
  <2> DEFINE from == InputsBefore(p, s)
  <2>1. \/ disk' = Bump(Complete(p, s, refs, from))
        \/ disk' = Bump(Hold(p, s, refs, from))
    BY <1>8 DEF SaveInProgress, RunResult, At
  <2>2. /\ Bump(Complete(p, s, refs, from)).revision = p.revision + 1
        /\ Bump(Hold(p, s, refs, from)).revision = p.revision + 1
    BY <1>1, SettledRevision
  <2> HIDE DEF from
  <2>3. p.revision + 1 = disk.revision + 1
    <3> HIDE DEF p, s, refs
    <3>1. SaveInProgress(w) = disk'
      OBVIOUS
    <3>2. QED BY <1>2, <2>1, <2>2, <3>1
  <2> USE DEF from
  <2>4. p = disk
    BY <1>4, <2>3
  <2>5. QED
    BY <1>1, <1>7, <1>8, <2>1, <2>4, SameValueLayer
       DEF Lifecycle!Settle, IsRunning
<1>9. CASE At(w, "failing")
  <2>1. disk' = Bump(FailWith(p, s, refs))
    BY <1>9 DEF SaveInProgress, FailResult, At
  <2>2. p = disk
    BY <1>1, <1>2, <1>4, <2>1, FailWithProject, BumpProject
  <2>3. QED
    BY <1>1, <1>7, <1>9, <2>1, <2>2, SameValueLayer
       DEF Lifecycle!Settle, IsRunning
<1>10. QED BY <1>5, <1>6, <1>8, <1>9 DEF At

\* A step that changes the project on disk is a Save that goes through.
LEMMA DiskStep ==
    ASSUME IInv, [Next]_vars
    PROVE  \/ UNCHANGED disk
           \/ Lifecycle!BeginStage \/ Lifecycle!Settle \/ Lifecycle!ResetStage
<1>1. CASE UNCHANGED vars
  BY <1>1 DEF vars
<1>2. CASE Crash
  BY <1>2, SaveMaps DEF Crash
<1>3. CASE Restart
  BY <1>3 DEF Restart
<1>4. ASSUME NEW w \in Workers, Call(w) \/ Cancel(w)
      PROVE  UNCHANGED disk
  BY <1>4 DEF Call, Load, ResetGet, Cancel
<1>5. ASSUME NEW w \in Workers, Artifacts(w) \/ StageReturns(w) \/ StageFails(w)
      PROVE  UNCHANGED disk
  BY <1>5 DEF Artifacts, StageReturns, StageFails, StageRejected, StageMeasured,
              WriteDraft, CommitFile, WriteFails, AppendManifest, CleanStaging,
              CommitFails, Discard
<1>6. ASSUME NEW w \in Workers,
             ResetSave(w) \/ SaveBegin(w) \/ SaveResult(w) \/ SaveFailure(w)
      PROVE  \/ UNCHANGED disk
             \/ Lifecycle!BeginStage \/ Lifecycle!Settle \/ Lifecycle!ResetStage
  <2>1. /\ worker[w].phase \in {"resetting", "loaded", "saving", "failing"}
        /\ \/ CanSave(w, SaveInProgress(w)) /\ StoreSaved(SaveInProgress(w))
           \/ SaveRefused(w, SaveInProgress(w))
        /\ UNCHANGED files
    BY <1>6 DEF ResetSave, SaveBegin, SaveResult, SaveFailure, SaveInProgress, At
  <2>2. CASE CanSave(w, SaveInProgress(w)) /\ StoreSaved(SaveInProgress(w))
    BY <2>1, <2>2, SaveMaps DEF StoreSaved
  <2>3. CASE SaveRefused(w, SaveInProgress(w))
    BY <2>1, <2>3 DEF SaveRefused
  <2>4. QED BY <2>1, <2>2, <2>3
<1>7. QED
  BY <1>1, <1>2, <1>3, <1>4, <1>5, <1>6 DEF Next, Proceed

\* Committed files are never removed.
LEMMA FilesGrow == [Next]_vars => files \subseteq files'
<1>1. \A w \in Workers : Call(w) \/ Cancel(w) => UNCHANGED files
  BY DEF Call, Load, ResetGet, Cancel
<1>2. \A w \in Workers : Artifacts(w) => files \subseteq files'
  BY DEF Artifacts, StageRejected, StageMeasured, WriteDraft, CommitFile, WriteFails,
         AppendManifest, CleanStaging, CommitFails, Discard
<1>3. \A w \in Workers : Proceed(w) /\ ~Artifacts(w) => UNCHANGED files
  BY DEF Proceed, ResetSave, SaveBegin, StageReturns, StageFails, SaveResult, SaveFailure
<1>4. Crash \/ Restart => UNCHANGED files
  BY DEF Crash, Restart
<1>5. QED BY <1>1, <1>2, <1>3, <1>4 DEF Next, vars

\* Every step is a step of the abstract lifecycle or leaves what it sees alone.
LEMMA LifecycleStep == IInv /\ [Next]_vars => [Lifecycle!Next]_<<disk, files>>
<1> SUFFICES ASSUME IInv, [Next]_vars PROVE [Lifecycle!Next]_<<disk, files>>
  OBVIOUS
<1>1. CASE UNCHANGED disk
  <2>1. files' \in SUBSET Lifecycle!Ref
    BY NextStep, SameValueLayer DEF IInv, TypeOK
  <2>2. files' = files \union files'
    BY FilesGrow
  <2>3. QED BY <1>1, <2>1, <2>2 DEF Lifecycle!Next, Lifecycle!Publish
<1>2. CASE Lifecycle!BeginStage \/ Lifecycle!Settle \/ Lifecycle!ResetStage
  BY <1>2 DEF Lifecycle!Next
<1>3. QED BY <1>1, <1>2, DiskStep

\* Under any interleaving, fault and restart, what callers can read of a
\* project is one lifecycle: whole transitions, each on the latest record.
THEOREM PipelineImplementsLifecycle == Spec => ImplementsLifecycle
<1>1. Init => Lifecycle!Init
  BY SameValueLayer DEF Init, Lifecycle!Init
<1>2. QED
  BY <1>1, InductiveInvariant, LifecycleStep, PTL
     DEF Spec, ImplementsLifecycle, Lifecycle!Spec, Lifecycle!lifecycleVars

(***************************************************************************)
(* Recorded outputs stay in step with what they were computed from.        *)
(***************************************************************************)
\* The transitions a Save can write keep a fresh project fresh.  (An apply does
\* not: its receipt joins the inputs of a stage that already has outputs.)
LEMMA TransitionIsFresh ==
    ASSUME disk \in Project, Fresh(disk),
           Lifecycle!BeginStage \/ Lifecycle!Settle \/ Lifecycle!ResetStage
    PROVE  Fresh(disk')
<1>1. CASE Lifecycle!BeginStage
  <2>1. PICK s \in Stage : CanAdvance(disk, s) /\ disk' = Bump(Begin(disk, s))
    BY <1>1, SameValueLayer DEF Lifecycle!BeginStage
  <2>2. QED BY <2>1, BeginIsFresh, BeginProject, BumpIsFresh
<1>2. CASE Lifecycle!Settle
  <2> DEFINE s == disk.current
             from == InputsBefore(disk, s)
  <2>1. PICK refs \in SUBSET (files \intersect RefsOf(s)) :
          \/ disk' = Bump(Complete(disk, s, refs, from))
          \/ disk' = Bump(Hold(disk, s, refs, from))
          \/ refs = EvidenceIn(refs) /\ disk' = Bump(FailWith(disk, s, refs))
    BY <1>2, SameValueLayer DEF Lifecycle!Settle
  <2>2. s \in Stage /\ refs \in SUBSET Ref
    BY DEF Project, RefsOf
  <2>3. /\ Fresh(Complete(disk, s, refs, from)) /\ Fresh(Hold(disk, s, refs, from))
        /\ refs = EvidenceIn(refs) => Fresh(FailWith(disk, s, refs))
    BY <2>2, SettleIsFresh, FailWithIsFresh
  <2>4. from \in SUBSET Ref
    BY <2>2, InputsBeforeRefs
  <2> HIDE DEF from, s
  <2>5. /\ Complete(disk, s, refs, from) \in Project
        /\ Hold(disk, s, refs, from) \in Project
        /\ FailWith(disk, s, refs) \in Project
    BY <2>2, <2>4, CompleteHoldProject, FailWithProject
  <2>6. QED BY <2>1, <2>3, <2>5, BumpIsFresh
<1>3. CASE Lifecycle!ResetStage
  <2>1. PICK s \in Stage : disk' = Bump(Reset(disk, s))
    BY <1>3, SameValueLayer DEF Lifecycle!ResetStage
  <2>2. QED BY <2>1, ResetIsFresh, ResetProject, BumpIsFresh
<1>4. QED BY <1>1, <1>2, <1>3

\* No output outlives the inputs it was computed from: whatever resets, redos
\* and failed runs come between, in whatever order of goroutines and crashes.
THEOREM OutputFromRecordedInputsAlways == Spec => []OutputFromRecordedInputs
<1>1. Fresh(disk) <=> OutputFromRecordedInputs
  BY DEF Fresh, OutputFromRecordedInputs
<1>2. Init => Fresh(disk)
  BY DEF Init, Fresh, NewProject, OutputIn
<1>3. IInv /\ Fresh(disk) /\ [Next]_vars => Fresh(disk)'
  <2> SUFFICES ASSUME IInv, Fresh(disk), [Next]_vars PROVE Fresh(disk')
    OBVIOUS
  <2>1. disk \in Project
    BY DEF IInv, TypeOK
  <2>2. QED BY <2>1, DiskStep, TransitionIsFresh
<1>4. QED BY <1>1, <1>2, <1>3, InductiveInvariant, PTL DEF Spec

(***************************************************************************)
(* A failure is recorded.                                                  *)
(***************************************************************************)
\* A run leaves "failing" for "idle" through its own Save, or dies.
LEMMA LeavesFailing ==
    ASSUME IInv, [Next]_vars, NEW w \in Workers,
           At(w, "failing"), worker'[w].phase = "idle", index' # NoProject
    PROVE  SaveFailure(w)
<1>1. worker \in [Workers -> Worker]
  BY DEF IInv, TypeOK
<1>2. worker[w].phase = "failing" /\ worker'[w].phase # worker[w].phase
  BY DEF At
<1>3. ~ UNCHANGED worker /\ ~ Crash /\ ~ Restart
  BY <1>2 DEF Crash, Restart
<1>4. ASSUME NEW v \in Workers, v # w, Call(v) \/ Proceed(v) \/ Cancel(v)
      PROVE  FALSE
  <2>1. \E k : Become(v, k)
    BY <1>3, <1>4 DEF Call, Load, ResetGet, Proceed, ResetSave, SaveBegin, StageReturns,
                StageFails, Artifacts, StageRejected, StageMeasured, WriteDraft,
                CommitFile, WriteFails, AppendManifest, CleanStaging, CommitFails,
                Discard, SaveResult, SaveFailure, Cancel, GoTo, Return, FailWithout
  <2>2. worker'[w] = worker[w]
    BY <1>1, <1>4, <2>1 DEF Become
  <2>3. QED BY <1>2, <2>2
<1>5. ~ Call(w)
  BY <1>2 DEF Call, Load, ResetGet, At
<1>6. ASSUME Cancel(w)
      PROVE  FALSE
  <2>1. worker'[w] = [worker[w] EXCEPT !.cancelled = TRUE] /\ worker[w] \in Worker
    BY <1>1, <1>6 DEF Cancel, Become
  <2>2. QED BY <1>2, <2>1 DEF Worker
<1>7. Proceed(w) => SaveFailure(w)
  BY <1>2 DEF Proceed, ResetSave, SaveBegin, StageReturns, StageFails, Artifacts,
              StageRejected, StageMeasured, WriteDraft, CommitFile, WriteFails,
              AppendManifest, CleanStaging, CommitFails, Discard, SaveResult, At
<1>8. QED BY <1>3, <1>4, <1>5, <1>6, <1>7 DEF Next, vars

\* fail() writes on context.WithoutCancel: as long as the project file can be
\* written, a run that fails and still owns the project leaves it blocked.
THEOREM FailureIsRecordedAlways ==
    ASSUME "project_io" \notin Faults
    PROVE  Spec => FailureIsRecorded
<1> DEFINE Recorded(w) ==
        (At(w, "failing") /\ OwnsDisk(w) /\ worker'[w].phase = "idle" /\ index' # NoProject)
            => disk'.status = "blocked"
<1>1. ASSUME IInv, [Next]_vars, NEW w \in Workers
      PROVE  Recorded(w)
  <2> SUFFICES ASSUME At(w, "failing"), OwnsDisk(w), worker'[w].phase = "idle",
                      index' # NoProject
               PROVE  disk'.status = "blocked"
    OBVIOUS
  <2> DEFINE p == worker[w].working
             s == worker[w].stage
             refs == worker[w].drafts
  <2>1. SaveFailure(w)
    BY <1>1, LeavesFailing
  <2>2. /\ Up /\ index = disk /\ disk \in Project /\ p \in Project /\ s \in Stage
        /\ refs \in SUBSET Ref /\ p.revision = disk.revision /\ worker[w].failing
    BY <1>1, BusyWorker DEF At, WorkerInv, OwnsDisk
  <2>3. FailResult(w) = Bump(FailWith(p, s, refs))
    BY DEF FailResult
  <2> HIDE DEF p, s, refs
  <2>4. /\ FailWith(p, s, refs) \in Project
        /\ FailWith(p, s, refs).revision = p.revision
        /\ FailWith(p, s, refs).status = "blocked"
    <3>1. FailWith(p, s, refs) \in Project /\ FailWith(p, s, refs).revision = p.revision
      BY <2>2, FailWithProject
    <3>2. FailWith(p, s, refs).status = "blocked"
      BY <2>2 DEF FailWith, Project
    <3>3. QED BY <3>1, <3>2
  <2>5. /\ FailResult(w).revision = disk.revision + 1
        /\ FailResult(w).status = "blocked"
    BY <2>2, <2>3, <2>4, BumpProject
  <2>6. CanSave(w, FailResult(w))
    BY <2>2, <2>5 DEF CanSave, CtxDone, CanReplaceFrom
  <2>7. disk' = FailResult(w)
    BY <2>1, <2>6 DEF SaveFailure, SaveRefused, StoreSaved, Fault
  <2>8. QED BY <2>5, <2>7
<1>2. IInv /\ [Next]_vars => [\A w \in Workers : Recorded(w)]_vars
  BY <1>1
<1>3. QED BY <1>2, InductiveInvariant, PTL DEF Spec, FailureIsRecorded

(***************************************************************************)
(* The budget, with one caller at a time.                                  *)
(***************************************************************************)
StagedAs(w, r) == [batch |-> BatchOf(w), ref |-> r]

\* What has been measured and not yet written still fits, and what is committed
\* is taken out of staging.
BudgetInv ==
    /\ IsFiniteSet(staging)
    /\ BudgetHolds
    /\ \A w \in Workers :
         /\ At(w, "staging") => worker[w].left = worker[w].drafts
         /\ At(w, "writing") =>
              /\ Used + Cardinality(worker[w].left) <= MaxFiles
              /\ \A r \in worker[w].drafts \ worker[w].left : StagedAs(w, r) \in staging
         /\ At(w, "committing") =>
              \A r \in worker[w].left : StagedAs(w, r) \in staging

\* Finite sets have sizes, and what the invariant counts is finite.
LEMMA Sizes ==
    ASSUME IsFiniteSet(Ref), IInv, BudgetInv
    PROVE  /\ IsFiniteSet(files) /\ Cardinality(files) \in Nat
           /\ Cardinality(staging) \in Nat /\ MaxFiles \in Nat
           /\ \A S \in SUBSET Ref : IsFiniteSet(S) /\ Cardinality(S) \in Nat
<1>1. \A S \in SUBSET Ref : IsFiniteSet(S) /\ Cardinality(S) \in Nat
  BY FS_Subset, FS_CardinalityType
<1>2. Cardinality(staging) \in Nat
  BY FS_CardinalityType DEF BudgetInv
<1>3. QED BY <1>1, <1>2, PipelineAssumption DEF IInv, TypeOK

\* A smaller staging area, with no batch half way through.
LEMMA BudgetShrinks ==
    ASSUME IsFiniteSet(Ref), IInv, BudgetInv, UNCHANGED files, staging' \subseteq staging,
           \A w \in Workers : worker'[w].phase \notin {"staging", "writing", "committing"}
    PROVE  BudgetInv'
<1>1. IsFiniteSet(staging') /\ Cardinality(staging') <= Cardinality(staging)
      /\ Cardinality(staging') \in Nat
  BY FS_Subset, FS_CardinalityType DEF BudgetInv
<1>2. BudgetHolds'
  BY <1>1, Sizes DEF BudgetInv, BudgetHolds, Used
<1>3. QED BY <1>1, <1>2 DEF BudgetInv, At

\* One draft is written: one more file staged, one fewer to come.
LEMMA BudgetWrite ==
    ASSUME IsFiniteSet(Ref), \A v, u \in Workers : v = u, IInv, BudgetInv,
           NEW w \in Workers, NEW r \in Ref, WriteDraft(w, r)
    PROVE  BudgetInv'
<1> DEFINE x == StagedAs(w, r)
           left == worker[w].left \ {r}
           k == worker'[w]
<1>1. /\ worker[w].phase = "writing" /\ r \in worker[w].left
      /\ UNCHANGED files /\ staging' = staging \union {x}
      /\ k = IF left # {} THEN [worker[w] EXCEPT !.left = left]
             ELSE [worker[w] EXCEPT !.phase = "committing", !.left = worker[w].drafts]
  BY DEF WriteDraft, At, Become, StagedAs, IInv, TypeOK
<1>2. worker[w] \in Worker /\ worker[w].left \in SUBSET Ref
  BY BusyWorker, <1>1 DEF Worker
<1>3. /\ k.working = worker[w].working /\ k.drafts = worker[w].drafts
      /\ left # {} => k.phase = "writing" /\ k.left = left
      /\ left = {} => k.phase = "committing" /\ k.left = worker[w].drafts
  BY <1>1, <1>2 DEF Worker
<1>4. /\ IsFiniteSet(staging') /\ Cardinality(staging') <= Cardinality(staging) + 1
      /\ Cardinality(staging') \in Nat
  BY <1>1, Sizes, FS_AddElement, FS_CardinalityType DEF BudgetInv
<1>5. Cardinality(left) = Cardinality(worker[w].left) - 1 /\ Cardinality(left) \in Nat
  BY <1>1, <1>2, Sizes, FS_RemoveElement
<1>6. Used + Cardinality(worker[w].left) <= MaxFiles
  BY <1>1 DEF BudgetInv, At
<1>7. Used' + Cardinality(left) <= MaxFiles /\ Used' <= MaxFiles
  <2>1. Used \in Nat /\ Used' \in Nat /\ Used' <= Used + 1
    BY <1>1, <1>4, Sizes DEF Used
  <2>2. Cardinality(worker[w].left) \in Nat /\ MaxFiles \in Nat
    BY <1>2, Sizes
  <2> HIDE DEF left
  <2>3. QED BY <1>5, <1>6, <2>1, <2>2
<1>8. \A q \in worker[w].drafts \ left : StagedAs(w, q) \in staging'
  BY <1>1 DEF BudgetInv, At
<1>9. \A q : StagedAs(w, q)' = StagedAs(w, q)
  BY <1>3 DEF StagedAs, BatchOf
<1>10. BudgetHolds'
  BY <1>7 DEF BudgetHolds
<1>11. /\ k.phase = "writing" => k.left = left
       /\ k.phase # "staging"
       /\ k.phase = "committing" => left = {} /\ k.left = worker[w].drafts
  BY <1>3
<1> HIDE DEF left
<1>12. (At(w, "writing"))' =>
          /\ Used' + Cardinality(k.left) <= MaxFiles
          /\ \A q \in k.drafts \ k.left : StagedAs(w, q)' \in staging'
  BY <1>3, <1>7, <1>8, <1>9, <1>11 DEF At
<1>13. (At(w, "committing"))' => \A q \in k.left : StagedAs(w, q)' \in staging'
  BY <1>8, <1>9, <1>11 DEF At
<1>14. QED
  BY <1>4, <1>10, <1>11, <1>12, <1>13 DEF BudgetInv, At

\* A rename moves a file out of staging, and one already committed stays.
LEMMA BudgetCommit ==
    ASSUME IsFiniteSet(Ref), \A v, u \in Workers : v = u, IInv, BudgetInv,
           NEW w \in Workers, NEW r \in Ref, CommitFile(w, r)
    PROVE  BudgetInv'
<1> DEFINE x == StagedAs(w, r)
           left == worker[w].left \ {r}
           k == worker'[w]
<1>1. /\ worker[w].phase = "committing" /\ r \in worker[w].left
      /\ k = [worker[w] EXCEPT !.left = left,
                               !.phase = IF left = {} THEN "appending" ELSE @]
      /\ \/ UNCHANGED <<files, staging>>
         \/ /\ r \notin files /\ files' = files \union {r} /\ staging' = staging \ {x}
  BY DEF CommitFile, At, Become, StagedAs, IInv, TypeOK
<1>2. worker[w] \in Worker
  BY BusyWorker, <1>1
<1>3. /\ k.working = worker[w].working /\ k.phase \in {"committing", "appending"}
      /\ k.left = left
  BY <1>1, <1>2 DEF Worker
<1>4. x \in staging /\ \A q \in worker[w].left : StagedAs(w, q) \in staging
  BY <1>1 DEF BudgetInv, At
<1>5. IsFiniteSet(staging') /\ Used' = Used
  <2>1. CASE UNCHANGED <<files, staging>>
    BY <2>1 DEF Used, BudgetInv
  <2>2. CASE r \notin files /\ files' = files \union {r} /\ staging' = staging \ {x}
    <3>1. IsFiniteSet(staging') /\ Cardinality(staging') = Cardinality(staging) - 1
      BY <1>4, <2>2, FS_RemoveElement DEF BudgetInv
    <3>2. Cardinality(files') = Cardinality(files) + 1
      BY <2>2, Sizes, FS_AddElement
    <3>3. QED BY <3>1, <3>2, Sizes DEF Used
  <2>3. QED BY <1>1, <2>1, <2>2
<1>6. \A q : StagedAs(w, q)' = StagedAs(w, q)
  BY <1>3 DEF StagedAs, BatchOf
<1>7. \A q \in left : StagedAs(w, q) # x
  BY DEF StagedAs
<1>8. \A q \in k.left : StagedAs(w, q)' \in staging'
  BY <1>1, <1>3, <1>4, <1>6, <1>7
<1>9. BudgetHolds'
  BY <1>5 DEF BudgetHolds, BudgetInv
<1>10. QED BY <1>3, <1>5, <1>8, <1>9 DEF BudgetInv, At

\* A step that moves no file and neither begins nor continues a batch.
LEMMA BudgetSameFiles ==
    ASSUME IInv, BudgetInv, \A v, u \in Workers : v = u, NEW w \in Workers,
           UNCHANGED <<files, staging>>,
           \/ worker'[w].phase \notin {"staging", "writing", "committing"}
           \/ worker'[w].phase = "staging" /\ worker'[w].left = worker'[w].drafts
           \/ /\ worker'[w].phase = worker[w].phase
              /\ worker'[w].left = worker[w].left
              /\ worker'[w].drafts = worker[w].drafts
              /\ worker'[w].working = worker[w].working
    PROVE  BudgetInv'
  BY DEF BudgetInv, BudgetHolds, Used, At, StagedAs, BatchOf

\* The steps that leave both the committed and the staged files alone.
LEMMA BudgetQuiet ==
    ASSUME IsFiniteSet(Ref), \A v, u \in Workers : v = u, IInv, BudgetInv,
           NEW w \in Workers,
           \/ Call(w) \/ Cancel(w) \/ ResetSave(w) \/ SaveBegin(w)
           \/ StageReturns(w) \/ StageFails(w) \/ StageRejected(w) \/ WriteFails(w)
           \/ AppendManifest(w) \/ CommitFails(w) \/ SaveResult(w) \/ SaveFailure(w)
    PROVE  BudgetInv'
<1> DEFINE a == worker[w]
           k == worker'[w]
<1>1. UNCHANGED <<files, staging>>
  BY DEF Call, Load, ResetGet, Cancel, ResetSave, SaveBegin, StageReturns, StageFails,
         StageRejected, WriteFails, AppendManifest, CommitFails, SaveResult, SaveFailure
<1>2. a \in Worker /\ worker \in [Workers -> Worker]
  BY DEF IInv, TypeOK
<1>3. CASE Cancel(w)
  <2>1. k = [a EXCEPT !.cancelled = TRUE]
    BY <1>2, <1>3 DEF Cancel, Become
  <2>2. k.phase = a.phase /\ k.left = a.left /\ k.drafts = a.drafts /\ k.working = a.working
    BY <1>2, <2>1 DEF Worker
  <2>3. QED BY <1>1, <2>2, BudgetSameFiles
<1>4. CASE StageReturns(w)
  <2>1. PICK drafts, blocked :
          k = [a EXCEPT !.phase = IF drafts = {} THEN "saving" ELSE "staging",
                        !.drafts = drafts, !.left = drafts, !.blocked = blocked]
    BY <1>2, <1>4 DEF StageReturns, Become
  <2>2. k.phase \in {"saving", "staging"} /\ k.left = k.drafts
    BY <1>2, <2>1 DEF Worker
  <2>3. QED BY <1>1, <2>2, BudgetSameFiles
<1>5. CASE StageFails(w)
  <2>1. PICK evidence :
          k = [a EXCEPT !.phase = IF evidence = {} THEN "failing" ELSE "staging",
                        !.failing = TRUE, !.drafts = evidence, !.left = evidence]
    BY <1>2, <1>5 DEF StageFails, Become
  <2>2. k.phase \in {"failing", "staging"} /\ k.left = k.drafts
    BY <1>2, <2>1 DEF Worker
  <2>3. QED BY <1>1, <2>2, BudgetSameFiles
<1>6. CASE SaveBegin(w)
  <2>1. \/ k = [a EXCEPT !.phase = "running", !.working = BeginResult(w)]
        \/ k = IdleWorker
    BY <1>2, <1>6 DEF SaveBegin, Become, Return
  <2>2. k.phase \in {"running", "idle"}
    BY <1>2, <2>1, IdleWorkerInv DEF Worker
  <2>3. QED BY <1>1, <2>2, BudgetSameFiles
<1>7. CASE ResetSave(w) \/ SaveResult(w) \/ SaveFailure(w)
  <2>1. Return(w)
    BY <1>7 DEF ResetSave, SaveResult, SaveFailure
  <2>2. k.phase = "idle"
    BY <1>2, <2>1, IdleWorkerInv DEF Become, Return
  <2>3. QED BY <1>1, <2>2, BudgetSameFiles
<1>8. CASE Call(w)
  <2>1. PICK p \in {"loaded", "resetting"}, s \in Stage :
          k = [IdleWorker EXCEPT !.phase = p, !.stage = s, !.working = index]
    BY <1>2, <1>8 DEF Call, Load, ResetGet, Become
  <2>2. k.phase = p
    BY <2>1, IdleWorkerInv DEF Worker
  <2>3. QED BY <1>1, <2>2, BudgetSameFiles
<1>9. CASE StageRejected(w) \/ WriteFails(w) \/ AppendManifest(w) \/ CommitFails(w)
  <2>1. \/ k = [a EXCEPT !.phase = "failing", !.failing = TRUE,
                         !.drafts = {}, !.left = {}]
        \/ k = [a EXCEPT !.phase = "cleaning"]
        \/ k = [a EXCEPT !.phase = "discarding"]
    BY <1>2, <1>9 DEF StageRejected, WriteFails, AppendManifest, CommitFails,
                      FailWithout, GoTo, Become
  <2>2. k.phase \in {"failing", "cleaning", "discarding"}
    BY <1>2, <2>1 DEF Worker
  <2>3. QED BY <1>1, <2>2, BudgetSameFiles
<1>10. QED BY <1>3, <1>4, <1>5, <1>6, <1>7, <1>8, <1>9

\* The batch is measured while nobody else writes.
LEMMA BudgetMeasured ==
    ASSUME IsFiniteSet(Ref), \A v, u \in Workers : v = u, IInv, BudgetInv,
           NEW w \in Workers, StageMeasured(w)
    PROVE  BudgetInv'
<1>1. /\ worker[w].phase = "staging" /\ FitsBudget(worker[w].drafts)
      /\ worker'[w] = [worker[w] EXCEPT !.phase = "writing"]
      /\ UNCHANGED <<files, staging>>
  BY DEF StageMeasured, At, GoTo, Become, IInv, TypeOK
<1>2. /\ worker'[w].phase = "writing" /\ worker'[w].left = worker[w].left
      /\ worker'[w].drafts = worker[w].drafts
  BY <1>1, BusyWorker DEF Worker
<1>3. worker[w].left = worker[w].drafts
  BY <1>1 DEF BudgetInv, At
<1>4. QED
  BY <1>1, <1>2, <1>3 DEF BudgetInv, BudgetHolds, Used, At, FitsBudget

\* Every step keeps the budget when nobody else stages.
LEMMA BudgetNext ==
    ASSUME IsFiniteSet(Ref), \A v, u \in Workers : v = u
    PROVE  IInv /\ BudgetInv /\ [Next]_vars => BudgetInv'
<1> SUFFICES ASSUME IInv, BudgetInv, [Next]_vars PROVE BudgetInv'
  OBVIOUS
<1>1. worker \in [Workers -> Worker]
  BY DEF IInv, TypeOK
<1>2. CASE UNCHANGED vars
  BY <1>2 DEF vars, BudgetInv, BudgetHolds, Used, At, StagedAs, BatchOf
<1>3. CASE Crash
  <2>1. worker' = [w \in Workers |-> IdleWorker] /\ UNCHANGED <<files, staging>>
    BY <1>3 DEF Crash
  <2>2. QED BY <2>1, IdleWorkerInv, BudgetShrinks
<1>4. CASE Restart
  BY <1>4 DEF Restart, BudgetInv, BudgetHolds, Used, At, StagedAs, BatchOf
<1>5. ASSUME NEW w \in Workers, CleanStaging(w) \/ Discard(w)
      PROVE  BudgetInv'
  <2>1. /\ UNCHANGED files /\ staging' \subseteq staging
        /\ \/ \E p \in {"failing", "saving"} : worker'[w] = [worker[w] EXCEPT !.phase = p]
           \/ worker'[w] = [worker[w] EXCEPT !.phase = "failing", !.failing = TRUE,
                                             !.drafts = {}, !.left = {}]
    BY <1>1, <1>5 DEF CleanStaging, Discard, GoTo, FailWithout, Become
  <2>2. worker'[w].phase \in {"failing", "saving"}
    BY <1>1, <2>1 DEF Worker
  <2>3. \A v \in Workers : worker'[v].phase \in {"failing", "saving"}
    BY <2>2
  <2>4. QED BY <2>1, <2>3, BudgetShrinks
<1>6. ASSUME NEW w \in Workers, Call(w) \/ Proceed(w) \/ Cancel(w)
      PROVE  BudgetInv'
  BY <1>5, <1>6, BudgetQuiet, BudgetMeasured, BudgetWrite, BudgetCommit
     DEF Proceed, Artifacts
<1>7. QED BY <1>2, <1>3, <1>4, <1>6 DEF Next

\* "The limit cannot be exceeded", when there are finitely many artifacts and
\* one caller at a time: batches left behind by failures and crashes count, and
\* a batch that was measured is written before anything else is measured.
THEOREM BudgetHoldsAlone ==
    ASSUME IsFiniteSet(Ref), \A v, u \in Workers : v = u
    PROVE  Spec => []BudgetHolds
<1>1. Init => BudgetInv
  <2> SUFFICES ASSUME Init PROVE BudgetInv
    OBVIOUS
  <2>1. IsFiniteSet(staging) /\ Cardinality(staging) = 0 /\ Cardinality(files) = 0
    BY FS_EmptySet DEF Init
  <2>2. \A w \in Workers : worker[w].phase = "idle"
    BY IdleWorkerInv DEF Init
  <2>3. QED BY <2>1, <2>2, PipelineAssumption DEF BudgetInv, BudgetHolds, Used, At
<1>2. IInv /\ BudgetInv /\ [Next]_vars => BudgetInv'
  BY BudgetNext
<1>3. BudgetInv => BudgetHolds
  BY DEF BudgetInv
<1>4. QED BY <1>1, <1>2, <1>3, InductiveInvariant, PTL DEF Spec

(***************************************************************************)
(* A running project has a goroutine behind it, or the process died.       *)
(***************************************************************************)
\* The status each transition leaves behind.
LEMMA StatusAfter ==
    ASSUME NEW p \in Project, NEW s \in Stage, NEW refs \in SUBSET Ref
    PROVE  LET from == InputsBefore(p, s)
           IN  /\ Bump(Complete(p, s, refs, from)).status # "running"
               /\ Bump(Hold(p, s, refs, from)).status # "running"
               /\ Bump(FailWith(p, s, refs)).status # "running"
               /\ Bump(Reset(p, s)).status # "running"
<1> DEFINE from == InputsBefore(p, s)
           r == Record(p, s, refs, from)
           c == ClearAfter([p EXCEPT !.artifacts[s] = {}, !.madeFrom[s] = {}], s)
<1>1. from \in SUBSET Ref
  BY InputsBeforeRefs
<1> HIDE DEF from
<1>2. r \in Project
  BY <1>1, RecordProject
<1>3. [p EXCEPT !.artifacts[s] = {}, !.madeFrom[s] = {}] \in Project
  BY DEF Project
<1>4. c \in Project
  BY <1>3, ClearAfterProject
<1>5. /\ Complete(p, s, refs, from).status # "running"
      /\ Hold(p, s, refs, from).status # "running"
  <2> HIDE DEF r
  <2>1. /\ Complete(p, s, refs, from) =
             [r EXCEPT !.current = IF s = LastStage THEN s ELSE s + 1,
                       !.status = IF s = LastStage THEN "done" ELSE "pending"]
        /\ Hold(p, s, refs, from) =
             [r EXCEPT !.current = s, !.status = "blocked", !.lastError = "awaiting_human"]
    BY DEF Complete, Hold, r
  <2>2. QED BY <1>2, <2>1 DEF Project
<1>6. FailWith(p, s, refs).status = "blocked"
  BY DEF FailWith, Project
<1>7. Reset(p, s).status = "pending"
  <2> HIDE DEF c
  <2>1. Reset(p, s) = [c EXCEPT !.current = s, !.status = "pending", !.lastError = "none"]
    BY DEF Reset, c
  <2>2. QED BY <1>4, <2>1 DEF Project
<1>8. /\ Complete(p, s, refs, from) \in Project /\ Hold(p, s, refs, from) \in Project
      /\ FailWith(p, s, refs) \in Project /\ Reset(p, s) \in Project
  BY <1>1, CompleteHoldProject, FailWithProject, ResetProject
<1>9. QED BY <1>5, <1>6, <1>7, <1>8, BumpProject DEF from

\* Only a Begin makes a project running.
LEMMA SavedStatus ==
    ASSUME IInv, NEW w \in Workers, worker[w].phase # "idle"
    PROVE  /\ At(w, "resetting") => ResetResult(w).status # "running"
           /\ At(w, "saving") => RunResult(w).status # "running"
           /\ At(w, "failing") => FailResult(w).status # "running"
<1>1. /\ worker[w].working \in Project /\ worker[w].stage \in Stage
      /\ worker[w].drafts \in SUBSET Ref
  BY BusyWorker
<1>2. QED BY <1>1, StatusAfter DEF ResetResult, RunResult, FailResult

\* Without cancellations and failing disks the owner of a project can save.
LEMMA OwnerSaves ==
    ASSUME "project_io" \notin Faults, IInv, NEW w \in Workers,
           OwnsDisk(w), ~worker[w].cancelled, SaveResult(w) \/ SaveFailure(w)
    PROVE  disk'.status # "running"
<1> DEFINE p == worker[w].working
           s == worker[w].stage
           refs == worker[w].drafts
<1>1. worker[w].phase # "idle" /\ (At(w, "saving") \/ At(w, "failing"))
  BY DEF SaveResult, SaveFailure, At
<1>2. /\ Up /\ index = disk /\ p \in Project /\ s \in Stage
      /\ refs \in SUBSET Ref /\ p.revision = disk.revision
  BY <1>1, BusyWorker DEF OwnsDisk
<1>3. RunResult(w).revision = p.revision + 1
  BY <1>2, SettledRevision DEF RunResult
<1>4. FailResult(w).revision = p.revision + 1
  BY <1>2, FailWithProject, BumpProject DEF FailResult
<1>5. CanSave(w, RunResult(w)) /\ CanSave(w, FailResult(w))
  BY <1>2, <1>3, <1>4 DEF CanSave, CtxDone, CanReplaceFrom
<1>6. \/ At(w, "saving") /\ disk' = RunResult(w)
      \/ At(w, "failing") /\ disk' = FailResult(w)
  BY <1>5 DEF SaveResult, SaveFailure, SaveRefused, StoreSaved, Fault
<1>7. QED BY <1>1, <1>6, SavedStatus

OwnedInv ==
    /\ RunningMeansOwnedOrCrashed
    /\ \A w \in Workers : ~worker[w].cancelled

\* A step of a run that does not end it keeps the copy it works on.
LEMMA RunGoesOn ==
    ASSUME IInv, NEW w \in Workers, StageReturns(w) \/ StageFails(w) \/ Artifacts(w)
    PROVE  /\ worker'[w].phase \in RunPhase /\ UNCHANGED <<disk, crashes>>
           /\ worker'[w].working = worker[w].working
           /\ worker'[w].cancelled = worker[w].cancelled
<1> DEFINE a == worker[w]
           k == worker'[w]
<1>1. a \in Worker /\ worker \in [Workers -> Worker]
  BY DEF IInv, TypeOK
<1>2. a.phase \in RunPhase
  BY DEF StageReturns, StageFails, Artifacts, StageRejected, StageMeasured, WriteDraft,
         CommitFile, WriteFails, AppendManifest, CleanStaging, CommitFails, Discard, At,
         RunPhase
<1>3. UNCHANGED <<disk, crashes>>
  BY DEF StageReturns, StageFails, Artifacts, StageRejected, StageMeasured,
              WriteDraft, CommitFile, WriteFails, AppendManifest, CleanStaging,
              CommitFails, Discard
<1>4. {"saving", "staging", "writing", "committing", "appending", "cleaning",
       "discarding", "failing"} \subseteq RunPhase
  BY DEF RunPhase
<1> DEFINE Kept == k.phase \in RunPhase /\ k.working = a.working /\ k.cancelled = a.cancelled
<1>5. CASE StageReturns(w)
  <2>1. PICK d, b : k = [a EXCEPT !.phase = IF d = {} THEN "saving" ELSE "staging",
                                  !.drafts = d, !.left = d, !.blocked = b]
    BY <1>1, <1>5 DEF StageReturns, Become
  <2>2. Kept
    BY <1>1, <1>2, <1>4, <2>1 DEF Worker
  <2>3. QED BY <1>3, <2>2
<1>6. CASE StageFails(w)
  <2>1. PICK d : k = [a EXCEPT !.phase = IF d = {} THEN "failing" ELSE "staging",
                               !.failing = TRUE, !.drafts = d, !.left = d]
    BY <1>1, <1>6 DEF StageFails, Become
  <2>2. Kept
    BY <1>1, <1>2, <1>4, <2>1 DEF Worker
  <2>3. QED BY <1>3, <2>2
<1>7. CASE StageRejected(w) \/ WriteFails(w) \/ Discard(w)
  <2>1. k = [a EXCEPT !.phase = "failing", !.failing = TRUE, !.drafts = {}, !.left = {}]
    BY <1>1, <1>7 DEF StageRejected, WriteFails, Discard, FailWithout, Become
  <2>2. Kept
    BY <1>1, <1>2, <1>4, <2>1 DEF Worker
  <2>3. QED BY <1>3, <2>2
<1>8. CASE StageMeasured(w) \/ AppendManifest(w) \/ CleanStaging(w) \/ CommitFails(w)
  <2>1. PICK p : /\ k = [a EXCEPT !.phase = p]
                 /\ p \in {"writing", "cleaning", "failing", "saving", "discarding"}
    BY <1>1, <1>8 DEF StageMeasured, AppendManifest, CleanStaging, CommitFails, GoTo, Become
  <2>2. Kept
    BY <1>1, <1>2, <1>4, <2>1 DEF Worker
  <2>3. QED BY <1>3, <2>2
<1>9. ASSUME NEW r \in Ref, WriteDraft(w, r)
       PROVE  Kept
  <2> DEFINE left == a.left \ {r}
  <2>1. k = IF left # {} THEN [a EXCEPT !.left = left]
            ELSE [a EXCEPT !.phase = "committing", !.left = a.drafts]
    BY <1>1, <1>9 DEF WriteDraft, Become
  <2> HIDE DEF left
  <2>2. QED BY <1>1, <1>2, <1>4, <2>1 DEF Worker
<1>10. ASSUME NEW r \in Ref, CommitFile(w, r)
       PROVE  Kept
  <2> DEFINE left == a.left \ {r}
  <2>1. k = [a EXCEPT !.left = left, !.phase = IF left = {} THEN "appending" ELSE @]
    BY <1>1, <1>10 DEF CommitFile, Become
  <2> HIDE DEF left
  <2>2. QED BY <1>1, <1>2, <1>4, <2>1 DEF Worker
<1>11. QED
  BY <1>3, <1>5, <1>6, <1>7, <1>8, <1>9, <1>10 DEF Artifacts

\* Every step keeps a running project owned, until the process dies.
LEMMA OwnedNext ==
    ASSUME "cancel" \notin Faults, "project_io" \notin Faults
    PROVE  IInv /\ OwnedInv /\ [Next]_vars => OwnedInv'
<1> SUFFICES ASSUME IInv, OwnedInv, [Next]_vars PROVE OwnedInv'
  OBVIOUS
<1>1. /\ worker \in [Workers -> Worker] /\ worker' \in [Workers -> Worker]
      /\ disk \in Project /\ crashes \in Nat
  BY NextStep DEF IInv, TypeOK
<1>2. CASE UNCHANGED vars
  BY <1>2 DEF vars, OwnedInv, RunningMeansOwnedOrCrashed, OwnsDisk, InRun
<1>3. CASE Restart
  BY <1>3 DEF Restart, OwnedInv, RunningMeansOwnedOrCrashed, OwnsDisk, InRun
<1>4. CASE Crash
  <2>1. crashes' > 0 /\ \A w \in Workers : worker'[w] = IdleWorker
    BY <1>1, <1>4 DEF Crash
  <2>2. ~IdleWorker.cancelled
    BY DEF IdleWorker
  <2>3. QED BY <2>1, <2>2 DEF OwnedInv, RunningMeansOwnedOrCrashed
<1>5. ASSUME NEW w \in Workers, Call(w) \/ Proceed(w) \/ Cancel(w)
      PROVE  OwnedInv'
  <2>1. ~Cancel(w) /\ ~worker[w].cancelled
    BY DEF Cancel, Fault, OwnedInv
  <2>2. UNCHANGED crashes
    BY <1>5, <2>1 DEF Call, Load, ResetGet, Proceed, ResetSave, SaveBegin, StageReturns,
              StageFails, Artifacts, StageRejected, StageMeasured, WriteDraft, CommitFile,
              WriteFails, AppendManifest, CleanStaging, CommitFails, Discard, SaveResult,
              SaveFailure
  <2>3. \A v \in Workers \ {w} : worker'[v] = worker[v]
    <3>1. \E k : Become(w, k)
      BY <1>5, <2>1 DEF Call, Load, ResetGet, Proceed, ResetSave, SaveBegin, StageReturns,
                StageFails, Artifacts, StageRejected, StageMeasured, WriteDraft, CommitFile,
                WriteFails, AppendManifest, CleanStaging, CommitFails, Discard, SaveResult,
                SaveFailure, GoTo, Return, FailWithout
    <3>2. QED BY <1>1, <3>1 DEF Become
  <2>4. ~IdleWorker.cancelled /\ IdleWorker \in Worker
    BY IdleWorkerInv DEF IdleWorker
  <2>5. ASSUME UNCHANGED disk, ~worker'[w].cancelled,
               OwnsDisk(w) => InRun(w)' /\ worker'[w].working = worker[w].working
        PROVE  OwnedInv'
    BY <2>2, <2>3, <2>5 DEF OwnedInv, RunningMeansOwnedOrCrashed, OwnsDisk, InRun
  <2>6. CASE Call(w)
    <3>1. PICK p \in {"loaded", "resetting"}, s \in Stage :
            worker'[w] = [IdleWorker EXCEPT !.phase = p, !.stage = s, !.working = index]
      BY <1>1, <2>6 DEF Call, Load, ResetGet, Become
    <3>2. ~worker'[w].cancelled
      BY <2>4, <3>1 DEF Worker
    <3>3. UNCHANGED disk /\ worker[w].phase = "idle"
      BY <2>6 DEF Call, Load, ResetGet, At
    <3>4. ~OwnsDisk(w)
      BY <3>3 DEF OwnsDisk, InRun, RunPhase
    <3>5. QED BY <2>5, <3>2, <3>3, <3>4
  <2>7. CASE SaveBegin(w)
    <3>1. ~OwnsDisk(w) /\ At(w, "loaded")
      BY <2>7 DEF SaveBegin, At, OwnsDisk, InRun, RunPhase
    <3>2. CASE SaveRefused(w, BeginResult(w)) /\ Return(w)
      <4>1. worker'[w] = IdleWorker /\ UNCHANGED disk
        BY <1>1, <3>2 DEF SaveRefused, Return, Become
      <4>2. QED BY <2>4, <2>5, <3>1, <4>1
    <3>3. CASE /\ StoreSaved(BeginResult(w))
               /\ Become(w, [worker[w] EXCEPT !.phase = "running",
                                              !.working = BeginResult(w)])
      <4>1. /\ disk' = BeginResult(w)
            /\ worker'[w] = [worker[w] EXCEPT !.phase = "running",
                                              !.working = BeginResult(w)]
        BY <1>1, <3>3 DEF StoreSaved, Become
      <4>2. /\ worker'[w].phase = "running" /\ worker'[w].working = disk'
            /\ worker'[w].cancelled = worker[w].cancelled
        BY <1>1, <4>1 DEF Worker
      <4>3. OwnsDisk(w)'
        BY <4>2 DEF OwnsDisk, InRun, RunPhase
      <4>4. \A v \in Workers : ~worker'[v].cancelled
        BY <2>3, <4>2 DEF OwnedInv
      <4>5. QED BY <4>3, <4>4 DEF OwnedInv, RunningMeansOwnedOrCrashed
    <3>4. QED BY <2>7, <3>2, <3>3 DEF SaveBegin
  <2>8. CASE ResetSave(w) \/ SaveResult(w) \/ SaveFailure(w)
    <3>1. worker'[w] = IdleWorker
      <4>1. Return(w)
        BY <2>8 DEF ResetSave, SaveResult, SaveFailure
      <4>2. QED BY <1>1, <4>1 DEF Return, Become
    <3>2. worker[w].phase # "idle"
      BY <2>8 DEF ResetSave, SaveResult, SaveFailure, At
    <3>3. \A v \in Workers : ~worker'[v].cancelled
      BY <2>3, <2>4, <3>1 DEF OwnedInv
    <3>4. ASSUME disk'.status # "running" PROVE OwnedInv'
      BY <3>3, <3>4 DEF OwnedInv, RunningMeansOwnedOrCrashed
    <3>5. CASE OwnsDisk(w)
      <4>1. ~ResetSave(w)
        BY <3>5 DEF OwnsDisk, InRun, RunPhase, ResetSave, At
      <4>2. QED BY <2>1, <2>8, <3>4, <3>5, <4>1, OwnerSaves
    <3>6. CASE UNCHANGED disk /\ ~OwnsDisk(w)
      BY <2>4, <2>5, <3>1, <3>6
    <3>7. CASE ~ UNCHANGED disk
      <4>1. \/ At(w, "resetting") /\ disk' = ResetResult(w)
            \/ At(w, "saving") /\ disk' = RunResult(w)
            \/ At(w, "failing") /\ disk' = FailResult(w)
        BY <2>8, <3>7 DEF ResetSave, SaveResult, SaveFailure, SaveRefused, StoreSaved
      <4>2. QED BY <3>2, <3>4, <4>1, SavedStatus
    <3>8. QED BY <3>5, <3>6, <3>7
  <2>9. CASE StageReturns(w) \/ StageFails(w) \/ Artifacts(w)
    BY <2>1, <2>5, <2>9, RunGoesOn DEF InRun
  <2>10. QED BY <1>5, <2>1, <2>6, <2>7, <2>8, <2>9 DEF Proceed
<1>6. QED BY <1>2, <1>3, <1>4, <1>5 DEF Next

\* The file comment of pipeline.go reads a running project that nobody works on
\* as a process that died.  So it is, as long as no caller is canceled and the
\* project file can be written.
THEOREM RunningMeansOwnedOrCrashedAlways ==
    ASSUME "cancel" \notin Faults, "project_io" \notin Faults
    PROVE  Spec => []RunningMeansOwnedOrCrashed
<1>1. Init => OwnedInv
  BY DEF Init, OwnedInv, RunningMeansOwnedOrCrashed, NewProject, IdleWorker
<1>2. IInv /\ OwnedInv /\ [Next]_vars => OwnedInv'
  BY OwnedNext
<1>3. OwnedInv => RunningMeansOwnedOrCrashed
  BY DEF OwnedInv
<1>4. QED BY <1>1, <1>2, <1>3, InductiveInvariant, PTL DEF Spec

=============================================================================
