------------------------- MODULE ModelingApplierProofs ------------------------
(***************************************************************************)
(* What holds of ModelingApplier for every number of callers, files,       *)
(* artifacts and edits, and under any choice of faults.                    *)
(*                                                                         *)
(* The argument for AppendedOnce.  The source file comes first in the      *)
(* manifest, so as long as it is absent no build file holds a fragment.    *)
(* An apply that passes prepare's first check saw it absent after all of   *)
(* its plan was read: what it read then held no fragment, and what it      *)
(* writes holds one.  Whoever starts later is refused by the source file.  *)
(***************************************************************************)
EXTENDS ModelingApplier, TLAPS

(***************************************************************************)
(* The value layer: every transition returns a project, keeps its          *)
(* revision, and refers to nothing but what it referred to before and the  *)
(* references it was given.                                                *)
(***************************************************************************)
\* type.go's transitions stay within Project.Validate's closed sets.
LEMMA ClearAfterProject ==
    ASSUME NEW p \in Project, NEW s \in Stage
    PROVE  /\ ClearAfter(p, s) \in Project
           /\ ClearAfter(p, s).revision = p.revision
           /\ AllRefs(ClearAfter(p, s)) \subseteq AllRefs(p)
<1> DEFINE q == ClearAfter(p, s)
<1>1. q \in Project /\ q.revision = p.revision
  BY DEF ClearAfter, Project
<1>2. \A t \in Stage : q.artifacts[t] \subseteq p.artifacts[t]
  BY DEF ClearAfter, Project
<1>3. q.evidence \subseteq p.evidence
  BY DEF ClearAfter, Project
<1>4. QED BY <1>1, <1>2, <1>3 DEF AllRefs

\* record() refers to what was recorded before and to the new batch.
LEMMA RecordProject ==
    ASSUME NEW p \in Project, NEW s \in Stage,
           NEW refs \in SUBSET Ref, NEW from \in SUBSET Ref
    PROVE  /\ Record(p, s, refs, from) \in Project
           /\ Record(p, s, refs, from).revision = p.revision
           /\ AllRefs(Record(p, s, refs, from)) \subseteq AllRefs(p) \union refs
<1> DEFINE c == ClearAfter(p, s)
           q == Record(p, s, refs, from)
<1>1. c \in Project /\ c.revision = p.revision /\ AllRefs(c) \subseteq AllRefs(p)
  BY ClearAfterProject
<1>2. EvidenceIn(refs) \in SUBSET Ref /\ EvidenceIn(refs) \subseteq refs
  BY DEF EvidenceIn
<1>3. "none" \in Category
  BY DEF Category
<1> HIDE DEF c
<1>4. q = [c EXCEPT !.artifacts[s] = refs, !.madeFrom[s] = from,
                    !.evidence = IF s = StageVerify THEN EvidenceIn(refs) ELSE @,
                    !.lastError = "none"]
  BY DEF Record, c
<1> HIDE DEF q
<1>5. q \in Project /\ q.revision = p.revision
  BY <1>1, <1>2, <1>3, <1>4 DEF Project
<1>6. /\ \A t \in Stage : q.artifacts[t] \subseteq c.artifacts[t] \union refs
      /\ q.evidence \subseteq c.evidence \union refs
  BY <1>1, <1>2, <1>4 DEF Project
<1>7. AllRefs(q) \subseteq AllRefs(c) \union refs
  BY <1>6 DEF AllRefs
<1>8. QED BY <1>1, <1>5, <1>7 DEF q

\* Complete and Hold return a project that refers to nothing but the old project's
\* references and the recorded ones.
LEMMA CompleteHoldProject ==
    ASSUME NEW p \in Project, NEW s \in Stage,
           NEW refs \in SUBSET Ref, NEW from \in SUBSET Ref
    PROVE  /\ Complete(p, s, refs, from) \in Project
           /\ Complete(p, s, refs, from).revision = p.revision
           /\ AllRefs(Complete(p, s, refs, from)) \subseteq AllRefs(p) \union refs
           /\ Hold(p, s, refs, from) \in Project
           /\ Hold(p, s, refs, from).revision = p.revision
           /\ AllRefs(Hold(p, s, refs, from)) \subseteq AllRefs(p) \union refs
<1> DEFINE r == Record(p, s, refs, from)
<1>1. r \in Project /\ r.revision = p.revision
      /\ AllRefs(r) \subseteq AllRefs(p) \union refs
  BY RecordProject
<1>2. /\ {"done", "pending", "blocked"} \subseteq Status
      /\ "awaiting_human" \in Category
  BY DEF Status, Category
<1>3. s # LastStage => s + 1 \in Stage
  BY NumStagesAssumption DEF Stage, LastStage
<1> HIDE DEF r
<1>4. Complete(p, s, refs, from) =
        [r EXCEPT !.current = IF s = LastStage THEN s ELSE s + 1,
                  !.status = IF s = LastStage THEN "done" ELSE "pending"]
  BY DEF Complete, r
<1>5. Hold(p, s, refs, from) =
        [r EXCEPT !.current = s, !.status = "blocked", !.lastError = "awaiting_human"]
  BY DEF Hold, r
<1>6. /\ Complete(p, s, refs, from) \in Project
      /\ Complete(p, s, refs, from).revision = r.revision
      /\ Complete(p, s, refs, from).artifacts = r.artifacts
      /\ Complete(p, s, refs, from).evidence = r.evidence
  BY <1>1, <1>2, <1>3, <1>4 DEF Project
<1>7. /\ Hold(p, s, refs, from) \in Project
      /\ Hold(p, s, refs, from).revision = r.revision
      /\ Hold(p, s, refs, from).artifacts = r.artifacts
      /\ Hold(p, s, refs, from).evidence = r.evidence
  BY <1>1, <1>2, <1>5 DEF Project
<1>8. /\ AllRefs(Complete(p, s, refs, from)) = AllRefs(r)
      /\ AllRefs(Hold(p, s, refs, from)) = AllRefs(r)
  BY <1>6, <1>7 DEF AllRefs
<1>9. QED BY <1>1, <1>6, <1>7, <1>8

\* FailWith returns a project and only adds the evidence it is given.
LEMMA FailWithProject ==
    ASSUME NEW p \in Project, NEW s \in Stage, NEW refs \in SUBSET Ref
    PROVE  /\ FailWith(p, s, refs) \in Project
           /\ FailWith(p, s, refs).revision = p.revision
           /\ AllRefs(FailWith(p, s, refs)) \subseteq AllRefs(p) \union refs
<1> DEFINE q == FailWith(p, s, refs)
<1>1. "blocked" \in Status /\ "stage_failed" \in Category
  BY DEF Status, Category
<1>2. q \in Project /\ q.revision = p.revision /\ q.evidence = p.evidence
  BY <1>1 DEF FailWith, Project
<1>3. \A t \in Stage : q.artifacts[t] \subseteq p.artifacts[t] \union refs
  BY DEF FailWith, Project
<1> HIDE DEF q
<1>4. AllRefs(q) \subseteq AllRefs(p) \union refs
  BY <1>2, <1>3 DEF AllRefs
<1>5. QED BY <1>2, <1>4 DEF q

\* Applied and ApplyFailed return a project and only add the receipt.
LEMMA LandedProject ==
    ASSUME NEW p \in Project, NEW s \in Stage, NEW refs \in SUBSET Ref
    PROVE  /\ Applied(p, s, refs) \in Project
           /\ Applied(p, s, refs).revision = p.revision
           /\ AllRefs(Applied(p, s, refs)) \subseteq AllRefs(p) \union refs
           /\ ApplyFailed(p, s, refs) \in Project
           /\ ApplyFailed(p, s, refs).revision = p.revision
           /\ AllRefs(ApplyFailed(p, s, refs)) \subseteq AllRefs(p) \union refs
<1> DEFINE l == [p EXCEPT !.artifacts[s] = @ \union refs, !.lastError = "none"]
           q == Applied(p, s, refs)
           r == ApplyFailed(p, s, refs)
<1>1. /\ {"done", "pending", "blocked"} \subseteq Status
      /\ {"none", "apply_partial"} \subseteq Category
  BY DEF Status, Category
<1>2. s # LastStage => s + 1 \in Stage
  BY NumStagesAssumption DEF Stage, LastStage
<1>3. l \in Project /\ l.revision = p.revision /\ l.evidence = p.evidence
  BY <1>1 DEF Project
<1>4. \A t \in Stage : l.artifacts[t] \subseteq p.artifacts[t] \union refs
  BY DEF Project
<1>5. \/ q = l
      \/ q = [l EXCEPT !.current = IF s = LastStage THEN s ELSE s + 1,
                       !.status = IF s = LastStage THEN "done" ELSE "pending"]
  BY DEF Applied
<1>6. r \in Project /\ r.revision = p.revision /\ r.evidence = p.evidence
  BY <1>1 DEF ApplyFailed, Project
<1>7. \A t \in Stage : r.artifacts[t] \subseteq p.artifacts[t] \union refs
  BY DEF ApplyFailed, Project
<1> HIDE DEF l, q, r
<1>8. q \in Project /\ q.revision = l.revision /\ q.evidence = l.evidence
      /\ q.artifacts = l.artifacts
  BY <1>1, <1>2, <1>3, <1>5 DEF Project
<1>9. AllRefs(q) \subseteq AllRefs(p) \union refs /\ AllRefs(r) \subseteq AllRefs(p) \union refs
  BY <1>3, <1>4, <1>6, <1>7, <1>8 DEF AllRefs
<1>10. QED BY <1>3, <1>6, <1>8, <1>9 DEF q, r

\* Begin returns a running project and leaves every reference alone.
LEMMA BeginProject ==
    ASSUME NEW p \in Project, NEW s \in Stage
    PROVE  /\ Begin(p, s) \in Project
           /\ Begin(p, s).revision = p.revision
           /\ AllRefs(Begin(p, s)) = AllRefs(p)
           /\ IsRunning(Begin(p, s), s)
<1>1. "running" \in Status /\ "none" \in Category
  BY DEF Status, Category
<1>2. QED BY <1>1 DEF Begin, Project, AllRefs, IsRunning

\* Reset returns a project and only drops references.
LEMMA ResetProject ==
    ASSUME NEW p \in Project, NEW s \in Stage
    PROVE  /\ Reset(p, s) \in Project
           /\ Reset(p, s).revision = p.revision
           /\ AllRefs(Reset(p, s)) \subseteq AllRefs(p)
<1> DEFINE d == [p EXCEPT !.artifacts[s] = {}, !.madeFrom[s] = {}]
           c == ClearAfter(d, s)
<1>1. d \in Project /\ d.revision = p.revision /\ d.evidence = p.evidence
  BY DEF Project
<1>2. \A t \in Stage : d.artifacts[t] \subseteq p.artifacts[t]
  BY DEF Project
<1> HIDE DEF d
<1>3. AllRefs(d) \subseteq AllRefs(p)
  BY <1>1, <1>2 DEF AllRefs
<1>4. c \in Project /\ c.revision = d.revision /\ AllRefs(c) \subseteq AllRefs(d)
  BY <1>1, ClearAfterProject
<1> HIDE DEF c
<1>5. Reset(p, s) = [c EXCEPT !.current = s, !.status = "pending", !.lastError = "none"]
  BY DEF Reset, c, d
<1>6. "pending" \in Status /\ "none" \in Category
  BY DEF Status, Category
<1>7. /\ Reset(p, s) \in Project
      /\ Reset(p, s).revision = c.revision
      /\ Reset(p, s).artifacts = c.artifacts
      /\ Reset(p, s).evidence = c.evidence
  BY <1>4, <1>5, <1>6 DEF Project
<1>8. AllRefs(Reset(p, s)) = AllRefs(c)
  BY <1>7 DEF AllRefs
<1>9. QED BY <1>1, <1>3, <1>4, <1>7, <1>8

\* Save's revision increment changes nothing else.
LEMMA BumpProject ==
    ASSUME NEW p \in Project
    PROVE  /\ Bump(p) \in Project
           /\ Bump(p).revision = p.revision + 1
           /\ AllRefs(Bump(p)) = AllRefs(p)
           /\ Bump(p).status = p.status /\ Bump(p).current = p.current
<1>1. Bump(p) \in Project /\ Bump(p).revision = p.revision + 1
      /\ Bump(p).artifacts = p.artifacts /\ Bump(p).evidence = p.evidence
      /\ Bump(p).status = p.status /\ Bump(p).current = p.current
  BY DEF Bump, Project
<1>2. QED BY <1>1 DEF AllRefs

\* The inputs of a stage are references.
LEMMA InputsBeforeRefs ==
    ASSUME NEW p \in Project, NEW s \in Stage
    PROVE  InputsBefore(p, s) \in SUBSET Ref
  BY DEF InputsBefore, Project

\* Create writes a valid project that refers to nothing.
LEMMA NewProjectProject == NewProject \in Project /\ AllRefs(NewProject) = {}
<1>1. "pending" \in Status /\ "none" \in Category /\ FirstStage \in Stage
  BY NumStagesAssumption DEF Status, Category, FirstStage, Stage
<1>2. QED BY <1>1 DEF NewProject, Project, AllRefs

Busy(a) == a.phase \notin {"idle", "reported"}

\* What a goroutine's phase implies about its plan and its receipt.
PlanInv(a, p, pub) ==
    /\ Busy(a) => /\ a.planned \in Project
                  /\ Emitted(a.planned) # {}
                  /\ AllRefs(a.planned) \subseteq pub
                  /\ a.planned.revision <= p.revision
                  /\ a.planned.revision = p.revision => a.planned = p
    /\ a.receipt \subseteq pub \intersect Receipts
    /\ a.phase \in {"planning", "preparing", "writing"} => a.next \in File
    /\ a.phase = "writing" => \A f \in File : a.bytes[f] \in Content
    /\ a.phase = "preparing" => \A f \in File : f < a.next => a.bytes[f] \in Content
    /\ a.phase = "preparing" =>
         \A f \in File : ActionOf(f) = "modify" => a.seen[f] # Absent
    /\ a.phase = "planning" =>
         \A f \in File : f < a.next /\ ActionOf(f) = "modify" => a.seen[f] # Absent

IInv ==
    /\ TypeOK
    /\ ReferencesArePublished
    /\ \A w \in Appliers : PlanInv(applier[w], project, published)

\* A build file that holds no generated fragment; a file that holds each at most
\* once.
Clean(c) == c # Absent /\ \A g \in ArtifactIDs : c.copies[g] = 0
Once(c) == c # Absent /\ \A g \in ArtifactIDs : c.copies[g] <= 1

BuildFile(f) == f \in File /\ ActionOf(f) = "modify"

\* What a goroutine read or will write, while the source file is (not) there.
AppendInv(a, sourceAbsent) ==
    /\ a.phase = "planning" /\ sourceAbsent =>
         \A f \in File : BuildFile(f) /\ f < a.next => Clean(a.seen[f])
    /\ a.phase = "preparing" =>
         /\ a.next > 1 \/ sourceAbsent =>
              \A f \in File : BuildFile(f) => Clean(a.seen[f])
         /\ \A f \in File : f < a.next => Once(a.bytes[f])
    /\ a.phase = "writing" =>
         /\ \A f \in File : Once(a.bytes[f])
         /\ a.next > 1 => ~sourceAbsent

SourceAbsent == tree[1] = Absent

AInv ==
    /\ IInv
    /\ AppendedOnce
    /\ SourceAbsent => \A f \in File : BuildFile(f) => Clean(tree[f])
    /\ \A w \in Appliers : AppendInv(applier[w], SourceAbsent)

(***************************************************************************)
(* Operators.                                                              *)
(***************************************************************************)
\* compose returns the bytes of a file, one fragment longer.
LEMMA WithFragmentContent ==
    ASSUME NEW c \in Content, NEW g \in ArtifactIDs
    PROVE  /\ WithFragment(c, g) \in Content
           /\ WithFragment(c, g).human = c.human
           /\ WithFragment(c, g).copies = [c.copies EXCEPT ![g] = @ + 1]
  BY DEF WithFragment, Content

\* A file nobody generated anything into is clean.
LEMMA HumanTextContent == HumanText \in Content /\ \A g \in ArtifactIDs : HumanText.copies[g] = 0
  BY DEF HumanText, Content

\* The manifest's files are numbered from one.
LEMMA FileFacts ==
    /\ 1 \in File /\ ActionOf(1) = "create" /\ NumFiles \in File
    /\ \A f \in File : /\ f \in Nat /\ f >= 1 /\ f <= NumFiles
                       /\ f # NumFiles => f + 1 \in File
                       /\ f + 1 \in 1..(NumFiles + 1)
                       /\ ActionOf(f) = "modify" <=> f # 1
                       /\ ActionOf(f) # "create" <=> ActionOf(f) = "modify"
  BY ApplierAssumption DEF File, ActionOf

\* findArtifact on a project that emit has been recorded for.
LEMMA GenerationFact ==
    ASSUME NEW w \in Appliers, applier[w].planned \in Project,
           Emitted(applier[w].planned) # {}
    PROVE  Generation(w) \in ArtifactIDs
<1>1. StageEmit \in Stage
  BY NumStagesAssumption DEF StageEmit, Stage
<1>2. applier[w].planned.artifacts[StageEmit] \subseteq Ref
  BY <1>1 DEF Project
<1>3. Emitted(applier[w].planned) \subseteq ArtifactIDs
  BY <1>2 DEF Emitted, OutputIn, Ref
<1>4. Generation(w) \in Emitted(applier[w].planned)
  BY DEF Generation
<1>5. QED BY <1>3, <1>4

\* The state every caller starts from.
LEMMA IdleApplierFacts ==
    /\ IdleApplier \in Applier /\ IdleApplier.phase = "idle" /\ IdleApplier.receipt = {}
  BY ApplierAssumption, FileFacts
     DEF IdleApplier, Applier, Phase, MaybeContent

(***************************************************************************)
(* Types, receipts and plans.                                              *)
(***************************************************************************)
\* A plan stays one while artifacts are published and the project moves on.
LEMMA PlanInvStable ==
    ASSUME NEW a, NEW p \in Project, NEW q \in Project, NEW pub, NEW pub2,
           PlanInv(a, p, pub), pub \subseteq pub2,
           q = p \/ q.revision = p.revision + 1
    PROVE  PlanInv(a, q, pub2)
<1>1. p.revision \in Nat /\ q.revision \in Nat
  BY DEF Project
<1>2. ASSUME Busy(a)
      PROVE  /\ a.planned \in Project /\ Emitted(a.planned) # {}
             /\ AllRefs(a.planned) \subseteq pub2
             /\ a.planned.revision <= q.revision
             /\ a.planned.revision = q.revision => a.planned = q
  <2>1. a.planned \in Project /\ a.planned.revision <= p.revision
    BY <1>2 DEF PlanInv
  <2>2. a.planned.revision \in Nat
    BY <2>1 DEF Project
  <2>3. QED BY <1>1, <1>2, <2>1, <2>2 DEF PlanInv
<1>3. QED BY <1>2 DEF PlanInv

\* A goroutine's step that leaves the project alone.
LEMMA LocalStep ==
    ASSUME IInv, NEW w \in Appliers, NEW k \in Applier,
           UNCHANGED project, published \subseteq published', published' \subseteq Ref,
           applier' = [applier EXCEPT ![w] = k],
           tree' \in [File -> MaybeContent], edits' \in [File -> Nat],
           PlanInv(k, project, published')
    PROVE  IInv'
<1>1. TypeOK' /\ ReferencesArePublished'
  BY DEF IInv, TypeOK, ReferencesArePublished
<1>2. ASSUME NEW v \in Appliers PROVE PlanInv(applier'[v], project, published')
  <2>1. CASE v = w
    BY <2>1 DEF IInv, TypeOK
  <2>2. CASE v # w
    BY <2>2, PlanInvStable DEF IInv, TypeOK
  <2>3. QED BY <2>1, <2>2
<1>3. QED BY <1>1, <1>2 DEF IInv

\* A step that moves the project by one revision.
LEMMA ProjectStep ==
    ASSUME IInv, project' \in Project, project'.revision = project.revision + 1,
           AllRefs(project') \subseteq published, UNCHANGED <<published, tree, edits>>,
           applier' \in [Appliers -> Applier],
           \A w \in Appliers : PlanInv(applier'[w], project, published)
    PROVE  IInv'
<1>1. TypeOK' /\ ReferencesArePublished'
  BY DEF IInv, TypeOK, ReferencesArePublished
<1>2. ASSUME NEW v \in Appliers PROVE PlanInv(applier'[v], project', published')
  BY PlanInvStable DEF IInv, TypeOK
<1>3. QED BY <1>1, <1>2 DEF IInv

\* Everything known of a goroutine inside Plan or Apply.
LEMMA BusyApplier ==
    ASSUME IInv, NEW w \in Appliers
    PROVE  /\ applier[w] \in Applier /\ PlanInv(applier[w], project, published)
           /\ project \in Project /\ published \subseteq Ref
           /\ tree \in [File -> MaybeContent] /\ edits \in [File -> Nat]
           /\ Busy(applier[w]) => Generation(w) \in ArtifactIDs
  BY GenerationFact DEF IInv, TypeOK, PlanInv

\* Ending a call, or stopping its loop, keeps what is known of it.
LEMMA StopFacts ==
    ASSUME NEW a \in Applier, PlanInv(a, project, published), Busy(a)
    PROVE  /\ [a EXCEPT !.phase = "reported"] \in Applier
           /\ PlanInv([a EXCEPT !.phase = "reported"], project, published)
           /\ Stopped(a) \in Applier
           /\ PlanInv(Stopped(a), project, published)
           /\ Stopped(a).phase \in {"reported", "recording"}
<1>1. /\ [a EXCEPT !.phase = "reported"] \in Applier
      /\ [a EXCEPT !.phase = "recording", !.partial = TRUE] \in Applier
  BY DEF Applier, Phase
<1>2. /\ PlanInv([a EXCEPT !.phase = "reported"], project, published)
      /\ PlanInv([a EXCEPT !.phase = "recording", !.partial = TRUE], project, published)
  BY DEF PlanInv, Busy, Applier
<1>3. /\ [a EXCEPT !.phase = "reported"].phase = "reported"
      /\ [a EXCEPT !.phase = "recording", !.partial = TRUE].phase = "recording"
  BY DEF Applier
<1>4. QED BY <1>1, <1>2, <1>3 DEF Stopped

\* plan, its refusals and prepare's write nothing.
LEMMA PlanStep ==
    ASSUME IInv, NEW w \in Appliers,
           PlanStarts(w) \/ PlanFile(w) \/ PlanEnds(w) \/ PrepareRefuses(w)
    PROVE  IInv'
<1>1. /\ UNCHANGED <<project, published, tree, edits>>
      /\ tree \in [File -> MaybeContent] /\ edits \in [File -> Nat]
      /\ published \subseteq Ref
      /\ applier[w] \in Applier /\ PlanInv(applier[w], project, published)
      /\ project \in Project
  BY BusyApplier DEF PlanStarts, PlanFile, PlanEnds, PrepareRefuses
<1>2. CASE PlanStarts(w)
  <2> DEFINE k == [IdleApplier EXCEPT !.phase = "planning", !.planned = project]
  <2>1. /\ k \in Applier /\ k.phase = "planning" /\ k.planned = project
        /\ k.receipt = {} /\ k.next = 1
    BY <1>1, IdleApplierFacts DEF Applier, Phase, IdleApplier
  <2>2. Emitted(project) # {} /\ AllRefs(project) \subseteq published
    BY <1>2 DEF PlanStarts, IInv, ReferencesArePublished
  <2>3. project.revision \in Nat
    BY <1>1 DEF Project
  <2>4. applier' = [applier EXCEPT ![w] = k]
    BY <1>2 DEF PlanStarts, Become
  <2> HIDE DEF k
  <2>5. PlanInv(k, project, published)
    BY <1>1, <2>1, <2>2, <2>3, FileFacts DEF PlanInv
  <2>6. QED BY <1>1, <2>1, <2>4, <2>5, LocalStep
<1>3. CASE PlanFile(w)
  <2> DEFINE a == applier[w]
             f == Here(w)
             k == [a EXCEPT !.seen[f] = tree[f],
                            !.next = IF Last(w) THEN 1 ELSE @ + 1,
                            !.phase = IF Last(w) THEN "preparing" ELSE @]
  <2>1. /\ a.phase = "planning" /\ f \in File /\ a.next = f /\ Acceptable(f)
        /\ applier' = [applier EXCEPT ![w] = k]
    BY <1>1, <1>3 DEF PlanFile, At, PlanInv, Here, Become
  <2>2. (IF Last(w) THEN 1 ELSE f + 1) \in 1..(NumFiles + 1)
    BY <2>1, FileFacts, ApplierAssumption
  <2>3. /\ k \in Applier /\ k.planned = a.planned /\ k.receipt = a.receipt
        /\ k.phase = IF f = NumFiles THEN "preparing" ELSE "planning"
        /\ k.next = IF f = NumFiles THEN 1 ELSE f + 1
        /\ k.seen = [a.seen EXCEPT ![f] = tree[f]]
    BY <1>1, <2>1, <2>2 DEF Applier, Phase, Last
  <2>4. ActionOf(f) = "modify" => tree[f] # Absent
    BY <2>1 DEF Acceptable, ActionOf
  <2>5. a.seen \in [File -> MaybeContent]
    BY <1>1 DEF Applier
  <2> HIDE DEF k
  <2>6. \A g \in File : (g < f \/ g = f) /\ ActionOf(g) = "modify" => k.seen[g] # Absent
    BY <1>1, <2>1, <2>3, <2>4, <2>5 DEF PlanInv
  <2>7. Busy(a)
    BY <2>1 DEF Busy
  <2>8. PlanInv(k, project, published)
    <3>1. \A g \in File : g < f + 1 => g < f \/ g = f
      <4> HIDE DEF f
      <4>1. QED BY <2>1, ApplierAssumption DEF File
    <3>2. f = NumFiles => \A g \in File : g < f \/ g = f
      <4> HIDE DEF f
      <4>1. QED BY ApplierAssumption DEF File
    <3>3. \A g \in File : ~ (g < 1)
      BY FileFacts
    <3>4. k.phase \in {"planning", "preparing"} /\ k.next \in File
      BY <2>1, <2>3, FileFacts
    <3>5. QED BY <1>1, <2>1, <2>3, <2>6, <2>7, <3>1, <3>2, <3>3, <3>4 DEF PlanInv
  <2>9. QED BY <1>1, <2>1, <2>3, <2>8, LocalStep
<1>4. CASE PlanEnds(w) \/ PrepareRefuses(w)
  <2>1. Busy(applier[w]) /\ applier' = [applier EXCEPT ![w] = [applier[w] EXCEPT !.phase = "reported"]]
    BY <1>4 DEF PlanEnds, PrepareRefuses, At, Busy, Report, Become
  <2>2. QED BY <1>1, <2>1, StopFacts, LocalStep
<1>5. QED BY <1>2, <1>3, <1>4

\* prepare fixes the bytes of one more write and writes nothing.
LEMMA PrepareStep ==
    ASSUME IInv, NEW w \in Appliers, PrepareFile(w)
    PROVE  IInv'
<1>1. /\ applier[w] \in Applier /\ PlanInv(applier[w], project, published)
      /\ published \subseteq Ref /\ tree \in [File -> MaybeContent]
      /\ edits \in [File -> Nat]
  BY BusyApplier
<1>2. /\ applier[w].phase = "preparing" /\ Busy(applier[w])
      /\ AsPlanned(w, Here(w)) /\ UNCHANGED <<project, published, tree, edits>>
  BY DEF PrepareFile, At, Busy
<1>3. applier[w].next \in File
  BY <1>1, <1>2 DEF PlanInv
<1>4. PICK f \in File : f = applier[w].next
  BY <1>3
<1>5. Here(w) = f
  BY <1>4 DEF Here
<1>6. Generation(w) \in ArtifactIDs
  BY <1>2, BusyApplier
<1>7. ActionOf(f) # "create" => tree[f] \in Content
  <2>1. ActionOf(f) # "create" => applier[w].seen[f] # Absent /\ tree[f] = applier[w].seen[f]
    BY <1>1, <1>2, <1>5, FileFacts DEF AsPlanned, PlanInv
  <2>2. tree[f] \in MaybeContent
    BY <1>1
  <2>3. QED BY <2>1, <2>2 DEF MaybeContent
<1> DEFINE a == applier[w]
           c == Composed(w, f)
           k == [a EXCEPT !.bytes[f] = c,
                          !.next = IF f = NumFiles THEN 1 ELSE f + 1,
                          !.phase = IF f = NumFiles THEN "writing" ELSE "preparing"]
<1>8. c \in Content
  BY <1>6, <1>7, WithFragmentContent, HumanTextContent DEF Composed
<1>9. applier' = [applier EXCEPT ![w] = k]
  BY <1>2, <1>4, <1>5 DEF PrepareFile, Become, Last
<1> HIDE DEF c
<1>10. (IF f = NumFiles THEN 1 ELSE f + 1) \in 1..(NumFiles + 1)
  BY FileFacts, ApplierAssumption
<1>11. /\ k \in Applier /\ k.planned = a.planned /\ k.receipt = a.receipt
       /\ k.phase = IF f = NumFiles THEN "writing" ELSE "preparing"
       /\ k.next = IF f = NumFiles THEN 1 ELSE f + 1
       /\ k.seen = a.seen /\ k.bytes = [a.bytes EXCEPT ![f] = c]
  BY <1>1, <1>8, <1>10 DEF Applier, Phase, MaybeContent
<1>12. a.bytes \in [File -> MaybeContent]
  BY <1>1 DEF Applier
<1> HIDE DEF k
<1>13. \A g \in File : g < f \/ g = f => k.bytes[g] \in Content
  BY <1>1, <1>2, <1>4, <1>8, <1>11, <1>12 DEF PlanInv
<1>14. PlanInv(k, project, published)
  <2>1. \A g \in File : g < f + 1 => g < f \/ g = f
    BY ApplierAssumption DEF File
  <2>2. f = NumFiles => \A g \in File : g < f \/ g = f
    BY ApplierAssumption DEF File
  <2>3. k.phase \in {"preparing", "writing"} /\ k.next \in File
    BY <1>11, FileFacts
  <2>4. QED BY <1>1, <1>2, <1>11, <1>13, <2>1, <2>2, <2>3 DEF PlanInv
<1>15. QED BY <1>1, <1>2, <1>9, <1>11, <1>14, LocalStep

\* A tool call that wrote leaves a typed tree.
LEMMA TreeWritten ==
    ASSUME IInv, NEW w \in Appliers, WritesHere(w)
    PROVE  /\ tree' \in [File -> MaybeContent] /\ Here(w) \in File
           /\ applier[w].bytes[Here(w)] \in Content
           /\ UNCHANGED <<project, published, edits>>
           /\ applier[w].phase = "writing" /\ Busy(applier[w])
<1>1. /\ applier[w] \in Applier /\ PlanInv(applier[w], project, published)
      /\ tree \in [File -> MaybeContent]
  BY BusyApplier
<1>2. applier[w].phase = "writing" /\ Busy(applier[w])
  BY DEF WritesHere, At, Busy
<1>3. Here(w) \in File /\ applier[w].bytes[Here(w)] \in Content
  BY <1>1, <1>2 DEF PlanInv, Here
<1>4. QED BY <1>1, <1>2, <1>3 DEF WritesHere, MaybeContent

\* The write loop, with each of a tool call's three outcomes.
LEMMA WriteStep ==
    ASSUME IInv, NEW w \in Appliers,
           ToolWrites(w) \/ ToolRefuses(w) \/ ToolWritesUnaudited(w)
    PROVE  IInv'
<1> DEFINE a == applier[w]
<1>1. /\ a \in Applier /\ PlanInv(a, project, published)
      /\ published \subseteq Ref /\ tree \in [File -> MaybeContent]
      /\ edits \in [File -> Nat]
  BY BusyApplier
<1>2. CASE ToolWrites(w)
  <2> DEFINE k == [a EXCEPT !.written = @ \union {Here(w)}, !.touched = @ \union {Here(w)},
                            !.next = @ + 1, !.phase = IF Last(w) THEN "recording" ELSE @]
  <2>1. /\ tree' \in [File -> MaybeContent] /\ Here(w) \in File
        /\ UNCHANGED <<project, published, edits>>
        /\ a.phase = "writing" /\ Busy(a) /\ applier' = [applier EXCEPT ![w] = k]
        /\ a.next = Here(w)
    BY <1>2, TreeWritten DEF ToolWrites, Become, Here
  <2>2. a.next + 1 \in 1..(NumFiles + 1)
    BY <2>1, FileFacts
  <2>3. /\ k \in Applier /\ k.planned = a.planned /\ k.receipt = a.receipt
        /\ k.phase = IF Here(w) = NumFiles THEN "recording" ELSE "writing"
        /\ k.next = Here(w) + 1 /\ k.bytes = a.bytes
    BY <1>1, <2>1, <2>2 DEF Applier, Phase, Last
  <2> HIDE DEF k
  <2>4. k.phase = "writing" => k.next \in File
    BY <2>1, <2>3, FileFacts
  <2>5. PlanInv(k, project, published)
    BY <1>1, <2>1, <2>3, <2>4 DEF PlanInv
  <2>6. QED BY <1>1, <2>1, <2>3, <2>5, LocalStep
<1>3. CASE ToolRefuses(w)
  <2>1. Busy(a) /\ applier' = [applier EXCEPT ![w] = Stopped(a)]
        /\ UNCHANGED <<project, published, tree, edits>>
    BY <1>3 DEF ToolRefuses, At, Busy, Become
  <2>2. QED BY <1>1, <2>1, StopFacts, LocalStep
<1>4. CASE ToolWritesUnaudited(w)
  <2>1. /\ tree' \in [File -> MaybeContent] /\ Here(w) \in File
        /\ UNCHANGED <<project, published, edits>> /\ a.phase = "writing"
    BY <1>4, TreeWritten DEF ToolWritesUnaudited
  <2>2. PICK c \in BOOLEAN :
          applier' = [applier EXCEPT ![w] =
            Stopped([a EXCEPT !.touched = @ \union {Here(w)}, !.cancelled = c])]
    BY <1>4 DEF ToolWritesUnaudited, Become
  <2> DEFINE b == [a EXCEPT !.touched = @ \union {Here(w)}, !.cancelled = c]
  <2>3. b \in Applier /\ PlanInv(b, project, published) /\ Busy(b)
    <3>1. /\ b \in Applier /\ b.planned = a.planned /\ b.receipt = a.receipt
          /\ b.phase = a.phase /\ b.next = a.next /\ b.bytes = a.bytes
      BY <1>1, <2>1 DEF Applier
    <3> HIDE DEF b
    <3>2. QED BY <1>1, <2>1, <3>1 DEF PlanInv, Busy
  <2> HIDE DEF b
  <2>4. Stopped(b) \in Applier /\ PlanInv(Stopped(b), project, published)
    BY <2>3, StopFacts
  <2>5. applier' = [applier EXCEPT ![w] = Stopped(b)]
    BY <2>2 DEF b
  <2>6. QED BY <1>1, <2>1, <2>4, <2>5, LocalStep
<1>5. QED BY <1>2, <1>3, <1>4

\* A file a failing write truncated is still a file.
LEMMA TreeTruncated ==
    ASSUME IInv, NEW w \in Appliers, Truncated(w)
    PROVE  /\ tree' \in [File -> MaybeContent] /\ Here(w) \in File
           /\ edits' \in [File -> Nat]
           /\ applier[w].phase = "writing" /\ Busy(applier[w])
<1>1. /\ applier[w] \in Applier /\ PlanInv(applier[w], project, published)
      /\ tree \in [File -> MaybeContent] /\ edits \in [File -> Nat]
  BY BusyApplier
<1>2. applier[w].phase = "writing" /\ Busy(applier[w])
  BY DEF Truncated, At, Busy
<1>3. Here(w) \in File
  BY <1>1, <1>2 DEF PlanInv, Here
<1>4. QED BY <1>1, <1>2, <1>3, HumanTextContent DEF Truncated, MaybeContent

\* The write loop, when the write itself fails.
LEMMA TruncateStep ==
    ASSUME IInv, NEW w \in Appliers, ToolTruncates(w)
    PROVE  IInv'
<1> DEFINE a == applier[w]
           b == [a EXCEPT !.touched = @ \union {Here(w)}]
<1>1. a \in Applier /\ PlanInv(a, project, published) /\ published \subseteq Ref
  BY BusyApplier
<1>2. /\ tree' \in [File -> MaybeContent] /\ Here(w) \in File
      /\ edits' \in [File -> Nat]
      /\ a.phase = "writing" /\ Busy(a)
      /\ UNCHANGED <<project, published>>
      /\ applier' = [applier EXCEPT ![w] = Stopped(b)]
  BY TreeTruncated DEF ToolTruncates, Become
<1>3. /\ b \in Applier /\ b.planned = a.planned /\ b.receipt = a.receipt
      /\ b.phase = a.phase /\ b.next = a.next /\ b.bytes = a.bytes
  BY <1>1, <1>2 DEF Applier
<1> HIDE DEF b
<1>4. PlanInv(b, project, published) /\ Busy(b)
  BY <1>1, <1>2, <1>3 DEF PlanInv, Busy
<1>5. Stopped(b) \in Applier /\ PlanInv(Stopped(b), project, published)
  BY <1>3, <1>4, StopFacts
<1>6. QED BY <1>1, <1>2, <1>5, LocalStep

\* commitPlan publishes the receipt it hands on.
LEMMA CommitPlanStep ==
    ASSUME IInv, NEW w \in Appliers, CommitPlan(w)
    PROVE  IInv'
<1> DEFINE a == applier[w]
           k(r) == [a EXCEPT !.phase = "saving", !.receipt = r]
<1>1. /\ a \in Applier /\ PlanInv(a, project, published)
      /\ published \subseteq Ref /\ tree \in [File -> MaybeContent]
      /\ edits \in [File -> Nat] /\ project \in Project
  BY BusyApplier
<1>2. a.phase = "recording" /\ Busy(a) /\ UNCHANGED <<project, tree, edits>>
  BY DEF CommitPlan, At, Busy
<1>3. Receipts \subseteq Ref
  BY DEF Receipts, RefsOf
<1>4. ASSUME NEW pub \in SUBSET Ref, published \subseteq pub,
             NEW rs \in SUBSET (pub \intersect Receipts)
      PROVE  k(rs) \in Applier /\ PlanInv(k(rs), project, pub)
  <2>1. /\ k(rs) \in Applier /\ k(rs).phase = "saving" /\ k(rs).receipt = rs
        /\ k(rs).planned = a.planned
    BY <1>1, <1>4 DEF Applier, Phase
  <2> HIDE DEF k
  <2>2. QED BY <1>1, <1>2, <1>4, <2>1 DEF PlanInv
<1>5. CASE \E r \in Receipts : published' = published \union {r} /\ Become(w, k({r}))
  <2>1. PICK r \in Receipts : published' = published \union {r} /\ Become(w, k({r}))
    BY <1>5
  <2>2. k({r}) \in Applier /\ PlanInv(k({r}), project, published')
        /\ published' \subseteq Ref /\ published \subseteq published'
    BY <1>1, <1>3, <1>4, <2>1
  <2> HIDE DEF k
  <2>3. QED BY <1>1, <1>2, <2>1, <2>2, LocalStep DEF Become
<1>6. CASE UNCHANGED published /\ Become(w, [a EXCEPT !.phase = "saving"])
  <2> DEFINE b == [a EXCEPT !.phase = "saving"]
  <2>1. b \in Applier /\ b.phase = "saving" /\ b.receipt = a.receipt /\ b.planned = a.planned
    BY <1>1 DEF Applier, Phase
  <2> HIDE DEF b
  <2>2. PlanInv(b, project, published)
    BY <1>1, <1>2, <2>1 DEF PlanInv
  <2>3. applier' = [applier EXCEPT ![w] = b]
    BY <1>6 DEF b, Become
  <2>4. QED BY <1>1, <1>2, <1>6, <2>1, <2>2, <2>3, LocalStep
<1>7. QED BY <1>5, <1>6 DEF CommitPlan

\* What an accepted record would store.
LEMMA LandedFacts ==
    ASSUME IInv, NEW w \in Appliers, At(w, "saving")
    PROVE  /\ Landed(w) \in Project
           /\ Landed(w).revision = applier[w].planned.revision + 1
           /\ AllRefs(Landed(w)) \subseteq published
<1> DEFINE p == applier[w].planned
           r == applier[w].receipt
<1>1. /\ p \in Project /\ r \in SUBSET Ref /\ r \subseteq published
      /\ AllRefs(p) \subseteq published
  BY BusyApplier DEF At, Busy, PlanInv
<1>2. StageEmit \in Stage
  BY NumStagesAssumption DEF StageEmit, Stage
<1>3. Landed(w) = Bump(ApplyFailed(p, StageEmit, r)) \/ Landed(w) = Bump(Applied(p, StageEmit, r))
  BY DEF Landed
<1> HIDE DEF p, r
<1>4. /\ Applied(p, StageEmit, r) \in Project /\ ApplyFailed(p, StageEmit, r) \in Project
      /\ Applied(p, StageEmit, r).revision = p.revision
      /\ ApplyFailed(p, StageEmit, r).revision = p.revision
      /\ AllRefs(Applied(p, StageEmit, r)) \subseteq published
      /\ AllRefs(ApplyFailed(p, StageEmit, r)) \subseteq published
  BY <1>1, <1>2, LandedProject
<1>5. QED BY <1>3, <1>4, BumpProject DEF p

\* record saves on the revision it planned from, or not at all.
LEMMA RecordStep ==
    ASSUME IInv, NEW w \in Appliers, RecordLanding(w)
    PROVE  IInv'
<1> DEFINE k == [applier[w] EXCEPT !.phase = "reported"]
<1>1. /\ applier[w] \in Applier /\ PlanInv(applier[w], project, published)
      /\ published \subseteq Ref /\ tree \in [File -> MaybeContent]
      /\ edits \in [File -> Nat]
  BY BusyApplier
<1>2. /\ At(w, "saving") /\ Busy(applier[w]) /\ UNCHANGED <<published, tree, edits>>
      /\ applier' = [applier EXCEPT ![w] = k]
  BY DEF RecordLanding, At, Busy, Report, Become
<1>3. k \in Applier /\ PlanInv(k, project, published)
  BY <1>1, <1>2, StopFacts
<1> HIDE DEF k
<1>4. CASE UNCHANGED project
  BY <1>1, <1>2, <1>3, <1>4, LocalStep
<1>5. CASE CanRecord(w) /\ project' = Landed(w)
  <2>1. /\ project' \in Project /\ AllRefs(project') \subseteq published
        /\ project'.revision = project.revision + 1
    BY <1>2, <1>5, LandedFacts DEF CanRecord, CanReplaceFrom
  <2>2. /\ applier' \in [Appliers -> Applier]
        /\ \A v \in Appliers : PlanInv(applier'[v], project, published)
    BY <1>2, <1>3 DEF IInv, TypeOK
  <2>3. QED BY <1>2, <2>1, <2>2, ProjectStep
<1>6. QED BY <1>4, <1>5 DEF RecordLanding

\* Instantiating the value layer again changes nothing.
LEMMA SameValueLayer ==
    /\ Lifecycle!Stage = Stage /\ Lifecycle!Ref = Ref /\ Lifecycle!NewProject = NewProject
    /\ \A p, s : /\ Lifecycle!Begin(p, s) = Begin(p, s)
                 /\ Lifecycle!Reset(p, s) = Reset(p, s)
                 /\ Lifecycle!CanApplied(p, s) = CanApplied(p, s)
                 /\ Lifecycle!InputsBefore(p, s) = InputsBefore(p, s)
    /\ \A p : Lifecycle!Bump(p) = Bump(p)
    /\ \A s : Lifecycle!RefsOf(s) = RefsOf(s)
    /\ \A refs : Lifecycle!EvidenceIn(refs) = EvidenceIn(refs)
    /\ \A p, s, refs : /\ Lifecycle!FailWith(p, s, refs) = FailWith(p, s, refs)
                       /\ Lifecycle!Applied(p, s, refs) = Applied(p, s, refs)
                       /\ Lifecycle!ApplyFailed(p, s, refs) = ApplyFailed(p, s, refs)
    /\ \A p, s, refs, from :
         /\ Lifecycle!Complete(p, s, refs, from) = Complete(p, s, refs, from)
         /\ Lifecycle!Hold(p, s, refs, from) = Hold(p, s, refs, from)
<1>1. Lifecycle!Stage = Stage /\ Lifecycle!Kind = Kind /\ Lifecycle!FirstStage = FirstStage
      /\ Lifecycle!LastStage = LastStage /\ Lifecycle!StageVerify = StageVerify
  BY DEF Lifecycle!Stage, Stage, Lifecycle!Kind, Kind, Lifecycle!FirstStage, FirstStage,
         Lifecycle!LastStage, LastStage, Lifecycle!StageVerify, StageVerify
<1>2. Lifecycle!Ref = Ref
  BY <1>1 DEF Lifecycle!Ref, Ref
<1>3. \A s : Lifecycle!RefsOf(s) = RefsOf(s)
  BY <1>2 DEF Lifecycle!RefsOf, RefsOf
<1>4. \A refs : Lifecycle!EvidenceIn(refs) = EvidenceIn(refs)
  BY DEF Lifecycle!EvidenceIn, EvidenceIn
<1>5. Lifecycle!NewProject = NewProject
  BY <1>1 DEF Lifecycle!NewProject, NewProject
<1>6. \A p, s : /\ Lifecycle!Begin(p, s) = Begin(p, s)
                /\ Lifecycle!CanApplied(p, s) = CanApplied(p, s)
                /\ Lifecycle!InputsBefore(p, s) = InputsBefore(p, s)
  BY <1>1 DEF Lifecycle!Begin, Begin, Lifecycle!CanApplied, CanApplied,
              Lifecycle!InputsBefore, InputsBefore
<1>7. \A p, s : Lifecycle!ClearAfter(p, s) = ClearAfter(p, s)
  BY <1>1 DEF Lifecycle!ClearAfter, ClearAfter
<1>8. \A p, s : Lifecycle!Reset(p, s) = Reset(p, s)
  BY <1>7 DEF Lifecycle!Reset, Reset
<1>9. \A p, s, refs, from : Lifecycle!Record(p, s, refs, from) = Record(p, s, refs, from)
  BY <1>1, <1>4, <1>7 DEF Lifecycle!Record, Record
<1>10. \A p, s, refs, from :
         /\ Lifecycle!Complete(p, s, refs, from) = Complete(p, s, refs, from)
         /\ Lifecycle!Hold(p, s, refs, from) = Hold(p, s, refs, from)
  BY <1>1, <1>9 DEF Lifecycle!Complete, Complete, Lifecycle!Hold, Hold
<1>11. \A p, s, refs : /\ Lifecycle!FailWith(p, s, refs) = FailWith(p, s, refs)
                      /\ Lifecycle!ApplyFailed(p, s, refs) = ApplyFailed(p, s, refs)
                      /\ Lifecycle!Applied(p, s, refs) = Applied(p, s, refs)
  BY <1>1 DEF Lifecycle!FailWith, FailWith, Lifecycle!ApplyFailed, ApplyFailed,
              Lifecycle!Applied, Applied
<1>12. \A p : Lifecycle!Bump(p) = Bump(p)
  BY DEF Lifecycle!Bump, Bump
<1>13. QED
  BY <1>1, <1>2, <1>3, <1>4, <1>5, <1>6, <1>8, <1>10, <1>11, <1>12

\* Begin, Settle and Reset, as another caller of the store takes them.
LEMMA PipelineStepFacts ==
    ASSUME project \in Project, AllRefs(project) \subseteq published,
           published \subseteq Ref,
           Lifecycle!BeginStage \/ Lifecycle!Settle \/ Lifecycle!ResetStage
    PROVE  /\ project' \in Project /\ project'.revision = project.revision + 1
           /\ AllRefs(project') \subseteq published /\ UNCHANGED published
<1>1. UNCHANGED published
  BY DEF Lifecycle!BeginStage, Lifecycle!Settle, Lifecycle!ResetStage
<1>2. ASSUME NEW q \in Project, q.revision = project.revision,
             AllRefs(q) \subseteq published, project' = Bump(q)
      PROVE  /\ project' \in Project /\ project'.revision = project.revision + 1
             /\ AllRefs(project') \subseteq published
  BY <1>2, BumpProject
<1>3. CASE Lifecycle!BeginStage
  <2>1. PICK s \in Stage : project' = Bump(Begin(project, s))
    BY <1>3, SameValueLayer DEF Lifecycle!BeginStage
  <2>2. QED BY <1>1, <1>2, <2>1, BeginProject
<1>4. CASE Lifecycle!ResetStage
  <2>1. PICK s \in Stage : project' = Bump(Reset(project, s))
    BY <1>4, SameValueLayer DEF Lifecycle!ResetStage
  <2>2. QED BY <1>1, <1>2, <2>1, ResetProject
<1>5. CASE Lifecycle!Settle
  <2> DEFINE s == project.current
             from == InputsBefore(project, s)
  <2>1. PICK refs \in SUBSET published :
          \/ project' = Bump(Complete(project, s, refs, from))
          \/ project' = Bump(Hold(project, s, refs, from))
          \/ project' = Bump(FailWith(project, s, refs))
    BY <1>5, SameValueLayer DEF Lifecycle!Settle
  <2>2. s \in Stage /\ from \in SUBSET Ref /\ refs \in SUBSET Ref
    BY InputsBeforeRefs DEF Project
  <2> HIDE DEF s, from
  <2>3. QED BY <1>1, <1>2, <2>1, <2>2, CompleteHoldProject, FailWithProject
<1>6. QED BY <1>3, <1>4, <1>5

\* The pipeline, people, cancellations and crashes.
LEMMA EnvironmentStep ==
    ASSUME IInv,
           \/ \E w \in Appliers : Cancel(w)
           \/ \E f \in File : PersonEdits(f) \/ PersonRemoves(f)
           \/ PipelineStep \/ PipelinePublishes \/ Crash
    PROVE  IInv'
<1>1. /\ project \in Project /\ published \subseteq Ref /\ tree \in [File -> MaybeContent]
      /\ edits \in [File -> Nat] /\ applier \in [Appliers -> Applier]
      /\ AllRefs(project) \subseteq published
      /\ \A w \in Appliers : PlanInv(applier[w], project, published)
  BY DEF IInv, TypeOK, ReferencesArePublished
<1>2. ASSUME project' = project, published \subseteq published', published' \subseteq Ref,
             tree' \in [File -> MaybeContent], edits' \in [File -> Nat],
             applier' \in [Appliers -> Applier],
             \A w \in Appliers : PlanInv(applier'[w], project, published)
      PROVE  IInv'
  <2>1. TypeOK' /\ ReferencesArePublished'
    BY <1>1, <1>2 DEF TypeOK, ReferencesArePublished
  <2>2. \A w \in Appliers : PlanInv(applier'[w], project', published')
    BY <1>1, <1>2, PlanInvStable
  <2>3. QED BY <2>1, <2>2 DEF IInv
<1>3. ASSUME NEW w \in Appliers, Cancel(w) PROVE IInv'
  <2> DEFINE b == [applier[w] EXCEPT !.cancelled = TRUE]
  <2>1. /\ b \in Applier /\ b.phase = applier[w].phase /\ b.planned = applier[w].planned
        /\ b.receipt = applier[w].receipt /\ b.next = applier[w].next
        /\ b.seen = applier[w].seen /\ b.bytes = applier[w].bytes
    BY <1>1 DEF Applier
  <2>2. applier' = [applier EXCEPT ![w] = b] /\ UNCHANGED <<project, published, tree, edits>>
    BY <1>3 DEF Cancel, Become
  <2> HIDE DEF b
  <2>3. PlanInv(b, project, published)
    BY <1>1, <2>1 DEF PlanInv, Busy
  <2>4. applier' \in [Appliers -> Applier]
        /\ \A v \in Appliers : PlanInv(applier'[v], project, published)
    BY <1>1, <2>1, <2>2, <2>3
  <2>5. QED BY <1>1, <1>2, <2>2, <2>4
<1>4. ASSUME NEW f \in File, PersonEdits(f) \/ PersonRemoves(f) PROVE IInv'
  <2>1. /\ UNCHANGED <<project, published, applier>>
        /\ edits' = [edits EXCEPT ![f] = @ + 1]
        /\ \/ tree[f] # Absent /\ tree' = [tree EXCEPT ![f].human = @ + 1]
           \/ tree' = [tree EXCEPT ![f] = Absent]
    BY <1>4 DEF PersonEdits, PersonRemoves
  <2>2. tree[f] # Absent => [tree[f] EXCEPT !.human = @ + 1] \in Content
    BY <1>1 DEF MaybeContent, Content
  <2>3. tree' \in [File -> MaybeContent] /\ edits' \in [File -> Nat]
    BY <1>1, <2>1, <2>2 DEF MaybeContent
  <2>4. QED BY <1>1, <1>2, <2>1, <2>3
<1>5. CASE PipelineStep
  <2>1. /\ project' \in Project /\ project'.revision = project.revision + 1
        /\ AllRefs(project') \subseteq published /\ UNCHANGED published
    BY <1>1, <1>5, PipelineStepFacts DEF PipelineStep
  <2>2. UNCHANGED <<tree, edits, applier>>
    BY <1>5 DEF PipelineStep
  <2>3. QED BY <1>1, <2>1, <2>2, ProjectStep
<1>6. CASE PipelinePublishes
  <2>1. /\ UNCHANGED <<project, tree, edits, applier>>
        /\ published \subseteq published' /\ published' \subseteq Ref
    BY <1>1, <1>6 DEF PipelinePublishes
  <2>2. QED BY <1>1, <1>2, <2>1
<1>7. CASE Crash
  <2>1. PlanInv(IdleApplier, project, published)
    BY IdleApplierFacts DEF PlanInv, Busy
  <2>2. tree' \in [File -> MaybeContent] /\ edits' \in [File -> Nat]
    BY <1>1, <1>7, TreeTruncated DEF Crash
  <2>3. QED BY <1>1, <1>2, <1>7, <2>1, <2>2, IdleApplierFacts DEF Crash
<1>8. QED BY <1>3, <1>4, <1>5, <1>6, <1>7

\* Every step keeps IInv.
LEMMA NextStep == IInv /\ [Next]_vars => IInv'
<1> SUFFICES ASSUME IInv, [Next]_vars PROVE IInv'
  OBVIOUS
<1>1. CASE UNCHANGED vars
  BY <1>1 DEF vars, IInv, TypeOK, ReferencesArePublished
<1>2. ASSUME NEW w \in Appliers, ApplierStep(w) PROVE IInv'
  BY <1>2, PlanStep, PrepareStep, WriteStep, TruncateStep, CommitPlanStep, RecordStep
     DEF ApplierStep
<1>3. QED BY <1>1, <1>2, EnvironmentStep DEF Next

\* A new project, an untouched tree, nobody applying.
LEMMA InitStep == Init => IInv
<1> SUFFICES ASSUME Init PROVE IInv
  OBVIOUS
<1>1. project = NewProject /\ NewProject \in Project /\ AllRefs(project) = {}
  BY NewProjectProject DEF Init
<1>2. tree \in [File -> MaybeContent] /\ edits \in [File -> Nat]
  BY HumanTextContent DEF Init, MaybeContent
<1>3. applier \in [Appliers -> Applier]
      /\ \A w \in Appliers : PlanInv(applier[w], project, published)
  BY IdleApplierFacts DEF Init, PlanInv, Busy
<1>4. QED BY <1>1, <1>2, <1>3 DEF Init, IInv, TypeOK, ReferencesArePublished

\* The inductive invariant holds in every behaviour.
THEOREM InductiveInvariant == Spec => []IInv
  BY InitStep, NextStep, PTL DEF Spec

\* The applier's working copies, byte sets and reports keep their types.
THEOREM TypeCorrect == Spec => []TypeOK
<1>1. IInv => TypeOK
  BY DEF IInv
<1>2. QED BY <1>1, InductiveInvariant, PTL

\* commitPlan comes before record: no fault, race or crash makes the project
\* refer to a receipt that was not published.
THEOREM ReferencesArePublishedAlways == Spec => []ReferencesArePublished
<1>1. IInv => ReferencesArePublished
  BY DEF IInv
<1>2. QED BY <1>1, InductiveInvariant, PTL

(***************************************************************************)
(* The refinement.                                                         *)
(***************************************************************************)
\* Every step is a step of the abstract lifecycle or leaves it alone.
LEMMA LifecycleStep == IInv /\ [Next]_vars => [Lifecycle!Next]_<<project, published>>
<1> SUFFICES ASSUME IInv, [Next]_vars, ~ UNCHANGED <<project, published>>
             PROVE  Lifecycle!Next
  OBVIOUS
<1>1. Next
  BY DEF vars
<1>2. ASSUME UNCHANGED project, published \subseteq published'
      PROVE  Lifecycle!Next
  <2>1. published' \subseteq Ref
    BY NextStep DEF IInv, TypeOK
  <2>2. published' \in SUBSET Lifecycle!Ref /\ published' = published \union published'
    BY <1>2, <2>1, SameValueLayer
  <2>3. QED BY <1>2, <2>2 DEF Lifecycle!Next, Lifecycle!Publish
<1>3. ASSUME NEW w \in Appliers, RecordLanding(w) PROVE Lifecycle!Next
  <2> DEFINE p == applier[w].planned
             r == applier[w].receipt
  <2>1. At(w, "saving") /\ CanRecord(w) /\ project' = Landed(w) /\ UNCHANGED published
    BY <1>3 DEF RecordLanding
  <2>2. /\ p \in Project /\ project \in Project
        /\ p.revision = project.revision => p = project
        /\ r \subseteq published \intersect Receipts
    BY <2>1, BusyApplier DEF At, Busy, PlanInv
  <2>3. Landed(w).revision = p.revision + 1 /\ Landed(w).revision = project.revision + 1
    BY <2>1, LandedFacts DEF CanRecord, CanReplaceFrom
  <2>4. p = project
    <3>1. p.revision \in Nat /\ project.revision \in Nat
      BY <2>2 DEF Project
    <3> HIDE DEF p
    <3>2. QED BY <2>2, <2>3, <3>1
  <2>5. \/ project' = Bump(ApplyFailed(project, StageEmit, r))
        \/ /\ CanApplied(project, StageEmit)
           /\ project' = Bump(Applied(project, StageEmit, r))
    BY <2>1, <2>4 DEF CanRecord, Landed
  <2>6. r \subseteq published \intersect RefsOf(StageEmit) /\ r = EvidenceIn(r)
    BY <2>2 DEF Receipts, EvidenceIn
  <2>7. StageEmit \in Stage
    BY NumStagesAssumption DEF StageEmit, Stage
  <2> HIDE DEF r
  <2>8. QED BY <2>1, <2>5, <2>6, <2>7, SameValueLayer DEF Lifecycle!Next, Lifecycle!Land
<1>4. ASSUME NEW w \in Appliers, ApplierStep(w), ~ RecordLanding(w) PROVE Lifecycle!Next
  <2>1. UNCHANGED project /\ published \subseteq published'
    BY <1>4 DEF ApplierStep, PlanStarts, PlanFile, PlanEnds, PrepareFile, PrepareRefuses,
                ToolWrites, ToolRefuses, ToolWritesUnaudited, WritesHere, ToolTruncates,
                CommitPlan
  <2>2. QED BY <1>2, <2>1
<1>5. ASSUME NEW w \in Appliers, Cancel(w) PROVE Lifecycle!Next
  BY <1>5 DEF Cancel
<1>6. ASSUME NEW f \in File, PersonEdits(f) \/ PersonRemoves(f) PROVE Lifecycle!Next
  BY <1>6 DEF PersonEdits, PersonRemoves
<1>7. CASE PipelineStep
  BY <1>7 DEF PipelineStep, Lifecycle!Next
<1>8. CASE PipelinePublishes
  <2>1. UNCHANGED project /\ published \subseteq published'
    BY <1>8 DEF PipelinePublishes
  <2>2. QED BY <1>2, <2>1
<1>9. CASE Crash
  BY <1>9 DEF Crash
<1>10. QED BY <1>1, <1>3, <1>4, <1>5, <1>6, <1>7, <1>8, <1>9 DEF Next

\* An apply that races with the pipeline, with another apply or with a Reset
\* moves the project from the record it planned on, or not at all.
THEOREM ApplierImplementsLifecycle == Spec => ImplementsLifecycle
<1>1. Init => Lifecycle!Init
  BY SameValueLayer DEF Init, Lifecycle!Init
<1>2. QED
  BY <1>1, InductiveInvariant, LifecycleStep, PTL
     DEF Spec, ImplementsLifecycle, Lifecycle!Spec, Lifecycle!lifecycleVars

(***************************************************************************)
(* A fragment is appended once.                                            *)
(***************************************************************************)
\* Once the source file is there, less is asked of a goroutine.
LEMMA AppendInvStable ==
    ASSUME NEW a, NEW before \in BOOLEAN, NEW after \in BOOLEAN,
           AppendInv(a, before), after => before
    PROVE  AppendInv(a, after)
  BY DEF AppendInv

\* A goroutine that neither reads nor writes the tree has nothing to show.
LEMMA AppendInvResting ==
    ASSUME NEW a, a.phase \in {"idle", "reported", "recording", "saving"}
    PROVE  \A b : AppendInv(a, b)
  BY DEF AppendInv

\* A goroutine's step that leaves the tree alone.
LEMMA AppendLocal ==
    ASSUME AInv, NEW w \in Appliers, NEW k \in Applier, IInv',
           UNCHANGED tree, applier' = [applier EXCEPT ![w] = k],
           AppendInv(k, SourceAbsent)
    PROVE  AInv'
<1>1. AppendedOnce' /\ (SourceAbsent <=> SourceAbsent')
      /\ (SourceAbsent' => \A f \in File : BuildFile(f) => Clean(tree'[f]))
  BY DEF AInv, AppendedOnce, SourceAbsent
<1>2. \A v \in Appliers : AppendInv(applier'[v], SourceAbsent)
  BY DEF AInv, IInv, TypeOK
<1>3. SourceAbsent' = SourceAbsent
  BY DEF SourceAbsent
<1>4. QED BY <1>1, <1>2, <1>3 DEF AInv

\* plan sees no fragment as long as the source file is absent.
LEMMA AppendPlan ==
    ASSUME AInv, IInv', NEW w \in Appliers, PlanStarts(w) \/ PlanFile(w)
    PROVE  AInv'
<1>1. /\ applier[w] \in Applier /\ PlanInv(applier[w], project, published)
      /\ UNCHANGED tree /\ AppendInv(applier[w], SourceAbsent)
      /\ SourceAbsent => \A f \in File : BuildFile(f) => Clean(tree[f])
  BY BusyApplier DEF AInv, PlanStarts, PlanFile
<1>2. \A g \in File : ~ (g < 1)
  BY FileFacts
<1>3. CASE PlanStarts(w)
  <2> DEFINE k == [IdleApplier EXCEPT !.phase = "planning", !.planned = project]
  <2>1. k \in Applier /\ k.phase = "planning" /\ k.next = 1
    BY IdleApplierFacts DEF Applier, Phase, IdleApplier, AInv, IInv, TypeOK
  <2>2. applier' = [applier EXCEPT ![w] = k]
    BY <1>3 DEF PlanStarts, Become
  <2> HIDE DEF k
  <2>3. AppendInv(k, SourceAbsent)
    BY <1>2, <2>1 DEF AppendInv
  <2>4. QED BY <1>1, <2>1, <2>2, <2>3, AppendLocal
<1>4. CASE PlanFile(w)
  <2>1. applier[w].phase = "planning"
    BY <1>4 DEF PlanFile, At
  <2>2. PICK f \in File : f = applier[w].next
    BY <1>1, <2>1 DEF PlanInv
  <2> DEFINE a == applier[w]
             k == [a EXCEPT !.seen[f] = tree[f],
                            !.next = IF f = NumFiles THEN 1 ELSE f + 1,
                            !.phase = IF f = NumFiles THEN "preparing" ELSE "planning"]
  <2>3. applier' = [applier EXCEPT ![w] = k]
    BY <1>4, <2>1, <2>2 DEF PlanFile, Become, Last, Here
  <2>4. (IF f = NumFiles THEN 1 ELSE f + 1) \in 1..(NumFiles + 1) /\ tree[f] \in MaybeContent
    BY FileFacts, ApplierAssumption DEF AInv, IInv, TypeOK
  <2>5. /\ k \in Applier /\ k.seen = [a.seen EXCEPT ![f] = tree[f]]
        /\ k.phase = IF f = NumFiles THEN "preparing" ELSE "planning"
        /\ k.next = IF f = NumFiles THEN 1 ELSE f + 1
    BY <1>1, <2>4 DEF Applier, Phase
  <2>6. a.seen \in [File -> MaybeContent]
    BY <1>1 DEF Applier
  <2> HIDE DEF k
  <2>7. SourceAbsent =>
          \A g \in File : BuildFile(g) /\ (g < f \/ g = f) => Clean(k.seen[g])
    BY <1>1, <2>1, <2>2, <2>5, <2>6 DEF AppendInv
  <2>8. \A g \in File : g < f + 1 \/ f = NumFiles => g < f \/ g = f
    BY ApplierAssumption DEF File
  <2>9. AppendInv(k, SourceAbsent)
    <3>1. CASE f = NumFiles
      BY <1>2, <2>5, <2>7, <2>8, <3>1 DEF AppendInv
    <3>2. CASE f # NumFiles
      BY <2>5, <2>7, <2>8, <3>2 DEF AppendInv
    <3>3. QED BY <3>1, <3>2
  <2>10. QED BY <1>1, <2>3, <2>5, <2>9, AppendLocal
<1>5. QED BY <1>3, <1>4

\* A fragment added to a clean file is there once.
LEMMA CleanOnce ==
    ASSUME NEW c \in Content, Clean(c), NEW g \in ArtifactIDs
    PROVE  Once(WithFragment(c, g))
<1>1. /\ WithFragment(c, g) \in Content
      /\ WithFragment(c, g).copies = [c.copies EXCEPT ![g] = @ + 1]
  BY WithFragmentContent
<1>2. c.copies \in [ArtifactIDs -> Nat] /\ \A h \in ArtifactIDs : c.copies[h] = 0
  BY DEF Content, Clean
<1>3. \A h \in ArtifactIDs : WithFragment(c, g).copies[h] <= 1
  BY <1>1, <1>2
<1>4. QED BY <1>1, <1>3, AbsentAssumption DEF Once

\* prepare's first check shows that what was planned on is clean.
LEMMA AppendPrepare ==
    ASSUME AInv, IInv', NEW w \in Appliers, PrepareFile(w)
    PROVE  AInv'
<1>1. /\ applier[w] \in Applier /\ PlanInv(applier[w], project, published)
      /\ AppendInv(applier[w], SourceAbsent) /\ tree \in [File -> MaybeContent]
  BY BusyApplier DEF AInv
<1>2. /\ applier[w].phase = "preparing" /\ Busy(applier[w])
      /\ AsPlanned(w, Here(w)) /\ UNCHANGED tree
  BY DEF PrepareFile, At, Busy
<1>3. PICK f \in File : f = applier[w].next
  BY <1>1, <1>2 DEF PlanInv
<1>4. Here(w) = f
  BY <1>3 DEF Here
<1>5. Generation(w) \in ArtifactIDs
  BY <1>2, BusyApplier DEF AInv
<1> DEFINE a == applier[w]
           c == Composed(w, f)
           k == [a EXCEPT !.bytes[f] = c,
                          !.next = IF f = NumFiles THEN 1 ELSE f + 1,
                          !.phase = IF f = NumFiles THEN "writing" ELSE "preparing"]
<1>6. a.next > 1 \/ SourceAbsent
  <2>1. CASE f = 1
    BY <1>2, <1>4, <2>1, FileFacts DEF AsPlanned, SourceAbsent
  <2>2. CASE f # 1
    BY <1>3, <2>2, ApplierAssumption DEF File
  <2>3. QED BY <2>1, <2>2
<1>7. \A g \in File : BuildFile(g) => Clean(a.seen[g])
  BY <1>1, <1>2, <1>6 DEF AppendInv
<1>8. c \in Content /\ Once(c)
  <2>1. CASE ActionOf(f) = "create"
    <3>1. Clean(HumanText)
      BY HumanTextContent, AbsentAssumption DEF Clean
    <3>2. c = WithFragment(HumanText, Generation(w))
      BY <2>1 DEF Composed
    <3>3. QED BY <1>5, <3>1, <3>2, HumanTextContent, WithFragmentContent, CleanOnce
  <2>2. CASE ActionOf(f) # "create"
    <3>1. BuildFile(f) /\ tree[f] = a.seen[f]
      BY <1>2, <1>4, <2>2, FileFacts DEF AsPlanned, BuildFile
    <3>2. Clean(tree[f])
      BY <1>7, <3>1
    <3>3. tree[f] \in Content
      BY <1>1, <3>2 DEF MaybeContent, Clean
    <3>4. c = WithFragment(tree[f], Generation(w))
      BY <2>2 DEF Composed
    <3>5. QED BY <1>5, <3>2, <3>3, <3>4, WithFragmentContent, CleanOnce
  <2>3. QED BY <2>1, <2>2
<1>9. applier' = [applier EXCEPT ![w] = k]
  BY <1>2, <1>3, <1>4 DEF PrepareFile, Become, Last
<1> HIDE DEF c
<1>10. (IF f = NumFiles THEN 1 ELSE f + 1) \in 1..(NumFiles + 1)
  BY FileFacts, ApplierAssumption
<1>11. /\ k \in Applier
       /\ k.phase = IF f = NumFiles THEN "writing" ELSE "preparing"
       /\ k.next = IF f = NumFiles THEN 1 ELSE f + 1
       /\ k.seen = a.seen /\ k.bytes = [a.bytes EXCEPT ![f] = c]
  BY <1>1, <1>8, <1>10 DEF Applier, Phase, MaybeContent
<1>12. a.bytes \in [File -> MaybeContent]
  BY <1>1 DEF Applier
<1> HIDE DEF k
<1>13. \A g \in File : g < f \/ g = f => Once(k.bytes[g])
  BY <1>1, <1>2, <1>3, <1>8, <1>11, <1>12 DEF AppendInv
<1>14. AppendInv(k, SourceAbsent)
  <2>1. \A g \in File : g < f + 1 \/ f = NumFiles => g < f \/ g = f
    BY ApplierAssumption DEF File
  <2>2. CASE f = NumFiles
    BY <1>11, <1>13, <2>1, <2>2 DEF AppendInv
  <2>3. CASE f # NumFiles
    BY <1>7, <1>11, <1>13, <2>1, <2>3 DEF AppendInv
  <2>4. QED BY <2>2, <2>3
<1>15. QED BY <1>2, <1>9, <1>11, <1>14, AppendLocal

\* A write puts one copy in place, and never the first write elsewhere than in
\* the source file.
LEMMA AppendWrite ==
    ASSUME AInv, IInv', NEW w \in Appliers, ToolWrites(w) \/ ToolWritesUnaudited(w)
    PROVE  AInv'
<1> DEFINE a == applier[w]
           f == Here(w)
<1>1. WritesHere(w)
  BY DEF ToolWrites, ToolWritesUnaudited
<1>2. /\ a \in Applier /\ AppendInv(a, SourceAbsent)
      /\ tree \in [File -> MaybeContent] /\ AppendedOnce
  BY BusyApplier DEF AInv
<1>3. f \in File /\ a.phase = "writing" /\ a.next = f
  BY <1>1, TreeWritten DEF AInv, Here
<1>4. tree' = [tree EXCEPT ![f] = a.bytes[f]]
  BY <1>1 DEF WritesHere
<1>5. Once(a.bytes[f])
  BY <1>2, <1>3 DEF AppendInv
<1>6. AppendedOnce'
  BY <1>2, <1>3, <1>4, <1>5 DEF AppendedOnce, Once
<1>7. ~ SourceAbsent'
  <2>1. CASE f = 1
    BY <1>2, <1>3, <1>4, <1>5, <2>1 DEF SourceAbsent, Once
  <2>2. CASE f # 1
    <3>1. a.next > 1
      <4> HIDE DEF f
      <4>1. QED BY <1>3, <2>2, ApplierAssumption DEF File
    <3>2. ~ SourceAbsent
      BY <1>2, <1>3, <3>1 DEF AppendInv
    <3>3. QED BY <1>2, <1>3, <1>4, <2>2, <3>2, FileFacts DEF SourceAbsent
  <2>3. QED BY <2>1, <2>2
<1>8. PICK k \in Applier : /\ applier' = [applier EXCEPT ![w] = k]
                          /\ \/ k.phase = "writing" /\ k.bytes = a.bytes
                             \/ k.phase \in {"reported", "recording"}
  <2>1. CASE ToolWrites(w)
    <3> DEFINE k == [a EXCEPT !.written = @ \union {f}, !.touched = @ \union {f},
                              !.next = @ + 1, !.phase = IF Last(w) THEN "recording" ELSE @]
    <3>1. applier' = [applier EXCEPT ![w] = k]
      BY <2>1 DEF ToolWrites, Become
    <3>2. a.next + 1 \in 1..(NumFiles + 1)
      BY <1>3, FileFacts
    <3>3. k \in Applier /\ k.phase \in {"writing", "recording"} /\ k.bytes = a.bytes
      BY <1>2, <1>3, <3>2 DEF Applier, Phase
    <3> HIDE DEF k
    <3>4. QED BY <3>1, <3>3
  <2>2. CASE ToolWritesUnaudited(w)
    <3>1. PICK c \in BOOLEAN : applier' = [applier EXCEPT ![w] =
            Stopped([a EXCEPT !.touched = @ \union {f}, !.cancelled = c])]
      BY <2>2 DEF ToolWritesUnaudited, Become
    <3> DEFINE b == [a EXCEPT !.touched = @ \union {f}, !.cancelled = c]
    <3>2. b \in Applier
      BY <1>2, <1>3 DEF Applier
    <3> HIDE DEF b
    <3>3. Stopped(b) \in Applier /\ Stopped(b).phase \in {"reported", "recording"}
      BY <3>2 DEF Stopped, Applier, Phase
    <3>4. applier' = [applier EXCEPT ![w] = Stopped(b)]
      BY <3>1 DEF b
    <3>5. QED BY <3>3, <3>4
  <2>3. QED BY <2>1, <2>2
<1>9. AppendInv(k, FALSE)
  BY <1>2, <1>3, <1>8 DEF AppendInv
<1>10. \A v \in Appliers : AppendInv(applier'[v], FALSE)
  <2>1. \A v \in Appliers : AppendInv(applier[v], SourceAbsent) /\ SourceAbsent \in BOOLEAN
    BY DEF AInv, SourceAbsent
  <2>2. \A v \in Appliers : AppendInv(applier[v], FALSE)
    BY <2>1, AppendInvStable
  <2>3. QED BY <1>8, <1>9, <2>2 DEF AInv, IInv, TypeOK
<1>11. SourceAbsent' = FALSE
  BY <1>7 DEF SourceAbsent
<1>12. QED BY <1>6, <1>7, <1>10, <1>11 DEF AInv

\* A truncated file holds no fragment, and is there.
LEMMA AppendTruncated ==
    ASSUME AInv, NEW w \in Appliers, Truncated(w)
    PROVE  /\ AppendedOnce' /\ SourceAbsent' = FALSE
           /\ \A v \in Appliers : AppendInv(applier[v], FALSE)
<1> DEFINE f == Here(w)
<1>1. /\ AppendInv(applier[w], SourceAbsent) /\ AppendedOnce
      /\ tree \in [File -> MaybeContent]
  BY BusyApplier DEF AInv
<1>2. f \in File /\ applier[w].phase = "writing" /\ applier[w].next = f
  BY TreeTruncated DEF AInv, Here
<1>3. tree' = [tree EXCEPT ![f] = HumanText]
  BY DEF Truncated
<1>4. AppendedOnce'
  BY <1>1, <1>2, <1>3, HumanTextContent DEF AppendedOnce
<1>5. HumanText # Absent
  BY HumanTextContent, AbsentAssumption
<1>6. tree'[1] # Absent
  <2>1. CASE f = 1
    BY <1>1, <1>2, <1>3, <1>5, <2>1
  <2>2. CASE f # 1
    <3>1. applier[w].next > 1
      <4> HIDE DEF f
      <4>1. QED BY <1>2, <2>2, ApplierAssumption DEF File
    <3>2. ~ SourceAbsent
      BY <1>1, <1>2, <3>1 DEF AppendInv
    <3>3. QED BY <1>1, <1>3, <2>2, <3>2, FileFacts DEF SourceAbsent
  <2>3. QED BY <2>1, <2>2
<1>7. \A v \in Appliers : AppendInv(applier[v], SourceAbsent) /\ SourceAbsent \in BOOLEAN
  BY DEF AInv, SourceAbsent
<1>8. QED BY <1>4, <1>6, <1>7, AppendInvStable DEF SourceAbsent

\* The steps of a goroutine after its plan, and Cancel, that touch no file.
LEMMA AppendElsewhere ==
    ASSUME AInv, IInv', NEW w \in Appliers,
           \/ PlanEnds(w) \/ PrepareRefuses(w) \/ ToolRefuses(w)
           \/ CommitPlan(w) \/ RecordLanding(w) \/ Cancel(w)
    PROVE  AInv'
<1>1. applier[w] \in Applier /\ AppendInv(applier[w], SourceAbsent)
  BY BusyApplier DEF AInv
<1>2. UNCHANGED tree
  BY DEF PlanEnds, PrepareRefuses, ToolRefuses, CommitPlan, RecordLanding, Cancel
<1>3. applier'[w] \in Applier /\ applier' = [applier EXCEPT ![w] = applier'[w]]
  <2>1. applier \in [Appliers -> Applier] /\ applier' \in [Appliers -> Applier]
    BY DEF AInv, IInv, TypeOK
  <2>2. PICK k : applier' = [applier EXCEPT ![w] = k]
    BY DEF PlanEnds, PrepareRefuses, ToolRefuses, CommitPlan, RecordLanding, Cancel,
           Report, Become
  <2>3. QED BY <2>1, <2>2
<1>4. CASE Cancel(w)
  <2>1. applier'[w] = [applier[w] EXCEPT !.cancelled = TRUE]
    BY <1>4 DEF Cancel, Become, AInv, IInv, TypeOK
  <2>2. /\ applier'[w].phase = applier[w].phase /\ applier'[w].next = applier[w].next
        /\ applier'[w].seen = applier[w].seen /\ applier'[w].bytes = applier[w].bytes
    BY <1>1, <2>1 DEF Applier
  <2>3. AppendInv(applier'[w], SourceAbsent)
    BY <1>1, <2>2 DEF AppendInv
  <2>4. QED BY <1>2, <1>3, <2>3, AppendLocal
<1>5. CASE ~ Cancel(w)
  <2>1. applier'[w].phase \in {"reported", "recording", "saving"}
    <3>1. CASE PlanEnds(w) \/ PrepareRefuses(w) \/ RecordLanding(w)
      <4>1. applier'[w] = [applier[w] EXCEPT !.phase = "reported"]
        BY <3>1 DEF PlanEnds, PrepareRefuses, RecordLanding, Report, Become, AInv, IInv, TypeOK
      <4>2. QED BY <1>1, <4>1 DEF Applier
    <3>2. CASE ToolRefuses(w)
      <4>1. applier'[w] = Stopped(applier[w])
        BY <3>2 DEF ToolRefuses, Become, AInv, IInv, TypeOK
      <4>2. QED BY <1>1, <4>1 DEF Stopped, Applier
    <3>3. CASE CommitPlan(w)
      <4>1. \/ \E r : applier'[w] = [applier[w] EXCEPT !.phase = "saving", !.receipt = {r}]
            \/ applier'[w] = [applier[w] EXCEPT !.phase = "saving"]
        BY <3>3 DEF CommitPlan, Become, AInv, IInv, TypeOK
      <4>2. QED BY <1>1, <4>1 DEF Applier
    <3>4. QED BY <1>5, <3>1, <3>2, <3>3
  <2>2. AppendInv(applier'[w], SourceAbsent)
    BY <2>1, AppendInvResting
  <2>3. QED BY <1>2, <1>3, <2>2, AppendLocal
<1>6. QED BY <1>4, <1>5

\* A write that fails adds no fragment.
LEMMA AppendTruncate ==
    ASSUME AInv, IInv', NEW w \in Appliers, ToolTruncates(w)
    PROVE  AInv'
<1> DEFINE b == [applier[w] EXCEPT !.touched = @ \union {Here(w)}]
<1>1. /\ AppendedOnce' /\ SourceAbsent' = FALSE
      /\ \A v \in Appliers : AppendInv(applier[v], FALSE)
  BY AppendTruncated DEF ToolTruncates
<1>2. applier[w] \in Applier /\ Here(w) \in File
  BY BusyApplier, TreeTruncated DEF AInv, ToolTruncates
<1>3. applier \in [Appliers -> Applier]
  BY DEF AInv, IInv, TypeOK
<1>4. applier' = [applier EXCEPT ![w] = Stopped(b)]
  BY DEF ToolTruncates, Become
<1>5. b \in Applier
  BY <1>2 DEF Applier
<1> HIDE DEF b
<1>6. Stopped(b).phase \in {"reported", "recording"}
  BY <1>5 DEF Stopped, Applier
<1>7. AppendInv(Stopped(b), FALSE)
  BY <1>6 DEF AppendInv
<1>8. \A v \in Appliers : AppendInv(applier'[v], FALSE)
  BY <1>1, <1>3, <1>4, <1>7
<1>9. QED BY <1>1, <1>8 DEF AInv

\* Edits, the pipeline and crashes add no fragment.
LEMMA AppendEnvironment ==
    ASSUME "remove" \notin People, AInv, IInv',
           \/ \E f \in File : PersonEdits(f) \/ PersonRemoves(f)
           \/ PipelineStep \/ PipelinePublishes \/ Crash
    PROVE  AInv'
<1>1. /\ tree \in [File -> MaybeContent] /\ applier \in [Appliers -> Applier]
      /\ \A v \in Appliers : AppendInv(applier[v], SourceAbsent)
      /\ AppendedOnce /\ (SourceAbsent => \A f \in File : BuildFile(f) => Clean(tree[f]))
  BY DEF AInv, IInv, TypeOK
<1>2. CASE PipelineStep \/ PipelinePublishes
  <2>1. UNCHANGED <<tree, applier>>
    BY <1>2 DEF PipelineStep, PipelinePublishes
  <2>2. QED BY <1>1, <2>1 DEF AInv, AppendedOnce, SourceAbsent
<1>3. CASE Crash
  <2>1. applier' = [v \in Appliers |-> IdleApplier]
    BY <1>3 DEF Crash
  <2>2. \A v \in Appliers : \A c : AppendInv(applier'[v], c)
    BY <2>1, IdleApplierFacts, AppendInvResting
  <2>3. CASE UNCHANGED tree
    BY <1>1, <2>2, <2>3 DEF AInv, AppendedOnce, SourceAbsent
  <2>4. ASSUME NEW w \in Appliers, Truncated(w) PROVE AInv'
    BY <2>2, <2>4, AppendTruncated DEF AInv
  <2>5. QED BY <1>3, <2>3, <2>4 DEF Crash
<1>4. ASSUME NEW f \in File, PersonEdits(f) PROVE AInv'
  <2>1. /\ UNCHANGED applier /\ tree[f] # Absent /\ ActionOf(f) = "modify"
        /\ tree' = [tree EXCEPT ![f].human = @ + 1]
    BY <1>4 DEF PersonEdits
  <2>2. f # 1
    BY <2>1, FileFacts
  <2>3. tree[f] \in Content
    BY <1>1, <2>1 DEF MaybeContent
  <2>4. tree'[f] \in Content /\ tree'[f].copies = tree[f].copies
    BY <1>1, <2>1, <2>3 DEF Content
  <2>5. \A g \in File : g # f => tree'[g] = tree[g]
    BY <1>1, <2>1
  <2>6. SourceAbsent' = SourceAbsent
    BY <2>2, <2>5, FileFacts DEF SourceAbsent
  <2>7. AppendedOnce'
    BY <1>1, <2>1, <2>4, <2>5 DEF AppendedOnce
  <2>8. SourceAbsent' => \A g \in File : BuildFile(g) => Clean(tree'[g])
    BY <1>1, <2>4, <2>5, <2>6, AbsentAssumption DEF Clean
  <2>9. QED BY <1>1, <2>1, <2>6, <2>7, <2>8 DEF AInv
<1>5. \A f \in File : ~ PersonRemoves(f)
  BY DEF PersonRemoves
<1>6. QED BY <1>2, <1>3, <1>4, <1>5

\* Every step keeps AInv when nobody removes the source file.
LEMMA AppendNext ==
    ASSUME "remove" \notin People
    PROVE  AInv /\ [Next]_vars => AInv'
<1> SUFFICES ASSUME AInv, [Next]_vars PROVE AInv'
  OBVIOUS
<1>1. IInv'
  BY NextStep DEF AInv
<1>2. CASE UNCHANGED vars
  BY <1>1, <1>2 DEF vars, AInv, AppendedOnce, SourceAbsent
<1>3. ASSUME NEW w \in Appliers, ApplierStep(w) \/ Cancel(w) PROVE AInv'
  BY <1>1, <1>3, AppendPlan, AppendPrepare, AppendWrite, AppendTruncate, AppendElsewhere
     DEF ApplierStep
<1>4. QED BY <1>1, <1>2, <1>3, AppendEnvironment DEF Next

\* An untouched tree holds no fragment.
LEMMA AppendInit == Init => AInv
<1> SUFFICES ASSUME Init PROVE AInv
  OBVIOUS
<1>1. \A f \in File : tree[f] = IF ActionOf(f) = "create" THEN Absent ELSE HumanText
  BY DEF Init
<1>2. \A f \in File : BuildFile(f) => Clean(tree[f])
  BY <1>1, FileFacts, HumanTextContent, AbsentAssumption DEF BuildFile, Clean
<1>3. AppendedOnce
  BY <1>1, HumanTextContent DEF AppendedOnce
<1>4. \A w \in Appliers : AppendInv(applier[w], SourceAbsent)
  BY IdleApplierFacts, AppendInvResting DEF Init
<1>5. QED BY <1>2, <1>3, <1>4, InitStep DEF AInv

\* plan's and prepare's checks, the order of the manifest and the writes leave
\* no interleaving of applies, failures and retries that appends a fragment
\* twice, unless a person removes the source file.
THEOREM AppendedOnceAlways ==
    ASSUME "remove" \notin People
    PROVE  Spec => []AppendedOnce
<1>1. AInv /\ [Next]_vars => AInv'
  BY AppendNext
<1>2. AInv => AppendedOnce
  BY DEF AInv
<1>3. QED BY <1>1, <1>2, AppendInit, PTL DEF Spec

(***************************************************************************)
(* A landing is recorded.                                                  *)
(***************************************************************************)
\* Applied leaves a project past emit, ApplyFailed one that says "apply_partial".
LEMMA LandedTells ==
    ASSUME NEW p \in Project, NEW refs \in SUBSET Ref
    PROVE  /\ Bump(Applied(p, StageEmit, refs)).current > StageEmit
           /\ Bump(ApplyFailed(p, StageEmit, refs)).lastError = "apply_partial"
<1>1. StageEmit \in Nat /\ StageEmit # LastStage /\ p.current \in Nat
  BY NumStagesAssumption DEF StageEmit, LastStage, Stage, Project
<1>2. StageEmit \in Stage
  BY NumStagesAssumption DEF StageEmit, Stage
<1>3. Applied(p, StageEmit, refs).current > StageEmit
  <2> DEFINE landed == [p EXCEPT !.artifacts[StageEmit] = @ \union refs,
                                 !.lastError = "none"]
  <2>1. landed.current = p.current /\ landed.status = p.status
        /\ [landed EXCEPT !.current = StageEmit + 1, !.status = "pending"].current
             = StageEmit + 1
    BY DEF Project
  <2> HIDE DEF landed
  <2>2. Applied(p, StageEmit, refs) =
          IF StageEmit < p.current THEN landed
          ELSE [landed EXCEPT !.current = StageEmit + 1, !.status = "pending"]
    BY <1>1 DEF Applied, landed
  <2>3. QED BY <1>1, <2>1, <2>2
<1>4. ApplyFailed(p, StageEmit, refs).lastError = "apply_partial"
  BY DEF ApplyFailed, Project
<1>5. /\ Applied(p, StageEmit, refs) \in Project
      /\ ApplyFailed(p, StageEmit, refs) \in Project
  BY <1>2, LandedProject
<1>6. \A q \in Project : Bump(q).lastError = q.lastError /\ Bump(q).current = q.current
  BY DEF Bump, Project
<1>7. QED BY <1>3, <1>4, <1>5, <1>6

\* An apply leaves "saving" for "reported" through its own record.
LEMMA LeavesSaving ==
    ASSUME IInv, [Next]_vars, NEW w \in Appliers,
           At(w, "saving"), applier'[w].phase = "reported"
    PROVE  RecordLanding(w)
<1>1. applier \in [Appliers -> Applier]
  BY DEF IInv, TypeOK
<1>2. applier[w].phase = "saving" /\ applier'[w].phase # applier[w].phase
  BY DEF At
<1>3. ~ Crash
  BY IdleApplierFacts DEF Crash
<1>4. \A f \in File : ~ PersonEdits(f) /\ ~ PersonRemoves(f)
  BY <1>2 DEF PersonEdits, PersonRemoves
<1>5. ~ PipelineStep /\ ~ PipelinePublishes /\ ~ UNCHANGED vars
  BY <1>2 DEF PipelineStep, PipelinePublishes, vars
<1>6. ASSUME NEW v \in Appliers, v # w, ApplierStep(v) \/ Cancel(v)
      PROVE  FALSE
  <2>1. \E k : Become(v, k)
    BY <1>6 DEF ApplierStep, PlanStarts, PlanFile, PlanEnds, PrepareFile, PrepareRefuses,
                ToolWrites, ToolRefuses, ToolWritesUnaudited, ToolTruncates, CommitPlan,
                RecordLanding, Cancel, Report
  <2>2. applier'[w] = applier[w]
    BY <1>1, <1>6, <2>1 DEF Become
  <2>3. QED BY <1>2, <2>2
<1>7. ASSUME Cancel(w)
      PROVE  FALSE
  <2>1. applier'[w] = [applier[w] EXCEPT !.cancelled = TRUE] /\ applier[w] \in Applier
    BY <1>1, <1>7 DEF Cancel, Become
  <2>2. QED BY <1>2, <2>1 DEF Applier
<1>8. ApplierStep(w) => RecordLanding(w)
  BY <1>2 DEF ApplierStep, PlanStarts, Resting, PlanFile, PlanEnds, PrepareFile,
              PrepareRefuses, ToolWrites, ToolRefuses, ToolWritesUnaudited, WritesHere,
              ToolTruncates, Truncated, CommitPlan, At
<1>9. QED BY <1>3, <1>4, <1>5, <1>6, <1>7, <1>8 DEF Next

\* record() is on context.WithoutCancel: as long as the project file can be
\* written, an apply that wrote files moves a project that nobody else moved,
\* with or without its receipt, canceled or not.
THEOREM ApplyIsRecordedAlways ==
    ASSUME "project_io" \notin Faults
    PROVE  Spec => ApplyIsRecorded
<1> DEFINE Recorded(w) ==
        (At(w, "saving") /\ UnmovedSince(w) /\ applier'[w].phase = "reported")
            => \/ project'.lastError = "apply_partial"
               \/ project'.current > StageEmit
<1>1. ASSUME IInv, [Next]_vars, NEW w \in Appliers
      PROVE  Recorded(w)
  <2> SUFFICES ASSUME At(w, "saving"), UnmovedSince(w), applier'[w].phase = "reported"
               PROVE  project'.lastError = "apply_partial" \/ project'.current > StageEmit
    OBVIOUS
  <2> DEFINE p == applier[w].planned
             refs == applier[w].receipt
  <2>1. RecordLanding(w)
    BY <1>1, LeavesSaving
  <2>2. /\ p \in Project /\ Emitted(p) # {} /\ refs \in SUBSET Ref
        /\ p.revision = project.revision /\ p.status # "running"
    BY <1>1, BusyApplier DEF At, Busy, PlanInv, UnmovedSince
  <2>3. p.artifacts[StageEmit] # {}
    BY <2>2 DEF Emitted, OutputIn
  <2>4. CanReplaceFrom(Landed(w), project)
    BY <1>1, <2>2, LandedFacts DEF CanReplaceFrom
  <2>5. CanRecord(w)
    BY <2>2, <2>3, <2>4 DEF CanRecord, CanApplied
  <2>6. project' = Landed(w)
    BY <2>1, <2>5 DEF RecordLanding, Fault
  <2>7. \/ Landed(w) = Bump(ApplyFailed(p, StageEmit, refs))
        \/ Landed(w) = Bump(Applied(p, StageEmit, refs))
    BY DEF Landed
  <2> HIDE DEF p, refs
  <2>8. QED BY <2>2, <2>6, <2>7, LandedTells
<1>2. IInv /\ [Next]_vars => [\A w \in Appliers : Recorded(w)]_vars
  BY <1>1
<1>3. QED BY <1>2, InductiveInvariant, PTL DEF Spec, ApplyIsRecorded

(***************************************************************************)
(* Past emit, the files have landed.                                       *)
(*                                                                         *)
(* An apply's bytes hold the generation it planned, each file below the    *)
(* loop's index holds it, and only the record of a complete loop takes the *)
(* project past emit: on the very project the apply planned on.  Once      *)
(* there, its generation changes no more, and a later apply writes the     *)
(* same one.  Two applies of different generations would overwrite each    *)
(* other, so either there is one caller or there is one generation.        *)
(***************************************************************************)
OneAtATime ==
    \/ \A v, u \in Appliers : v = u
    \/ \A g, h \in ArtifactIDs : g = h

OneGeneration(p) == \A g, h \in Emitted(p) : g = h

\* PastEmitMeansLanded's demand on a file with content c that was changed n
\* times.
Kept(c, n, g) ==
    \/ c # Absent /\ c.copies[g] >= 1
    \/ /\ n > IF c = Absent THEN 0 ELSE c.human
       /\ c # Absent => \A i \in ArtifactIDs : c.copies[i] = 0

\* What an apply has fixed, and what it has written, of its generation.
LandInv(a, p, t, e) ==
    Busy(a) =>
        /\ OneGeneration(a.planned)
        /\ p.current > StageEmit => Emitted(p) = Emitted(a.planned)
        /\ \A g \in Emitted(a.planned) :
             /\ a.phase = "preparing" =>
                  \A f \in File : f < a.next => a.bytes[f].copies[g] >= 1
             /\ a.phase = "writing" =>
                  /\ \A f \in File : a.bytes[f].copies[g] >= 1
                  /\ \A f \in File : f < a.next => Kept(t[f], e[f], g)
             /\ a.phase \in {"recording", "saving"} /\ ~ a.partial =>
                  \A f \in File : Kept(t[f], e[f], g)

LInv ==
    /\ IInv
    /\ OneGeneration(project)
    /\ PastEmitMeansLanded
    /\ \A w \in Appliers : LandInv(applier[w], project, tree, edits)

\* The generations that somebody still counts on.
Live(g) ==
    \/ project.current > StageEmit /\ g \in Emitted(project)
    \/ \E v \in Appliers : Busy(applier[v]) /\ g \in Emitted(applier[v].planned)

Steady ==
    \A g \in ArtifactIDs, f \in File :
        Live(g) /\ Kept(tree[f], edits[f], g) => Kept(tree'[f], edits'[f], g)

\* The manifest is an artifact of the emit stage.
LEMMA EmittedIDs ==
    ASSUME NEW p \in Project
    PROVE  /\ Emitted(p) \subseteq ArtifactIDs
           /\ p.current \in Nat /\ StageEmit \in Stage /\ StageEmit \in Nat
<1>1. StageEmit \in Stage /\ StageEmit \in Nat
  BY NumStagesAssumption DEF StageEmit, Stage
<1>2. p.artifacts[StageEmit] \subseteq Ref /\ p.current \in Nat
  BY <1>1, NumStagesAssumption DEF Project, Stage
<1>3. QED BY <1>1, <1>2 DEF Emitted, OutputIn, Ref

\* What a busy goroutine writes is the one generation of its plan.
LEMMA MyGeneration ==
    ASSUME IInv, NEW w \in Appliers, Busy(applier[w]),
           LandInv(applier[w], project, tree, edits)
    PROVE  /\ Generation(w) \in Emitted(applier[w].planned)
           /\ Emitted(applier[w].planned) = {Generation(w)}
           /\ applier[w].planned \in Project
<1>1. applier[w].planned \in Project /\ Emitted(applier[w].planned) # {}
      /\ OneGeneration(applier[w].planned)
  BY BusyApplier DEF PlanInv, LandInv
<1>2. Generation(w) \in Emitted(applier[w].planned)
  BY <1>1 DEF Generation
<1>3. QED BY <1>1, <1>2 DEF OneGeneration

\* While somebody applies, nobody counts on another generation.
LEMMA LiveIsMine ==
    ASSUME LInv, OneAtATime, NEW w \in Appliers, Busy(applier[w]),
           NEW g \in ArtifactIDs, Live(g)
    PROVE  g = Generation(w)
<1>1. /\ Emitted(applier[w].planned) = {Generation(w)}
      /\ applier[w].planned \in Project
      /\ project.current > StageEmit => Emitted(project) = Emitted(applier[w].planned)
  BY MyGeneration DEF LInv, LandInv
<1>2. CASE \A v, u \in Appliers : v = u
  BY <1>1, <1>2 DEF Live
<1>3. CASE \A h, i \in ArtifactIDs : h = i
  <2>1. Generation(w) \in ArtifactIDs
    BY <1>1, EmittedIDs
  <2>2. QED BY <1>3, <2>1
<1>4. QED BY <1>2, <1>3 DEF OneAtATime

\* Steps under which a file keeps what is asked of it keep it for everybody.
LEMMA LandInvSteady ==
    ASSUME LInv, Steady
    PROVE  \A v \in Appliers : LandInv(applier[v], project, tree', edits')
<1> TAKE v \in Appliers
<1>1. LandInv(applier[v], project, tree, edits)
  BY DEF LInv
<1>2. ASSUME Busy(applier[v]), NEW g \in Emitted(applier[v].planned), NEW f \in File,
             Kept(tree[f], edits[f], g)
      PROVE  Kept(tree'[f], edits'[f], g)
  <2>1. applier[v].planned \in Project
    BY <1>2, BusyApplier DEF PlanInv, LInv
  <2>2. g \in ArtifactIDs /\ Live(g)
    BY <1>2, <2>1, EmittedIDs DEF Live
  <2>3. QED BY <1>2, <2>2 DEF Steady
<1>3. QED BY <1>1, <1>2 DEF LandInv

\* A project past emit stays with its files.
LEMMA PastEmitSteady ==
    ASSUME LInv, Steady, UNCHANGED project
    PROVE  PastEmitMeansLanded'
<1> SUFFICES ASSUME project.current > StageEmit
             PROVE  /\ Emitted(project) # {}
                    /\ \A g \in Emitted(project), f \in File : Kept(tree'[f], edits'[f], g)
  BY DEF PastEmitMeansLanded, Kept, Holds, Lost, Emitted, OutputIn
<1>1. /\ Emitted(project) # {} /\ project \in Project
      /\ \A g \in Emitted(project), f \in File : Kept(tree[f], edits[f], g)
  BY DEF LInv, PastEmitMeansLanded, Kept, Holds, Lost, IInv, TypeOK
<1>2. ASSUME NEW g \in Emitted(project) PROVE g \in ArtifactIDs /\ Live(g)
  BY <1>1, <1>2, EmittedIDs DEF Live
<1>3. QED BY <1>1, <1>2 DEF Steady

\* A goroutine's step that leaves the project alone.
LEMMA LandLocal ==
    ASSUME LInv, IInv', NEW w \in Appliers, NEW k \in Applier,
           UNCHANGED project, applier' = [applier EXCEPT ![w] = k], Steady,
           LandInv(k, project, tree', edits')
    PROVE  LInv'
<1>1. OneGeneration(project)'
  BY DEF LInv, OneGeneration, Emitted, OutputIn
<1>2. \A v \in Appliers : LandInv(applier'[v], project', tree', edits')
  <2>1. applier \in [Appliers -> Applier]
    BY DEF LInv, IInv, TypeOK
  <2>2. QED BY <2>1, LandInvSteady
<1>3. QED BY <1>1, <1>2, PastEmitSteady DEF LInv

\* An untouched tree is steady.
LEMMA UntouchedSteady ==
    ASSUME UNCHANGED <<tree, edits>>
    PROVE  Steady
  BY DEF Steady

\* A write puts the generation that is counted on in place.
LEMMA WriteSteady ==
    ASSUME LInv, OneAtATime, NEW w \in Appliers, WritesHere(w)
    PROVE  /\ Steady
           /\ Kept(tree'[Here(w)], edits'[Here(w)], Generation(w))
<1> DEFINE a == applier[w]
           f == Here(w)
           c == a.bytes[f]
           g == Generation(w)
<1>1. /\ f \in File /\ c \in Content /\ UNCHANGED edits /\ a.phase = "writing" /\ Busy(a)
      /\ tree \in [File -> MaybeContent] /\ tree' = [tree EXCEPT ![f] = c]
  BY TreeWritten DEF LInv, IInv, TypeOK, WritesHere
<1>2. c.copies[g] >= 1
  BY <1>1, MyGeneration DEF LInv, LandInv
<1>3. Kept(c, edits[f], g)
  BY <1>1, <1>2, AbsentAssumption DEF Kept
<1>4. \A h \in ArtifactIDs : Live(h) => h = g
  BY <1>1, LiveIsMine
<1> HIDE DEF c, g, f
<1>5. \A h \in File : tree'[h] = IF h = f THEN c ELSE tree[h]
  BY <1>1
<1>6. Steady
  BY <1>1, <1>3, <1>4, <1>5 DEF Steady
<1>7. QED BY <1>1, <1>3, <1>5, <1>6 DEF f, g

\* A file that lost what it held asks for nothing.
LEMMA TruncateSteady ==
    ASSUME LInv, NEW w \in Appliers, Truncated(w)
    PROVE  Steady
<1> DEFINE f == Here(w)
<1>1. /\ f \in File /\ tree \in [File -> MaybeContent] /\ edits \in [File -> Nat]
      /\ tree' = [tree EXCEPT ![f] = HumanText]
      /\ edits' = [edits EXCEPT ![f] = @ + 1]
  BY TreeTruncated DEF LInv, IInv, TypeOK, Truncated
<1> HIDE DEF f
<1>2. \A h \in File : h # f => tree'[h] = tree[h] /\ edits'[h] = edits[h]
  BY <1>1
<1>3. tree'[f] = HumanText /\ edits'[f] = edits[f] + 1 /\ edits[f] \in Nat
  BY <1>1
<1>4. HumanText.human = 0 /\ HumanText # Absent /\ HumanText.copies = [i \in ArtifactIDs |-> 0]
  BY HumanTextContent, AbsentAssumption DEF HumanText
<1>5. \A g : Kept(tree'[f], edits'[f], g)
  <2>1. edits'[f] > 0
    BY <1>3
  <2>2. \A i \in ArtifactIDs : HumanText.copies[i] = 0
    BY <1>4
  <2>3. QED BY <1>3, <1>4, <2>1, <2>2 DEF Kept
<1>6. QED BY <1>2, <1>5 DEF Steady

\* People add to a file, or remove it; they do not take a fragment out.
LEMMA PersonSteady ==
    ASSUME LInv, NEW f \in File, PersonEdits(f) \/ PersonRemoves(f)
    PROVE  Steady
<1>1. /\ tree \in [File -> MaybeContent] /\ edits \in [File -> Nat]
      /\ edits' = [edits EXCEPT ![f] = @ + 1] /\ tree[f] # Absent
  BY DEF LInv, IInv, TypeOK, PersonEdits, PersonRemoves
<1>2. edits'[f] = edits[f] + 1 /\ edits[f] \in Nat /\ tree[f] \in Content
  BY <1>1 DEF MaybeContent
<1>3. \A h \in File : h # f => tree'[h] = tree[h] /\ edits'[h] = edits[h]
  BY <1>1 DEF PersonEdits, PersonRemoves
<1>4. ASSUME NEW g, Kept(tree[f], edits[f], g)
      PROVE  Kept(tree'[f], edits'[f], g)
  <2>1. CASE PersonEdits(f)
    <3>1. tree'[f] = [tree[f] EXCEPT !.human = @ + 1]
      BY <1>1, <2>1 DEF PersonEdits
    <3>2. /\ tree'[f] \in Content /\ tree'[f].copies = tree[f].copies
          /\ tree'[f].human = tree[f].human + 1 /\ tree[f].human \in Nat
      BY <1>2, <3>1 DEF Content
    <3>3. tree'[f] # Absent /\ tree[f] # Absent
      BY <1>1, <3>2, AbsentAssumption
    <3>4. edits[f] > tree[f].human => edits'[f] > tree'[f].human
      BY <1>2, <3>2
    <3>5. QED BY <1>4, <3>2, <3>3, <3>4 DEF Kept
  <2>2. CASE PersonRemoves(f)
    <3>1. tree'[f] = Absent
      BY <1>1, <2>2 DEF PersonRemoves
    <3>2. edits'[f] > 0
      BY <1>2
    <3>3. QED BY <3>1, <3>2 DEF Kept
  <2>3. QED BY <2>1, <2>2
<1>5. QED BY <1>3, <1>4 DEF Steady

\* Planning fixes nothing yet.
LEMMA LandPlan ==
    ASSUME LInv, IInv', NEW w \in Appliers, PlanStarts(w) \/ PlanFile(w)
    PROVE  LInv'
<1>1. /\ UNCHANGED <<project, tree, edits>> /\ Steady
      /\ applier[w] \in Applier /\ LandInv(applier[w], project, tree, edits)
  BY UntouchedSteady, BusyApplier DEF PlanStarts, PlanFile, LInv
<1>2. CASE PlanStarts(w)
  <2> DEFINE k == [IdleApplier EXCEPT !.phase = "planning", !.planned = project]
  <2>1. k \in Applier /\ k.phase = "planning" /\ k.planned = project
    BY IdleApplierFacts DEF Applier, Phase, IdleApplier, LInv, IInv, TypeOK
  <2>2. applier' = [applier EXCEPT ![w] = k]
    BY <1>2 DEF PlanStarts, Become
  <2> HIDE DEF k
  <2>3. LandInv(k, project, tree, edits)
    BY <2>1 DEF LandInv, LInv
  <2>4. QED BY <1>1, <2>1, <2>2, <2>3, LandLocal
<1>3. CASE PlanFile(w)
  <2> DEFINE a == applier[w]
             f == Here(w)
             k == [a EXCEPT !.seen[f] = tree[f],
                            !.next = IF Last(w) THEN 1 ELSE @ + 1,
                            !.phase = IF Last(w) THEN "preparing" ELSE @]
  <2>1. a.phase = "planning" /\ applier' = [applier EXCEPT ![w] = k]
    BY <1>3 DEF PlanFile, At, Become
  <2>2. f \in File /\ a.next = f /\ tree[f] \in MaybeContent
    BY <2>1, BusyApplier DEF PlanInv, Here, LInv, IInv, TypeOK
  <2>3. (IF Last(w) THEN 1 ELSE f + 1) \in 1..(NumFiles + 1)
    <3>1. f \in File
      BY <2>2
    <3> HIDE DEF f
    <3>2. QED BY <3>1, FileFacts, ApplierAssumption
  <2>4. /\ k \in Applier /\ k.planned = a.planned
        /\ k.phase = "planning" \/ (k.phase = "preparing" /\ k.next = 1)
    BY <1>1, <2>1, <2>2, <2>3 DEF Applier, Phase
  <2> HIDE DEF k
  <2>5. \A h \in File : ~ (h < 1)
    BY FileFacts
  <2>6. Busy(a)
    BY <2>1 DEF Busy
  <2>7. LandInv(k, project, tree, edits)
    BY <1>1, <2>4, <2>5, <2>6 DEF LandInv
  <2>8. QED BY <1>1, <2>1, <2>4, <2>7, LandLocal
<1>4. QED BY <1>2, <1>3

\* compose renders one more file of the planned generation.
LEMMA LandPrepare ==
    ASSUME LInv, IInv', NEW w \in Appliers, PrepareFile(w)
    PROVE  LInv'
<1> DEFINE a == applier[w]
           g == Generation(w)
<1>1. /\ a \in Applier /\ PlanInv(a, project, published)
      /\ LandInv(a, project, tree, edits) /\ tree \in [File -> MaybeContent]
  BY BusyApplier DEF LInv
<1>2. /\ a.phase = "preparing" /\ Busy(a)
      /\ AsPlanned(w, Here(w)) /\ UNCHANGED <<project, tree, edits>>
  BY DEF PrepareFile, At, Busy
<1>3. PICK f \in File : f = a.next
  BY <1>1, <1>2 DEF PlanInv
<1>4. Here(w) = f
  BY <1>3 DEF Here
<1>5. Emitted(a.planned) = {g} /\ g \in ArtifactIDs
  BY <1>1, <1>2, MyGeneration, BusyApplier DEF LInv
<1> DEFINE c == Composed(w, f)
           k == [a EXCEPT !.bytes[f] = c,
                          !.next = IF f = NumFiles THEN 1 ELSE f + 1,
                          !.phase = IF f = NumFiles THEN "writing" ELSE "preparing"]
<1>6. c \in Content /\ c.copies[g] >= 1
  <2>1. ActionOf(f) # "create" => tree[f] \in Content
    <3>1. ActionOf(f) # "create" => a.seen[f] # Absent /\ tree[f] = a.seen[f]
      BY <1>1, <1>2, <1>4, FileFacts DEF AsPlanned, PlanInv
    <3>2. QED BY <1>1, <3>1 DEF MaybeContent
  <2>2. PICK d \in Content : c = WithFragment(d, g)
    BY <2>1, HumanTextContent DEF Composed
  <2>3. c \in Content /\ c.copies = [d.copies EXCEPT ![g] = @ + 1]
    BY <1>5, <2>2, WithFragmentContent
  <2>4. d.copies \in [ArtifactIDs -> Nat]
    BY DEF Content
  <2> HIDE DEF c, g
  <2>5. QED BY <1>5, <2>3, <2>4
<1>7. applier' = [applier EXCEPT ![w] = k]
  BY <1>2, <1>3, <1>4 DEF PrepareFile, Become, Last
<1> HIDE DEF c, g
<1>8. (IF f = NumFiles THEN 1 ELSE f + 1) \in 1..(NumFiles + 1)
  BY FileFacts, ApplierAssumption
<1>9. /\ k \in Applier /\ k.planned = a.planned
      /\ k.phase = IF f = NumFiles THEN "writing" ELSE "preparing"
      /\ k.next = IF f = NumFiles THEN 1 ELSE f + 1
      /\ k.bytes = [a.bytes EXCEPT ![f] = c]
      /\ a.bytes \in [File -> MaybeContent]
  BY <1>1, <1>6, <1>8 DEF Applier, Phase, MaybeContent
<1> HIDE DEF k
<1>10. \A h \in File : h < f \/ h = f => k.bytes[h].copies[g] >= 1
  BY <1>1, <1>2, <1>3, <1>5, <1>6, <1>9 DEF LandInv
<1>11. \A h \in File : /\ h < f + 1 \/ f = NumFiles => h < f \/ h = f
                       /\ ~ (h < 1)
  BY ApplierAssumption DEF File
<1>12. LandInv(k, project, tree, edits)
  <2>1. CASE f = NumFiles
    BY <1>1, <1>2, <1>5, <1>9, <1>10, <1>11, <2>1 DEF LandInv
  <2>2. CASE f # NumFiles
    BY <1>1, <1>2, <1>5, <1>9, <1>10, <1>11, <2>2 DEF LandInv
  <2>3. QED BY <2>1, <2>2
<1>13. QED BY <1>2, <1>7, <1>9, <1>12, UntouchedSteady, LandLocal

\* A loop that stopped has nothing to show but its plan.
LEMMA LandStopped ==
    ASSUME NEW a \in Applier, NEW b \in Applier, NEW p, NEW t, NEW e, NEW t2, NEW e2,
           LandInv(a, p, t, e), Busy(a), b.planned = a.planned
    PROVE  LandInv(Stopped(b), p, t2, e2)
<1>1. \/ Stopped(b).phase = "reported"
      \/ Stopped(b).phase = "recording" /\ Stopped(b).partial /\ Stopped(b).planned = b.planned
  BY DEF Stopped, Applier
<1>2. QED BY <1>1 DEF LandInv, Busy

\* A write's file is there, whatever the audit says of it.
LEMMA LandWrite ==
    ASSUME LInv, OneAtATime, IInv', NEW w \in Appliers,
           ToolWrites(w) \/ ToolWritesUnaudited(w)
    PROVE  LInv'
<1> DEFINE a == applier[w]
           f == Here(w)
           g == Generation(w)
<1>1. WritesHere(w)
  BY DEF ToolWrites, ToolWritesUnaudited
<1>2. /\ f \in File /\ a.next = f /\ a.phase = "writing" /\ Busy(a)
      /\ UNCHANGED <<project, edits>>
  BY <1>1, TreeWritten DEF LInv, Here
<1>3. a \in Applier /\ LandInv(a, project, tree, edits) /\ LandInv(a, project, tree', edits')
  BY <1>1, BusyApplier, LandInvSteady, WriteSteady DEF LInv
<1>4. Steady /\ Kept(tree'[f], edits'[f], g) /\ Emitted(a.planned) = {g}
  BY <1>1, <1>2, WriteSteady, MyGeneration DEF LInv
<1>5. CASE ToolWrites(w)
  <2> DEFINE k == [a EXCEPT !.written = @ \union {f}, !.touched = @ \union {f},
                            !.next = @ + 1, !.phase = IF Last(w) THEN "recording" ELSE @]
  <2>1. applier' = [applier EXCEPT ![w] = k]
    BY <1>5 DEF ToolWrites, Become
  <2>2. a.next + 1 \in 1..(NumFiles + 1)
    <3>1. f \in File /\ a.next = f
      BY <1>2
    <3> HIDE DEF f
    <3>2. QED BY <3>1, FileFacts
  <2>3. /\ k \in Applier /\ k.planned = a.planned /\ k.bytes = a.bytes
        /\ k.phase = IF f = NumFiles THEN "recording" ELSE "writing"
        /\ k.next = f + 1
    BY <1>2, <1>3, <2>2 DEF Applier, Phase, Last
  <2> HIDE DEF k, g
  <2>4. \A h \in File : h < f + 1 \/ f = NumFiles => h < f \/ h = f
    <3>1. f \in File
      BY <1>2
    <3> HIDE DEF f
    <3>2. QED BY <3>1, ApplierAssumption DEF File
  <2>5. \A h \in File : h < f \/ h = f => Kept(tree'[h], edits'[h], g)
    BY <1>2, <1>3, <1>4 DEF LandInv
  <2>6. \A h \in File : a.bytes[h].copies[g] >= 1
    BY <1>2, <1>3, <1>4 DEF LandInv
  <2>7. LandInv(k, project, tree', edits')
    <3> HIDE DEF f
    <3>1. CASE f = NumFiles
      BY <1>2, <1>3, <1>4, <2>3, <2>4, <2>5, <3>1 DEF LandInv
    <3>2. CASE f # NumFiles
      BY <1>2, <1>3, <1>4, <2>3, <2>4, <2>5, <2>6, <3>2 DEF LandInv
    <3>3. QED BY <3>1, <3>2
  <2>8. QED BY <1>2, <1>4, <2>1, <2>3, <2>7, LandLocal
<1>6. CASE ToolWritesUnaudited(w)
  <2>1. PICK c \in BOOLEAN :
          applier' = [applier EXCEPT ![w] =
            Stopped([a EXCEPT !.touched = @ \union {f}, !.cancelled = c])]
    BY <1>6 DEF ToolWritesUnaudited, Become
  <2> DEFINE b == [a EXCEPT !.touched = @ \union {f}, !.cancelled = c]
  <2>2. b \in Applier /\ b.planned = a.planned
    BY <1>2, <1>3 DEF Applier
  <2>3. applier' = [applier EXCEPT ![w] = Stopped(b)]
    BY <2>1
  <2> HIDE DEF b
  <2>4. LandInv(Stopped(b), project, tree', edits')
    BY <1>2, <1>3, <2>2, LandStopped
  <2>5. Stopped(b) \in Applier
    BY <2>2 DEF Stopped, Applier, Phase
  <2>6. QED BY <1>2, <1>4, <2>3, <2>4, <2>5, LandLocal
<1>7. QED BY <1>5, <1>6

\* A write that fails ends the loop.
LEMMA LandTruncate ==
    ASSUME LInv, IInv', NEW w \in Appliers, ToolTruncates(w)
    PROVE  LInv'
<1> DEFINE a == applier[w]
           b == [a EXCEPT !.touched = @ \union {Here(w)}]
<1>1. Steady /\ UNCHANGED project
  BY TruncateSteady DEF ToolTruncates
<1>2. a \in Applier /\ LandInv(a, project, tree, edits) /\ Busy(a) /\ Here(w) \in File
  BY BusyApplier, TreeTruncated DEF LInv, ToolTruncates
<1>3. applier' = [applier EXCEPT ![w] = Stopped(b)]
  BY DEF ToolTruncates, Become
<1>4. b \in Applier /\ b.planned = a.planned
  BY <1>2 DEF Applier
<1> HIDE DEF b
<1>5. LandInv(Stopped(b), project, tree', edits')
  BY <1>2, <1>4, LandStopped
<1>6. Stopped(b) \in Applier
  BY <1>4 DEF Stopped, Applier, Phase
<1>7. QED BY <1>1, <1>3, <1>5, <1>6, LandLocal

\* The steps of an apply that touch neither the tree nor the project.
LEMMA LandElsewhere ==
    ASSUME LInv, IInv', NEW w \in Appliers,
           \/ PlanEnds(w) \/ PrepareRefuses(w) \/ ToolRefuses(w) \/ CommitPlan(w)
           \/ Cancel(w)
    PROVE  LInv'
<1> DEFINE a == applier[w]
<1>1. /\ UNCHANGED <<project, tree, edits>> /\ Busy(a)
  BY DEF PlanEnds, PrepareRefuses, ToolRefuses, CommitPlan, Cancel, At, Busy, Resting
<1>2. a \in Applier /\ LandInv(a, project, tree, edits) /\ Steady
  BY <1>1, BusyApplier, UntouchedSteady DEF LInv
<1>3. ASSUME NEW k \in Applier, applier' = [applier EXCEPT ![w] = k],
             LandInv(k, project, tree, edits)
      PROVE  LInv'
  BY <1>1, <1>2, <1>3, LandLocal
<1>4. CASE PlanEnds(w) \/ PrepareRefuses(w)
  <2> DEFINE k == [a EXCEPT !.phase = "reported"]
  <2>1. k \in Applier /\ k.phase = "reported"
    BY <1>2 DEF Applier, Phase
  <2>2. applier' = [applier EXCEPT ![w] = k]
    BY <1>4 DEF PlanEnds, PrepareRefuses, Report, Become
  <2> HIDE DEF k
  <2>3. QED BY <1>3, <2>1, <2>2 DEF LandInv, Busy
<1>5. CASE ToolRefuses(w)
  <2>1. applier' = [applier EXCEPT ![w] = Stopped(a)]
    BY <1>5 DEF ToolRefuses, Become
  <2>2. LandInv(Stopped(a), project, tree, edits)
    BY <1>1, <1>2, LandStopped
  <2>3. Stopped(a) \in Applier
    BY <1>2 DEF Stopped, Applier, Phase
  <2>4. QED BY <1>3, <2>1, <2>2, <2>3
<1>6. CASE CommitPlan(w)
  <2>1. a.phase = "recording"
    BY <1>6 DEF CommitPlan, At
  <2>2. PICK k : applier' = [applier EXCEPT ![w] = k]
                 /\ \/ \E r \in Receipts : k = [a EXCEPT !.phase = "saving", !.receipt = {r}]
                    \/ k = [a EXCEPT !.phase = "saving"]
    BY <1>6 DEF CommitPlan, Become
  <2>3. Receipts \subseteq Ref
    BY DEF Receipts, RefsOf
  <2>4. /\ k \in Applier /\ k.phase = "saving" /\ k.planned = a.planned
        /\ k.partial = a.partial
    <3>1. CASE k = [a EXCEPT !.phase = "saving"]
      BY <1>2, <3>1 DEF Applier, Phase
    <3>2. ASSUME NEW r \in Receipts, k = [a EXCEPT !.phase = "saving", !.receipt = {r}]
          PROVE  /\ k \in Applier /\ k.phase = "saving" /\ k.planned = a.planned
                 /\ k.partial = a.partial
      BY <1>2, <2>3, <3>2 DEF Applier, Phase
    <3>3. QED BY <2>2, <3>1, <3>2
  <2>5. LandInv(k, project, tree, edits)
    BY <1>1, <1>2, <2>1, <2>4 DEF LandInv
  <2>6. QED BY <1>3, <2>2, <2>4, <2>5
<1>7. CASE Cancel(w)
  <2> DEFINE k == [a EXCEPT !.cancelled = TRUE]
  <2>1. /\ k \in Applier /\ k.phase = a.phase /\ k.planned = a.planned
        /\ k.partial = a.partial /\ k.next = a.next /\ k.bytes = a.bytes
    BY <1>2 DEF Applier
  <2>2. applier' = [applier EXCEPT ![w] = k]
    BY <1>7 DEF Cancel, Become
  <2> HIDE DEF k
  <2>3. LandInv(k, project, tree, edits)
    BY <1>2, <2>1 DEF LandInv, Busy
  <2>4. QED BY <1>3, <2>1, <2>2, <2>3
<1>8. QED BY <1>4, <1>5, <1>6, <1>7

\* Applied and ApplyFailed add receipts only, and only a complete landing ends
\* past emit.
LEMMA LandedKeepsGeneration ==
    ASSUME NEW p \in Project, NEW refs \in SUBSET Receipts
    PROVE  /\ Emitted(Bump(Applied(p, StageEmit, refs))) = Emitted(p)
           /\ Emitted(Bump(ApplyFailed(p, StageEmit, refs))) = Emitted(p)
           /\ Bump(ApplyFailed(p, StageEmit, refs)).current = StageEmit
<1>1. StageEmit \in Stage /\ refs \in SUBSET Ref
  BY EmittedIDs DEF Receipts, RefsOf
<1>2. p.artifacts \in [Stage -> SUBSET Ref]
  BY DEF Project
<1>3. \A r \in refs : r.kind # "output"
  BY DEF Receipts
<1> DEFINE landed == [p EXCEPT !.artifacts[StageEmit] = @ \union refs, !.lastError = "none"]
<1>4. landed.artifacts[StageEmit] = p.artifacts[StageEmit] \union refs
  BY <1>1, <1>2 DEF Project
<1>5. \/ Applied(p, StageEmit, refs) = landed
      \/ \E c, st : Applied(p, StageEmit, refs) = [landed EXCEPT !.current = c, !.status = st]
  BY DEF Applied
<1>6. Applied(p, StageEmit, refs).artifacts = landed.artifacts
  <2>1. \A c, st : [landed EXCEPT !.current = c, !.status = st].artifacts = landed.artifacts
    BY DEF Project
  <2> HIDE DEF landed
  <2>2. QED BY <1>5, <2>1
<1>7. /\ ApplyFailed(p, StageEmit, refs).artifacts[StageEmit] = p.artifacts[StageEmit] \union refs
      /\ ApplyFailed(p, StageEmit, refs).current = StageEmit
  BY <1>1, <1>2 DEF ApplyFailed, Project
<1>8. Applied(p, StageEmit, refs) \in Project /\ ApplyFailed(p, StageEmit, refs) \in Project
  BY <1>1, LandedProject
<1>9. \A q \in Project : Bump(q).artifacts = q.artifacts /\ Bump(q).current = q.current
  BY DEF Bump, Project
<1> HIDE DEF landed
<1>10. \A q : q.artifacts[StageEmit] = p.artifacts[StageEmit] \union refs
                => Emitted(q) = Emitted(p)
  BY <1>3 DEF Emitted, OutputIn
<1>11. QED BY <1>4, <1>6, <1>7, <1>8, <1>9, <1>10

\* record: the project the apply planned on moves past emit with all its files.
LEMMA LandRecord ==
    ASSUME LInv, OneAtATime, IInv', NEW w \in Appliers, RecordLanding(w)
    PROVE  LInv'
<1> DEFINE a == applier[w]
           k == [a EXCEPT !.phase = "reported"]
<1>1. /\ a.phase = "saving" /\ Busy(a) /\ UNCHANGED <<published, tree, edits>>
      /\ applier' = [applier EXCEPT ![w] = k]
  BY DEF RecordLanding, At, Busy, Report, Become
<1>2. /\ a \in Applier /\ PlanInv(a, project, published) /\ project \in Project
      /\ LandInv(a, project, tree, edits) /\ applier \in [Appliers -> Applier]
  BY BusyApplier DEF LInv, IInv, TypeOK
<1>3. k \in Applier /\ k.phase = "reported"
  BY <1>2 DEF Applier, Phase
<1> HIDE DEF k
<1>4. CASE UNCHANGED project
  <2>1. LandInv(k, project, tree, edits)
    BY <1>3 DEF LandInv, Busy
  <2>2. QED BY <1>1, <1>3, <1>4, <2>1, UntouchedSteady, LandLocal
<1>5. CASE CanRecord(w) /\ project' = Landed(w)
  <2>1. a.planned = project /\ a.receipt \in SUBSET Receipts
    <3>1. a.planned \in Project /\ (a.planned.revision = project.revision => a.planned = project)
          /\ a.receipt \subseteq Receipts
      BY <1>1, <1>2 DEF PlanInv
    <3>2. Landed(w).revision = a.planned.revision + 1
          /\ Landed(w).revision = project.revision + 1
      BY <1>1, <1>5, LandedFacts DEF CanRecord, CanReplaceFrom, At, LInv
    <3>3. a.planned.revision \in Nat /\ project.revision \in Nat
      BY <1>2, <3>1 DEF Project
    <3>4. QED BY <3>1, <3>2, <3>3
  <2>2. /\ Emitted(project') = Emitted(project)
        /\ a.partial => project'.current = StageEmit
    BY <1>2, <1>5, <2>1, LandedKeepsGeneration DEF Landed
  <2>3. Emitted(project) # {} /\ OneGeneration(project')
    BY <1>1, <1>2, <2>1, <2>2 DEF PlanInv, LInv, OneGeneration
  <2>4. PastEmitMeansLanded'
    <3>1. ~ a.partial => \A g \in Emitted(project), f \in File : Kept(tree[f], edits[f], g)
      BY <1>1, <1>2, <2>1 DEF LandInv
    <3>2. project'.current > StageEmit => ~ a.partial
      BY <1>2, <2>2, EmittedIDs
    <3>3. tree' = tree /\ edits' = edits
      BY <1>1
    <3>4. QED BY <2>2, <2>3, <3>1, <3>2, <3>3
           DEF PastEmitMeansLanded, Kept, Holds, Lost
  <2>5. ASSUME NEW v \in Appliers PROVE LandInv(applier'[v], project', tree', edits')
    <3>1. CASE v = w
      BY <1>1, <1>2, <1>3, <3>1 DEF LandInv, Busy
    <3>2. CASE v # w /\ Busy(applier[v])
      <4>1. applier'[v] = applier[v] /\ LandInv(applier[v], project, tree, edits)
        BY <1>1, <1>2, <3>2 DEF LInv
      <4>2. Emitted(applier[v].planned) = {Generation(v)} /\ applier[v].planned \in Project
        BY <3>2, <4>1, MyGeneration DEF LInv
      <4>3. Emitted(project) = {Generation(w)}
        BY <1>1, <1>2, <2>1, MyGeneration DEF LInv
      <4>4. Generation(w) \in ArtifactIDs /\ Live(Generation(w))
        BY <1>1, <1>2, <2>1, <4>3, EmittedIDs DEF Live
      <4>5. Generation(w) = Generation(v)
        BY <3>2, <4>4, LiveIsMine
      <4>6. Emitted(project') = Emitted(applier[v].planned)
        BY <2>2, <4>2, <4>3, <4>5
      <4>7. QED BY <1>1, <4>1, <4>6 DEF LandInv
    <3>3. CASE v # w /\ ~ Busy(applier[v])
      <4>1. applier'[v] = applier[v]
        BY <1>1, <1>2, <3>3
      <4>2. QED BY <3>3, <4>1 DEF LandInv
    <3>4. QED BY <3>1, <3>2, <3>3
  <2>6. QED BY <2>3, <2>4, <2>5 DEF LInv, OneGeneration, Emitted, OutputIn
<1>6. QED BY <1>4, <1>5 DEF RecordLanding

\* A run of a later stage, and a Reset to one, keep what emit recorded.
LEMMA LaterStageKeepsGeneration ==
    ASSUME NEW p \in Project, NEW s \in Stage, s > StageEmit,
           NEW refs \in SUBSET Ref, NEW from \in SUBSET Ref
    PROVE  /\ Complete(p, s, refs, from).artifacts[StageEmit] = p.artifacts[StageEmit]
           /\ Hold(p, s, refs, from).artifacts[StageEmit] = p.artifacts[StageEmit]
           /\ FailWith(p, s, refs).artifacts[StageEmit] = p.artifacts[StageEmit]
           /\ Reset(p, s).artifacts[StageEmit] = p.artifacts[StageEmit]
<1>1. StageEmit \in Stage /\ StageEmit # s /\ ~ (StageEmit > s)
  BY EmittedIDs, NumStagesAssumption DEF Stage
<1>2. p.artifacts \in [Stage -> SUBSET Ref]
  BY DEF Project
<1>3. \A q \in Project : /\ ClearAfter(q, s) \in Project
                         /\ ClearAfter(q, s).artifacts[StageEmit] = q.artifacts[StageEmit]
  <2> TAKE q \in Project
  <2>1. ClearAfter(q, s).artifacts = [t \in Stage |-> IF t > s THEN {} ELSE q.artifacts[t]]
    BY DEF ClearAfter, Project
  <2>2. QED BY <1>1, <2>1, ClearAfterProject
<1>4. Record(p, s, refs, from).artifacts[StageEmit] = p.artifacts[StageEmit]
      /\ Record(p, s, refs, from) \in Project
  <2> DEFINE c == ClearAfter(p, s)
  <2>1. c \in Project /\ c.artifacts[StageEmit] = p.artifacts[StageEmit]
        /\ c.artifacts \in [Stage -> SUBSET Ref]
    BY <1>3 DEF Project
  <2> HIDE DEF c
  <2>2. Record(p, s, refs, from).artifacts = [c.artifacts EXCEPT ![s] = refs]
    BY <2>1 DEF Record, c, Project
  <2>3. QED BY <1>1, <2>1, <2>2, RecordProject
<1> DEFINE r == Record(p, s, refs, from)
<1>5. \A c, st, e : /\ [r EXCEPT !.current = c, !.status = st].artifacts = r.artifacts
                    /\ [r EXCEPT !.current = c, !.status = st, !.lastError = e].artifacts
                         = r.artifacts
  BY <1>4 DEF Project
<1>6. /\ Complete(p, s, refs, from).artifacts = r.artifacts
      /\ Hold(p, s, refs, from).artifacts = r.artifacts
  BY <1>5 DEF Complete, Hold
<1>7. FailWith(p, s, refs).artifacts[StageEmit] = p.artifacts[StageEmit]
  BY <1>1, <1>2 DEF FailWith, Project
<1>8. Reset(p, s).artifacts[StageEmit] = p.artifacts[StageEmit]
  <2> DEFINE d == [p EXCEPT !.artifacts[s] = {}, !.madeFrom[s] = {}]
             c == ClearAfter(d, s)
  <2>1. d \in Project /\ d.artifacts[StageEmit] = p.artifacts[StageEmit]
    BY <1>1, <1>2 DEF Project
  <2> HIDE DEF d
  <2>2. c \in Project /\ c.artifacts[StageEmit] = p.artifacts[StageEmit]
    BY <1>3, <2>1
  <2> HIDE DEF c
  <2>3. [c EXCEPT !.current = s, !.status = "pending", !.lastError = "none"].artifacts = c.artifacts
    BY <2>2 DEF Project
  <2>4. QED BY <2>2, <2>3 DEF Reset, c, d
<1>9. QED BY <1>4, <1>6, <1>7, <1>8

\* The pipeline takes no project past emit, and leaves the generation of one that
\* is.
LEMMA PipelineKeepsGeneration ==
    ASSUME IInv, PipelineStep, project'.current > StageEmit
    PROVE  project.current > StageEmit /\ Emitted(project') = Emitted(project)
<1>1. /\ project \in Project /\ published \subseteq Ref
      /\ StageEmit \in Nat /\ StageEmit \in Stage /\ project.current \in Nat
  BY EmittedIDs DEF IInv, TypeOK
<1>2. IInv' /\ project' \in Project
  BY EnvironmentStep DEF IInv, TypeOK
<1>3. project.current > StageEmit
  <2>1. project.current <= StageEmit => project'.current <= StageEmit
    BY DEF PipelineStep, EmitAwaitsApply
  <2>2. project'.current \in Nat
    BY <1>2, EmittedIDs
  <2>3. QED BY <1>1, <2>1, <2>2
<1>4. \A q \in Project : Bump(q).artifacts = q.artifacts /\ Bump(q).current = q.current
  BY DEF Bump, Project
<1>5. project'.artifacts[StageEmit] = project.artifacts[StageEmit]
  <2>1. CASE Lifecycle!BeginStage
    <3>1. PICK s \in Stage : project' = Bump(Begin(project, s))
      BY <2>1, SameValueLayer DEF Lifecycle!BeginStage
    <3>2. Begin(project, s).artifacts = project.artifacts
      BY <1>1 DEF Begin, Project
    <3>3. QED BY <1>1, <1>4, <3>1, <3>2, BeginProject
  <2>2. CASE Lifecycle!Settle
    <3> DEFINE s == project.current
               from == InputsBefore(project, s)
    <3>1. PICK refs \in SUBSET published :
            \/ project' = Bump(Complete(project, s, refs, from))
            \/ project' = Bump(Hold(project, s, refs, from))
            \/ project' = Bump(FailWith(project, s, refs))
      BY <2>2, SameValueLayer DEF Lifecycle!Settle
    <3>2. s \in Stage /\ s > StageEmit /\ from \in SUBSET Ref /\ refs \in SUBSET Ref
      BY <1>1, <1>3, InputsBeforeRefs DEF Project
    <3> HIDE DEF s, from
    <3>3. /\ Complete(project, s, refs, from) \in Project
          /\ Hold(project, s, refs, from) \in Project
          /\ FailWith(project, s, refs) \in Project
      BY <1>1, <3>2, CompleteHoldProject, FailWithProject
    <3>4. \A q \in {Complete(project, s, refs, from), Hold(project, s, refs, from),
                    FailWith(project, s, refs)} :
              q \in Project /\ q.artifacts[StageEmit] = project.artifacts[StageEmit]
      BY <1>1, <3>2, <3>3, LaterStageKeepsGeneration
    <3>5. PICK q \in Project : /\ project' = Bump(q)
                               /\ q.artifacts[StageEmit] = project.artifacts[StageEmit]
      BY <3>1, <3>4
    <3>6. QED BY <1>4, <3>5
  <2>3. CASE Lifecycle!ResetStage
    <3>1. PICK s \in Stage : project' = Bump(Reset(project, s))
      BY <2>3, SameValueLayer DEF Lifecycle!ResetStage
    <3>2. Reset(project, s) \in Project /\ Reset(project, s).current = s
      <4> DEFINE c == ClearAfter([project EXCEPT !.artifacts[s] = {}, !.madeFrom[s] = {}], s)
      <4>1. [project EXCEPT !.artifacts[s] = {}, !.madeFrom[s] = {}] \in Project
        BY <1>1 DEF Project
      <4>2. c \in Project
        BY <4>1, ClearAfterProject
      <4> HIDE DEF c
      <4>3. [c EXCEPT !.current = s, !.status = "pending", !.lastError = "none"].current = s
        BY <4>2 DEF Project
      <4>4. QED BY <1>1, <4>3, ResetProject DEF Reset, c
    <3>3. s > StageEmit
      BY <1>4, <3>1, <3>2
    <3>4. {} \in SUBSET Ref
      OBVIOUS
    <3>5. QED BY <1>1, <1>4, <3>1, <3>2, <3>3, <3>4, LaterStageKeepsGeneration
  <2>4. QED BY <2>1, <2>2, <2>3 DEF PipelineStep
<1>6. QED BY <1>3, <1>5 DEF Emitted, OutputIn

\* The pipeline, people and crashes.
LEMMA LandEnvironment ==
    ASSUME LInv, IInv',
           \/ \E f \in File : PersonEdits(f) \/ PersonRemoves(f)
           \/ PipelineStep \/ PipelinePublishes \/ Crash
    PROVE  LInv'
<1>1. /\ \A v \in Appliers : LandInv(applier[v], project, tree, edits)
      /\ project \in Project /\ OneGeneration(project)
  BY DEF LInv, IInv, TypeOK
<1>2. ASSUME UNCHANGED project, Steady, \A v \in Appliers :
               applier'[v] = applier[v] \/ applier'[v] = IdleApplier
      PROVE  LInv'
  <2>1. OneGeneration(project)'
    BY <1>1, <1>2 DEF OneGeneration, Emitted, OutputIn
  <2>2. \A v \in Appliers : LandInv(applier'[v], project', tree', edits')
    BY <1>2, LandInvSteady, IdleApplierFacts DEF LandInv, Busy
  <2>3. QED BY <1>2, <2>1, <2>2, PastEmitSteady DEF LInv
<1>3. ASSUME NEW f \in File, PersonEdits(f) \/ PersonRemoves(f) PROVE LInv'
  <2>1. UNCHANGED <<project, applier>>
    BY <1>3 DEF PersonEdits, PersonRemoves
  <2>2. QED BY <1>2, <1>3, <2>1, PersonSteady
<1>4. CASE PipelinePublishes
  BY <1>2, <1>4, UntouchedSteady DEF PipelinePublishes
<1>5. CASE Crash
  <2>1. UNCHANGED project /\ \A v \in Appliers : applier'[v] = IdleApplier
    BY <1>5 DEF Crash
  <2>2. Steady
    BY <1>5, UntouchedSteady, TruncateSteady DEF Crash
  <2>3. QED BY <1>2, <2>1, <2>2
<1>6. CASE PipelineStep
  <2>1. UNCHANGED <<tree, edits, applier>>
    BY <1>6 DEF PipelineStep
  <2>2. project'.current > StageEmit =>
          project.current > StageEmit /\ Emitted(project') = Emitted(project)
    BY <1>6, PipelineKeepsGeneration DEF LInv
  <2>3. OneGeneration(project)'
    BY <1>6 DEF PipelineStep, EmitAwaitsApply, OneGeneration, Emitted
  <2>4. PastEmitMeansLanded'
    BY <2>1, <2>2 DEF LInv, PastEmitMeansLanded, Holds, Lost
  <2>5. \A v \in Appliers : LandInv(applier'[v], project', tree', edits')
    BY <1>1, <2>1, <2>2 DEF LandInv
  <2>6. QED BY <2>3, <2>4, <2>5 DEF LInv
<1>7. QED BY <1>3, <1>4, <1>5, <1>6

\* Every step keeps LInv.
LEMMA LandNext ==
    ASSUME OneAtATime
    PROVE  LInv /\ [Next]_vars => LInv'
<1> SUFFICES ASSUME LInv, [Next]_vars PROVE LInv'
  OBVIOUS
<1>1. IInv'
  BY NextStep DEF LInv
<1>2. CASE UNCHANGED vars
  BY <1>1, <1>2
     DEF vars, LInv, PastEmitMeansLanded, Holds, Lost, OneGeneration, Emitted, OutputIn
<1>3. ASSUME NEW w \in Appliers, ApplierStep(w) \/ Cancel(w) PROVE LInv'
  BY <1>1, <1>3, LandPlan, LandPrepare, LandWrite, LandTruncate, LandElsewhere, LandRecord
     DEF ApplierStep
<1>4. QED BY <1>1, <1>2, <1>3, LandEnvironment DEF Next

\* A new project is before emit and has rendered nothing.
LEMMA LandInit == Init => LInv
<1> SUFFICES ASSUME Init PROVE LInv
  OBVIOUS
<1>1. StageEmit \in Stage /\ ~ (NewProject.current > StageEmit)
  BY NumStagesAssumption DEF StageEmit, Stage, NewProject, FirstStage
<1>2. Emitted(NewProject) = {}
  BY <1>1 DEF Emitted, OutputIn, NewProject
<1>3. \A w \in Appliers : LandInv(applier[w], project, tree, edits)
  BY IdleApplierFacts DEF Init, LandInv, Busy
<1>4. QED
  BY <1>1, <1>2, <1>3, InitStep DEF Init, LInv, PastEmitMeansLanded, OneGeneration

\* Crashes, cancellations, lost audit lines, failing writes, removed files and
\* redone stages do not take a project to verify before the files it records
\* are in the tree: one apply at a time, or any number of the same files.
THEOREM PastEmitMeansLandedAlways ==
    ASSUME OneAtATime
    PROVE  Spec => []PastEmitMeansLanded
<1>1. LInv /\ [Next]_vars => LInv'
  BY LandNext
<1>2. LInv => PastEmitMeansLanded
  BY DEF LInv
<1>3. QED BY <1>1, <1>2, LandInit, PTL DEF Spec

=============================================================================
