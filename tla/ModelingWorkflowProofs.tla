------------------------- MODULE ModelingWorkflowProofs ------------------------
(***************************************************************************)
(* What holds of ModelingWorkflow for every number of keys, stages,        *)
(* projects, operations and turns, and under any choice of faults.         *)
(*                                                                         *)
(* The argument.  A turn works on a copy of the binding that only grows,   *)
(* unless it starts anew; as long as the file has the copy's version, the  *)
(* copy keeps what the file has, and a save needs that version.  A turn    *)
(* that saved has a version below the file's: at one below, the file is    *)
(* what it saved.                                                          *)
(***************************************************************************)
EXTENDS ModelingWorkflow, TLAPS

(***************************************************************************)
(* What the transitions of ModelingProject return is a project again.      *)
(***************************************************************************)
\* type.go's transitions stay within Project.Validate's closed sets.
LEMMA CompleteHoldProject ==
    ASSUME NEW p \in Project, NEW s \in Stage,
           NEW refs \in SUBSET Ref, NEW from \in SUBSET Ref
    PROVE  /\ Complete(p, s, refs, from) \in Project
           /\ Hold(p, s, refs, from) \in Project
<1> DEFINE c == ClearAfter(p, s)
           r == Record(p, s, refs, from)
<1>1. c \in Project /\ EvidenceIn(refs) \in SUBSET Ref
  BY DEF ClearAfter, EvidenceIn, Project
<1>2. /\ {"done", "pending", "blocked"} \subseteq Status
      /\ {"none", "awaiting_human"} \subseteq Category
  BY DEF Status, Category
<1>3. s # LastStage => s + 1 \in Stage
  BY NumStagesAssumption DEF Stage, LastStage
<1> HIDE DEF c
<1>4. r = [c EXCEPT !.artifacts[s] = refs, !.madeFrom[s] = from,
                    !.evidence = IF s = StageVerify THEN EvidenceIn(refs) ELSE @,
                    !.lastError = "none"]
  BY DEF Record, c
<1> HIDE DEF r
<1>5. r \in Project
  BY <1>1, <1>2, <1>4 DEF Project
<1>6. Complete(p, s, refs, from) =
        [r EXCEPT !.current = IF s = LastStage THEN s ELSE s + 1,
                  !.status = IF s = LastStage THEN "done" ELSE "pending"]
  BY DEF Complete, r
<1>7. Hold(p, s, refs, from) =
        [r EXCEPT !.current = s, !.status = "blocked", !.lastError = "awaiting_human"]
  BY DEF Hold, r
<1>8. QED BY <1>2, <1>3, <1>5, <1>6, <1>7 DEF Project

LEMMA FailWithProject ==
    ASSUME NEW p \in Project, NEW s \in Stage, NEW refs \in SUBSET Ref
    PROVE  FailWith(p, s, refs) \in Project
<1>1. "blocked" \in Status /\ "stage_failed" \in Category
  BY DEF Status, Category
<1>2. QED BY <1>1 DEF FailWith, Project

LEMMA BeginProject ==
    ASSUME NEW p \in Project, NEW s \in Stage
    PROVE  Begin(p, s) \in Project
<1>1. "running" \in Status /\ "none" \in Category
  BY DEF Status, Category
<1>2. QED BY <1>1 DEF Begin, Project

LEMMA BumpProject ==
    ASSUME NEW p \in Project
    PROVE  Bump(p) \in Project /\ Bump(p).revision = p.revision + 1
  BY DEF Bump, Project

LEMMA NewProjectProject == NewProject \in Project
<1>1. "pending" \in Status /\ "none" \in Category /\ FirstStage \in Stage
  BY NumStagesAssumption DEF Status, Category, FirstStage, Stage
<1>2. QED BY <1>1 DEF NewProject, Project

\* The phases in which a turn may still save, or reach one that does.
Loaded == {"interpreting", "showing", "intake", "creating", "binding", "waiting",
           "providing", "advancing", "running"}

Anew(r) == r.phase \in {"intake", "creating", "binding"} /\ r.intent.kind = "start_new"

\* A turn's copy of the binding, against the file.
BindInv(r, b) ==
    /\ r.bind.version <= b.version
    /\ r.phase \in Loaded /\ r.bind.version = b.version => Anew(r) \/ Keeps(b, r.bind)
    /\ r.phase \in {"interpreting", "showing"} /\ r.bind.version = 0 => r.bind.project = NoID
    /\ r.phase \in {"intake", "creating"} => r.bind.project = NoID

Asks(reply) == reply \in {"ask_requirement", "ask_source"}
Wanted(reply) == IF reply = "ask_source" THEN "source" ELSE "requirement"

\* What the file awaits when nobody saved after the turn did.
SavedLast(r, b, awaiting) ==
    r.bind.version < b.version /\ (r.bind.version + 1 = b.version => b.awaiting = awaiting)

AskInv(r, b) ==
    /\ r.phase = "shown" => SavedLast(r, b, r.bind.awaiting)
    /\ r.phase \in {"committing", "replied"} /\ Asks(r.reply) =>
         SavedLast(r, b, Wanted(r.reply))

OpsInv(r) ==
    /\ r.phase \in {"interpreting", "showing", "providing"} => r.begun = 0 /\ ~r.refused
    /\ r.phase = "advancing" => ~r.refused /\ r.begun < MaxOperations
    /\ r.phase = "running" => ~r.refused /\ r.begun <= MaxOperations

Viewing == {"providing", "waiting", "advancing", "running", "inspecting", "presenting"}

\* The projects a turn refers to exist; n is how many there are.
ViewInv(r, n) ==
    /\ r.phase \in Viewing => r.view \in View /\ r.view.id <= n
    /\ r.bind.project <= n
    /\ r.phase \in {"showing", "binding", "shown"} => r.bind.project # NoID

TurnInv(r, b, n) ==
    r \in Turn /\ BindInv(r, b) /\ AskInv(r, b) /\ OpsInv(r) /\ ViewInv(r, n)

IInv ==
    /\ binding \in Binding
    /\ binding.version = 0 => binding.project = NoID
    /\ binding.project <= Len(projects)
    /\ projects \in Seq(Project) /\ Len(projects) <= MaxProjects
    /\ turns \in Nat
    /\ turn \in [Keys -> Turn]
    /\ \A k \in Keys : TurnInv(turn[k], binding, Len(projects))

-----------------------------------------------------------------------------
(***************************************************************************)
(* What a turn becomes                                                     *)
(***************************************************************************)
\* The binding that is no file, and the turn that has not begun.
LEMMA RestingFacts ==
    /\ NoBinding \in Binding /\ NoBinding.version = 0 /\ NoBinding.project = NoID
    /\ NoBinding.awaiting = "none"
    /\ Bare("read") \in Intent /\ Bare("read").kind = "read"
    /\ IdleTurn \in Turn /\ IdleTurn.phase = "idle" /\ IdleTurn.begun = 0
    /\ ~IdleTurn.refused /\ IdleTurn.reply = "none" /\ IdleTurn.bind = NoBinding
    /\ IdleTurn.intent = Bare("read")
<1>1. NoBinding \in Binding /\ NoBinding.version = 0 /\ NoBinding.project = NoID
      /\ NoBinding.awaiting = "none"
  BY DEF NoBinding, Binding, Sources, Awaiting
<1>2. Bare("read") \in Intent /\ Bare("read").kind = "read"
  BY DEF Bare, Intent, Sources
<1>3. IdleTurn \in Turn
  BY <1>1, <1>2 DEF IdleTurn, Turn, Phase, Reply
<1>4. QED BY <1>1, <1>2, <1>3 DEF IdleTurn

\* A turn that goes on.
LEMMA PhaseForm ==
    ASSUME NEW r \in Turn, NEW phase \in Phase
    PROVE  LET q == [r EXCEPT !.phase = phase]
           IN  /\ q \in Turn /\ q.phase = phase
               /\ q.bind = r.bind /\ q.view = r.view /\ q.intent = r.intent
               /\ q.begun = r.begun /\ q.refused = r.refused /\ q.reply = r.reply
  BY DEF Turn

\* A turn with its reply.
LEMMA AnsweredForm ==
    ASSUME NEW r \in Turn, NEW reply \in Reply
    PROVE  LET q == Answered(r, reply)
           IN  /\ q \in Turn /\ q.phase = "committing" /\ q.reply = reply
               /\ q.bind = r.bind /\ q.view = r.view
               /\ q.begun = r.begun /\ q.refused = r.refused
<1>1. "committing" \in Phase
  BY DEF Phase
<1>2. QED BY <1>1 DEF Answered, Turn

\* A turn that ended.
LEMMA EndedForm ==
    ASSUME NEW r \in Turn, NEW phase \in {"replied", "failed"}
    PROVE  LET q == Ended(r, phase)
           IN  /\ q \in Turn /\ q.phase = phase /\ q.reply = r.reply
               /\ q.bind.version = r.bind.version /\ q.bind.project = NoID
               /\ q.begun = 0
<1> DEFINE b == [NoBinding EXCEPT !.version = r.bind.version]
<1>1. b \in Binding /\ b.version = r.bind.version /\ b.project = NoID
  BY RestingFacts DEF Binding, Turn
<1>2. phase \in Phase /\ r.reply \in Reply
  BY DEF Phase, Turn
<1>3. Ended(r, phase) = [IdleTurn EXCEPT !.phase = phase, !.reply = r.reply, !.bind = b]
  BY DEF Ended
<1> HIDE DEF b
<1>4. QED BY <1>1, <1>2, <1>3, RestingFacts DEF Turn

\* The state of a project is a reply.
LEMMA StateReply ==
    ASSUME NEW p
    PROVE  StateFromProject(p) \in {"working", "awaiting_apply", "completed", "failed"}
  BY DEF StateFromProject

\* What continueGuard makes of a turn that looks at a project.
LEMMA GuardedForm ==
    ASSUME NEW r \in Turn
    PROVE  LET q == Guarded(r)
           IN  /\ q \in Turn /\ q.bind = r.bind /\ q.view = r.view
               /\ q.phase \in {"committing", "presenting", "waiting", "advancing"}
               /\ q.phase = "committing" => ~Asks(q.reply)
               /\ q.begun = r.begun /\ q.refused = r.refused
               /\ r.view.at.status = "blocked" => q.phase \in {"committing", "presenting"}
<1> DEFINE q == Guarded(r)
           p == r.view.at
<1>1. CASE p.status = "done"
  <2>1. q = Answered(r, "completed")
    BY <1>1 DEF Guarded
  <2>2. "completed" \in Reply
    BY DEF Reply
  <2>3. QED BY <1>1, <2>1, <2>2, AnsweredForm DEF Asks
<1>2. CASE p.status # "done" /\ AwaitsApply(p)
  <2>1. q = [r EXCEPT !.phase = "presenting"]
    BY <1>2 DEF Guarded, AwaitsApply
  <2>2. "presenting" \in Phase
    BY DEF Phase
  <2>3. QED BY <2>1, <2>2, PhaseForm
<1>3. CASE p.status = "blocked" /\ ~AwaitsApply(p)
  <2>1. q = Answered(r, "failed")
    BY <1>3 DEF Guarded
  <2>2. "failed" \in Reply
    BY DEF Reply
  <2>3. QED BY <2>1, <2>2, AnsweredForm DEF Asks
<1>4. CASE p.status \notin {"done", "blocked"} /\ ~AwaitsApply(p)
  <2>1. PICK phase \in {"waiting", "advancing"} : q = [r EXCEPT !.phase = phase]
    BY <1>4 DEF Guarded
  <2>2. phase \in Phase
    BY DEF Phase
  <2>3. QED BY <1>4, <2>1, <2>2, PhaseForm
<1>5. QED BY <1>1, <1>2, <1>3, <1>4

\* Keeping is transitive.
LEMMA KeepsTransitive ==
    ASSUME NEW x, NEW y, NEW z, Keeps(x, y), Keeps(y, z)
    PROVE  Keeps(x, z)
  BY DEF Keeps

\* What a start collects.
LEMMA StartingForm ==
    ASSUME NEW r \in Turn
    PROVE  LET q == Starting(r)
           IN  /\ q \in Turn /\ q.phase \in {"creating", "intake"}
               /\ q.intent = r.intent /\ q.view = r.view
               /\ q.begun = r.begun /\ q.refused = r.refused
               /\ q.bind.version = r.bind.version
               /\ q.bind.project = IF r.intent.kind = "start_new" THEN NoID ELSE r.bind.project
               /\ r.intent.kind # "start_new" => Keeps(r.bind, q.bind)
<1> DEFINE base == IF r.intent.kind = "start_new"
                   THEN [NoBinding EXCEPT !.version = r.bind.version] ELSE r.bind
           tit == base.title \/ r.intent.title
           ins == base.instruction \/ r.intent.instruction
           src == IF r.intent.sources = "none" THEN base.sources ELSE r.intent.sources
           c == [base EXCEPT !.title = tit, !.instruction = ins, !.sources = src]
           phase == IF c.title /\ c.instruction THEN "creating" ELSE "intake"
<1>1. r.bind \in Binding /\ r.intent \in Intent
  BY DEF Turn
<1>2. [NoBinding EXCEPT !.version = r.bind.version] \in Binding
      /\ [NoBinding EXCEPT !.version = r.bind.version].version = r.bind.version
      /\ [NoBinding EXCEPT !.version = r.bind.version].project = NoID
  BY <1>1, RestingFacts DEF Binding
<1>3. base \in Binding /\ base.version = r.bind.version
      /\ base.project = (IF r.intent.kind = "start_new" THEN NoID ELSE r.bind.project)
      /\ (r.intent.kind # "start_new" => base = r.bind)
  BY <1>1, <1>2
<1>4. Collected(r) = c
  BY DEF Collected
<1> HIDE DEF base
<1>5. tit \in BOOLEAN /\ ins \in BOOLEAN /\ src \in Sources
      /\ (base.title => tit) /\ (base.instruction => ins)
      /\ (base.sources # "none" => src # "none")
  BY <1>1, <1>3 DEF Binding, Intent
<1> HIDE DEF tit, ins, src
<1>6. c \in Binding /\ c.version = base.version /\ c.project = base.project
      /\ c.title = tit /\ c.instruction = ins /\ c.sources = src
  BY <1>3, <1>5 DEF Binding
<1>7. Starting(r) = [r EXCEPT !.bind = c, !.phase = phase]
  BY <1>4 DEF Starting
<1>8. phase \in {"creating", "intake"} /\ phase \in Phase
  BY DEF Phase
<1> HIDE DEF c, phase
<1>9. Starting(r) \in Turn /\ Starting(r).phase = phase /\ Starting(r).bind = c
      /\ Starting(r).intent = r.intent /\ Starting(r).view = r.view
      /\ Starting(r).begun = r.begun /\ Starting(r).refused = r.refused
  BY <1>6, <1>7, <1>8 DEF Turn
<1>10. r.intent.kind # "start_new" => Keeps(r.bind, c)
  BY <1>3, <1>5, <1>6 DEF Keeps
<1>11. QED BY <1>3, <1>6, <1>8, <1>9, <1>10

\* What a provided input is collected into.
LEMMA ProvidedForm ==
    ASSUME NEW r \in Turn
    PROVE  LET q == Provided(r)
           IN  /\ q \in Turn /\ q.phase = "providing" /\ q.view = r.view
               /\ q.begun = r.begun /\ q.refused = r.refused
               /\ q.bind.version = r.bind.version /\ q.bind.project = r.bind.project
               /\ Keeps(r.bind, q.bind)
<1> DEFINE tit == r.bind.title \/ r.intent.title
           ins == r.bind.instruction \/ r.intent.instruction
           src == IF r.intent.sources = "none" THEN r.bind.sources ELSE r.intent.sources
           c == [r.bind EXCEPT !.title = tit, !.instruction = ins, !.sources = src,
                               !.awaiting = "none"]
<1>1. r.bind \in Binding /\ r.intent \in Intent /\ "providing" \in Phase /\ "none" \in Awaiting
  BY DEF Turn, Phase, Awaiting
<1>2. tit \in BOOLEAN /\ ins \in BOOLEAN /\ src \in Sources
      /\ (r.bind.title => tit) /\ (r.bind.instruction => ins)
      /\ (r.bind.sources # "none" => src # "none")
  BY <1>1 DEF Binding, Intent
<1>3. Provided(r) = [r EXCEPT !.bind = c, !.phase = "providing"]
  BY DEF Provided, Turn
<1> HIDE DEF tit, ins, src
<1>4. c \in Binding /\ c.version = r.bind.version /\ c.project = r.bind.project
      /\ c.title = tit /\ c.instruction = ins /\ c.sources = src
  BY <1>1, <1>2 DEF Binding
<1>5. Keeps(r.bind, c)
  BY <1>2, <1>4 DEF Keeps
<1> HIDE DEF c
<1>6. QED BY <1>1, <1>3, <1>4, <1>5 DEF Turn

\* What Handle's switch makes of a turn: it keeps what is known of it.
LEMMA DecisionForm ==
    ASSUME NEW r \in Turn, NEW b \in Binding, NEW n \in Nat,
           r.phase \in {"interpreting", "showing"},
           BindInv(r, b), OpsInv(r), r.bind.project <= n,
           HasProject(r.bind) /\ r.intent.kind # "start_new" =>
             r.view \in View /\ r.view.id <= n
    PROVE  TurnInv(Decision(r), b, n) /\ Decision(r).begun = r.begun
<1> DEFINE q == Decision(r)
           h == HasProject(r.bind)
<1>1. /\ r.bind \in Binding /\ r.begun = 0 /\ ~r.refused
      /\ r.bind.version <= b.version /\ r.phase \in Loaded
      /\ r.bind.version = b.version => Keeps(b, r.bind)
      /\ ~h => r.bind.project = NoID
  BY DEF Turn, OpsInv, BindInv, Loaded, Anew, HasProject, Binding
<1>2. NoID <= n /\ MaxOperations >= 1 /\ MaxOperations \in Nat
  BY WorkflowAssumption DEF NoID
<1>3. CASE r.intent.kind = "start_new" \/ (~h /\ r.intent.kind \in {"start", "provide"})
  <2>1. q = Starting(r)
    BY <1>3 DEF Decision
  <2>2. /\ q \in Turn /\ q.phase \in {"creating", "intake"}
        /\ q.intent = r.intent /\ q.begun = r.begun
        /\ q.bind.version = r.bind.version /\ q.bind.project = NoID
        /\ r.intent.kind # "start_new" => Keeps(r.bind, q.bind)
    BY <1>1, <1>3, <2>1, StartingForm
  <2>3. BindInv(q, b)
    <3>1. CASE r.intent.kind = "start_new"
      BY <1>1, <2>2, <3>1 DEF BindInv, Anew
    <3>2. CASE r.intent.kind # "start_new"
      <4>1. r.bind.version = b.version => Keeps(b, q.bind)
        BY <1>1, <2>2, <3>2, KeepsTransitive
      <4>2. QED BY <1>1, <2>2, <4>1 DEF BindInv
    <3>3. QED BY <3>1, <3>2
  <2>4. AskInv(q, b) /\ OpsInv(q) /\ ViewInv(q, n)
    BY <1>2, <2>2 DEF AskInv, OpsInv, ViewInv, Viewing
  <2>5. QED BY <2>2, <2>3, <2>4 DEF TurnInv
<1>4. CASE /\ ~(r.intent.kind = "start_new" \/ (~h /\ r.intent.kind \in {"start", "provide"}))
           /\ ~h \/ r.intent.kind \in {"start", "read"}
  <2>1. PICK reply \in {"question", "working", "awaiting_apply", "completed", "failed"} :
            q = Answered(r, reply)
    BY <1>4, StateReply DEF Decision
  <2>2. reply \in Reply /\ ~Asks(reply)
    BY DEF Reply, Asks
  <2>3. q \in Turn /\ q.phase = "committing" /\ q.reply = reply /\ q.bind = r.bind
        /\ q.begun = r.begun
    BY <2>1, <2>2, AnsweredForm
  <2>4. QED BY <1>1, <2>2, <2>3
            DEF TurnInv, BindInv, AskInv, OpsInv, ViewInv, Loaded, Viewing
<1>5. CASE h /\ r.intent.kind = "continue"
  <2>1. q = Guarded(r)
    BY <1>5 DEF Decision
  <2>2. /\ q \in Turn /\ q.bind = r.bind /\ q.view = r.view
        /\ q.phase \in {"committing", "presenting", "waiting", "advancing"}
        /\ q.phase = "committing" => ~Asks(q.reply)
        /\ q.begun = r.begun /\ q.refused = r.refused
    BY <2>1, GuardedForm
  <2>3. BindInv(q, b)
    BY <1>1, <2>2 DEF BindInv
  <2>4. AskInv(q, b) /\ OpsInv(q)
    BY <1>1, <1>2, <2>2 DEF AskInv, OpsInv
  <2>5. ViewInv(q, n)
    BY <1>5, <2>2 DEF ViewInv
  <2>6. QED BY <2>2, <2>3, <2>4, <2>5 DEF TurnInv
<1>6. CASE ~(r.intent.kind = "start_new") /\ h
           /\ r.intent.kind \notin {"start", "read", "continue"}
  <2>1. q = Provided(r)
    BY <1>6 DEF Decision
  <2>2. /\ q \in Turn /\ q.phase = "providing" /\ q.view = r.view
        /\ q.begun = r.begun /\ q.refused = r.refused
        /\ q.bind.version = r.bind.version /\ q.bind.project = r.bind.project
        /\ Keeps(r.bind, q.bind)
    BY <2>1, ProvidedForm
  <2>3. r.bind.version = b.version => Keeps(b, q.bind)
    BY <1>1, <2>2, KeepsTransitive
  <2>4. BindInv(q, b)
    BY <1>1, <2>2, <2>3 DEF BindInv
  <2>5. AskInv(q, b) /\ OpsInv(q)
    BY <1>1, <2>2 DEF AskInv, OpsInv
  <2>6. ViewInv(q, n)
    BY <1>6, <2>2 DEF ViewInv
  <2>7. QED BY <2>2, <2>4, <2>5, <2>6 DEF TurnInv
<1>7. r.intent.kind \in {"start", "start_new", "continue", "read", "provide"}
  BY DEF Turn, Intent
<1>8. QED BY <1>3, <1>4, <1>5, <1>6, <1>7

-----------------------------------------------------------------------------
(***************************************************************************)
(* The other turns, and the shape of a step                                *)
(***************************************************************************)
\* A save of the binding and a new project leave what is known of a turn.
LEMMA Elsewhere ==
    ASSUME NEW r, NEW b \in Binding, NEW c \in Binding, NEW n \in Nat, NEW m \in Nat,
           TurnInv(r, b, n), n <= m, c = b \/ c.version = b.version + 1
    PROVE  TurnInv(r, c, m)
<1>1. r \in Turn /\ r.bind \in Binding
  BY DEF TurnInv, Turn
<1>2. r.bind.version \in Nat /\ b.version \in Nat /\ r.bind.project \in Nat
  BY <1>1 DEF Binding, ProjectID, NoID
<1>3. r.bind.version <= b.version
  BY DEF TurnInv, BindInv
<1>4. BindInv(r, c)
  BY <1>2, <1>3 DEF TurnInv, BindInv
<1>5. AskInv(r, c)
  <2>1. ASSUME NEW awaiting, SavedLast(r, b, awaiting)
        PROVE  SavedLast(r, c, awaiting)
    BY <1>2, <2>1 DEF SavedLast
  <2>2. QED BY <2>1 DEF TurnInv, AskInv
<1>6. ViewInv(r, m)
  <2>1. r.phase \in Viewing => r.view.id \in Nat
    BY DEF TurnInv, ViewInv, View, ProjectID
  <2>2. QED BY <1>2, <2>1 DEF TurnInv, ViewInv
<1>7. QED BY <1>1, <1>4, <1>5, <1>6 DEF TurnInv

\* What a step may do to the binding, and to the count of Advances.
InputStep == Keeps(binding, binding') \/ ReplacedOnPurpose

ReplayStep ==
    \A k \in Keys :
        turn'[k].begun > turn[k].begun => ~turn[k].refused /\ turn'[k].begun <= MaxOperations

\* What a step does to the files.
FilesStep ==
    /\ binding' \in Binding /\ (binding'.version = 0 => binding'.project = NoID)
    /\ binding' = binding \/ binding'.version = binding.version + 1
    /\ projects' \in Seq(Project) /\ Len(projects') <= MaxProjects
    /\ Len(projects) <= Len(projects') /\ binding'.project <= Len(projects')
    /\ turns' \in Nat

\* A turn's step that keeps what is known of the turn.
LEMMA TurnStep ==
    ASSUME IInv, NEW k \in Keys, NEW q,
           turn' = [turn EXCEPT ![k] = q],
           FilesStep,
           TurnInv(q, binding', Len(projects')),
           q.begun > turn[k].begun => ~turn[k].refused /\ q.begun <= MaxOperations
    PROVE  IInv' /\ ReplayStep
<1>1. binding \in Binding /\ binding' \in Binding /\ turn \in [Keys -> Turn]
      /\ Len(projects) \in Nat /\ Len(projects') \in Nat /\ q \in Turn
  BY DEF IInv, FilesStep, TurnInv
<1>2. ASSUME NEW j \in Keys PROVE TurnInv(turn'[j], binding', Len(projects'))
  <2>1. CASE j = k
    BY <1>1, <2>1
  <2>2. CASE j # k
    <3>1. turn'[j] = turn[j] /\ TurnInv(turn[j], binding, Len(projects))
      BY <1>1, <2>2 DEF IInv
    <3>2. TurnInv(turn[j], binding', Len(projects'))
      BY <1>1, <3>1, Elsewhere DEF FilesStep
    <3>3. QED BY <3>1, <3>2
  <2>3. QED BY <2>1, <2>2
<1>3. ReplayStep
  <2>1. ASSUME NEW j \in Keys, turn'[j].begun > turn[j].begun
        PROVE  ~turn[j].refused /\ turn'[j].begun <= MaxOperations
    <3>1. CASE j = k
      BY <1>1, <2>1, <3>1
    <3>2. CASE j # k
      <4>1. turn'[j] = turn[j] /\ turn[j].begun \in Nat
        BY <1>1, <3>2 DEF Turn
      <4>2. QED BY <2>1, <4>1
    <3>3. QED BY <3>1, <3>2
  <2>2. QED BY <2>1 DEF ReplayStep
<1>4. turn' \in [Keys -> Turn]
  BY <1>1
<1>5. QED BY <1>2, <1>3, <1>4 DEF IInv, FilesStep

\* A step that leaves the files alone.
LEMMA FilesRest ==
    ASSUME IInv, UNCHANGED <<binding, projects, turns>>
    PROVE  FilesStep /\ InputStep
<1>1. Keeps(binding, binding)
  BY DEF Keeps
<1>2. QED BY <1>1 DEF IInv, FilesStep, InputStep

StepHolds == IInv' /\ InputStep /\ ReplayStep

\* What the invariant says of one turn.
LEMMA TurnFacts ==
    ASSUME IInv, NEW k \in Keys
    PROVE  /\ turn[k] \in Turn /\ TurnInv(turn[k], binding, Len(projects))
           /\ turn[k].bind \in Binding /\ turn[k].bind.version \in Nat
           /\ turn[k].bind.project \in ProjectID \union {NoID}
           /\ turn[k].begun \in Nat /\ turn[k].refused \in BOOLEAN
           /\ turn[k].reply \in Reply
           /\ binding \in Binding /\ binding.version \in Nat
           /\ Len(projects) \in Nat /\ turn \in [Keys -> Turn]
<1>1. turn[k] \in Turn /\ TurnInv(turn[k], binding, Len(projects))
      /\ binding \in Binding /\ Len(projects) \in Nat /\ turn \in [Keys -> Turn]
  BY DEF IInv
<1>2. QED BY <1>1 DEF Turn, Binding

\* A turn's step that leaves the files alone.
LEMMA QuietStep ==
    ASSUME IInv, NEW k \in Keys, NEW q,
           turn' = [turn EXCEPT ![k] = q],
           UNCHANGED <<binding, projects, turns>>,
           TurnInv(q, binding, Len(projects)),
           q.begun > turn[k].begun => ~turn[k].refused /\ q.begun <= MaxOperations
    PROVE  StepHolds
<1>1. FilesStep /\ InputStep
  BY FilesRest
<1>2. TurnInv(q, binding', Len(projects'))
  OBVIOUS
<1>3. IInv' /\ ReplayStep
  BY <1>1, <1>2, TurnStep
<1>4. QED BY <1>1, <1>3 DEF StepHolds

\* A turn that ends.
LEMMA EndedInv ==
    ASSUME NEW r \in Turn, NEW b \in Binding, NEW n \in Nat, TurnInv(r, b, n),
           NEW phase \in {"replied", "failed"},
           phase = "replied" => r.phase = "committing"
    PROVE  TurnInv(Ended(r, phase), b, n) /\ Ended(r, phase).begun = 0
<1> DEFINE q == Ended(r, phase)
<1>1. q \in Turn /\ q.phase = phase /\ q.reply = r.reply
      /\ q.bind.version = r.bind.version /\ q.bind.project = NoID /\ q.begun = 0
  BY EndedForm
<1> HIDE DEF q
<1>2. BindInv(q, b)
  BY <1>1 DEF TurnInv, BindInv, Loaded
<1>3. AskInv(q, b)
  BY <1>1 DEF TurnInv, AskInv, SavedLast
<1>4. OpsInv(q)
  BY <1>1 DEF OpsInv
<1>5. ViewInv(q, n)
  BY <1>1 DEF ViewInv, Viewing, NoID
<1>6. QED BY <1>1, <1>2, <1>3, <1>4, <1>5 DEF TurnInv, q

\* A turn that has its reply, and asks for nothing.
LEMMA AnsweredInv ==
    ASSUME NEW r \in Turn, NEW b \in Binding, NEW n \in Nat,
           r.bind.version <= b.version, r.bind.project <= n,
           NEW reply \in Reply, ~Asks(reply)
    PROVE  TurnInv(Answered(r, reply), b, n) /\ Answered(r, reply).begun = r.begun
<1> DEFINE q == Answered(r, reply)
<1>1. q \in Turn /\ q.phase = "committing" /\ q.reply = reply /\ q.bind = r.bind
      /\ q.begun = r.begun
  BY AnsweredForm
<1> HIDE DEF q
<1>2. QED BY <1>1 DEF TurnInv, BindInv, AskInv, OpsInv, ViewInv, Loaded, Viewing, q

\* A turn that ends, and nothing else.
LEMMA EndStep ==
    ASSUME IInv, NEW k \in Keys, NEW phase \in {"replied", "failed"},
           phase = "replied" => turn[k].phase = "committing",
           turn' = [turn EXCEPT ![k] = Ended(turn[k], phase)],
           UNCHANGED <<binding, projects, turns>>
    PROVE  StepHolds
<1>1. TurnInv(Ended(turn[k], phase), binding, Len(projects)) /\ Ended(turn[k], phase).begun = 0
  BY TurnFacts, EndedInv
<1>2. ~(0 > turn[k].begun)
  BY TurnFacts
<1>3. QED BY <1>1, <1>2, QuietStep

\* A save over the version the turn read.
LEMMA SaveStep ==
    ASSUME IInv, NEW k \in Keys, NEW b \in Binding,
           turn[k].phase \in {"intake", "binding", "waiting", "providing"},
           Keeps(turn[k].bind, b), b.project = turn[k].bind.project,
           CompareAndSave(b, turn[k].bind.version),
           turn'[k].phase # turn[k].phase,
           UNCHANGED <<projects, turns>>
    PROVE  /\ FilesStep /\ InputStep
           /\ binding' \in Binding /\ binding'.version = turn[k].bind.version + 1
           /\ binding'.awaiting = b.awaiting /\ binding'.project = b.project
<1> DEFINE r == turn[k]
<1>1. binding.version = r.bind.version /\ r.bind.version \in Nat
      /\ binding' = [b EXCEPT !.version = r.bind.version + 1]
  BY TurnFacts DEF CompareAndSave
<1>2. /\ binding' \in Binding /\ binding'.version = r.bind.version + 1
      /\ binding'.awaiting = b.awaiting /\ binding'.project = b.project
      /\ binding'.title = b.title /\ binding'.instruction = b.instruction
      /\ binding'.sources = b.sources
  BY <1>1 DEF Binding
<1>3. b.project <= Len(projects)
  BY TurnFacts DEF TurnInv, ViewInv
<1>4. FilesStep
  BY <1>1, <1>2, <1>3 DEF IInv, FilesStep
<1>5. Anew(r) \/ Keeps(binding, r.bind)
  BY <1>1, TurnFacts DEF TurnInv, BindInv, Loaded
<1>6. CASE Anew(r)
  <2>1. ReplacedOnPurpose
    BY <1>6 DEF ReplacedOnPurpose, Anew
  <2>2. QED BY <1>2, <1>4, <2>1 DEF InputStep
<1>7. CASE Keeps(binding, r.bind)
  <2>1. Keeps(binding, b)
    BY <1>7, KeepsTransitive
  <2>2. Keeps(binding, binding')
    BY <1>2, <2>1 DEF Keeps
  <2>3. QED BY <1>2, <1>4, <2>2 DEF InputStep
<1>8. QED BY <1>5, <1>6, <1>7

\* The project a turn looks at.
LEMMA StoredFacts ==
    ASSUME IInv, NEW id \in ProjectID, id <= Len(projects)
    PROVE  /\ id \in 1..Len(projects) /\ projects[id] \in Project
           /\ Look(id) \in View /\ Look(id).id = id
<1>1. id \in 1..Len(projects)
  BY DEF ProjectID, IInv
<1>2. projects[id] \in Project
  BY <1>1 DEF IInv
<1>3. QED BY <1>1, <1>2 DEF Look, View

\* Files after a step of one project.
LEMMA ProjectStep ==
    ASSUME IInv, NEW id \in 1..Len(projects), NEW p \in Project,
           projects' = [projects EXCEPT ![id] = p], UNCHANGED <<binding, turns>>
    PROVE  FilesStep /\ InputStep /\ Len(projects') = Len(projects)
<1>1. projects \in Seq(Project) /\ Len(projects) \in Nat
  BY DEF IInv
<1>2. projects' \in Seq(Project) /\ Len(projects') = Len(projects)
  BY <1>1
<1>3. Keeps(binding, binding)
  BY DEF Keeps
<1>4. QED BY <1>1, <1>2, <1>3 DEF IInv, FilesStep, InputStep

-----------------------------------------------------------------------------
(***************************************************************************)
(* The actions                                                             *)
(***************************************************************************)
LEMMA ReceiveStep ==
    ASSUME IInv, NEW k \in Keys, Receive(k)
    PROVE  StepHolds
<1> DEFINE q == [IdleTurn EXCEPT !.phase = "interpreting", !.bind = binding]
<1>1. binding \in Binding /\ "interpreting" \in Phase
  BY DEF IInv, Phase
<1>2. q \in Turn /\ q.phase = "interpreting" /\ q.bind = binding /\ q.begun = 0 /\ ~q.refused
  BY <1>1, RestingFacts DEF Turn
<1>3. turn' = [turn EXCEPT ![k] = q] /\ UNCHANGED <<binding, projects>> /\ turns' \in Nat
  BY DEF Receive, Become, IInv
<1> HIDE DEF q
<1>4. Keeps(binding, binding)
  BY DEF Keeps
<1>5. TurnInv(q, binding, Len(projects))
  BY <1>1, <1>2, <1>4 DEF TurnInv, BindInv, AskInv, OpsInv, ViewInv, Viewing, IInv, Binding
<1>6. FilesStep /\ InputStep
  BY <1>3, <1>4 DEF IInv, FilesStep, InputStep
<1>7. TurnInv(q, binding', Len(projects')) /\ ~(q.begun > turn[k].begun)
  BY <1>2, <1>3, <1>5, TurnFacts
<1>8. IInv' /\ ReplayStep
  BY <1>3, <1>6, <1>7, TurnStep
<1>9. QED BY <1>6, <1>8 DEF StepHolds

LEMMA InterpretStep ==
    ASSUME IInv, NEW k \in Keys, Interpret(k)
    PROVE  StepHolds
<1>1. PICK i \in Intent :
        LET r == [turn[k] EXCEPT !.intent = i]
        IN  turn' = [turn EXCEPT ![k] = IF HasProject(r.bind) /\ i.kind # "start_new"
                                        THEN [r EXCEPT !.phase = "showing"] ELSE Decision(r)]
  BY DEF Interpret, Become
<1> DEFINE r == [turn[k] EXCEPT !.intent = i]
<1>2. turn[k].phase = "interpreting" /\ UNCHANGED <<binding, projects, turns>>
  BY DEF Interpret, At
<1>3. /\ r \in Turn /\ r.phase = "interpreting" /\ r.intent = i /\ r.bind = turn[k].bind
      /\ r.view = turn[k].view /\ r.begun = turn[k].begun /\ r.refused = turn[k].refused
  BY <1>2, TurnFacts DEF Turn
<1>4. BindInv(r, binding) /\ OpsInv(r) /\ r.bind.project <= Len(projects)
  BY <1>2, <1>3, TurnFacts DEF TurnInv, BindInv, OpsInv, ViewInv, Anew
<1>5. turn[k].begun = 0
  BY <1>2, TurnFacts DEF TurnInv, OpsInv
<1>6. CASE HasProject(r.bind) /\ i.kind # "start_new"
  <2> DEFINE q == [r EXCEPT !.phase = "showing"]
  <2>1. turn' = [turn EXCEPT ![k] = q] /\ "showing" \in Phase
    BY <1>1, <1>6 DEF Phase
  <2>2. q \in Turn /\ q.phase = "showing" /\ q.bind = r.bind /\ q.intent = i
        /\ q.begun = r.begun /\ q.refused = r.refused
    BY <1>3, <2>1, PhaseForm
  <2> HIDE DEF q, r
  <2>3. BindInv(q, binding)
    BY <1>3, <1>4, <2>2 DEF BindInv, Loaded, Anew
  <2>4. TurnInv(q, binding, Len(projects))
    BY <1>3, <1>4, <1>6, <2>2, <2>3 DEF TurnInv, AskInv, OpsInv, ViewInv, Viewing, HasProject
  <2>5. ~(q.begun > turn[k].begun)
    BY <1>3, <1>5, <2>2
  <2>6. QED BY <1>2, <2>1, <2>4, <2>5, QuietStep
<1>7. CASE ~(HasProject(r.bind) /\ i.kind # "start_new")
  <2> DEFINE q == Decision(r)
  <2>1. turn' = [turn EXCEPT ![k] = q]
    BY <1>1, <1>7
  <2>2. HasProject(r.bind) /\ r.intent.kind # "start_new" =>
          r.view \in View /\ r.view.id <= Len(projects)
    BY <1>3, <1>7
  <2> HIDE DEF r
  <2>3. TurnInv(q, binding, Len(projects)) /\ q.begun = r.begun
    BY <1>3, <1>4, <2>2, TurnFacts, DecisionForm
  <2> HIDE DEF q
  <2>4. ~(q.begun > turn[k].begun)
    BY <1>3, <1>5, <2>3
  <2>5. QED BY <1>2, <2>1, <2>3, <2>4, QuietStep
<1>8. QED BY <1>6, <1>7

LEMMA ShowBoundStep ==
    ASSUME IInv, NEW k \in Keys, ShowBound(k)
    PROVE  StepHolds
<1> DEFINE id == turn[k].bind.project
           r == [turn[k] EXCEPT !.view = Look(id)]
           q == Decision(r)
<1>1. turn[k].phase = "showing" /\ UNCHANGED <<binding, projects, turns>>
      /\ turn' = [turn EXCEPT ![k] = q]
  BY DEF ShowBound, At, Become
<1>2. id \in ProjectID /\ id <= Len(projects)
  BY <1>1, TurnFacts DEF TurnInv, ViewInv
<1>3. Look(id) \in View /\ Look(id).id = id
  BY <1>2, StoredFacts
<1>4. /\ r \in Turn /\ r.phase = "showing" /\ r.intent = turn[k].intent
      /\ r.bind = turn[k].bind /\ r.view = Look(id)
      /\ r.begun = turn[k].begun /\ r.refused = turn[k].refused
  BY <1>1, <1>3, TurnFacts DEF Turn
<1> HIDE DEF r
<1>5. BindInv(r, binding) /\ OpsInv(r) /\ r.bind.project <= Len(projects)
  BY <1>1, <1>2, <1>4, TurnFacts DEF TurnInv, BindInv, OpsInv, Anew
<1>6. TurnInv(q, binding, Len(projects)) /\ q.begun = r.begun
  BY <1>2, <1>3, <1>4, <1>5, TurnFacts, DecisionForm
<1> HIDE DEF q
<1>7. ~(q.begun > turn[k].begun)
  BY <1>4, <1>6, TurnFacts
<1>8. QED BY <1>1, <1>6, <1>7, QuietStep

LEMMA SaveIntakeStep ==
    ASSUME IInv, NEW k \in Keys, SaveIntake(k)
    PROVE  StepHolds
<1> DEFINE r == turn[k]
           b == [r.bind EXCEPT !.awaiting = "requirement"]
           q == Answered(r, "ask_requirement")
<1>1. /\ r.phase = "intake" /\ CompareAndSave(b, r.bind.version)
      /\ turn' = [turn EXCEPT ![k] = q] /\ UNCHANGED <<projects, turns>>
  BY DEF SaveIntake, At, Become
<1>2. "ask_requirement" \in Reply /\ "requirement" \in Awaiting
  BY DEF Reply, Awaiting
<1>3. b \in Binding /\ Keeps(r.bind, b) /\ b.project = r.bind.project /\ b.awaiting = "requirement"
  BY <1>2, TurnFacts DEF Binding, Keeps
<1>4. q \in Turn /\ q.phase = "committing" /\ q.reply = "ask_requirement" /\ q.bind = r.bind
      /\ q.begun = r.begun
  BY <1>2, TurnFacts, AnsweredForm
<1> HIDE DEF b, q
<1>5. turn'[k].phase # r.phase
  BY <1>1, <1>4, TurnFacts
<1>6. /\ FilesStep /\ InputStep /\ binding' \in Binding
      /\ binding'.version = r.bind.version + 1 /\ binding'.awaiting = "requirement"
  BY <1>1, <1>3, <1>5, SaveStep
<1>7. r.bind.project <= Len(projects)
  BY TurnFacts DEF TurnInv, ViewInv
<1>8. TurnInv(q, binding', Len(projects'))
  BY <1>1, <1>4, <1>6, <1>7, TurnFacts
     DEF TurnInv, BindInv, AskInv, SavedLast, Wanted, OpsInv, ViewInv, Loaded, Viewing
<1>9. ~(q.begun > r.begun)
  BY <1>4, TurnFacts
<1>10. IInv' /\ ReplayStep
  BY <1>1, <1>6, <1>8, <1>9, TurnStep
<1>11. QED BY <1>6, <1>10 DEF StepHolds

LEMMA CreateProjectStep ==
    ASSUME IInv, NEW k \in Keys, CreateProject(k)
    PROVE  StepHolds
<1> DEFINE r == turn[k]
           id == Len(projects) + 1
           awaiting == IF NeedsSources(r.bind, NewProject) THEN "source" ELSE "none"
           c == [r.bind EXCEPT !.project = id, !.awaiting = awaiting]
           q == [r EXCEPT !.bind = c, !.phase = "binding"]
<1>1. /\ r.phase = "creating" /\ Len(projects) < MaxProjects
      /\ projects' = Append(projects, NewProject) /\ UNCHANGED <<binding, turns>>
  BY DEF CreateProject, At
<1>2. turn' = [turn EXCEPT ![k] = q]
  BY TurnFacts DEF CreateProject, Become, Turn
<1>3. id \in ProjectID /\ id # NoID /\ awaiting \in Awaiting /\ "binding" \in Phase
  BY <1>1, TurnFacts, WorkflowAssumption DEF ProjectID, NoID, Awaiting, Phase
<1> HIDE DEF awaiting
<1>4. /\ c \in Binding /\ c.version = r.bind.version /\ c.project = id
      /\ c.title = r.bind.title /\ c.instruction = r.bind.instruction
      /\ c.sources = r.bind.sources
  BY <1>3, TurnFacts DEF Binding
<1> HIDE DEF c
<1>5. /\ q \in Turn /\ q.phase = "binding" /\ q.bind = c /\ q.intent = r.intent
      /\ q.begun = r.begun
  BY <1>3, <1>4, TurnFacts DEF Turn
<1> HIDE DEF q
<1>6. projects \in Seq(Project) /\ NewProject \in Project
  BY NewProjectProject DEF IInv
<1>7. projects' \in Seq(Project) /\ Len(projects') = id /\ Len(projects') <= MaxProjects
  BY <1>1, <1>6, TurnFacts, WorkflowAssumption
<1>8. Keeps(binding, binding)
  BY DEF Keeps
<1>9. FilesStep /\ InputStep
  BY <1>1, <1>7, <1>8, TurnFacts DEF IInv, FilesStep, InputStep, Binding, ProjectID, NoID
<1>10. BindInv(q, binding)
  <2>1. /\ r.bind.version <= binding.version /\ r.bind.project = NoID
        /\ r.bind.version = binding.version => Anew(r) \/ Keeps(binding, r.bind)
    BY <1>1, TurnFacts DEF TurnInv, BindInv, Loaded
  <2>2. Keeps(binding, r.bind) => Keeps(binding, c)
    BY <1>4, <2>1 DEF Keeps
  <2>3. Anew(r) => Anew(q)
    BY <1>5 DEF Anew
  <2>4. QED BY <1>4, <1>5, <2>1, <2>2, <2>3 DEF BindInv
<1>11. TurnInv(q, binding', Len(projects'))
  BY <1>1, <1>3, <1>4, <1>5, <1>7, <1>10, TurnFacts
     DEF TurnInv, AskInv, OpsInv, ViewInv, Viewing
<1>12. ~(q.begun > r.begun)
  BY <1>5, TurnFacts
<1>13. IInv' /\ ReplayStep
  BY <1>2, <1>9, <1>11, <1>12, TurnStep
<1>14. QED BY <1>9, <1>13 DEF StepHolds

LEMMA BindProjectStep ==
    ASSUME IInv, NEW k \in Keys, BindProject(k)
    PROVE  StepHolds
<1> DEFINE r == turn[k]
           q == [r EXCEPT !.phase = "shown"]
<1>1. /\ r.phase = "binding" /\ CompareAndSave(r.bind, r.bind.version)
      /\ turn' = [turn EXCEPT ![k] = q] /\ UNCHANGED <<projects, turns>>
      /\ "shown" \in Phase
  BY DEF BindProject, At, GoTo, Become, Phase
<1>2. q \in Turn /\ q.phase = "shown" /\ q.bind = r.bind /\ q.begun = r.begun
  BY <1>1, TurnFacts, PhaseForm
<1> HIDE DEF q
<1>3. turn'[k].phase # r.phase /\ Keeps(r.bind, r.bind)
  BY <1>1, <1>2, TurnFacts DEF Keeps
<1>4. /\ FilesStep /\ InputStep /\ binding' \in Binding
      /\ binding'.version = r.bind.version + 1 /\ binding'.awaiting = r.bind.awaiting
  BY <1>1, <1>3, TurnFacts, SaveStep
<1>5. r.bind.project <= Len(projects) /\ r.bind.project # NoID
  BY <1>1, TurnFacts DEF TurnInv, ViewInv
<1>6. TurnInv(q, binding', Len(projects'))
  BY <1>1, <1>2, <1>4, <1>5, TurnFacts
     DEF TurnInv, BindInv, AskInv, SavedLast, OpsInv, ViewInv, Loaded, Viewing
<1>7. ~(q.begun > r.begun)
  BY <1>2, TurnFacts
<1>8. IInv' /\ ReplayStep
  BY <1>1, <1>4, <1>6, <1>7, TurnStep
<1>9. QED BY <1>4, <1>8 DEF StepHolds

LEMMA ShowCreatedStep ==
    ASSUME IInv, NEW k \in Keys, ShowCreated(k)
    PROVE  StepHolds
<1> DEFINE id == turn[k].bind.project
           r == [turn[k] EXCEPT !.view = Look(id)]
           asked == IF turn[k].bind.awaiting = "source" THEN "ask_source"
                    ELSE StateFromProject(Look(id).at)
           q == Answered(r, asked)
<1>1. turn[k].phase = "shown" /\ turn' = [turn EXCEPT ![k] = q]
      /\ UNCHANGED <<binding, projects, turns>>
  BY DEF ShowCreated, At, Become
<1>2. id \in ProjectID /\ id <= Len(projects)
  BY <1>1, TurnFacts DEF TurnInv, ViewInv
<1>3. Look(id) \in View
  BY <1>2, StoredFacts
<1>4. r \in Turn /\ r.bind = turn[k].bind /\ r.begun = turn[k].begun
  BY <1>3, TurnFacts DEF Turn
<1>5. asked \in Reply /\ (Asks(asked) => turn[k].bind.awaiting = "source" /\ asked = "ask_source")
  BY StateReply DEF Reply, Asks
<1> HIDE DEF r, asked
<1>6. q \in Turn /\ q.phase = "committing" /\ q.reply = asked /\ q.bind = turn[k].bind
      /\ q.begun = turn[k].begun
  BY <1>4, <1>5, AnsweredForm
<1> HIDE DEF q
<1>7. SavedLast(turn[k], binding, turn[k].bind.awaiting)
  BY <1>1, TurnFacts DEF TurnInv, AskInv
<1>8. TurnInv(q, binding, Len(projects))
  BY <1>1, <1>2, <1>5, <1>6, <1>7, TurnFacts
     DEF TurnInv, BindInv, AskInv, SavedLast, Wanted, OpsInv, ViewInv, Loaded, Viewing
<1>9. ~(q.begun > turn[k].begun)
  BY <1>6, TurnFacts
<1>10. QED BY <1>1, <1>8, <1>9, QuietStep

LEMMA SaveWaitStep ==
    ASSUME IInv, NEW k \in Keys, SaveWait(k)
    PROVE  StepHolds
<1> DEFINE r == turn[k]
           b == [r.bind EXCEPT !.awaiting = "source"]
           q == Answered(r, "ask_source")
<1>1. /\ r.phase = "waiting" /\ CompareAndSave(b, r.bind.version)
      /\ turn' = [turn EXCEPT ![k] = q] /\ UNCHANGED <<projects, turns>>
  BY DEF SaveWait, At, Become
<1>2. "ask_source" \in Reply /\ "source" \in Awaiting
  BY DEF Reply, Awaiting
<1>3. b \in Binding /\ Keeps(r.bind, b) /\ b.project = r.bind.project /\ b.awaiting = "source"
  BY <1>2, TurnFacts DEF Binding, Keeps
<1>4. q \in Turn /\ q.phase = "committing" /\ q.reply = "ask_source" /\ q.bind = r.bind
      /\ q.begun = r.begun
  BY <1>2, TurnFacts, AnsweredForm
<1> HIDE DEF b, q
<1>5. turn'[k].phase # r.phase
  BY <1>1, <1>4, TurnFacts
<1>6. /\ FilesStep /\ InputStep /\ binding' \in Binding
      /\ binding'.version = r.bind.version + 1 /\ binding'.awaiting = "source"
  BY <1>1, <1>3, <1>5, SaveStep
<1>7. r.bind.project <= Len(projects)
  BY TurnFacts DEF TurnInv, ViewInv
<1>8. TurnInv(q, binding', Len(projects'))
  BY <1>1, <1>4, <1>6, <1>7, TurnFacts
     DEF TurnInv, BindInv, AskInv, SavedLast, Wanted, OpsInv, ViewInv, Loaded, Viewing
<1>9. ~(q.begun > r.begun)
  BY <1>4, TurnFacts
<1>10. IInv' /\ ReplayStep
  BY <1>1, <1>6, <1>8, <1>9, TurnStep
<1>11. QED BY <1>6, <1>10 DEF StepHolds

LEMMA SaveInputStep ==
    ASSUME IInv, NEW k \in Keys, SaveInput(k)
    PROVE  StepHolds
<1> DEFINE r == turn[k]
<1> DEFINE s(b) == [r EXCEPT !.bind = b]
<1>1. /\ r.phase = "providing" /\ CompareAndSave(r.bind, r.bind.version)
      /\ turn' = [turn EXCEPT ![k] = Guarded(s(binding'))] /\ UNCHANGED <<projects, turns>>
  BY DEF SaveInput, At, Become
<1>2. binding' \in Binding /\ binding'.project = r.bind.project
  BY <1>1, TurnFacts DEF CompareAndSave, Binding
<1>3. PICK b : b = binding'
  OBVIOUS
<1>4. s(b) \in Turn /\ s(b).bind = b /\ s(b).view = r.view /\ s(b).begun = r.begun
      /\ s(b).refused = r.refused
  BY <1>2, <1>3, TurnFacts DEF Turn
<1>5. PICK q : q = Guarded(s(b))
  OBVIOUS
<1>6. /\ q \in Turn /\ q.bind = b /\ q.view = r.view
      /\ q.phase \in {"committing", "presenting", "waiting", "advancing"}
      /\ q.phase = "committing" => ~Asks(q.reply)
      /\ q.begun = r.begun /\ q.refused = r.refused
  BY <1>4, <1>5, GuardedForm
<1>7. turn' = [turn EXCEPT ![k] = q]
  BY <1>1, <1>3, <1>5
<1>8. turn'[k].phase # r.phase /\ Keeps(r.bind, r.bind) /\ Keeps(b, b)
  BY <1>1, <1>6, <1>7, TurnFacts DEF Keeps
<1>9. FilesStep /\ InputStep
  BY <1>1, <1>8, TurnFacts, SaveStep
<1>10. /\ r.begun = 0 /\ ~r.refused /\ r.view \in View /\ r.view.id <= Len(projects)
       /\ r.bind.project <= Len(projects) /\ MaxOperations >= 1 /\ MaxOperations \in Nat
  BY <1>1, TurnFacts, WorkflowAssumption DEF TurnInv, OpsInv, ViewInv, Viewing
<1>11. TurnInv(q, b, Len(projects))
  <2>1. BindInv(q, b) /\ AskInv(q, b)
    BY <1>2, <1>3, <1>6, <1>8 DEF BindInv, AskInv, Binding
  <2>2. OpsInv(q)
    BY <1>6, <1>10 DEF OpsInv
  <2>3. ViewInv(q, Len(projects))
    BY <1>2, <1>3, <1>6, <1>10 DEF ViewInv
  <2>4. QED BY <1>6, <2>1, <2>2, <2>3 DEF TurnInv
<1>12. TurnInv(q, binding', Len(projects')) /\ ~(q.begun > r.begun)
  BY <1>1, <1>3, <1>6, <1>11, TurnFacts
<1>13. IInv' /\ ReplayStep
  BY <1>7, <1>9, <1>12, TurnStep
<1>14. QED BY <1>9, <1>13 DEF StepHolds

\* The project an advancing turn looks at, and where it may go from there.
LEMMA ViewFacts ==
    ASSUME IInv, NEW k \in Keys, turn[k].phase \in Viewing
    PROVE  /\ turn[k].view \in View /\ turn[k].view.id \in ProjectID
           /\ turn[k].view.id \in 1..Len(projects)
           /\ Stored(k) \in Project /\ turn[k].view.at \in Project
<1>1. turn[k].view \in View /\ turn[k].view.id <= Len(projects)
  BY TurnFacts DEF TurnInv, ViewInv
<1>2. turn[k].view.id \in ProjectID /\ turn[k].view.at \in Project
  BY <1>1 DEF View
<1>3. QED BY <1>1, <1>2, StoredFacts DEF Stored

\* One Advance more.
LEMMA AskedForm ==
    ASSUME IInv, NEW k \in Keys
    PROVE  LET q == Asked(k)
           IN  /\ q \in Turn /\ q.bind = turn[k].bind /\ q.view = turn[k].view
               /\ q.begun = turn[k].begun + 1 /\ q.refused = turn[k].refused
  BY TurnFacts DEF Asked, Turn

LEMMA BeginAdvanceStep ==
    ASSUME IInv, NEW k \in Keys, BeginAdvance(k)
    PROVE  StepHolds
<1> DEFINE r == turn[k]
           op == r.view.at.current
           p == Bump(Begin(Stored(k), op))
           q == [Asked(k) EXCEPT !.phase = "running"]
<1>1. /\ r.phase = "advancing" /\ turn' = [turn EXCEPT ![k] = q]
      /\ UNCHANGED <<binding, turns>> /\ "running" \in Phase
  BY DEF BeginAdvance, At, Become, Phase
<1>2. r.view.id \in 1..Len(projects) /\ Stored(k) \in Project /\ op \in Stage
      /\ r.view \in View
  BY <1>1, ViewFacts DEF Viewing, Project
<1>3. p \in Project
  BY <1>2, BeginProject, BumpProject
<1>4. projects' = [projects EXCEPT ![r.view.id] = p]
  BY <1>2 DEF BeginAdvance, Stored
<1> HIDE DEF p
<1>5. FilesStep /\ InputStep /\ Len(projects') = Len(projects)
  BY <1>1, <1>2, <1>3, <1>4, ProjectStep
<1>6. /\ q \in Turn /\ q.phase = "running" /\ q.bind = r.bind /\ q.view = r.view
      /\ q.begun = r.begun + 1 /\ q.refused = r.refused
  BY <1>1, AskedForm, PhaseForm
<1> HIDE DEF q
<1>7. /\ ~r.refused /\ r.begun < MaxOperations /\ r.view.id <= Len(projects)
      /\ r.bind.project <= Len(projects) /\ r.bind.version <= binding.version
      /\ r.bind.version = binding.version => Keeps(binding, r.bind)
  BY <1>1, <1>2, TurnFacts
     DEF TurnInv, OpsInv, ViewInv, Viewing, BindInv, Loaded, Anew
<1>8. q.begun <= MaxOperations
  BY <1>6, <1>7, TurnFacts, WorkflowAssumption
<1>9. BindInv(q, binding) /\ AskInv(q, binding) /\ OpsInv(q)
  BY <1>6, <1>7, <1>8 DEF BindInv, AskInv, OpsInv
<1>10. ViewInv(q, Len(projects))
  BY <1>2, <1>6, <1>7 DEF ViewInv
<1>11. TurnInv(q, binding', Len(projects'))
  BY <1>1, <1>5, <1>6, <1>9, <1>10 DEF TurnInv
<1>12. IInv' /\ ReplayStep
  BY <1>1, <1>5, <1>7, <1>8, <1>11, TurnStep
<1>13. QED BY <1>5, <1>12 DEF StepHolds

LEMMA RefuseAdvanceStep ==
    ASSUME IInv, NEW k \in Keys, RefuseAdvance(k)
    PROVE  StepHolds
<1> DEFINE r == turn[k]
           q == [Asked(k) EXCEPT !.refused = TRUE, !.phase = "inspecting"]
<1>1. /\ r.phase = "advancing" /\ turn' = [turn EXCEPT ![k] = q]
      /\ UNCHANGED <<binding, projects, turns>> /\ "inspecting" \in Phase
  BY DEF RefuseAdvance, At, Become, Phase
<1>2. /\ q \in Turn /\ q.phase = "inspecting" /\ q.bind = r.bind /\ q.view = r.view
      /\ q.begun = r.begun + 1
  <2>1. Asked(k) \in Turn /\ Asked(k).bind = r.bind /\ Asked(k).view = r.view
        /\ Asked(k).begun = r.begun + 1
    BY AskedForm
  <2>2. QED BY <1>1, <2>1 DEF Turn
<1> HIDE DEF q
<1>3. /\ ~r.refused /\ r.begun < MaxOperations
      /\ r.view \in View /\ r.view.id <= Len(projects)
      /\ r.bind.project <= Len(projects) /\ r.bind.version <= binding.version
  BY <1>1, TurnFacts DEF TurnInv, OpsInv, ViewInv, Viewing, BindInv
<1>4. q.begun <= MaxOperations
  BY <1>2, <1>3, TurnFacts, WorkflowAssumption
<1>5. TurnInv(q, binding, Len(projects))
  BY <1>2, <1>3 DEF TurnInv, BindInv, AskInv, OpsInv, ViewInv, Loaded
<1>6. QED BY <1>1, <1>3, <1>4, <1>5, QuietStep

\* What a settled Advance leaves is a project.
LEMMA SettledProject ==
    ASSUME NEW p \in Project
    PROVE  Succeeded(p) \in Project /\ Failed(p) \in Project
<1>1. p.current \in Stage
  BY DEF Project
<1>2. Output(p.current) \in SUBSET Ref /\ {} \in SUBSET Ref
  BY DEF Output, RefsOf
<1>3. InputsBefore(p, p.current) \in SUBSET Ref
  BY <1>1 DEF InputsBefore, Project
<1>4. Hold(p, p.current, Output(p.current), InputsBefore(p, p.current)) \in Project
      /\ Complete(p, p.current, Output(p.current), InputsBefore(p, p.current)) \in Project
  BY <1>1, <1>2, <1>3, CompleteHoldProject
<1>5. Succeeded(p) \in Project
  BY <1>4, BumpProject DEF Succeeded
<1>6. FailWith(p, p.current, {}) \in Project
  BY <1>1, <1>2, FailWithProject
<1>7. QED BY <1>5, <1>6, BumpProject DEF Failed

LEMMA FinishAdvanceStep ==
    ASSUME IInv, NEW k \in Keys, FinishAdvance(k)
    PROVE  StepHolds
<1> DEFINE r == turn[k]
           id == r.view.id
<1>1. PICK p : p = Succeeded(projects[id])
  OBVIOUS
<1> DEFINE v == [id |-> id, at |-> p]
           s == [r EXCEPT !.view = v]
           q == Onward(s)
<1>2. /\ r.phase = "running" /\ turn' = [turn EXCEPT ![k] = q]
      /\ projects' = [projects EXCEPT ![id] = p] /\ UNCHANGED <<binding, turns>>
  BY <1>1 DEF FinishAdvance, At, Become
<1>3. id \in 1..Len(projects) /\ id \in ProjectID /\ projects[id] \in Project
  BY <1>2, ViewFacts DEF Viewing, Stored
<1>4. p \in Project
  BY <1>1, <1>3, SettledProject
<1>5. FilesStep /\ InputStep /\ Len(projects') = Len(projects)
  BY <1>2, <1>3, <1>4, ProjectStep
<1>6. v \in View /\ v.id <= Len(projects) /\ v.at = p
  BY <1>3, <1>4, TurnFacts DEF View
<1> HIDE DEF v
<1>7. s \in Turn /\ s.bind = r.bind /\ s.view = v /\ s.begun = r.begun /\ s.refused = r.refused
  BY <1>6, TurnFacts DEF Turn
<1> HIDE DEF s
<1>8. /\ ~r.refused /\ r.begun <= MaxOperations
      /\ r.bind.project <= Len(projects) /\ r.bind.version <= binding.version
      /\ r.bind.version = binding.version => Keeps(binding, r.bind)
  BY <1>2, TurnFacts DEF TurnInv, OpsInv, ViewInv, BindInv, Loaded, Anew
<1>9. TurnInv(q, binding, Len(projects)) /\ q.begun = r.begun
  <2>1. CASE s.view.at.status # "blocked" /\ s.begun >= MaxOperations
    <3>1. q = Answered(s, "working") /\ "working" \in Reply /\ ~Asks("working")
      BY <2>1 DEF Onward, Reply, Asks
    <3>2. QED BY <1>7, <1>8, <3>1, AnsweredInv, TurnFacts
  <2>2. CASE ~(s.view.at.status # "blocked" /\ s.begun >= MaxOperations)
    <3>1. q = Guarded(s)
      BY <2>2 DEF Onward
    <3> HIDE DEF q
    <3>2. /\ q \in Turn /\ q.bind = r.bind /\ q.view = v
          /\ q.phase \in {"committing", "presenting", "waiting", "advancing"}
          /\ q.phase = "committing" => ~Asks(q.reply)
          /\ q.begun = r.begun /\ q.refused = r.refused
          /\ s.view.at.status = "blocked" => q.phase \in {"committing", "presenting"}
      BY <1>7, <3>1, GuardedForm
    <3>3. q.phase = "advancing" => q.begun < MaxOperations
      BY <1>7, <2>2, <3>2, TurnFacts, WorkflowAssumption
    <3>4. BindInv(q, binding) /\ AskInv(q, binding) /\ OpsInv(q)
      BY <1>8, <3>2, <3>3 DEF BindInv, AskInv, OpsInv
    <3>5. ViewInv(q, Len(projects))
      BY <1>6, <1>8, <3>2 DEF ViewInv
    <3>6. QED BY <3>2, <3>4, <3>5 DEF TurnInv
  <2>3. QED BY <2>1, <2>2
<1> HIDE DEF q
<1>10. TurnInv(q, binding', Len(projects')) /\ ~(q.begun > r.begun)
  BY <1>2, <1>5, <1>9, TurnFacts
<1>11. IInv' /\ ReplayStep
  BY <1>2, <1>5, <1>10, TurnStep
<1>12. QED BY <1>5, <1>11 DEF StepHolds

LEMMA FailAdvanceStep ==
    ASSUME IInv, NEW k \in Keys, FailAdvance(k)
    PROVE  StepHolds
<1> DEFINE r == turn[k]
           q == IF r.cancelled THEN Ended(r, "failed")
                ELSE [r EXCEPT !.refused = TRUE, !.phase = "inspecting"]
<1>1. /\ r.phase = "running" /\ turn' = [turn EXCEPT ![k] = q]
      /\ projects' = [projects EXCEPT ![r.view.id] = Failed(@)] \/ UNCHANGED projects
      /\ UNCHANGED <<binding, turns>> /\ "inspecting" \in Phase
  BY DEF FailAdvance, At, Become, Phase
<1>2. r.view.id \in 1..Len(projects) /\ projects[r.view.id] \in Project /\ r.view \in View
  BY <1>1, ViewFacts DEF Viewing, Stored
<1>3. PICK p : p = Failed(projects[r.view.id])
  OBVIOUS
<1>4. p \in Project
  BY <1>2, <1>3, SettledProject
<1>5. FilesStep /\ InputStep /\ Len(projects') = Len(projects)
  <2>1. CASE UNCHANGED projects
    BY <1>1, <2>1, FilesRest
  <2>2. CASE projects' = [projects EXCEPT ![r.view.id] = Failed(@)]
    <3>1. projects' = [projects EXCEPT ![r.view.id] = p]
      BY <1>3, <2>2
    <3>2. QED BY <1>1, <1>2, <1>4, <3>1, ProjectStep
  <2>3. QED BY <1>1, <2>1, <2>2
<1>6. TurnInv(q, binding, Len(projects)) /\ ~(q.begun > r.begun)
  <2>1. CASE r.cancelled
    <3>1. q = Ended(r, "failed")
      BY <2>1
    <3> HIDE DEF q
    <3>2. TurnInv(q, binding, Len(projects)) /\ q.begun = 0
      BY <3>1, TurnFacts, EndedInv
    <3>3. QED BY <3>2, TurnFacts
  <2>2. CASE ~r.cancelled
    <3>1. q = [r EXCEPT !.refused = TRUE, !.phase = "inspecting"]
      BY <2>2
    <3> HIDE DEF q
    <3>2. /\ q \in Turn /\ q.phase = "inspecting" /\ q.bind = r.bind /\ q.view = r.view
          /\ q.begun = r.begun
      BY <1>1, <3>1, TurnFacts DEF Turn
    <3>3. /\ r.view.id <= Len(projects) /\ r.bind.project <= Len(projects)
          /\ r.bind.version <= binding.version
      BY <1>2, TurnFacts DEF TurnInv, ViewInv, BindInv
    <3>4. TurnInv(q, binding, Len(projects))
      BY <1>2, <3>2, <3>3 DEF TurnInv, BindInv, AskInv, OpsInv, ViewInv, Loaded
    <3>5. QED BY <3>2, <3>4, TurnFacts
  <2>3. QED BY <2>1, <2>2
<1> HIDE DEF q
<1>7. TurnInv(q, binding', Len(projects'))
  BY <1>1, <1>5, <1>6
<1>8. IInv' /\ ReplayStep
  BY <1>1, <1>5, <1>6, <1>7, TurnStep
<1>9. QED BY <1>5, <1>8 DEF StepHolds

LEMMA InspectAfterErrorStep ==
    ASSUME IInv, NEW k \in Keys, InspectAfterError(k)
    PROVE  StepHolds
<1> DEFINE r == turn[k]
           p == Stored(k)
           v == [r.view EXCEPT !.at = p]
<1>1. r.phase = "inspecting" /\ turn' = [turn EXCEPT ![k] = Inspected(r, p)]
      /\ UNCHANGED <<binding, projects, turns>>
  BY DEF InspectAfterError, At, Become
<1>2. p \in Project /\ r.view \in View /\ r.view.id \in 1..Len(projects)
  BY <1>1, ViewFacts DEF Viewing
<1>3. v \in View /\ v.id = r.view.id
  BY <1>2 DEF View
<1>4. /\ r.view.id <= Len(projects) /\ r.bind.project <= Len(projects)
      /\ r.bind.version <= binding.version
  BY <1>2, TurnFacts DEF TurnInv, ViewInv, BindInv
<1>5. CASE ~(p.revision > r.view.at.revision /\ p.status = "blocked")
  <2>1. Inspected(r, p) = Ended(r, "failed")
    BY <1>5 DEF Inspected
  <2>2. QED BY <1>1, <2>1, EndStep
<1>6. CASE p.revision > r.view.at.revision /\ p.status = "blocked" /\ AwaitsApply(p)
  <2> DEFINE q == [r EXCEPT !.view = v, !.phase = "presenting"]
  <2>1. Inspected(r, p) = q /\ "presenting" \in Phase
    BY <1>6, TurnFacts DEF Inspected, Turn, Phase
  <2> HIDE DEF v
  <2>2. q \in Turn /\ q.phase = "presenting" /\ q.bind = r.bind /\ q.view = v
        /\ q.begun = r.begun
    BY <1>3, <2>1, TurnFacts DEF Turn
  <2> HIDE DEF q
  <2>3. TurnInv(q, binding, Len(projects))
    BY <1>3, <1>4, <2>2 DEF TurnInv, BindInv, AskInv, OpsInv, ViewInv, Loaded
  <2>4. ~(q.begun > r.begun)
    BY <2>2, TurnFacts
  <2>5. QED BY <1>1, <2>1, <2>3, <2>4, QuietStep
<1>7. CASE p.revision > r.view.at.revision /\ p.status = "blocked" /\ ~AwaitsApply(p)
  <2> DEFINE s == [r EXCEPT !.view = v]
             q == Answered(s, "failed")
  <2>1. Inspected(r, p) = q /\ "failed" \in Reply /\ ~Asks("failed")
    BY <1>7, TurnFacts DEF Inspected, Turn, Reply, Asks
  <2> HIDE DEF v
  <2>2. s \in Turn /\ s.bind = r.bind /\ s.begun = r.begun
    BY <1>3, TurnFacts DEF Turn
  <2> HIDE DEF s
  <2>3. TurnInv(q, binding, Len(projects)) /\ q.begun = r.begun
    BY <1>4, <2>1, <2>2, AnsweredInv, TurnFacts
  <2> HIDE DEF q
  <2>4. ~(q.begun > r.begun)
    BY <2>3, TurnFacts
  <2>5. QED BY <1>1, <2>1, <2>3, <2>4, QuietStep
<1>8. QED BY <1>5, <1>6, <1>7

LEMMA PresentDiffStep ==
    ASSUME IInv, NEW k \in Keys, PresentDiff(k)
    PROVE  StepHolds
<1> DEFINE q == Answered(turn[k], "awaiting_apply")
<1>1. /\ turn' = [turn EXCEPT ![k] = q] \/ turn' = [turn EXCEPT ![k] = Ended(turn[k], "failed")]
      /\ UNCHANGED <<binding, projects, turns>>
  BY DEF PresentDiff, Become
<1>2. CASE turn' = [turn EXCEPT ![k] = Ended(turn[k], "failed")]
  BY <1>1, <1>2, EndStep
<1>3. CASE turn' = [turn EXCEPT ![k] = q]
  <2>1. "awaiting_apply" \in Reply /\ ~Asks("awaiting_apply")
    BY DEF Reply, Asks
  <2>2. turn[k].bind.project <= Len(projects) /\ turn[k].bind.version <= binding.version
    BY TurnFacts DEF TurnInv, ViewInv, BindInv
  <2>3. TurnInv(q, binding, Len(projects)) /\ q.begun = turn[k].begun
    BY <2>1, <2>2, AnsweredInv, TurnFacts
  <2> HIDE DEF q
  <2>4. ~(q.begun > turn[k].begun)
    BY <2>3, TurnFacts
  <2>5. QED BY <1>1, <1>3, <2>3, <2>4, QuietStep
<1>4. QED BY <1>1, <1>2, <1>3

\* A turn that fails, is given up, or is committed.
LEMMA EndingStep ==
    ASSUME IInv, NEW k \in Keys,
           CreateRefused(k) \/ LoseRace(k) \/ GiveUp(k) \/ CallFails(k) \/ CommitTurn(k)
    PROVE  StepHolds
<1>1. CASE CommitTurn(k)
  <2>1. turn[k].phase = "committing" /\ turn' = [turn EXCEPT ![k] = Ended(turn[k], "replied")]
        /\ UNCHANGED <<binding, projects, turns>>
    BY <1>1 DEF CommitTurn, At, Become
  <2>2. QED BY <2>1, EndStep
<1>2. CASE CreateRefused(k) \/ LoseRace(k) \/ GiveUp(k) \/ CallFails(k)
  <2>1. turn' = [turn EXCEPT ![k] = Ended(turn[k], "failed")]
        /\ UNCHANGED <<binding, projects, turns>>
    BY <1>2 DEF CreateRefused, LoseRace, GiveUp, CallFails, Become
  <2>2. QED BY <2>1, EndStep
<1>3. QED BY <1>1, <1>2

LEMMA CancelStep ==
    ASSUME IInv, NEW k \in Keys, Cancel(k)
    PROVE  StepHolds
<1> DEFINE r == turn[k]
           q == [r EXCEPT !.cancelled = TRUE]
<1>1. turn' = [turn EXCEPT ![k] = q] /\ UNCHANGED <<binding, projects, turns>>
  BY DEF Cancel, Become
<1>2. /\ q \in Turn /\ q.phase = r.phase /\ q.bind = r.bind /\ q.view = r.view
      /\ q.intent = r.intent /\ q.begun = r.begun /\ q.refused = r.refused
      /\ q.reply = r.reply
  BY TurnFacts DEF Turn
<1> HIDE DEF q
<1>3. TurnInv(r, binding, Len(projects))
  BY TurnFacts
<1>4. BindInv(q, binding) /\ AskInv(q, binding)
  BY <1>2, <1>3 DEF TurnInv, BindInv, AskInv, Anew, SavedLast
<1>5. OpsInv(q) /\ ViewInv(q, Len(projects))
  BY <1>2, <1>3 DEF TurnInv, OpsInv, ViewInv
<1>6. TurnInv(q, binding, Len(projects)) /\ ~(q.begun > r.begun)
  BY <1>2, <1>4, <1>5, TurnFacts DEF TurnInv
<1>7. QED BY <1>1, <1>6, QuietStep

\* A turn that has not begun.
LEMMA IdleInv ==
    ASSUME NEW b \in Binding, NEW n \in Nat
    PROVE  TurnInv(IdleTurn, b, n)
<1>1. IdleTurn.bind.version = 0 /\ IdleTurn.bind.project = NoID /\ b.version \in Nat
  BY RestingFacts DEF Binding
<1>2. BindInv(IdleTurn, b) /\ AskInv(IdleTurn, b)
  BY <1>1, RestingFacts DEF BindInv, AskInv, Loaded
<1>3. OpsInv(IdleTurn) /\ ViewInv(IdleTurn, n)
  BY <1>1, RestingFacts DEF OpsInv, ViewInv, Viewing, NoID
<1>4. QED BY <1>2, <1>3, RestingFacts DEF TurnInv

LEMMA CrashStep ==
    ASSUME IInv, Crash
    PROVE  StepHolds
<1>1. turn' = [k \in Keys |-> IdleTurn] /\ UNCHANGED <<binding, projects, turns>>
  BY DEF Crash
<1>2. FilesStep /\ InputStep
  BY <1>1, FilesRest
<1>3. binding \in Binding /\ Len(projects) \in Nat
  BY DEF IInv
<1>4. TurnInv(IdleTurn, binding, Len(projects))
  BY <1>3, IdleInv
<1>5. IInv'
  BY <1>1, <1>4, RestingFacts DEF IInv
<1>6. ReplayStep
  <2>1. ASSUME NEW k \in Keys PROVE ~(turn'[k].begun > turn[k].begun)
    <3>1. turn'[k].begun = 0 /\ turn[k].begun \in Nat
      BY <1>1, RestingFacts DEF IInv, Turn
    <3>2. QED BY <3>1
  <2>2. QED BY <2>1 DEF ReplayStep
<1>7. QED BY <1>2, <1>5, <1>6 DEF StepHolds

-----------------------------------------------------------------------------
(***************************************************************************)
(* Theorems                                                                *)
(***************************************************************************)
LEMMA InitInv == Init => IInv
<1> SUFFICES ASSUME Init PROVE IInv
  OBVIOUS
<1>1. /\ binding = NoBinding /\ projects = <<>> /\ turns = 0
      /\ turn = [k \in Keys |-> IdleTurn]
  BY DEF Init
<1>2. binding \in Binding /\ binding.project = NoID
  BY <1>1, RestingFacts
<1>3. projects \in Seq(Project) /\ Len(projects) = 0 /\ Len(projects) <= MaxProjects
  BY <1>1, WorkflowAssumption
<1>4. TurnInv(IdleTurn, binding, Len(projects))
  BY <1>2, <1>3, IdleInv
<1>5. QED BY <1>1, <1>2, <1>3, <1>4, RestingFacts DEF IInv, NoID

LEMMA NextStep == ASSUME IInv, [Next]_vars PROVE StepHolds
<1>1. CASE UNCHANGED vars
  <2>1. UNCHANGED <<binding, projects, turn, turns>>
    BY <1>1 DEF vars
  <2>2. IInv' /\ FilesStep /\ InputStep
    BY <2>1, FilesRest DEF IInv
  <2>3. ReplayStep
    <3>1. ASSUME NEW k \in Keys PROVE ~(turn'[k].begun > turn[k].begun)
      BY <2>1, TurnFacts
    <3>2. QED BY <3>1 DEF ReplayStep
  <2>4. QED BY <2>2, <2>3 DEF StepHolds
<1>2. ASSUME NEW k \in Keys, Receive(k) \/ Cancel(k) \/ CallFails(k)
      PROVE  StepHolds
  BY <1>2, ReceiveStep, CancelStep, EndingStep
<1>3. ASSUME NEW k \in Keys, Proceed(k)
      PROVE  StepHolds
  <2>1. CASE Interpret(k) \/ ShowBound(k) \/ SaveWait(k) \/ SaveInput(k)
    BY <2>1, InterpretStep, ShowBoundStep, SaveWaitStep, SaveInputStep
  <2>2. CASE LoseRace(k) \/ CommitTurn(k) \/ GiveUp(k)
    BY <2>2, EndingStep
  <2>3. CASE Start(k)
    BY <2>3, SaveIntakeStep, CreateProjectStep, BindProjectStep, ShowCreatedStep, EndingStep
       DEF Start
  <2>4. CASE Advance(k)
    BY <2>4, BeginAdvanceStep, RefuseAdvanceStep, FinishAdvanceStep, FailAdvanceStep,
       InspectAfterErrorStep, PresentDiffStep DEF Advance
  <2>5. QED BY <1>3, <2>1, <2>2, <2>3, <2>4 DEF Proceed
<1>4. CASE Crash
  BY <1>4, CrashStep
<1>5. QED BY <1>1, <1>2, <1>3, <1>4 DEF Next

\* Everything known of the binding, the projects and the turns.
THEOREM InductiveInvariant == Spec => []IInv
<1>1. Init => IInv
  BY InitInv
<1>2. IInv /\ [Next]_vars => IInv'
  BY NextStep DEF StepHolds
<1>3. QED BY <1>1, <1>2, PTL DEF Spec

\* Every variable of the controller stays in the values its Go types and the
\* phases of a turn allow.
THEOREM TypeCorrect == Spec => []TypeOK
<1>1. IInv => TypeOK
  BY DEF IInv, TypeOK
<1>2. QED BY <1>1, InductiveInvariant, PTL

\* A reply that asks for something finds the binding awaiting it, unless somebody
\* saved after the turn that asked (SaveIntake, SaveWait and ShowCreated).
THEOREM AskedMeansAwaitedAlways == Spec => []AskedMeansAwaited
<1>1. IInv => AskedMeansAwaited
  <2> SUFFICES ASSUME IInv PROVE AskedMeansAwaited
    OBVIOUS
  <2>1. ASSUME NEW k \in Keys,
               turn[k].phase \in {"committing", "replied"},
               turn[k].reply \in {"ask_requirement", "ask_source"},
               binding.version <= turn[k].bind.version + 1
        PROVE  binding.awaiting = IF turn[k].reply = "ask_source" THEN "source" ELSE "requirement"
    <3>1. SavedLast(turn[k], binding, Wanted(turn[k].reply))
      BY <2>1, TurnFacts DEF TurnInv, AskInv, Asks
    <3>2. turn[k].bind.version + 1 = binding.version
      BY <2>1, <3>1, TurnFacts DEF SavedLast
    <3>3. QED BY <3>1, <3>2 DEF SavedLast, Wanted
  <2>2. QED BY <2>1 DEF AskedMeansAwaited
<1>2. QED BY <1>1, InductiveInvariant, PTL

\* Nothing that was saved into the binding is written away by a turn that read
\* it earlier (CompareAndSave), except by a start_new.
THEOREM InputKeptAlways == Spec => InputKept
<1>1. IInv /\ [Next]_vars => [Keeps(binding, binding') \/ ReplacedOnPurpose]_vars
  BY NextStep DEF StepHolds, InputStep
<1>2. QED BY <1>1, InductiveInvariant, PTL DEF Spec, InputKept

\* A turn asks for no Advance after one was refused, and for no more than
\* MaxOperations.
THEOREM NeverReplaysAlways == Spec => NeverReplays
<1> DEFINE Step == \A k \in Keys :
             turn'[k].begun > turn[k].begun =>
                 /\ ~turn[k].refused
                 /\ turn'[k].begun <= MaxOperations
<1>1. IInv /\ [Next]_vars => [Step]_vars
  BY NextStep DEF StepHolds, ReplayStep
<1>2. QED BY <1>1, InductiveInvariant, PTL DEF Spec, NeverReplays
=============================================================================
