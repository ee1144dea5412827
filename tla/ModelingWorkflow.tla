---------------------------- MODULE ModelingWorkflow ---------------------------
(***************************************************************************)
(* internal/modelingworkflow's Controller behind modelingagent's Runner:   *)
(* the turns of one conversation, its binding file, and the projects it    *)
(* creates through the modeling API.  A conversation resumed under two     *)
(* session keys runs two turns at once; turns of one key are serialised.   *)
(*                                                                         *)
(* One step is one call that another turn can come between: the binding's  *)
(* load, the interpreter's model call, a Show, a compare-and-save, Create, *)
(* the begin and the end of an Advance, the session's save.  Advance       *)
(* itself is the lifecycle ModelingPipeline implements: a begin that is    *)
(* refused, or one that is settled later.  Titles and instructions are     *)
(* there or not; sources are none, usable, or usable but with a digest.    *)
(***************************************************************************)
EXTENDS ModelingProject, Sequences

CONSTANTS
    Keys,           \* session keys the conversation is live under
    SourceStages,   \* stages whose operation requires sources
    Given,          \* the sources a message may give: "plain", "pinned"
    MaxOperations,  \* Config.MaxOperationsPerTurn
    MaxProjects,    \* the project store's limit
    MaxTurns,       \* bound: turns taken
    Faults,         \* which of AllFaults may happen
    NoView          \* the turn has looked at no project

AllFaults == {"crash", "cancel", "model", "io", "session"}

ASSUME WorkflowAssumption ==
    /\ SourceStages \subseteq Stage
    /\ MaxOperations \in Nat /\ MaxOperations >= 1
    /\ MaxProjects \in Nat /\ MaxTurns \in Nat
    /\ Given \subseteq {"plain", "pinned"}
    /\ Faults \subseteq AllFaults

VARIABLES
    binding,    \* the binding file; version 0 is no file
    projects,   \* what the project store holds, by id
    turn,       \* what each key's turn is doing
    turns       \* turns taken so far (bound)

vars == <<binding, projects, turn, turns>>

Awaiting == {"none", "requirement", "source"}
Sources == {"none"} \union Given
ProjectID == 1..MaxProjects
NoID == 0

Binding == [version: Nat, project: ProjectID \union {NoID}, title: BOOLEAN,
            instruction: BOOLEAN, sources: Sources, awaiting: Awaiting]

NoBinding == [version |-> 0, project |-> NoID, title |-> FALSE,
              instruction |-> FALSE, sources |-> "none", awaiting |-> "none"]

(***************************************************************************)
(* Intents: what Dialogue.Interpret may return.  decodeIntent checks the   *)
(* model's JSON against what the binding it was shown awaits.              *)
(***************************************************************************)
Intent == [kind: {"start", "start_new", "continue", "read", "provide"},
           title: BOOLEAN, instruction: BOOLEAN, sources: Sources]

Bare(kind) == [kind |-> kind, title |-> FALSE, instruction |-> FALSE, sources |-> "none"]

\* read stands for inspect, evidence and read_artifact.
ValidIntent(i, awaiting) ==
    \/ i.kind \in {"start", "start_new"}
    \/ i \in {Bare("continue"), Bare("read")}
    \/ /\ i.kind = "provide" /\ awaiting = "requirement"
       /\ i.title \/ i.instruction
       /\ i.sources = "none"
    \/ /\ i.kind = "provide" /\ awaiting = "source"
       /\ ~i.instruction /\ i.sources # "none"

(***************************************************************************)
(* Turns                                                                   *)
(***************************************************************************)
View == [id: ProjectID, at: Project]

Phase == {"idle", "interpreting", "showing", "intake", "creating",
          "binding", "shown", "waiting", "providing", "advancing", "running",
          "inspecting", "presenting", "committing", "replied", "failed"}

Reply == {"none", "question", "ask_requirement", "ask_source", "working",
          "awaiting_apply", "completed", "failed"}

Turn == [phase: Phase,
         bind: Binding,               \* the binding it works with
         view: View \union {NoView},  \* the ProjectView it works with
         intent: Intent,
         begun: Nat,                  \* Advances it asked for
         refused: BOOLEAN,            \* an Advance returned an error (history)
         reply: Reply,
         cancelled: BOOLEAN]

IdleTurn == [phase |-> "idle", bind |-> NoBinding, view |-> NoView,
             intent |-> Bare("read"), begun |-> 0, refused |-> FALSE,
             reply |-> "none", cancelled |-> FALSE]

Fault(f) == f \in Faults
At(k, phase) == turn[k].phase = phase
Resting(k) == turn[k].phase \in {"idle", "replied", "failed"}
Become(k, r) == turn' = [turn EXCEPT ![k] = r]
GoTo(k, phase) == Become(k, [turn[k] EXCEPT !.phase = phase])

\* What a key keeps of a turn that ended, for the properties: its reply and the
\* binding version it saved over.
Ended(r, phase) ==
    [IdleTurn EXCEPT !.phase = phase, !.reply = r.reply,
                     !.bind = [NoBinding EXCEPT !.version = r.bind.version]]

\* The Presenter and resultFromPresentation: a reply the runner has to commit.
Answered(r, reply) == [r EXCEPT !.reply = reply, !.phase = "committing"]

HasProject(b) == b.version > 0 /\ b.project # NoID

\* Mutant of CompareAndSave: the version on disk is not looked at.
SaveBlindly(b, expected) == binding' = [b EXCEPT !.version = binding.version + 1]

\* FileStore.CompareAndSave: under its mutex, only over the version it was read at.
CompareAndSave(b, expected) ==
    /\ binding.version = expected
    /\ binding' = [b EXCEPT !.version = expected + 1]

\* Mutant of Conflict: a lost race is not noticed.
NoConflict(expected) == FALSE

Conflict(expected) == binding.version # expected

(***************************************************************************)
(* Handle's switch over the intent                                         *)
(***************************************************************************)
AwaitsApply(p) == p.status = "blocked" /\ p.lastError = "awaiting_human"

StateFromProject(p) ==
    CASE p.status \in {"pending", "running"} -> "working"
      [] p.status = "done" -> "completed"
      [] AwaitsApply(p) -> "awaiting_apply"
      [] OTHER -> "failed"

NeedsSources(b, p) == p.current \in SourceStages /\ b.sources = "none"

\* continueGuard, and the head of advanceUntilBoundary's loop.
Guarded(r) ==
    LET p == r.view.at
    IN  IF p.status = "done" THEN Answered(r, "completed")
        ELSE IF AwaitsApply(p) THEN [r EXCEPT !.phase = "presenting"]
        ELSE IF p.status = "blocked" THEN Answered(r, "failed")
        ELSE IF NeedsSources(r.bind, p) THEN [r EXCEPT !.phase = "waiting"]
        ELSE [r EXCEPT !.phase = "advancing"]

\* collectStartInput: start_new clears what an earlier project left behind.
Collected(r) ==
    LET base == IF r.intent.kind = "start_new"
                THEN [NoBinding EXCEPT !.version = r.bind.version] ELSE r.bind
    IN  [base EXCEPT !.title = @ \/ r.intent.title,
                     !.instruction = @ \/ r.intent.instruction,
                     !.sources = IF r.intent.sources = "none" THEN @ ELSE r.intent.sources]

Starting(r) ==
    LET next == Collected(r)
    IN  [r EXCEPT !.bind = next,
                  !.phase = IF next.title /\ next.instruction THEN "creating" ELSE "intake"]

\* provideInput on a bound project; there it is only ever a source that is awaited.
Provided(r) ==
    [r EXCEPT !.bind.title = @ \/ r.intent.title,
              !.bind.instruction = @ \/ r.intent.instruction,
              !.bind.sources = IF r.intent.sources = "none" THEN @ ELSE r.intent.sources,
              !.bind.awaiting = "none",
              !.phase = "providing"]

Decision(r) ==
    IF r.intent.kind = "start_new" \/ (~HasProject(r.bind) /\ r.intent.kind \in {"start", "provide"})
    THEN Starting(r)
    ELSE IF ~HasProject(r.bind) \/ r.intent.kind = "start" THEN Answered(r, "question")
    ELSE IF r.intent.kind = "read" THEN Answered(r, StateFromProject(r.view.at))
    ELSE IF r.intent.kind = "continue" THEN Guarded(r)
    ELSE Provided(r)

(***************************************************************************)
(* Handle, up to its switch                                                *)
(***************************************************************************)
Receive(k) ==
    /\ Resting(k) /\ turns < MaxTurns
    /\ Become(k, [IdleTurn EXCEPT !.phase = "interpreting", !.bind = binding])
    /\ turns' = turns + 1
    /\ UNCHANGED <<binding, projects>>

Interpret(k) ==
    /\ At(k, "interpreting")
    /\ \E i \in Intent :
         /\ ValidIntent(i, turn[k].bind.awaiting)
         /\ LET r == [turn[k] EXCEPT !.intent = i]
            IN  Become(k, IF HasProject(r.bind) /\ i.kind # "start_new"
                          THEN [r EXCEPT !.phase = "showing"] ELSE Decision(r))
    /\ UNCHANGED <<binding, projects, turns>>

Look(id) == [id |-> id, at |-> projects[id]]

\* The project is fresh; the binding is the one loaded before the model call.
ShowBound(k) ==
    /\ At(k, "showing")
    /\ Become(k, Decision([turn[k] EXCEPT !.view = Look(turn[k].bind.project)]))
    /\ UNCHANGED <<binding, projects, turns>>

(***************************************************************************)
(* start                                                                   *)
(***************************************************************************)
SaveIntake(k) ==
    /\ At(k, "intake")
    /\ CompareAndSave([turn[k].bind EXCEPT !.awaiting = "requirement"], turn[k].bind.version)
    /\ Become(k, Answered(turn[k], "ask_requirement"))
    /\ UNCHANGED <<projects, turns>>

\* Create commits the project before the binding knows of it.
CreateProject(k) ==
    /\ At(k, "creating") /\ Len(projects) < MaxProjects
    /\ projects' = Append(projects, NewProject)
    /\ Become(k, [turn[k] EXCEPT
            !.bind.project = Len(projects) + 1,
            !.bind.awaiting = IF NeedsSources(turn[k].bind, NewProject) THEN "source" ELSE "none",
            !.phase = "binding"])
    /\ UNCHANGED <<binding, turns>>

\* FileProjectStore.Create at its limit.
CreateRefused(k) ==
    /\ At(k, "creating") /\ Len(projects) >= MaxProjects
    /\ Become(k, Ended(turn[k], "failed"))
    /\ UNCHANGED <<binding, projects, turns>>

BindProject(k) ==
    /\ At(k, "binding")
    /\ CompareAndSave(turn[k].bind, turn[k].bind.version)
    /\ GoTo(k, "shown")
    /\ UNCHANGED <<projects, turns>>

\* Nobody else advances a project before the binding names it; by now they may.
ShowCreated(k) ==
    /\ At(k, "shown")
    /\ LET view == Look(turn[k].bind.project)
           asked == IF turn[k].bind.awaiting = "source" THEN "ask_source"
                    ELSE StateFromProject(view.at)
       IN  Become(k, Answered([turn[k] EXCEPT !.view = view], asked))
    /\ UNCHANGED <<binding, projects, turns>>

(***************************************************************************)
(* provideInput and the saved wait                                         *)
(***************************************************************************)
\* Mutant of SaveWait: the question is asked and the wait is not recorded.
AskWithoutSaving(k) ==
    /\ At(k, "waiting")
    /\ Become(k, Answered(turn[k], "ask_source"))
    /\ UNCHANGED <<binding, projects, turns>>

SaveWait(k) ==
    /\ At(k, "waiting")
    /\ CompareAndSave([turn[k].bind EXCEPT !.awaiting = "source"], turn[k].bind.version)
    /\ Become(k, Answered(turn[k], "ask_source"))
    /\ UNCHANGED <<projects, turns>>

SaveInput(k) ==
    /\ At(k, "providing")
    /\ CompareAndSave(turn[k].bind, turn[k].bind.version)
    /\ Become(k, Guarded([turn[k] EXCEPT !.bind = binding']))
    /\ UNCHANGED <<projects, turns>>

LoseRace(k) ==
    /\ turn[k].phase \in {"intake", "binding", "waiting", "providing"}
    /\ Conflict(turn[k].bind.version)
    /\ Become(k, Ended(turn[k], "failed"))
    /\ UNCHANGED <<binding, projects, turns>>

(***************************************************************************)
(* advanceUntilBoundary.  The view's revision is sent as ExpectedRevision; *)
(* the engine adapter does not pass it on, so Advance judges the project   *)
(* it finds.  A source with a digest is refused by the adapter.            *)
(***************************************************************************)
Stored(k) == projects[turn[k].view.id]

Pinned(b) == b.sources = "pinned"

\* Mutant of Asked: the operations left are counted, from zero.
AskedDown(k) == [turn[k] EXCEPT !.begun = @ - 1]

Asked(k) == [turn[k] EXCEPT !.begun = @ + 1]

BeginAdvance(k) ==
    LET op == turn[k].view.at.current
    IN  /\ At(k, "advancing") /\ ~turn[k].cancelled
        /\ ~Pinned(turn[k].bind)
        /\ CanAdvance(Stored(k), op)
        /\ projects' = [projects EXCEPT ![turn[k].view.id] = Bump(Begin(@, op))]
        /\ Become(k, [Asked(k) EXCEPT !.phase = "running"])
        /\ UNCHANGED <<binding, turns>>

RefuseAdvance(k) ==
    /\ At(k, "advancing") /\ ~turn[k].cancelled
    /\ Pinned(turn[k].bind) \/ ~CanAdvance(Stored(k), turn[k].view.at.current)
    /\ Become(k, [Asked(k) EXCEPT !.refused = TRUE, !.phase = "inspecting"])
    /\ UNCHANGED <<binding, projects, turns>>

\* What a run records: emit always waits for a human.
Output(s) == {r \in RefsOf(s) : r.kind = "output"}

Succeeded(p) ==
    Bump(IF p.current = StageEmit
         THEN Hold(p, p.current, Output(p.current), InputsBefore(p, p.current))
         ELSE Complete(p, p.current, Output(p.current), InputsBefore(p, p.current)))

Failed(p) == Bump(FailWith(p, p.current, {}))

\* The end of the loop's body: a block ends the turn, the limit ends the turn.
Onward(r) ==
    IF r.view.at.status # "blocked" /\ r.begun >= MaxOperations
    THEN Answered(r, "working") ELSE Guarded(r)

FinishAdvance(k) ==
    LET id == turn[k].view.id
        p == Succeeded(projects[id])
    IN  /\ At(k, "running") /\ ~turn[k].cancelled
        /\ projects' = [projects EXCEPT ![id] = p]
        /\ Become(k, Onward([turn[k] EXCEPT !.view = [id |-> id, at |-> p]]))
        /\ UNCHANGED <<binding, turns>>

\* The stage fails or is cancelled; fail() saves the block on a ctx of its own.
FailAdvance(k) ==
    /\ At(k, "running")
    /\ \/ projects' = [projects EXCEPT ![turn[k].view.id] = Failed(@)]
       \/ Fault("io") /\ UNCHANGED projects
    /\ Become(k, IF turn[k].cancelled THEN Ended(turn[k], "failed")
                 ELSE [turn[k] EXCEPT !.refused = TRUE, !.phase = "inspecting"])
    /\ UNCHANGED <<binding, turns>>

\* Mutant of Inspected: a project that is not blocked is advanced once more.
InspectedAgain(r, p) ==
    CASE AwaitsApply(p) -> [r EXCEPT !.view.at = p, !.phase = "presenting"]
      [] p.status = "blocked" /\ ~AwaitsApply(p) -> Answered([r EXCEPT !.view.at = p], "failed")
      [] OTHER -> [r EXCEPT !.view.at = p, !.phase = "advancing"]

\* "Re-inspect once, but never replay Advance inside this turn."
Inspected(r, p) ==
    IF p.revision > r.view.at.revision /\ p.status = "blocked"
    THEN IF AwaitsApply(p) THEN [r EXCEPT !.view.at = p, !.phase = "presenting"]
         ELSE Answered([r EXCEPT !.view.at = p], "failed")
    ELSE Ended(r, "failed")

InspectAfterError(k) ==
    /\ At(k, "inspecting")
    /\ Become(k, Inspected(turn[k], Stored(k)))
    /\ UNCHANGED <<binding, projects, turns>>

\* awaitingApplyPresentation: the one diff of the view is read from the project
\* as it is now.
PresentDiff(k) ==
    /\ At(k, "presenting")
    /\ Become(k, IF OutputIn(turn[k].view.at.artifacts[StageEmit]) \subseteq AllRefs(Stored(k))
                 THEN Answered(turn[k], "awaiting_apply") ELSE Ended(turn[k], "failed"))
    /\ UNCHANGED <<binding, projects, turns>>

(***************************************************************************)
(* The runner's commit, and the ways out of a turn                         *)
(***************************************************************************)
CommitTurn(k) ==
    /\ At(k, "committing") /\ ~turn[k].cancelled
    /\ Become(k, Ended(turn[k], "replied"))
    /\ UNCHANGED <<binding, projects, turns>>

\* A call on a ctx that is done returns an error; what was committed stays.
GiveUp(k) ==
    /\ ~At(k, "running") /\ ~Resting(k)
    /\ turn[k].cancelled
    /\ Become(k, Ended(turn[k], "failed"))
    /\ UNCHANGED <<binding, projects, turns>>

\* A call fails: the model's, the session's save, or one that works on a file.
Failing(k) ==
    \/ At(k, "interpreting") /\ Fault("model")
    \/ At(k, "committing") /\ Fault("session")
    \/ ~At(k, "interpreting") /\ ~At(k, "committing") /\ Fault("io")

CallFails(k) ==
    /\ ~At(k, "running") /\ ~Resting(k)
    /\ Failing(k)
    /\ Become(k, Ended(turn[k], "failed"))
    /\ UNCHANGED <<binding, projects, turns>>

Cancel(k) ==
    /\ Fault("cancel") /\ ~Resting(k) /\ ~turn[k].cancelled
    /\ Become(k, [turn[k] EXCEPT !.cancelled = TRUE])
    /\ UNCHANGED <<binding, projects, turns>>

\* The process dies: files stay, and a project that was running stays running.
Crash ==
    /\ Fault("crash")
    /\ \E k \in Keys : ~Resting(k)
    /\ turn' = [k \in Keys |-> IdleTurn]
    /\ UNCHANGED <<binding, projects, turns>>

(***************************************************************************)
(* Specification                                                           *)
(***************************************************************************)
Init ==
    /\ binding = NoBinding
    /\ projects = <<>>
    /\ turn = [k \in Keys |-> IdleTurn]
    /\ turns = 0

Start(k) ==
    \/ SaveIntake(k) \/ CreateProject(k) \/ CreateRefused(k)
    \/ BindProject(k) \/ ShowCreated(k)

Advance(k) ==
    \/ BeginAdvance(k) \/ RefuseAdvance(k) \/ FinishAdvance(k) \/ FailAdvance(k)
    \/ InspectAfterError(k) \/ PresentDiff(k)

Proceed(k) ==
    \/ Interpret(k) \/ ShowBound(k)
    \/ Start(k) \/ SaveWait(k) \/ SaveInput(k) \/ LoseRace(k)
    \/ Advance(k) \/ CommitTurn(k) \/ GiveUp(k)

Next ==
    \/ \E k \in Keys : Receive(k) \/ Proceed(k) \/ CallFails(k) \/ Cancel(k)
    \/ Crash

Spec == Init /\ [][Next]_vars

\* A turn's goroutine is scheduled, and the model call and the stage are bounded
\* by timeouts.  Nobody is obliged to send another message.
Fairness == \A k \in Keys : WF_vars(Proceed(k))

FairSpec == Spec /\ Fairness

(***************************************************************************)
(* Properties                                                              *)
(***************************************************************************)

\* Every variable stays in the values the Go types and the phases allow.
TypeOK ==
    /\ binding \in Binding
    /\ projects \in Seq(Project) /\ Len(projects) <= MaxProjects
    /\ turn \in [Keys -> Turn]
    /\ turns \in Nat

\* CompareAndSave: what a turn told the user it had taken (a title, an
\* instruction, sources, a project) is not written away by another turn that
\* read the binding earlier; only start_new clears it.
Keeps(old, new) ==
    /\ old.title => new.title
    /\ old.instruction => new.instruction
    /\ old.sources # "none" => new.sources # "none"
    /\ old.project # NoID => new.project = old.project

ReplacedOnPurpose ==
    \E k \in Keys :
        /\ turn[k].phase \in {"intake", "binding"}
        /\ turn[k].phase # turn'[k].phase
        /\ turn[k].intent.kind = "start_new"

InputKept == [][Keeps(binding, binding') \/ ReplacedOnPurpose]_vars

\* "Trusted workflow state": when a reply asks for sources or a requirement, the
\* binding awaits exactly that, or somebody saved the binding after the turn
\* did.  Otherwise decodeIntent refuses the user's answer.
AskedMeansAwaited ==
    \A k \in Keys :
        /\ turn[k].phase \in {"committing", "replied"}
        /\ turn[k].reply \in {"ask_requirement", "ask_source"}
        /\ binding.version <= turn[k].bind.version + 1
        => binding.awaiting = IF turn[k].reply = "ask_source" THEN "source" ELSE "requirement"

\* "Never replay Advance inside this turn", and never past the operation limit.
NeverReplays ==
    [][\A k \in Keys :
        turn'[k].begun > turn[k].begun =>
            /\ ~turn[k].refused
            /\ turn'[k].begun <= MaxOperations]_vars

\* A turn that was accepted ends in a reply or an error, whatever the other
\* turn does to the binding and the project meanwhile.
TurnEnds == \A k \in Keys : ~Resting(k) ~> Resting(k)

=============================================================================
