# A TLA+ model of qemu-agent

qemu-agent turns peripheral documentation into reviewable QEMU device models. A
conversation is bound to one modeling project, and the project is advanced through a
fixed pipeline of stages (plan, extract, infer, emit, verify), each of which leaves
content-addressed artifacts behind. Around the pipeline there are a chat
agent with tools, sessions, long-term memory, and two channels (a terminal and
Telegram). This directory holds TLA+ modules that model the program, TLC configurations that check them on small instances, and proofs for every
instance. Paths below are relative to `src/internal/`.

## 1. The system

| part | state it keeps | operations |
|---|---|---|
| project values (`modeling/type.go`) | none: a `Project` is a value | CanAdvance, Begin, Complete, Hold, FailWith, Applied, ApplyFailed, Reset, CanReplaceFrom, Validate |
| project store (`modeling/store.go`) | one JSON file per project, an index in memory behind one lock | Create, Get, List, Save (compare revision, write temp file, rename, update index), Delete, load at startup |
| artifact store (`modeling/artifacts.go`) | staging directories, committed files `<stage>/<id>-<name>`, `manifest.jsonl`; no lock | Stage (validate, measure, write), Commit (rename, append, clean), Discard, Open |
| pipeline (`modeling/pipeline.go`) | none of its own | Advance, Reset, Create, Show, List, Read |
| stages (`modeling/stage*.go`, `regir.go`, `renderer*.go`) | none | Run: earlier artifacts in; artifacts, evidence, blocked or an error out |
| applier (`modeling/applier.go`) | the QEMU tree | Plan, Apply (audited writes, plan as evidence, Applied or ApplyFailed) |
| workflow (`modelingworkflow/`) | a binding file per conversation with a version | Handle: interpret, then start, continue, provide input, inspect, read |
| agent runner (`modelingagent/`) | none: works on a clone of the session | Run: workflow, save the clone, replace the live session |
| API, service, engine adapter (`modelingapi/`, `modelingapp/`, `pipelineapi/`, `adapter/`) | none | validation and conversion between layers; paging; artifact lookup |
| sessions (`session/`) | a live session per key, one file per session id | WithSession, New, Resume, Reset, Update |
| run events (`runstream/`) | a sequence number per run | Emit |
| memory (`memory/`, `app/commands_knowledge.go`) | memories and pending candidates, files and indexes | Save, Delete, Touch, Add, Resolve, approve, reject, lazy expiry |
| tools (`tools/`) | the audit file | Execute: policy, approval, audit, run, audit |
| channels (`channel/`, `app/runtime.go`) | Telegram's poll offset, worker slots | poll, handle, finish; supervise |

Interactions. A channel hands a request to `Application.Handle`, which takes the
session lock of its key and calls the runner. The runner calls the workflow
controller; the controller reads the binding, asks a model for the intent, and calls
the modeling service; the service calls the engine adapter, which calls
`Pipeline.Advance`. The pipeline is the only writer of projects besides the applier.
Progress events flow back through the run's emitter and may be lost. All of these run
on the caller's goroutine and `context`; nothing serialises two conversations of one
user, or a Reset and a running stage, except the revision check of `Save`.

What is hard here, by component:

- *pipeline and stores*: two goroutines on one project; a caller that gives up
  between any two steps; a crash between any two file operations; a batch that is
  written, committed or discarded only in part; a budget that is measured and used at
  different times. Correct means: no reference without a file, one owner per run,
  nothing recorded that was made from superseded inputs, every failure recorded,
  nothing left behind.
- *applier*: files land one by one in a tree that others edit, before the project
  knows, and there is no rollback. Correct means: a repeated or concurrent apply
  appends nothing twice, a project past emit has its files in the tree, an outcome is
  recorded even for a caller that left, and the report says what is on disk.
- *stages*: the contents of artifacts. What a model replies is merged into what was
  extracted; stages find their inputs among what redos left behind; a verdict is read
  out of a command's output. Correct means: stored maps are sound, facts are not
  rewritten, code and questions say the same, a pass was earned.
- *workflow, runner*: files (project, binding, session, artifacts) committed one after
  the other without a transaction, and decisions taken on a binding read before a slow
  model call. Correct means: what the user gave is not written away, a question is asked
  only when its answer will be taken, no Advance is repeated, and a turn ends.
- *sessions*: one live copy per key, one file per id, a mutex per key. Correct means: a
  key answers from what is on disk, nothing replaces the session of a run, what was
  answered is not lost, and a failed request does not lock its chat out.
- *memory*: two stores changed one after the other, at their limits. Correct means: an
  approved proposal is a stored memory, a restart finds what was kept and forgets what
  was forgotten.
- *agent and tools*: partners that fail at any point of a run. Correct means: a tool runs
  only when authorized on record, the user is told what became of the session, nothing
  transient is stored.
- *channels*: offsets, slots, shutdown. Correct means: no message confirmed that was not
  taken, one answer each, nobody running after Run returned, and the poller keeps up.

## 2. Modules

| module | what it models |
|---|---|
| `ModelingProject` | the value layer: a project record and type.go's transitions as functions |
| `ProjectLifecycle` | abstract specification: one project moving by whole transitions, one growing set of published artifacts |
| `ModelingPipeline` | the detailed specification: Pipeline over FileProjectStore and FileArtifactStore, for one project |
| `ModelingApplier` | the detailed specification of FileApplier: Plan and Apply over a source tree, for one project |
| `ModelingStages` | the five stages over one project with the contents of their artifacts |
| `ModelingWorkflow` | Controller behind Runner: turns, the binding file, the projects of a conversation |
| `Sessions` | Registry over FileStore, with the operations of Application and the slash commands |
| `ConversationHistory` | the transcript as messages, its conversion to a History, its compaction |
| `AgentRun` | Agent.Run with its tool executor, event stream and commit, over `ConversationHistory` |
| `MemoryApproval` | FileStore of memories, CandidateStore of proposals, and approval across both |
| `Channels` | Runtime.Run, the CLI's loop, the Telegram poller and its workers |
| `MC<module>` | instances for TLC |
| `<module>Proofs` | the theorems and the lemmas they rest on |

How they compose. `ModelingPipeline` and `ModelingApplier` each implement
`ProjectLifecycle` (checked and proved). `ModelingWorkflow` uses the same record
(`ModelingProject`) and takes an Advance as the lifecycle has it: a begin that is
refused, or one that is settled later; what happens in between is
`ModelingPipeline`. `Channels` takes a handler as an outcome, `Sessions` takes a run as
a commit or a failure, `AgentRun` says what such a run does, and `ConversationHistory`
what its compaction does to the transcript.

### ModelingProject

`Project` has the fields that decide a transition: current stage, status, references
by stage, evidence, last error, revision. A stage is its position in `StageOrder`, so
`NumStages` is a parameter; verify is the last stage and emit the one before. Output
kinds (plan, regir, code, diff) are one kind, because the transitions tell only
evidence apart. Names and digests are one identifier: content addressing makes them
agree. Error texts are categories. One field is not in the program: `madeFrom`, the
references a recorded batch was computed from. It is a history variable, set where
references are recorded and cleared with them, and no guard reads it.

`clearAfter` returns early for a project whose artifact map is nil, before it drops
`Evidence`; a project that holds evidence and no reference at all only arises from
Reset(verify) of a project reset before, so this return is not modelled.

### ModelingPipeline

| variable | the code's state |
|---|---|
| `disk`, `index` | the project's JSON file and `byID[id]`; `index = NoProject` while the process is down |
| `files`, `staging`, `manifest` | the three areas below `<root>/artifacts/<id>` |
| `worker` | for each goroutine: the step of Advance or Reset it is at, its working copy, its batch, what is left of it, whether it is inside `fail`, whether its ctx is done |
| `crashes` | counts process deaths, for the bound and for the properties |

One action is what happens between two points at which another goroutine or a crash
can intervene. A Save is one action, because it holds the lock; staging a batch is a
measurement and one write per draft; committing is one rename per file, the manifest
append and the cleanup. Advance's numbered steps map as follows: 1-2 `Load`, 3
`SaveBegin`, 4-6 `StageReturns` / `StageFails`, 7 the `failing` flag with `Artifacts`
and `SaveFailure`, 8 `StageRejected`, `StageMeasured`, `WriteDraft`, `WriteFails`, 9
`CommitFile`, `AppendManifest`, `CleanStaging`, `CommitFails`, `Discard`, 10-11
`SaveResult`. Reset is `ResetGet` and `ResetSave`. The environment is `Cancel`, `Crash`
(a Save may have renamed its file and not reached the index) and `Restart`.

A stage's answer is arbitrary: any batch up to `MaxBatch`, blocked or not, or an error
with any evidence. That covers the real stages, a timeout (step 4 turns it into an
error) and a panic-free bug in one of them. `CtxDone` says which context a step uses:
`fail` runs on `context.WithoutCancel`, everything else on the caller's.

Definitions named in a comment "Mutant of X" are faulty variants of X. They are used
by no specification; each one breaks a property when it takes X's place.

### ProjectLifecycle

What callers may rely on: `BeginStage`, `Settle` (Complete, Hold or FailWith on the very
record Begin stored, referring only to published artifacts), `ResetStage`, `Publish`, and
`Land` (Applied or ApplyFailed with published evidence of the stage).
`ModelingPipeline` implements it with `project <- disk, published <- files`;
`ModelingApplier` implements it with its variables of the same names, and takes the
pipeline's part of it as its environment.

### ModelingApplier

| variable | the code's state |
|---|---|
| `project`, `published` | what FileProjectStore holds; the artifacts that can be opened |
| `tree` | the files below QemuRoot that the manifest names |
| `applier` | for each goroutine: where it is in Plan or Apply, the project it planned from, the plan's base digests (`seen`), the pending writes (`bytes`), and the ApplyResult |
| `edits` | history: how often people changed each file |

The manifest is `1..NumFiles` in the order Render returns: the device source, which
must not exist, then build files, which must. A file's content is the version of the
part people wrote and how many copies of each generation's fragment it holds, which is
what the properties ask; digests are equality of contents. All files of one emit run
come from one register IR, so one id names them.

Plan reads one file per step (`PlanStarts`, `PlanFile`, `PlanEnds`), prepare reads each
again and fixes the bytes of its write (`PrepareFile`, `PrepareRefuses`), the loop makes
one audited tool call per file, and the receipt (`CommitPlan`) comes before the state
(`RecordLanding`). A tool call has four outcomes: the file is written; nothing is
(denied, canceled, the "authorized" line failed: `ToolRefuses`); it is written but the
"completed" line is not (`ToolWritesUnaudited`); os.WriteFile has truncated it and
failed (`ToolTruncates`; a crash inside it is part of `Crash`). What a failed write
leaves is the empty prefix; longer ones tell no property more. Plan is an Apply that
ends in `PlanEnds`, so the two are not told apart.

The environment: `PipelineStep` (Begin, Settle, Reset by another caller),
`PipelinePublishes`, `PersonEdits`, `PersonRemoves`, `Cancel`, `Crash`.
`EmitAwaitsApply` restricts the pipeline to what emit does without auto-apply, which is
to end Blocked with one file set, and leaves out a Reset to a later stage: type.go:468
says Reset "rewinds", but it accepts any stage, and then the project is past emit
without an emit. With auto-apply, emit completes and the project is
past emit with nothing landed; nothing in the code then applies. Paths, symlinks and
size limits refuse a plan and are covered by its refusals. The production entry point
does not construct a FileApplier.

### ModelingStages

| variable | the code's state |
|---|---|
| `current`, `status`, `lastError` | the project's fields of these names; a run is one step, so never "running" |
| `artifacts` | `Project.Artifacts`, with the contents: per stage, the drafts in the order filed |
| `ran` | history: what the commands of the verify run whose report is on file did |

`RunPlan` to `RunVerify` each are one `Stage.Run` followed by what Advance records
(`Complete`, `Hold`, `FailWith`). `Validate` is RegIR.Validate, which sorts by start and
compares neighbours (`Disjoint`); `MergeRegister`, `MergeCandidate` and `MergeInferred`
are stage_infer.go's no-rewrite merge; `FindStageArtifact` is the lookup by kind, latest
first; `Render` keeps of the C file which reset values it marks TODO; `ExitCode` reads
the last marker of a command's output. `SoundMap` states what `Validate` has to
guarantee without sorting, so it is a reference definition of the algorithm. A register
map has names, byte ranges, access, reset value, fields and interrupts. `Half` stands for
2^63: sums and differences wrap as the code's do (`Plus`, `Minus`, `SignedPlus`).

The wrapping shows in two places. `mmioSize - size` wraps when a register is wider than
the whole window (regir.go:231, whose comment has the subtraction there "so a huge
offset cannot wrap around"): such a register passes at nearly any offset, and two of them
at the end of the address space may coincide, since the end of the first wraps. And
`field.Bit + field.Width` is a signed sum (regir.go:261): a field at the very end of int
passes for one inside its register. `SoundMap` exempts registers wider than the window;
without that TLC finds two at one offset. A third disagreement is in verify: the
comment at stage_verify.go:241 says that text a command prints "must not be able to fake
a success", but the bash tool keeps the head of an output that is too long
(bash.go:60), so that the last marker left may be one the command printed. `Passed`
exempts that case; without it TLC finds a report of ok after a build that exited 1.

### ModelingWorkflow

| variable | the code's state |
|---|---|
| `binding` | the binding file: version, project, collected title, instruction and sources, what is awaited |
| `projects` | the projects the store holds for this conversation, in order of creation |
| `turn` | per session key: where its Handle is, its copy of the binding, the intent, the view it last saw, its counts of operations |

A turn is `Receive` (Runner.Run calls Handle, which loads the binding), `Interpret` (the
model's intent, checked against the binding: `ValidIntent`), `ShowBound`, then what
`Decision` says: collect and ask (`SaveIntake`), create and bind (`CreateProject`,
`BindProject`, `ShowCreated`), provide input (`SaveInput`), or the advance loop
(`BeginAdvance`, `FinishAdvance`, `FailAdvance`, `InspectAfterError`, `SaveWait`), and
at the end `CommitTurn` (the session's save). Every write of the binding goes through
`CompareAndSave`; `LoseRace` is its conflict and `CallFails` any error, refusal or
cancellation of the call at hand. Two keys stand for one conversation resumed under two
session keys, which is the only way two of its turns overlap.

### Sessions

| variable | the code's state |
|---|---|
| `saved`, `disk` | the session files and what they hold |
| `live` | the session of each key's entry |
| `holder` | who holds the mutex of a key's entry |
| `request` | per goroutine: operation, phase, the clone a run works on |
| `kept`, `shared` | history: exchanges that were answered; ids live under two keys at once |

`Receive` is a request, `Enter` the mutex, and the rest one action per operation:
`CreateSession`, `CommitRun`, `RunFails`, `Resume`, `ResumeRefused`, `Reset`, `Compact`,
`CompactFails`, `SaveFails`. A run holds its key's mutex from clone to commit.

### ConversationHistory and AgentRun

`ConversationHistory` has the messages of a transcript and `ConvertIntoHistory` as the
code has it: one loop whose cases also advance the index (`Consume`), over slices that
share arrays (`Append1`). The generic loop of `agent` is what modelingagent's runner
replaces in the production build; the executor, the event stream and the session's
commit it uses are the ones every runner uses. `EnforceBudget` is any of: leave the transcript, compact it,
fail, because token counts are left open.

| variable of `AgentRun` | the code's state |
|---|---|
| `live`, `saved` | the registry's transcript and its file |
| `run` | Run's locals: phase, turn, calls still to do, working copy, transient projections, and whether the commit went through |
| `cancelled` | the request's context |
| `sink` | the renderer: started, ended, refused an event, lost one, what the user was told |
| `log`, `ran`, `approved` | audit entries of this run; history of what ran and what was approved |

`Start` is Run's beginning, `BeginTurn`/`Answer` runWorking's loop, `BeginCall`,
`Approve`, `Authorize`, `ToolReturns` are Executor.Execute, `EndCall` appends the result,
`Commit` replaces transient payloads and saves, `Close` and `Fail` end the stream.
`Emitted` gives the outcomes of an event: delivered, refused because it is out of place,
or failed, with or without its effect on the sink. A call may end in `BeginCall`
without an audit entry: no tool of that name, arguments the policy cannot read, a cancel
in between. Text streamed before tool calls changes nothing in the sink and is part
of `Answer`.

### MemoryApproval

| variable | the code's state |
|---|---|
| `files`, `index`, `content` | memory files, FileStore's index, and what each id was given |
| `queue`, `saved`, `due` | CandidateStore's index, its files, and the proposals past ExpiresAt |
| `request` | the approvals under way |

`Remember`, `Forget`, `Propose`, `Reject`, `Review` are single store calls under a mutex;
an approval is `BeginApprove` (look it up, expire what is due), `SaveApproved` or
`SaveFails`, `ResolveApproved`. `Swept` is expireLocked, in which any of the due
proposals may fail to be written. `Fingerprint` is the duplicate check.

### Channels

| variable | the code's state |
|---|---|
| `signalled`, `runtime` | main's context; Run's child context, collected results, whether it returned and closed |
| `cli`, `poller` | where each channel's Run is; the poll offset, the batch, failures |
| `worker` | per update: its goroutine, what was rendered and sent |
| `server`, `taken`, `crashes` | Telegram's queue and confirmed offset; history; bound |

`Poll` confirms what is below the offset and gets the next batch; `PollFails` loses the
request or, after the offset was confirmed, the response; `Skip` and `Dispatch` go
through the batch; `Prompt`, `ReadLine` and `HandleLine` are the CLI, each with its own
failing returns (`TerminalFails` for the terminal's, any error or panic of a request); `HandlerEnds`, `FinishSink` and `Send` are a worker; `Collect`,
`RunReturns`, `Close` are Runtime; `Restart` is a crash and a new process. Durations are
left out: a timer may fire at any time.

## 3. Runs

`CHECK_DEADLOCK FALSE` everywhere: nobody has to call, type or write, and calls stop at
the bounds.

| run | instance | shows |
|---|---|---|
| `pipeline_concurrent` | 2 goroutines, 2 stages, batch 1, cancellations, one crash, failed artifact writes | `TypeOK`; `ReferencedFilesExist`; `SingleOwner`; `FailureIsRecorded`; `ImplementsLifecycle` |
| `pipeline_batch` | 1 goroutine, 3 stages, 2 artifact ids, batch 2, all faults | `ManifestDescribesFiles`; `OutputFromRecordedInputs`; `IndexIsDisk`; `BudgetHolds` |
| `pipeline_settles` | 2 goroutines, artifact write failures, fairness | `RunSettles`; `RunningMeansOwnedOrCrashed` |
| `applier_concurrent` | 2 appliers, 2 files, cancel, failed audits and receipts, one edit | `AppendedOnce`; `ApplyIsRecorded` |
| `applier_redo` | 1 applier, 2 generations, 2 files, all faults, one edit or removal | `TypeOK`; `PastEmitMeansLanded`; `ReferencesArePublished`; `ImplementsLifecycle` |
| `device_stages` | maps of up to 2 registers in windows of 4 bytes and 1, 7 runs or Resets | `SoundMap`; `InferKeepsTheMap`; `CodeSaysUnknown`; `VerdictIsEarned` |
| `workflow_turns` | 2 keys, 3 stages of which one needs sources, 2 projects, 2 operations a turn, 3 turns, cancel, crash, failing calls, fairness | `TypeOK`; `AskedMeansAwaited`; `InputKept`; `NeverReplays`; `TurnEnds` |
| `sessions_requests` | 2 goroutines, 2 keys, 4 requests, all faults, fairness | `TypeOK`; `LiveIsSaved`; `RunSeesItsSession`; `ExchangesAreKept`; `RequestEnds` |
| `agent_runs` | 3 runs of 2 turns, 3 calls (transient, asked about, denied), responses of one or two calls, all faults | `StreamTellsTheSession`; `ToolsAreAuthorized`; `OnlyReceiptsAreKept` |
| `memory_approval` | 2 users and the CLI, 3 texts of which two fold together, limits of 2, 3 memory ids, 2 proposals, 2 approvals at once, all faults | `ReopensTheSame`; `ApprovedIsStored` |
| `channels_supervised` | both channels, 3 updates of which one is unwanted, 1 worker slot, 1 crash, all faults, fairness | `ReturnedMeansQuiet`; `ConfirmedMeansTaken`; `AnsweredOnce`; `KeepsUp` |
| `history_keeps_messages` | 2 runs without faults | violated: a transcript is not what `Messages` gives back |

`history_keeps_messages` checks history.go:50, "ConvertIntoHistory change msg array into
history". The cases of system and user messages advance the index a second time
(history.go:66), so the next message is passed over, and an assistant message with tool
calls always ends the conversion in an error. A compaction then loses messages, and with
the default KeepRecent it needs twice the turns.

### Disagreements kept beside the runs

Seven more configurations check one sentence each and are violated. They are kept for a
reader who wants the trace (`tlc -config X.cfg MCModelingPipeline` or
`MCModelingApplier`); they are not among the runs above.

| cfg | property, sentence | what happens |
|---|---|---|
| `MCPipelineRedo` | `RedoLegalAfterCrash`, pipeline.go:24 "a redo of the current stage is always legal" | CanAdvance refuses a project that is running; only Reset helps, and modelingapp does not offer it |
| `MCPipelineCancel` | `RunningMeansOwnedOrCrashed`, pipeline.go:398 a canceled advance must not leave the project running | the final Save uses the canceled ctx and its error skips `fail` |
| `MCPipelineLeak` | `StagingBelongsToRuns`, pipeline.go:309 a rejected batch is discarded | `Discard` gets the canceled ctx and returns at once |
| `MCPipelineBudget` | `BudgetHolds`, artifacts.go:205 "the limit cannot be exceeded" | two runs measure, then both write; the second run exists because a Reset freed the project |
| `MCPipelineEvidence` | `EvidenceBackedByVerify`, type.go:468 Reset "drops that stage's artifacts" | Reset(verify) keeps `Evidence` |
| `MCApplierReport` | `ReportIsExact`, apply.go:61 "Written and Skipped are exact" | the tool wrote the file, its audit line was refused for a canceled ctx, the loop calls the file skipped |
| `MCApplierEdits` | `FailedApplyKeepsEdits`, apply.go:43 "a failed apply can never destroy code the agent did not write" | the bytes were fixed in prepare; an edit before the write is overwritten, then a later file is refused |

Met while modelling, part of what the modules do, and stated by no property:

- *pipeline, applier*: ApplyFailed moves back to emit and keeps verify's references and
  evidence (type.go:422); two applies of different generations leave a mixture
  (applier.go:255); after an operator removes the source file, as the refusal at
  applier.go:207 advises, an apply appends a second time. AutoApply never applies and
  the production build makes no Applier (app/build/build_modeling.go:77); a Reset forward to
  verify skips the landing.
- *stages*: the check against the window computes `mmioSize-size` and wraps when the
  window is smaller than a register, so that such a map is accepted, against "cannot
  wrap around" (regir.go:231); `cd X || exit 66` leaves before the marker, so a
  missing directory reads as "tool denied" (stage_verify.go:212 against :208); the bash
  tool keeps the head of an output (tools/builtin/bash.go:60), so that a verbose build
  loses its marker (against stage_verify.go:241); what infer reads as the modeling plan
  is extract's open-questions.md; a map of more than 64 KiB is committed by extract and
  never decodes again (stage_common.go:207); a bad merge fails infer with
  "schema_invalid" (against stage_infer.go:13).
- *workflow*: the adapter drops ExpectedRevision (adapter/pipeline/current/engine.go:91), and
  nothing looks at the idempotency key that modelingapi/context.go:45 demands; a pinned
  source is refused in every turn (adapter/pipeline/current/convert.go:222); a lost
  race for the binding leaves an orphan project; a project that was running at a crash
  cannot be continued, since Reset is not offered (modelingapp/service.go:188); a
  session save that fails leaves the turn out of the history although the project
  advanced (modelingagent/runner.go:154).
- *sessions*: a session live under two keys loses exchanges (session/registry.go:218).
- *agent*: a provider that repeats a call id makes the commit of a transient payload
  fail (session/session.go:140); a "completed" entry that cannot be written makes the model
  believe that a tool that ran did not (tools/security/executor.go:104); after a cancel failRun emits
  on the canceled ctx (agent/loop.go:183), so nobody is told.
- *memory*: a proposal that expired and cannot be written as such may still be approved
  (memory/candidate.go:266); a forget between the two steps of two approvals makes a second
  memory; a rejection between them leaves the memory of a rejected proposal.
- *channels*: the CLI waits for its terminal and ignores its context (channel/cli/channel.go:58,
  tools/security/cli_approver.go:40); a panic in a worker ends the process (channel/telegram/channel.go:100);
  updates handled and not yet confirmed are handled again after a restart; messages of
  one chat may overtake each other; a flush that fails after text was rendered leaves
  the user without the answer (channel/telegram/sink.go:92).

### Bounds

*Pipeline.* `MaxRevision` (no call starts near it) of 5 or 6 allows two full runs with a
Reset between them, or a run, a lost race and a redo: every property relates at most
two runs and the record between them. Two goroutines are enough for the races, which
are pairwise: a third goroutine can only lose to one of the two. Two stages have a
"before", an "after" and a last stage; three are used where a middle stage matters
(`OutputFromRecordedInputs`, emit before verify). One crash suffices, because a crash
leaves no memory behind; a second one starts from a state that is reachable without
it except for more leftovers in staging. Batches of two are the smallest that can be
half committed.

*Applier.* A Begin and a Hold of emit take the project to revision 3 and the
landing to 4; 5 leaves room for a Reset or a verify run between plan and record, and 6
for the redo whose generation replaces the first. Two files have a first and a last
write, one that is created and one that is appended to; `MCApplierEdits` needs a
third, so that one is refused after another overwrote the edit. One edit or one removal
suffices, since the properties compare with one earlier reading of a file; the removal
is also what lets a second generation land at all. `MaxPublished` of 3 is the manifest's
id in either generation and a receipt. `PastEmitMeansLanded` is checked with one applier
of two generations; that it holds with several appliers of one is proved. Two applies of
different generations that write alternately do leave a mixture. It exempts a file that a person removed or a failing write truncated, because
an operator who removes the source file and applies again may lose a build file that
way, until the outcome is recorded or for good if the process dies.

*Stages.* Overlap, duplicates and order are properties of pairs, so two registers and
two fields reach every rule; the window of 4 bytes has registers that fit, touch its end
and stick out, the window of 1 byte has registers that are wider, at 0 and at the end of
a `Word` of 256, and `Far` is a field at the end of int. The seven steps are the five stages and two redos.

*Workflow.* Two turns at once and a third after them: one that starts, one that
interferes, one that meets what they left. Two projects are one that is bound and one
that replaces or misses it. Two operations a turn have a first, a last and a limit.

*Sessions.* Four requests are two that overlap on one key, or the two keys' use of one
session, with a request before to create it and one after to see what is left.

*Agent.* The third run is the first that starts from a transcript with two finished
ones, which is where a call id is repeated across runs; two turns and two calls in a
response have a call before and after another. `KeepRecent = 0` lets a compaction happen
in so short a transcript.

*Memory.* Limits of two, with three ids: full, and one given up for another. Two
approvals are what can race for one proposal or one fact.

*Channels.* One slot is the smallest semaphore and makes the poller wait; three updates
are a batch that is interrupted, an unwanted one in the middle, and one that comes
later.

The proofs remove all of these bounds for the invariants they cover.

Goroutines and ids are interchangeable, so symmetry is used in the runs of invariants
and box properties of the pipeline, applier and memory; runs with liveness have none.

### Fairness

- Pipeline: `WF_vars(Proceed(w))` for each goroutine: a goroutine that was started is
  scheduled, file operations return, and step 4's timeout ends every stage. Calls,
  cancellations, crashes and `Restart` are not fair. `RunSettles` is checked without
  crashes, cancellations and project write failures, because with each of them the claim
  is false (the first two are in the table above; with the third, nothing can be
  written). The applier has no fairness and no liveness property: every write waits for
  a person's approval, and nobody has to apply.
- Workflow: `WF_vars(Proceed(k))`: a turn's goroutine is scheduled, and model calls and
  stages are bounded by timeouts. `Receive`, `CallFails`, `Cancel` and `Crash` are not
  fair. `TurnEnds` holds with all of these faults.
- Sessions: `WF` on the operation of a request that is inside, and `SF` on `Enter`: a
  request that waits for a key's mutex gets it although others come and go, which is
  sync.Mutex's starvation mode. Weak fairness would allow it to be overtaken for ever.
- Channels: `WF` on everything that only needs a scheduler (workers, CLI without its
  terminal, supervision, ends of backoff), `SF` on `Poll` (Telegram answers again some
  day) and on `Dispatch` (a free slot that comes and goes). Lines and approvals typed at
  the terminal, signals, messages, faults and restarts are not fair; so `KeepsUp` says
  of the shutdown that it ends unless the CLI waits for its terminal.

## 4. Proofs

`ModelingPipelineProofs` proves, for all values of the constants,

| theorem | statement |
|---|---|
| `TypeCorrect` | `Spec => []TypeOK` |
| `ReferencedFilesExistAlways` | `Spec => []ReferencedFilesExist` |
| `ManifestDescribesFilesAlways` | `Spec => []ManifestDescribesFiles` |
| `SingleOwnerAlways` | `Spec => []SingleOwner` |
| `IndexIsDiskAlways` | `Spec => []IndexIsDisk` |
| `PipelineImplementsLifecycle` | `Spec => Lifecycle!Spec` |
| `OutputFromRecordedInputsAlways` | `Spec => []OutputFromRecordedInputs` |
| `FailureIsRecordedAlways` | if `"project_io" \notin Faults`, `Spec => FailureIsRecorded` |
| `RunningMeansOwnedOrCrashedAlways` | if `"cancel"`, `"project_io"` `\notin Faults`, `Spec => []RunningMeansOwnedOrCrashed` |
| `BudgetHoldsAlone` | if there is one worker and `Ref` is finite, `Spec => []BudgetHolds` |

from two assumptions: `NumStagesAssumption` (at least two stages; verify and emit are
distinct) and `PipelineAssumption` (bounds are numbers, `NoProject` is not a project).

The argument. None of the properties is inductive: that a stale Save is refused does
not say why the accepted one refers to committed files. `IInv` adds what a goroutine's
phase implies (`WorkerInv`):

1. its working copy is a project whose references are committed, with a revision not
   above the stored one, and *a copy whose revision is the stored one is the stored
   project* - this is what makes the optimistic check sound, because every accepted
   Save raises the revision by one;
2. in a run phase the copy is running the goroutine's stage, and no other run has the
   same revision, because a Begin that was accepted took a new one;
3. what has left `left` while committing is in `files`, so in the phases after the last
   rename the whole batch is;
4. a batch inside `fail` is evidence only.

Preservation is proved by action; steps that only touch one goroutine share
`LocalStep`, `RunStep` and `GoToStep`, and accepted Saves share `StoreStep`. A crash
keeps the invariant because what a half-finished Save left on disk is what the
finished one would have left. For the refinement, `SaveMaps` shows that an accepted
Save (or one a crash interrupted after its rename) writes a transition of the stored
project: by (1) the copy it started from is the stored project. That also gives
`OutputFromRecordedInputs`: the file moves by Begin, Complete, Hold, FailWith and Reset of
itself (`DiskStep`), and each keeps a project `Fresh` (the lemmas `...IsFresh`). `Applied` does not: its receipt joins the inputs of a stage that
may have outputs, so the theorem is about the pipeline without applies.

The other three have a hypothesis because the code needs it, as `MCPipelineCancel` and
`MCPipelineBudget` show: a failure is recorded unless the record itself cannot be
written; a run that is canceled before its final Save leaves the project running; and two
callers measure before either writes. With one caller, what was measured and is not
yet written still fits (`BudgetInv`), a leaked batch included.

`ModelingApplierProofs` proves, for all values of the constants,

| theorem | statement |
|---|---|
| `TypeCorrect` | `Spec => []TypeOK` |
| `ReferencesArePublishedAlways` | `Spec => []ReferencesArePublished` |
| `ApplierImplementsLifecycle` | `Spec => Lifecycle!Spec` |
| `AppendedOnceAlways` | if `"remove" \notin People`, `Spec => []AppendedOnce` |
| `PastEmitMeansLandedAlways` | with one caller or one generation (`OneAtATime`), `Spec => []PastEmitMeansLanded` |
| `ApplyIsRecordedAlways` | if `"project_io" \notin Faults`, `Spec => ApplyIsRecorded` |

from `NumStagesAssumption`, `ApplierAssumption` and `AbsentAssumption` (the marks for "no
project" and "no file" are not values). The first three rest on `IInv`: a goroutine
inside Apply planned on a project whose references are published and whose revision is
not above the stored one, *and is the stored project if the revisions agree*; its
receipt is published evidence of emit. `PipelineStepFacts` shows that the environment
keeps this. `AppendedOnce` needs `AInv`: as long as the source file is absent, no build
file holds a fragment and nobody's plan has read one; who passes prepare's first check
saw the source file absent after the whole plan was read, so all of its bytes hold one
copy; and the first write of any loop is the source file, so nobody is past it while
the file is absent. The hypothesis is needed: an operator who removes the file, as the
refusal message suggests, makes the next apply append a second time.

`PastEmitMeansLanded` needs `LInv`, which follows an apply from plan to record: the bytes
it fixed hold the one generation of its plan, every file below the loop's index holds it
(or was `Lost` since: `edits` counts more changes than the file's human part shows), and
after a complete loop all files do. `record` is accepted only on the very project the
apply planned on, so it takes a project past emit with its files; nothing else does, and
a project that is past emit keeps its generation until a Reset takes it back
(`PipelineKeepsGeneration`). A later apply overwrites files with the generation they
should hold, which is where `OneAtATime` is needed: of two applies that planned on
different generations, the late one writes over what the early one recorded.

`ModelingStagesProofs` proves, for all replies, outputs and bounds,

| theorem | statement |
|---|---|
| `InductiveInvariant` | `Spec => []IInv` |
| `SoundMapAlways` | `Spec => []SoundMap` |
| `InferKeepsTheMapAlways` | `Spec => []InferKeepsTheMap` |
| `CodeSaysUnknownAlways` | `Spec => []CodeSaysUnknown` |
| `VerdictIsEarnedAlways` | `Spec => []VerdictIsEarned` |

from `BoundsAssumption` (bounds are numbers, a word has more than 64 values on either
side) and `RepliesAssumption` (a reply is a value of the Go type, or does not decode).
Three arguments meet. `ValidateSound` is about the algorithm alone: neighbours of a
sorted order decide about every pair (`DisjointPairs`), provided the ends in question do
not wrap, which `RegisterFits` shows for a register no wider than the window; names that
differ and counts of interrupts follow from `Distinct`. `InferredKeeps` is about the
merge: `MergedKeeps` shows by induction that a fold over candidates keeps every
register's place and what was known of it. `IInv` is about the files: every stage
has either the drafts of one valid map, itself first, or none that a lookup by kind takes for
a map (`Shape`); nothing is left past the current stage; infer's map keeps extract's, and
emit's drafts are those of infer's. So a lookup finds the latest map that a stage filed
(`FoundMap`), and a step has only to show its own drafts (`Filing`, `Failing`). That the
questions name the registers the code marks TODO needs names that differ
(`UnknownReadable`), hence `Validate` once more. `VerdictIsEarned` needs to know what is in a
report of two records or one (`ReportIn`), and that a marker the wrapper printed is the
last unless the output was cut (`PassedWhen`).

`ModelingWorkflowProofs` proves `TypeCorrect`, `AskedMeansAwaitedAlways`,
`InputKeptAlways` and `NeverReplaysAlways` for any number of keys, stages, projects,
operations and turns and any faults, from `WorkflowAssumption` and
`NumStagesAssumption`. `InputKept` is not inductive: that a save needs the version it
read says nothing about what the turn did to its copy meanwhile, and a turn reads a
project, calls a model and asks for several operations in between. `BindInv` says: a
turn's copy is never newer than the file, it only grows unless the turn starts anew, and
*as long as the file has the copy's version, the copy keeps what the file has*.
`AskInv`: once a turn has saved, the file is newer than its copy, and at one version more
it is what the turn saved, wait included. `OpsInv` bounds the operations and records a
refusal; `ViewInv` keeps the ids a turn saw within the projects there are.

`SessionsProofs` proves `TypeCorrect`, `LiveIsSavedAlways`, `RunSeesItsSessionAlways` and
`ExchangesAreKeptAlways` from `SessionsAssumption`. The invariant says that who is past
`Enter` holds its key's mutex, and what its phase implies about the key's session
(`SeesInv`); that a session about to be created bears the number of its request, which no
file has; and that a session under two keys is in `shared`. So a save over a file
replaces what the key answered from.

`ChannelsProofs` proves `TypeCorrect`, `ReturnedMeansQuietAlways`,
`ConfirmedMeansTakenAlways` and `AnsweredOnceAlways` from `ChannelsAssumption`. A channel
has a result exactly when its loop is over, and the poller's is over only when its
workers are (`ResultInv`); the offset runs ahead of what was taken only while a batch is
dispatched (`OffsetInv`); a worker sends only after a flush that told its user nothing.
The bound on workers needs the cardinality lemmas of FiniteSetTheorems.

`MemoryApprovalProofs` proves `TypeCorrect`, `ReopensTheSameAlways` and
`ApprovedIsStoredAlways` from `MemoryAssumption`: file and index change together, what a
store accepts is what it would load, and an approval past its first step names a memory
of its proposal's fact, which no later step changes because ids are not given twice.

`AgentRunProofs` proves `TypeCorrect`, `StreamTellsTheSessionAlways`,
`ToolsAreAuthorizedAlways` and `OnlyReceiptsAreKeptAlways` from `AgentRunAssumption` and
`KeepRecentAssumption`, for any faults. `StreamInv`: within a run the stream is
open and `kept` is known from the phase. `ToolInv`: a call that has not begun has no
entry and did not run, which needs that the ids of a response differ (`Differ`) and that
turns are not repeated. `TextInv`: the results missing at the end of the transcript are
those of the calls still to do (`PairedBut`), and a transient text belongs to an id that
the commit replaces. A compaction keeps it because what `ConvertIntoHistory` accepts has
neither a call nor a result in it (`CompactedPlain`), whatever it loses on the way. That is
a statement about a fold, proved by induction: `ConverterInv` says that the converter
has collected plain messages only and that each of its slices lies within its array,
`ConsumeInv` that a round of the loop keeps it. The installed provers cannot instantiate
the library's induction theorems, so the induction is over sets: `SetInduction` (a set
with 0 and closed under successor holds every number) follows from
`NatLessThanWellFounded` and `WFMin`, `FoldExists` and `FoldKeeps` say of the function
that `FoldLeft` is made of that it exists and that it keeps what each step keeps.

Each of these invariants was checked by TLC before it was proved.

Only model-checked:

- liveness (`RunSettles`, `TurnEnds`, `RequestEnds`, `KeepsUp`): fairness and ENABLED are
  out of the prover's reach;
- `HistoryKeepsMessages`, which the code violates.

The lemmas about the value layer (`...Project`) and about folds (`SetInduction` to
`FoldKeeps`) stand in each module that cites them.

## 5. Plan

Done: the pipeline, the applier, the stages, the workflow, sessions, agent runs, memory,
channels. What is left, in order of what it would add:

1. `ModelingStore`: ids, capacity, visibility to principals, listing and Delete beside
   Save; hazards `store.go:212`.
2. Paging and artifact lookup (`adapter/pipeline/current/query.go:71`, `:189`) as operators against a
   reference definition: the cursor of List cannot be reached today, and findRef looks
   by id only.
3. `Project.Validate` as an operator, shown to accept what the transitions make.
4. The composition of `ModelingWorkflow` with `ProjectLifecycle` as a refinement, once
   Reset is offered by the service.

## 6. Not modelled

Prompt text, C syntax, terminal and chat formatting, configuration parsing, HTTP clients
and logging are data or plain I/O: no property here is about them. Digest checks on
`Open` and `Commit` need contents that differ from their identifier, which a model with
contents as identifiers does not have. `DisabledRunner` and its siblings have no state.
Ranking and search of memories, Touch and keywords read or order what the model keeps.
The bash analyzer and redaction are text classification; the policy is represented by
which tools it asks about or denies. Token counting is left open. The runtime adapters
of `app` only convert between layers. Clock values never decide a transition in
`modeling`; in memory they are the `due` set, elsewhere a timer may fire at any time.
