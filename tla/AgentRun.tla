------------------------------ MODULE AgentRun ------------------------------
(***************************************************************************)
(* One session's runs of the generic agent: turns with a model, tool calls *)
(* through the secure executor (policy, approval, audit log), the event    *)
(* stream a channel renders, and the commit of the transcript.             *)
(*                                                                         *)
(* A run is one goroutine; beside it the request may be cancelled at any   *)
(* point, and every partner may fail: the sink, the audit log, the store,  *)
(* the model, a tool.  A tool may declare its payload transient: the model *)
(* sees it in this run, the session keeps a receipt.                       *)
(***************************************************************************)
EXTENDS ConversationHistory, FiniteSets

CONSTANTS
    Calls,          \* tool calls a model may make: records of an id and a tool
    Transient,      \* tools with a transient payload
    Asked,          \* tools the policy asks about
    Denied,         \* tools it denies
    MaxTurns,
    MaxRuns,        \* bound: runs of the session
    Faults          \* which of AllFaults may happen

AllFaults == {"cancel", "sink", "audit", "save", "model", "tool", "budget"}

ASSUME AgentRunAssumption ==
    /\ \A a, b \in Calls : a.id \in STRING /\ a.tool \in STRING
    /\ MaxTurns \in Nat \ {0} /\ MaxRuns \in Nat
    /\ Faults \subseteq AllFaults

VARIABLES
    live,       \* the registry's Session: its Messages
    saved,      \* the session's file
    run,        \* the goroutine of Run
    cancelled,  \* the request's context is done
    sink,       \* the request's renderer
    log,        \* history: this run's audit entries <<turn, call, phase>>
    ran,        \* history: the calls <<turn, call>> whose tool ran
    approved,   \* history: the calls a user approved
    runs        \* bound: runs so far

vars == <<live, saved, run, cancelled, sink, log, ran, approved, runs>>

Fault(f) == f \in Faults

\* A call is answered by a payload, or by the text of its error.
Text(call) == IF call.tool \in Transient THEN "transient" ELSE "payload"

Phase == {"idle", "turn", "asking", "calling", "approving", "authorizing", "executing",
          "result", "committing", "closing", "failing"}

Idle == [phase |-> "idle", turn |-> 0, todo |-> <<>>, out |-> "", working |-> <<>>,
         projections |-> {}, kept |-> FALSE]

\* validateResponse: the ids of one response differ.
Responses ==
    {<<a>> : a \in Calls} \union
    {r \in {<<a, b>> : a \in Calls, b \in Calls} : r[1].id # r[2].id}

Ids(calls) == [n \in DOMAIN calls |-> calls[n].id]

Become(phase) == run' = [run EXCEPT !.phase = phase]
Failing == Become("failing")
Current == <<run.turn, Head(run.todo)>>
Entry(x, phase) == <<x[1], x[2], phase>>

(***************************************************************************)
(* The event stream: SequenceEmitter and a channel's sink                  *)
(***************************************************************************)
NewSink == [started |-> FALSE, terminal |-> FALSE, refused |-> FALSE, broken |-> FALSE,
            told |-> "nothing"]

\* What a renderer hard-fails on.
OutOfPlace(s, event) == IF event = "run_started" THEN s.started ELSE ~s.started \/ s.terminal

Accepted(s, event) ==
    CASE event = "run_started" -> [s EXCEPT !.started = TRUE]
      [] event = "run_completed" -> [s EXCEPT !.terminal = TRUE, !.told = "completed"]
      [] event = "run_failed" -> [s EXCEPT !.terminal = TRUE, !.told = "failed"]
      [] OTHER -> s

Outcome(ok, s) == [ok |-> ok, sink |-> s]

\* A delivery that fails may leave the event in the sink's state: the flush
\* comes after it.
Emitted(event) ==
    IF cancelled THEN {Outcome(FALSE, [sink EXCEPT !.broken = TRUE])}
    ELSE IF OutOfPlace(sink, event) THEN {Outcome(FALSE, [sink EXCEPT !.refused = TRUE])}
    ELSE {Outcome(TRUE, Accepted(sink, event))} \union
         IF Fault("sink")
         THEN {Outcome(FALSE, [s EXCEPT !.broken = TRUE, !.told = sink.told]) :
                  s \in {sink, Accepted(sink, event)}}
         ELSE {}

(***************************************************************************)
(* Run and runWorking                                                      *)
(***************************************************************************)
Start ==
    /\ run.phase = "idle" /\ runs < MaxRuns
    /\ runs' = runs + 1
    /\ cancelled' = FALSE /\ log' = {} /\ ran' = {} /\ approved' = {}
    /\ \/ /\ sink' = Accepted(NewSink, "run_started")
          /\ run' = [Idle EXCEPT !.phase = "turn", !.turn = 1,
                                 !.working = Append(live, UserSays("input"))]
       \/ /\ Fault("sink")
          /\ sink' = [NewSink EXCEPT !.broken = TRUE]
          /\ run' = Idle
    /\ UNCHANGED <<live, saved>>

TurnsLeft == run.turn <= MaxTurns

Budgeted == IF Fault("budget") THEN EnforceBudget(run.working)
            ELSE {[ok |-> TRUE, messages |-> run.working]}

BeginTurn ==
    /\ run.phase = "turn"
    /\ IF ~TurnsLeft THEN Failing /\ UNCHANGED sink
       ELSE \E o \in Emitted("turn_started"), b \in Budgeted :
                /\ sink' = o.sink
                /\ IF o.ok /\ b.ok
                   THEN run' = [run EXCEPT !.phase = "asking", !.working = b.messages]
                   ELSE Failing
    /\ UNCHANGED <<live, saved, cancelled, log, ran, approved, runs>>

\* The model's answer, streamed, its tool calls, or an error.  Text that is
\* streamed before the calls or before the error leaves the sink as it was.
Answer ==
    /\ run.phase = "asking"
    /\ \/ \E o \in Emitted("text_delta") :
              /\ sink' = o.sink
              /\ IF o.ok THEN run' = [run EXCEPT !.phase = "committing",
                                                 !.working = Append(@, AssistantSays("answer"))]
                 ELSE Failing
       \/ \E calls \in Responses :
              /\ run' = [run EXCEPT !.phase = "calling", !.todo = calls,
                                    !.working = Append(@, AssistantCalls(Ids(calls)))]
              /\ UNCHANGED sink
       \/ (Fault("model") \/ cancelled) /\ Failing /\ UNCHANGED sink
    /\ UNCHANGED <<live, saved, cancelled, log, ran, approved, runs>>

(***************************************************************************)
(* Executor.Execute                                                        *)
(***************************************************************************)
\* JSONLAuditSink.Write: what it may do.
Written(phase) ==
    (IF cancelled THEN {} ELSE {[ok |-> TRUE, log |-> log \union {Entry(Current, phase)}]}) \union
    (IF cancelled \/ Fault("audit") THEN {[ok |-> FALSE, log |-> log]} ELSE {})

Answered(text) == run' = [run EXCEPT !.phase = "result", !.out = text]

\* A call may end before there is a decision to write down: the catalog does not
\* have its tool, the policy cannot read its arguments, or the request is cancelled
\* after the event.
BeginCall ==
    /\ run.phase = "calling"
    /\ \E o \in Emitted("tool_started") :
          /\ sink' = o.sink
          /\ \/ ~o.ok /\ Failing /\ UNCHANGED log
             \/ o.ok /\ Answered("error") /\ UNCHANGED log
             \/ /\ o.ok /\ Head(run.todo).tool \in Denied
                /\ \E w \in Written("decision") : log' = w.log
                /\ Answered("error")
             \/ /\ o.ok /\ Head(run.todo).tool \notin Denied
                /\ Become(IF Head(run.todo).tool \in Asked THEN "approving" ELSE "authorizing")
                /\ UNCHANGED log
    /\ UNCHANGED <<live, saved, cancelled, ran, approved, runs>>

\* The approver: yes, or no, a timeout, an error.
Approve ==
    /\ run.phase = "approving"
    /\ \/ /\ approved' = approved \union {Current}
          /\ Become("authorizing") /\ UNCHANGED log
       \/ /\ \E w \in Written("decision") : log' = w.log
          /\ Answered("error") /\ UNCHANGED approved
    /\ UNCHANGED <<live, saved, cancelled, sink, ran, runs>>

\* Mutant of Authorize: the tool runs although the entry was not written.
AuthorizeAnyway ==
    /\ run.phase = "authorizing"
    /\ \E w \in Written("authorized") : log' = w.log /\ Become("executing")
    /\ UNCHANGED <<live, saved, cancelled, sink, ran, approved, runs>>

Authorize ==
    /\ run.phase = "authorizing"
    /\ \E w \in Written("authorized") :
          /\ log' = w.log
          /\ IF w.ok THEN Become("executing") ELSE Answered("error")
    /\ UNCHANGED <<live, saved, cancelled, sink, ran, approved, runs>>

\* A tool that ran is reported as failed when its completed entry is not written.
ToolReturns ==
    /\ run.phase = "executing"
    /\ ran' = ran \union {Current}
    /\ \E w \in Written("completed"), ok \in {TRUE} \union (IF Fault("tool") THEN {FALSE} ELSE {}) :
          /\ log' = w.log
          /\ Answered(IF ok /\ w.ok THEN Text(Head(run.todo)) ELSE "error")
    /\ UNCHANGED <<live, saved, cancelled, sink, approved, runs>>

EndCall ==
    /\ run.phase = "result"
    /\ LET call == Head(run.todo)
           rest == Tail(run.todo)
       IN  \E o \in Emitted("tool_completed") :
              /\ sink' = o.sink
              /\ IF ~o.ok THEN Failing
                 ELSE run' = [run EXCEPT
                        !.phase = IF rest = <<>> THEN "turn" ELSE "calling",
                        !.turn = IF rest = <<>> THEN @ + 1 ELSE @,
                        !.todo = rest, !.out = "",
                        !.working = Append(@, ToolResult(call.id, run.out)),
                        !.projections = @ \union IF run.out = "transient" THEN {call.id} ELSE {}]
    /\ UNCHANGED <<live, saved, cancelled, log, ran, approved, runs>>

(***************************************************************************)
(* The commit                                                              *)
(***************************************************************************)
Results(messages, id) == {n \in DOMAIN messages : messages[n].role = "tool" /\ messages[n].id = id}

\* ReplaceToolResult: a call id that names two results is fatal.
Ambiguous(messages, ids) == \E id \in ids : Cardinality(Results(messages, id)) > 1

\* Mutant of Persisted: the working copy is stored as it is.
PersistedWhole(messages, ids) == messages

Persisted(messages, ids) ==
    [n \in DOMAIN messages |->
        IF messages[n].role = "tool" /\ messages[n].id \in ids
        THEN [messages[n] EXCEPT !.text = "receipt"] ELSE messages[n]]

Commit ==
    /\ run.phase = "committing"
    /\ \/ /\ ~Ambiguous(run.working, run.projections) /\ ~cancelled
          /\ saved' = Persisted(run.working, run.projections)
          /\ live' = saved'
          /\ run' = [run EXCEPT !.phase = "closing", !.kept = TRUE]
       \/ /\ Ambiguous(run.working, run.projections) \/ cancelled \/ Fault("save")
          /\ Failing
          /\ UNCHANGED <<live, saved>>
    /\ UNCHANGED <<cancelled, sink, log, ran, approved, runs>>

Ended == run' = [Idle EXCEPT !.kept = run.kept]

\* Mutant of Close: a completion that could not be delivered is failed.
CloseOrFail ==
    /\ run.phase = "closing"
    /\ \E o \in Emitted("run_completed") : sink' = o.sink /\ IF o.ok THEN Ended ELSE Failing
    /\ UNCHANGED <<live, saved, cancelled, log, ran, approved, runs>>

Close ==
    /\ run.phase = "closing"
    /\ \E o \in Emitted("run_completed") : sink' = o.sink
    /\ Ended
    /\ UNCHANGED <<live, saved, cancelled, log, ran, approved, runs>>

\* failRun.
Fail ==
    /\ run.phase = "failing"
    /\ \E o \in Emitted("run_failed") : sink' = o.sink
    /\ Ended
    /\ UNCHANGED <<live, saved, cancelled, log, ran, approved, runs>>

Cancel ==
    /\ Fault("cancel") /\ ~cancelled /\ run.phase # "idle"
    /\ cancelled' = TRUE
    /\ UNCHANGED <<live, saved, run, sink, log, ran, approved, runs>>

(***************************************************************************)
(* Specification                                                           *)
(***************************************************************************)
Init ==
    /\ live = <<System>> /\ saved = <<System>>
    /\ run = Idle
    /\ cancelled = FALSE
    /\ sink = NewSink
    /\ log = {} /\ ran = {} /\ approved = {}
    /\ runs = 0

Next ==
    \/ Start \/ BeginTurn \/ Answer
    \/ BeginCall \/ Approve \/ Authorize \/ ToolReturns \/ EndCall
    \/ Commit \/ Close \/ Fail \/ Cancel

Spec == Init /\ [][Next]_vars

(***************************************************************************)
(* Properties                                                              *)
(***************************************************************************)

Role == {"system", "user", "assistant", "tool"}

\* The run has calls to do while it does them, and stays within its turns.
TypeOK ==
    /\ run.phase \in Phase /\ run.turn \in 0..(MaxTurns + 1)
    /\ run.phase \in {"calling", "approving", "authorizing", "executing", "result"} =>
          run.todo # <<>> /\ run.turn <= MaxTurns
    /\ sink.told \in {"nothing", "completed", "failed"}
    /\ runs \in 0..MaxRuns

\* "A request opens with run_started and closes with exactly one of run_completed /
\* run_failed": no event comes out of place, a run whose deliveries all went well
\* is closed, and what the user is told is what became of the session.
StreamTellsTheSession ==
    /\ ~sink.refused
    /\ run.phase = "idle" /\ sink.started /\ ~sink.broken => sink.terminal
    /\ sink.told = "completed" => run.kept
    /\ sink.told = "failed" => ~run.kept

\* Executor: a tool runs only after its authorization is in the audit log, a tool
\* that needs approval only when a user approved it, and a call that was decided
\* against does not run.
ToolsAreAuthorized ==
    \A x \in ran :
        /\ Entry(x, "authorized") \in log /\ Entry(x, "decision") \notin log
        /\ x[2].tool \in Asked => x \in approved

Paired(messages) ==
    \A n \in DOMAIN messages :
        /\ messages[n].role = "assistant" =>
              \A k \in DOMAIN messages[n].calls :
                  /\ n + k \in DOMAIN messages
                  /\ messages[n + k].role = "tool" /\ messages[n + k].id = messages[n].calls[k]
        /\ messages[n].role = "tool" =>
              \E k \in 1..(n - 1) : /\ messages[k].role = "assistant"
                                    /\ n - k \in DOMAIN messages[k].calls

\* "The persisted copy holds what the next run is allowed to replay": the receipt
\* of a transient payload and never the payload, and every call with its result,
\* in the file as in the registry.
OnlyReceiptsAreKept ==
    /\ live = saved
    /\ Paired(saved)
    /\ \A n \in DOMAIN saved : saved[n].text # "transient"

\* "The link between history and []llm.Message": a transcript that is converted and
\* not compacted is the transcript it was.
HistoryKeepsMessages ==
    LET history == ConvertIntoHistory(live)
    IN  history.ok => Messages(history) = live

=============================================================================
