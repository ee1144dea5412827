--------------------------- MODULE AgentRunProofs ---------------------------
(***************************************************************************)
(* What holds of AgentRun for any tools, any number of turns and runs, and *)
(* any choice of faults.                                                   *)
(*                                                                         *)
(* The arguments.  The stream: outside of "idle" the sink has seen the     *)
(* start and no terminal event, and whether the session was kept is known  *)
(* from the phase.  The audit log: a call that has not begun has no entry  *)
(* and did not run, since a response names no call twice and a turn is     *)
(* never had again.  The transcript: the results that are missing at its   *)
(* end are those of the calls still to do, and a transient text belongs to *)
(* a call id that the commit replaces.  The compaction: a transcript is    *)
(* either left as it is or, if it is compacted, made of a History, which   *)
(* by an induction over the messages holds neither a call nor a result.    *)
(***************************************************************************)
EXTENDS AgentRun, WellFoundedInduction, TLAPS

Outs == {"", "error", "payload", "transient"}
Texts == Outs \union {"prompt", "summary", "input", "answer", "receipt"}
CallIDs == {call.id : call \in Calls} \union {""}

\* A run's record; nothing is said of its transcript w.
RunWith(w) ==
    [phase: Phase, turn: Nat, todo: Seq(Calls), out: Outs, working: {w},
     projections: SUBSET CallIDs, kept: BOOLEAN]

RunInv == run \in RunWith(run.working)

SinkType == [started: BOOLEAN, terminal: BOOLEAN, refused: BOOLEAN, broken: BOOLEAN,
             told: {"nothing", "completed", "failed"}]

\* A stream that may still go on.
Open(s) == s \in SinkType /\ s.started /\ ~s.terminal /\ ~s.refused /\ s.told = "nothing"

\* What is left of a stream when the run is over.
Over(s, kept) ==
    /\ s \in SinkType /\ ~s.refused
    /\ s.started /\ ~s.broken => s.terminal
    /\ s.told = "completed" => kept
    /\ s.told = "failed" => ~kept

SinkInv ==
    IF run.phase = "idle" THEN Over(sink, run.kept)
    ELSE Open(sink) /\ (run.kept <=> run.phase = "closing")

StreamInv == RunInv /\ SinkInv /\ cancelled \in BOOLEAN

-----------------------------------------------------------------------------
(***************************************************************************)
(* The event stream                                                        *)
(***************************************************************************)
\* Whether a delivery went well or not.
LEMMA EmittedForm ==
    ASSUME cancelled \in BOOLEAN, NEW event, ~OutOfPlace(sink, event), NEW o \in Emitted(event)
    PROVE  \/ o.ok = FALSE /\ o.sink = [sink EXCEPT !.broken = TRUE]
           \/ o.ok = TRUE /\ o.sink = Accepted(sink, event)
           \/ \E s \in {sink, Accepted(sink, event)} :
                 o.ok = FALSE /\ o.sink = [s EXCEPT !.broken = TRUE, !.told = sink.told]
<1> DEFINE a == Accepted(sink, event)
           late == {Outcome(FALSE, [s EXCEPT !.broken = TRUE, !.told = sink.told]) : s \in {sink, a}}
<1>1. CASE cancelled
  <2>1. o = Outcome(FALSE, [sink EXCEPT !.broken = TRUE])
    BY <1>1 DEF Emitted
  <2>2. QED BY <2>1 DEF Outcome
<1>2. CASE ~cancelled
  <2>1. Emitted(event) = {Outcome(TRUE, a)} \union IF Fault("sink") THEN late ELSE {}
    BY <1>2 DEF Emitted
  <2>2. o = Outcome(TRUE, a) \/ o \in late
    BY <2>1
  <2>3. CASE o = Outcome(TRUE, a)
    BY <2>3 DEF Outcome
  <2>4. CASE o \in late
    <3>1. PICK s \in {sink, a} : o = Outcome(FALSE, [s EXCEPT !.broken = TRUE, !.told = sink.told])
      BY <2>4
    <3>2. QED BY <3>1 DEF Outcome
  <2>5. QED BY <2>2, <2>3, <2>4
<1>3. QED BY <1>1, <1>2

\* An event in the middle of a run.
LEMMA MiddleEvent ==
    ASSUME cancelled \in BOOLEAN, Open(sink),
           NEW event \in {"turn_started", "text_delta", "tool_started", "tool_completed"},
           NEW o \in Emitted(event)
    PROVE  Open(o.sink) /\ o.ok \in BOOLEAN
<1>1. Accepted(sink, event) = sink /\ ~OutOfPlace(sink, event)
  BY DEF Accepted, OutOfPlace, Open
<1>2. /\ o.ok \in BOOLEAN
      /\ \/ o.sink = sink
         \/ o.sink = [sink EXCEPT !.broken = TRUE]
         \/ o.sink = [sink EXCEPT !.broken = TRUE, !.told = sink.told]
  <2>1. \/ o.ok = FALSE /\ o.sink = [sink EXCEPT !.broken = TRUE]
        \/ o.ok = TRUE /\ o.sink = Accepted(sink, event)
        \/ \E s \in {sink, Accepted(sink, event)} :
              o.ok = FALSE /\ o.sink = [s EXCEPT !.broken = TRUE, !.told = sink.told]
    BY ONLY <1>1, EmittedForm, cancelled \in BOOLEAN, o \in Emitted(event)
  <2>2. QED BY <1>1, <2>1
<1>3. QED BY <1>2 DEF Open, SinkType

\* The event that ends a run, and what the user is told by it.
LEMMA LastEvent ==
    ASSUME cancelled \in BOOLEAN, Open(sink), NEW kept \in BOOLEAN,
           NEW event \in {"run_completed", "run_failed"}, event = "run_completed" <=> kept,
           NEW o \in Emitted(event)
    PROVE  Over(o.sink, kept)
<1> DEFINE told == IF kept THEN "completed" ELSE "failed"
           a == [sink EXCEPT !.terminal = TRUE, !.told = told]
<1>1. Accepted(sink, event) = a /\ ~OutOfPlace(sink, event)
  BY DEF Accepted, OutOfPlace, Open
<1>2. /\ a \in SinkType /\ a.terminal /\ ~a.refused /\ a.told = told
      /\ sink \in SinkType /\ ~sink.refused /\ sink.told = "nothing"
  BY DEF Open, SinkType
<1>3. \/ o.sink = a
      \/ o.sink = [sink EXCEPT !.broken = TRUE]
      \/ \E s \in {sink, a} : o.sink = [s EXCEPT !.broken = TRUE, !.told = sink.told]
  <2>1. \/ o.ok = FALSE /\ o.sink = [sink EXCEPT !.broken = TRUE]
        \/ o.ok = TRUE /\ o.sink = Accepted(sink, event)
        \/ \E s \in {sink, Accepted(sink, event)} :
              o.ok = FALSE /\ o.sink = [s EXCEPT !.broken = TRUE, !.told = sink.told]
    BY ONLY <1>1, EmittedForm, cancelled \in BOOLEAN, o \in Emitted(event)
  <2>2. QED BY <1>1, <2>1
<1> HIDE DEF a
<1>4. CASE o.sink = a
  BY <1>2, <1>4 DEF Over
<1>5. CASE o.sink = [sink EXCEPT !.broken = TRUE]
  BY <1>2, <1>5 DEF Over, SinkType
<1>6. CASE \E s \in {sink, a} : o.sink = [s EXCEPT !.broken = TRUE, !.told = sink.told]
  BY <1>2, <1>6 DEF Over, SinkType
<1>7. QED BY <1>3, <1>4, <1>5, <1>6

-----------------------------------------------------------------------------
(***************************************************************************)
(* What each action makes of the run                                       *)
(***************************************************************************)
SamePlace == run'.turn = run.turn /\ run'.todo = run.todo
SameWork == run'.working = run.working /\ run'.projections = run.projections
SameKept == run'.kept = run.kept
SameHistory == UNCHANGED <<log, ran, approved>>
SameFiles == UNCHANGED <<live, saved>>

LEMMA BecomeForm ==
    ASSUME RunInv, NEW phase \in Phase, Become(phase)
    PROVE  RunInv' /\ run'.phase = phase /\ SamePlace /\ SameWork /\ SameKept /\ run'.out = run.out
  BY DEF RunInv, RunWith, Become, SamePlace, SameWork, SameKept

LEMMA FailingForm ==
    ASSUME RunInv, Failing
    PROVE  RunInv' /\ run'.phase = "failing" /\ SamePlace /\ SameWork /\ SameKept
<1>1. "failing" \in Phase
  BY DEF Phase
<1>2. QED BY <1>1, BecomeForm DEF Failing

LEMMA AnsweredForm ==
    ASSUME RunInv, NEW out \in Outs, Answered(out)
    PROVE  /\ RunInv' /\ run'.phase = "result" /\ run'.out = out
           /\ SamePlace /\ SameWork /\ SameKept
<1>1. "result" \in Phase
  BY DEF Phase
<1>2. QED BY <1>1 DEF RunInv, RunWith, Answered, SamePlace, SameWork, SameKept

LEMMA IdleForm ==
    /\ Idle \in RunWith(<<>>) /\ Idle.phase = "idle" /\ Idle.todo = <<>>
    /\ Idle.working = <<>> /\ Idle.kept = FALSE /\ Idle.projections = {}
  BY DEF Idle, RunWith, Phase, Outs

\* validateResponse: a response names no call twice.
LEMMA ResponseForm ==
    ASSUME NEW calls \in Responses
    PROVE  /\ calls \in Seq(Calls) /\ calls # <<>>
           /\ \A m, n \in 1..Len(calls) : m # n => calls[m].id # calls[n].id
<1>1. CASE \E a \in Calls : calls = <<a>>
  BY <1>1
<1>2. ASSUME NEW a \in Calls, NEW b \in Calls, calls = <<a, b>>, calls[1].id # calls[2].id
      PROVE  /\ calls \in Seq(Calls) /\ calls # <<>>
             /\ \A m, n \in 1..Len(calls) : m # n => calls[m].id # calls[n].id
  <2>1. calls \in Seq(Calls) /\ Len(calls) = 2
    BY <1>2
  <2>2. QED BY <1>2, <2>1
<1>3. QED BY <1>1, <1>2 DEF Responses

\* The record of a run that is over.
LEMMA EndedForm ==
    ASSUME RunInv, NEW kept \in BOOLEAN, run' = [Idle EXCEPT !.kept = kept]
    PROVE  /\ RunInv' /\ run'.phase = "idle" /\ run'.kept = kept
           /\ run'.todo = <<>> /\ run'.working = <<>>
<1>1. /\ Idle \in RunWith(<<>>) /\ Idle.phase = "idle" /\ Idle.todo = <<>>
      /\ Idle.working = <<>>
  BY IdleForm
<1>2. run' \in RunWith(<<>>) /\ run'.phase = "idle" /\ run'.todo = <<>> /\ run'.kept = kept
  BY <1>1 DEF RunWith
<1>3. run'.working = <<>>
  BY <1>2 DEF RunWith
<1>4. QED BY <1>2, <1>3 DEF RunInv

LEMMA StartForm ==
    ASSUME Start
    PROVE  /\ run.phase = "idle" /\ RunInv' /\ run'.kept = FALSE /\ run'.todo = <<>>
           /\ run'.projections = {}
           /\ log' = {} /\ ran' = {} /\ approved' = {} /\ cancelled' = FALSE /\ SameFiles
           /\ \/ /\ run'.phase = "turn" /\ run'.turn = 1
                 /\ run'.working = Append(live, UserSays("input"))
                 /\ sink' = Accepted(NewSink, "run_started")
              \/ /\ run'.phase = "idle" /\ run'.working = <<>>
                 /\ sink' = [NewSink EXCEPT !.broken = TRUE]
<1> DEFINE w == Append(live, UserSays("input"))
<1>1. /\ Idle \in RunWith(<<>>) /\ Idle.phase = "idle" /\ Idle.todo = <<>>
      /\ Idle.working = <<>> /\ Idle.kept = FALSE /\ Idle.projections = {}
      /\ "turn" \in Phase
  BY IdleForm DEF Phase
<1>2. /\ run.phase = "idle"
      /\ log' = {} /\ ran' = {} /\ approved' = {} /\ cancelled' = FALSE /\ SameFiles
  BY DEF Start, SameFiles
<1>3. CASE /\ sink' = Accepted(NewSink, "run_started")
           /\ run' = [Idle EXCEPT !.phase = "turn", !.turn = 1, !.working = w]
  <2> HIDE DEF w
  <2>1. /\ run' \in RunWith(w) /\ run'.phase = "turn" /\ run'.turn = 1 /\ run'.todo = <<>>
        /\ run'.kept = FALSE /\ run'.projections = {}
    BY <1>1, <1>3 DEF RunWith
  <2>2. run'.working = w
    BY <2>1 DEF RunWith
  <2>3. QED BY <1>2, <1>3, <2>1, <2>2 DEF RunInv, w
<1>4. CASE sink' = [NewSink EXCEPT !.broken = TRUE] /\ run' = Idle
  BY <1>1, <1>2, <1>4 DEF RunInv
<1>5. QED BY <1>3, <1>4 DEF Start

LEMMA BeginTurnForm ==
    ASSUME RunInv, BeginTurn
    PROVE  /\ run.phase = "turn" /\ RunInv' /\ SamePlace /\ SameKept /\ SameHistory /\ SameFiles
           /\ run'.projections = run.projections /\ UNCHANGED cancelled
           /\ sink' = sink \/ \E o \in Emitted("turn_started") : sink' = o.sink
           /\ \/ run'.phase = "failing"
              \/ /\ run'.phase = "asking"
                 /\ run.turn <= MaxTurns
                 /\ \E b \in Budgeted : b.ok /\ run'.working = b.messages
<1>1. run.phase = "turn" /\ SameHistory /\ SameFiles /\ UNCHANGED cancelled
  BY DEF BeginTurn, SameHistory, SameFiles
<1>2. CASE ~TurnsLeft
  BY <1>1, <1>2, FailingForm DEF BeginTurn, SameWork
<1>3. CASE TurnsLeft
  <2>1. PICK o \in Emitted("turn_started"), b \in Budgeted :
          /\ sink' = o.sink
          /\ \/ Failing
             \/ b.ok /\ run' = [run EXCEPT !.phase = "asking", !.working = b.messages]
    BY <1>3 DEF BeginTurn
  <2>2. CASE Failing
    BY <1>1, <2>1, <2>2, FailingForm DEF SameWork
  <2>3. CASE b.ok /\ run' = [run EXCEPT !.phase = "asking", !.working = b.messages]
    <3>1. PICK w : w = b.messages
      OBVIOUS
    <3>2. "asking" \in Phase /\ run' = [run EXCEPT !.phase = "asking", !.working = w]
      BY <2>3, <3>1 DEF Phase
    <3>3. /\ run' \in RunWith(w) /\ run'.phase = "asking" /\ SamePlace /\ SameKept
          /\ run'.projections = run.projections
      BY <3>2 DEF RunInv, RunWith, SamePlace, SameKept
    <3>4. run'.working = w
      BY <3>3 DEF RunWith
    <3>5. QED BY <1>1, <1>3, <2>1, <2>3, <3>1, <3>3, <3>4 DEF RunInv, TurnsLeft
  <2>4. QED BY <2>1, <2>2, <2>3
<1>4. QED BY <1>2, <1>3

LEMMA AnswerForm ==
    ASSUME RunInv, Answer
    PROVE  /\ run.phase = "asking" /\ RunInv' /\ SameKept /\ SameHistory /\ SameFiles
           /\ run'.turn = run.turn /\ run'.projections = run.projections /\ UNCHANGED cancelled
           /\ sink' = sink \/ \E o \in Emitted("text_delta") : sink' = o.sink
           /\ \/ run'.phase = "failing"
              \/ /\ run'.phase = "committing" /\ run'.todo = run.todo
                 /\ run'.working = Append(run.working, AssistantSays("answer"))
              \/ /\ run'.phase = "calling" /\ run'.todo \in Responses
                 /\ run'.working = Append(run.working, AssistantCalls(Ids(run'.todo)))
<1>1. run.phase = "asking" /\ SameHistory /\ SameFiles /\ UNCHANGED cancelled
  BY DEF Answer, SameHistory, SameFiles
<1>2. CASE /\ \E o \in Emitted("text_delta") : sink' = o.sink
           /\ run' = [run EXCEPT !.phase = "committing",
                                 !.working = Append(@, AssistantSays("answer"))]
  <2>1. PICK w : w = Append(run.working, AssistantSays("answer"))
    OBVIOUS
  <2>2. "committing" \in Phase /\ run' = [run EXCEPT !.phase = "committing", !.working = w]
    BY <1>2, <2>1 DEF Phase
  <2>3. /\ run' \in RunWith(w) /\ run'.phase = "committing" /\ SamePlace /\ SameKept
        /\ run'.projections = run.projections
    BY <2>2 DEF RunInv, RunWith, SamePlace, SameKept
  <2>4. run'.working = w
    BY <2>3 DEF RunWith
  <2>5. QED BY <1>1, <1>2, <2>1, <2>3, <2>4 DEF RunInv, SamePlace
<1>3. ASSUME NEW calls \in Responses, UNCHANGED sink,
             run' = [run EXCEPT !.phase = "calling", !.todo = calls,
                                !.working = Append(@, AssistantCalls(Ids(calls)))]
      PROVE  /\ RunInv' /\ run'.phase = "calling" /\ run'.todo = calls /\ SameKept
             /\ run'.turn = run.turn /\ run'.projections = run.projections
             /\ run'.working = Append(run.working, AssistantCalls(Ids(calls)))
  <2>1. PICK w : w = Append(run.working, AssistantCalls(Ids(calls)))
    OBVIOUS
  <2>2. "calling" \in Phase
        /\ run' = [run EXCEPT !.phase = "calling", !.todo = calls, !.working = w]
    BY <1>3, <2>1 DEF Phase
  <2>3. calls \in Seq(Calls)
    BY ResponseForm
  <2>4. /\ run' \in RunWith(w) /\ run'.phase = "calling" /\ run'.todo = calls /\ SameKept
        /\ run'.turn = run.turn /\ run'.projections = run.projections
    BY <2>2, <2>3 DEF RunInv, RunWith, SameKept
  <2>5. run'.working = w
    BY <2>4 DEF RunWith
  <2>6. QED BY <2>1, <2>4, <2>5 DEF RunInv
<1>4. CASE Failing /\ (UNCHANGED sink \/ \E o \in Emitted("text_delta") : sink' = o.sink)
  BY <1>1, <1>4, FailingForm DEF SamePlace, SameWork
<1>5. QED BY <1>1, <1>2, <1>3, <1>4 DEF Answer

LEMMA WrittenForm ==
    ASSUME NEW phase, NEW w \in Written(phase)
    PROVE  \/ w.ok = TRUE /\ w.log = log \union {Entry(Current, phase)}
           \/ w.ok = FALSE /\ w.log = log
<1>1. \/ w = [ok |-> TRUE, log |-> log \union {Entry(Current, phase)}]
      \/ w = [ok |-> FALSE, log |-> log]
  BY DEF Written
<1>2. QED BY <1>1

Logged(phase) == log' \in {log, log \union {Entry(Current, phase)}}

LEMMA BeginCallForm ==
    ASSUME RunInv, BeginCall
    PROVE  /\ run.phase = "calling" /\ RunInv' /\ SamePlace /\ SameWork /\ SameKept /\ SameFiles
           /\ UNCHANGED <<cancelled, ran, approved>>
           /\ \E o \in Emitted("tool_started") : sink' = o.sink
           /\ \/ run'.phase = "failing" /\ UNCHANGED log
              \/ run'.phase = "result" /\ run'.out = "error" /\ Logged("decision")
              \/ /\ UNCHANGED log
                 /\ run'.phase = IF Head(run.todo).tool \in Asked
                                 THEN "approving" ELSE "authorizing"
<1>1. run.phase = "calling" /\ SameFiles /\ UNCHANGED <<cancelled, ran, approved>>
  BY DEF BeginCall, SameFiles
<1>2. PICK o \in Emitted("tool_started") :
          /\ sink' = o.sink
          /\ \/ ~o.ok /\ Failing /\ UNCHANGED log
             \/ Answered("error") /\ UNCHANGED log
             \/ /\ \E w \in Written("decision") : log' = w.log
                /\ Answered("error")
             \/ /\ Become(IF Head(run.todo).tool \in Asked THEN "approving" ELSE "authorizing")
                /\ UNCHANGED log
  BY DEF BeginCall
<1>3. CASE Failing /\ UNCHANGED log
  BY <1>1, <1>2, <1>3, FailingForm
<1>4. CASE /\ Answered("error")
           /\ UNCHANGED log \/ \E w \in Written("decision") : log' = w.log
  <2>1. Logged("decision")
    BY <1>4, WrittenForm DEF Logged
  <2>2. "error" \in Outs
    BY DEF Outs
  <2>3. QED BY <1>1, <1>2, <1>4, <2>1, <2>2, AnsweredForm
<1>5. CASE /\ Become(IF Head(run.todo).tool \in Asked THEN "approving" ELSE "authorizing")
           /\ UNCHANGED log
  <2>1. PICK p \in {"approving", "authorizing"} :
            Become(p) /\ p = IF Head(run.todo).tool \in Asked THEN "approving" ELSE "authorizing"
    BY <1>5
  <2>2. p \in Phase
    BY DEF Phase
  <2>3. QED BY <1>1, <1>2, <1>5, <2>1, <2>2, BecomeForm
<1>6. QED BY <1>2, <1>3, <1>4, <1>5

LEMMA ApproveForm ==
    ASSUME RunInv, Approve
    PROVE  /\ run.phase = "approving" /\ RunInv' /\ SamePlace /\ SameWork /\ SameKept /\ SameFiles
           /\ UNCHANGED <<cancelled, sink, ran>>
           /\ \/ /\ run'.phase = "authorizing" /\ UNCHANGED log
                 /\ approved' = approved \union {Current}
              \/ /\ run'.phase = "result" /\ run'.out = "error"
                 /\ Logged("decision") /\ UNCHANGED approved
<1>1. run.phase = "approving" /\ SameFiles /\ UNCHANGED <<cancelled, sink, ran>>
  BY DEF Approve, SameFiles
<1>2. CASE approved' = approved \union {Current} /\ Become("authorizing") /\ UNCHANGED log
  <2>1. "authorizing" \in Phase
    BY DEF Phase
  <2>2. QED BY <1>1, <1>2, <2>1, BecomeForm
<1>3. CASE (\E w \in Written("decision") : log' = w.log) /\ Answered("error") /\ UNCHANGED approved
  <2>1. Logged("decision") /\ "error" \in Outs
    BY <1>3, WrittenForm DEF Logged, Outs
  <2>2. QED BY <1>1, <1>3, <2>1, AnsweredForm
<1>4. QED BY <1>2, <1>3 DEF Approve

LEMMA AuthorizeForm ==
    ASSUME RunInv, Authorize
    PROVE  /\ run.phase = "authorizing" /\ RunInv' /\ SamePlace /\ SameWork /\ SameKept /\ SameFiles
           /\ UNCHANGED <<cancelled, sink, ran, approved>>
           /\ \/ /\ run'.phase = "executing"
                 /\ log' = log \union {Entry(Current, "authorized")}
              \/ run'.phase = "result" /\ run'.out = "error" /\ UNCHANGED log
<1>1. run.phase = "authorizing" /\ SameFiles /\ UNCHANGED <<cancelled, sink, ran, approved>>
  BY DEF Authorize, SameFiles
<1>2. PICK w \in Written("authorized") :
          log' = w.log /\ IF w.ok THEN Become("executing") ELSE Answered("error")
  BY DEF Authorize
<1>3. CASE w.ok = TRUE /\ w.log = log \union {Entry(Current, "authorized")}
  <2>1. "executing" \in Phase /\ Become("executing")
    BY <1>2, <1>3 DEF Phase
  <2>2. QED BY <1>1, <1>2, <1>3, <2>1, BecomeForm
<1>4. CASE w.ok = FALSE /\ w.log = log
  <2>1. "error" \in Outs /\ Answered("error")
    BY <1>2, <1>4 DEF Outs
  <2>2. QED BY <1>1, <1>2, <1>4, <2>1, AnsweredForm
<1>5. QED BY <1>3, <1>4, WrittenForm

LEMMA ToolReturnsForm ==
    ASSUME RunInv, ToolReturns
    PROVE  /\ run.phase = "executing" /\ RunInv' /\ run'.phase = "result"
           /\ SamePlace /\ SameWork /\ SameKept /\ SameFiles
           /\ UNCHANGED <<cancelled, sink, approved>>
           /\ ran' = ran \union {Current} /\ Logged("completed")
<1>1. /\ run.phase = "executing" /\ SameFiles /\ UNCHANGED <<cancelled, sink, approved>>
      /\ ran' = ran \union {Current}
  BY DEF ToolReturns, SameFiles
<1>2. PICK w \in Written("completed"), ok \in BOOLEAN :
          /\ log' = w.log
          /\ Answered(IF ok /\ w.ok THEN Text(Head(run.todo)) ELSE "error")
  BY DEF ToolReturns
<1>3. PICK out : out = IF ok /\ w.ok THEN Text(Head(run.todo)) ELSE "error"
  OBVIOUS
<1>4. out \in Outs /\ Answered(out)
  BY <1>2, <1>3 DEF Text, Outs
<1>5. Logged("completed")
  BY <1>2, WrittenForm DEF Logged
<1>6. QED BY <1>1, <1>4, <1>5, AnsweredForm

LEMMA EndCallForm ==
    ASSUME RunInv, run.phase = "result" => run.todo # <<>>, EndCall
    PROVE  /\ run.phase = "result" /\ RunInv' /\ SameKept /\ SameHistory /\ SameFiles
           /\ UNCHANGED cancelled
           /\ \E o \in Emitted("tool_completed") : sink' = o.sink
           /\ \/ run'.phase = "failing" /\ SamePlace /\ SameWork
              \/ /\ run'.phase = IF Tail(run.todo) = <<>> THEN "turn" ELSE "calling"
                 /\ run'.turn = IF Tail(run.todo) = <<>> THEN run.turn + 1 ELSE run.turn
                 /\ run'.todo = Tail(run.todo)
                 /\ run'.working = Append(run.working, ToolResult(Head(run.todo).id, run.out))
                 /\ run'.projections = run.projections \union
                        IF run.out = "transient" THEN {Head(run.todo).id} ELSE {}
<1>1. run.phase = "result" /\ SameHistory /\ SameFiles /\ UNCHANGED cancelled
  BY DEF EndCall, SameHistory, SameFiles
<1>2. PICK rest : rest = Tail(run.todo)
  OBVIOUS
<1>3. PICK w : w = Append(run.working, ToolResult(Head(run.todo).id, run.out))
  OBVIOUS
<1>4. PICK ids : ids = run.projections \union IF run.out = "transient" THEN {Head(run.todo).id} ELSE {}
  OBVIOUS
<1>5. PICK p : p = IF rest = <<>> THEN "turn" ELSE "calling"
  OBVIOUS
<1>6. PICK t : t = IF rest = <<>> THEN run.turn + 1 ELSE run.turn
  OBVIOUS
<1>7. PICK o \in Emitted("tool_completed") :
          /\ sink' = o.sink
          /\ \/ Failing
             \/ run' = [run EXCEPT !.phase = p, !.turn = t, !.todo = rest, !.out = "",
                                   !.working = w, !.projections = ids]
  BY <1>2, <1>3, <1>4, <1>5, <1>6 DEF EndCall
<1>8. CASE Failing
  BY <1>1, <1>7, <1>8, FailingForm
<1>9. CASE run' = [run EXCEPT !.phase = p, !.turn = t, !.todo = rest, !.out = "",
                              !.working = w, !.projections = ids]
  <2>1. run.todo \in Seq(Calls) /\ run.todo # <<>> /\ run.turn \in Nat
        /\ run.projections \in SUBSET CallIDs
    BY <1>1 DEF RunInv, RunWith
  <2>2. Head(run.todo) \in Calls /\ rest \in Seq(Calls)
    BY <1>2, <2>1
  <2>3. ids \in SUBSET CallIDs
    BY <1>4, <2>1, <2>2 DEF CallIDs
  <2>4. p \in Phase /\ t \in Nat /\ "" \in Outs
    BY <1>5, <1>6, <2>1 DEF Phase, Outs
  <2>5. /\ run' \in RunWith(w) /\ run'.phase = p /\ run'.turn = t /\ run'.todo = rest
        /\ run'.projections = ids /\ SameKept
    BY <1>9, <2>2, <2>3, <2>4 DEF RunInv, RunWith, SameKept
  <2>6. run'.working = w
    BY <2>5 DEF RunWith
  <2>7. RunInv'
    BY <2>5, <2>6 DEF RunInv
  <2>8. QED BY <1>1, <1>2, <1>3, <1>4, <1>5, <1>6, <1>7, <2>5, <2>6, <2>7
<1>10. QED BY <1>7, <1>8, <1>9

LEMMA CommitForm ==
    ASSUME RunInv, Commit
    PROVE  /\ run.phase = "committing" /\ RunInv' /\ SamePlace /\ SameWork /\ SameHistory
           /\ UNCHANGED <<cancelled, sink>>
           /\ \/ /\ run'.phase = "closing" /\ run'.kept = TRUE
                 /\ saved' = Persisted(run.working, run.projections) /\ live' = saved'
              \/ run'.phase = "failing" /\ SameKept /\ SameFiles
<1>1. run.phase = "committing" /\ SameHistory /\ UNCHANGED <<cancelled, sink>>
  BY DEF Commit, SameHistory
<1>2. CASE /\ saved' = Persisted(run.working, run.projections) /\ live' = saved'
           /\ run' = [run EXCEPT !.phase = "closing", !.kept = TRUE]
  <2>1. "closing" \in Phase
    BY DEF Phase
  <2>2. RunInv' /\ run'.phase = "closing" /\ run'.kept = TRUE /\ SamePlace /\ SameWork
    BY <1>2, <2>1 DEF RunInv, RunWith, SamePlace, SameWork
  <2>3. QED BY <1>1, <1>2, <2>2
<1>3. CASE Failing /\ UNCHANGED <<live, saved>>
  BY <1>1, <1>3, FailingForm DEF SameFiles
<1>4. QED BY <1>2, <1>3 DEF Commit

LEMMA LeaveForm ==
    ASSUME RunInv, Close \/ Fail
    PROVE  /\ run.phase = IF Close THEN "closing" ELSE "failing"
           /\ RunInv' /\ run'.phase = "idle" /\ SameKept /\ SameHistory /\ SameFiles
           /\ UNCHANGED cancelled /\ run'.todo = <<>> /\ run'.working = <<>>
           /\ \E o \in Emitted(IF Close THEN "run_completed" ELSE "run_failed") : sink' = o.sink
<1>1. /\ run' = [Idle EXCEPT !.kept = run.kept] /\ SameHistory /\ SameFiles
      /\ UNCHANGED cancelled
  BY DEF Close, Fail, Ended, SameHistory, SameFiles
<1>2. run.kept \in BOOLEAN
  BY DEF RunInv, RunWith
<1>3. RunInv' /\ run'.phase = "idle" /\ SameKept /\ run'.todo = <<>> /\ run'.working = <<>>
  BY <1>1, <1>2, EndedForm DEF SameKept
<1>4. /\ run.phase = IF Close THEN "closing" ELSE "failing"
      /\ \E o \in Emitted(IF Close THEN "run_completed" ELSE "run_failed") : sink' = o.sink
  BY DEF Close, Fail
<1>5. QED BY <1>1, <1>3, <1>4

LEMMA CancelForm ==
    ASSUME Cancel
    PROVE  cancelled' = TRUE /\ UNCHANGED <<run, sink>> /\ SameHistory /\ SameFiles
  BY DEF Cancel, SameHistory, SameFiles

-----------------------------------------------------------------------------
(***************************************************************************)
(* The calls still to do                                                   *)
(***************************************************************************)
Doing == {"calling", "approving", "authorizing", "executing", "result"}

Differ(calls) == \A m, n \in 1..Len(calls) : m # n => calls[m].id # calls[n].id

PlaceInv ==
    /\ run.phase \in Doing => run.todo # <<>> /\ Differ(run.todo)
    /\ run.phase \in {"turn", "asking", "committing"} => run.todo = <<>>

LEMMA PlaceStep == ASSUME RunInv, PlaceInv, [Next]_vars PROVE RunInv' /\ PlaceInv'
<1>1. CASE Start
  BY <1>1, StartForm DEF PlaceInv, Doing
<1>2. CASE BeginTurn
  BY <1>2, BeginTurnForm DEF PlaceInv, Doing, SamePlace
<1>3. CASE Answer
  <2>1. CASE run'.phase = "calling" /\ run'.todo \in Responses
    BY <1>3, <2>1, AnswerForm, ResponseForm DEF PlaceInv, Doing, Differ
  <2>2. CASE run'.phase = "failing"
    BY <1>3, <2>2, AnswerForm DEF PlaceInv, Doing
  <2>3. CASE run'.phase = "committing" /\ run'.todo = run.todo
    BY <1>3, <2>3, AnswerForm DEF PlaceInv, Doing
  <2>4. QED BY <1>3, <2>1, <2>2, <2>3, AnswerForm
<1>4. CASE BeginCall
  BY <1>4, BeginCallForm DEF PlaceInv, Doing, SamePlace
<1>5. CASE Approve
  BY <1>5, ApproveForm DEF PlaceInv, Doing, SamePlace
<1>6. CASE Authorize
  BY <1>6, AuthorizeForm DEF PlaceInv, Doing, SamePlace
<1>7. CASE ToolReturns
  BY <1>7, ToolReturnsForm DEF PlaceInv, Doing, SamePlace
<1>8. CASE EndCall
  <2>1. run.phase = "result" /\ run.todo # <<>> /\ Differ(run.todo) /\ run.todo \in Seq(Calls)
    BY <1>8 DEF EndCall, PlaceInv, Doing, RunInv, RunWith
  <2>2. Differ(Tail(run.todo))
    <3>1. Len(Tail(run.todo)) = Len(run.todo) - 1
          /\ \A n \in 1..Len(Tail(run.todo)) : Tail(run.todo)[n] = run.todo[n + 1]
      BY <2>1
    <3>2. QED BY <2>1, <3>1 DEF Differ
  <2>3. QED BY <1>8, <2>1, <2>2, EndCallForm DEF PlaceInv, Doing, SamePlace
<1>9. CASE Commit
  BY <1>9, CommitForm DEF PlaceInv, Doing, SamePlace
<1>10. CASE Close \/ Fail
  BY <1>10, LeaveForm DEF PlaceInv, Doing
<1>11. CASE Cancel \/ UNCHANGED vars
  <2>1. UNCHANGED run
    BY <1>11, CancelForm DEF vars
  <2>2. QED BY <2>1 DEF PlaceInv, RunInv
<1>12. QED BY <1>1, <1>2, <1>3, <1>4, <1>5, <1>6, <1>7, <1>8, <1>9, <1>10, <1>11 DEF Next

-----------------------------------------------------------------------------
(***************************************************************************)
(* The stream tells what became of the session                             *)
(***************************************************************************)
LEMMA StreamInit == Init => StreamInv
<1> SUFFICES ASSUME Init PROVE StreamInv
  OBVIOUS
<1>1. run = Idle /\ sink = NewSink /\ cancelled = FALSE
  BY DEF Init
<1>2. RunInv /\ run.phase = "idle"
  BY <1>1, IdleForm DEF RunInv
<1>3. Over(NewSink, run.kept)
  BY DEF NewSink, Over, SinkType
<1>4. QED BY <1>1, <1>2, <1>3 DEF StreamInv, SinkInv

\* A step inside a run.
LEMMA InnerStream ==
    ASSUME StreamInv, run.phase # "idle", RunInv', UNCHANGED cancelled,
           run'.phase \notin {"idle"}, run'.kept <=> run'.phase = "closing",
           \/ sink' = sink
           \/ \E event \in {"turn_started", "text_delta", "tool_started", "tool_completed"} :
                \E o \in Emitted(event) : sink' = o.sink
    PROVE  StreamInv'
<1>1. Open(sink) /\ cancelled \in BOOLEAN
  BY DEF StreamInv, SinkInv
<1>2. Open(sink')
  BY <1>1, MiddleEvent
<1>3. QED BY <1>1, <1>2 DEF StreamInv, SinkInv

LEMMA StreamStep == ASSUME StreamInv, PlaceInv, [Next]_vars PROVE StreamInv'
<1>1. RunInv /\ (run.phase # "idle" => (run.kept <=> run.phase = "closing"))
      /\ run.kept \in BOOLEAN /\ cancelled \in BOOLEAN
  BY DEF StreamInv, SinkInv, RunInv, RunWith
<1>2. CASE Start
  <2>1. RunInv' /\ run'.kept = FALSE /\ cancelled' = FALSE
    BY <1>2, StartForm
  <2>2. NewSink \in SinkType /\ ~NewSink.started /\ ~NewSink.terminal /\ ~NewSink.refused
        /\ NewSink.told = "nothing"
    BY DEF NewSink, SinkType
  <2>3. CASE run'.phase = "turn" /\ sink' = Accepted(NewSink, "run_started")
    <3>1. sink' = [NewSink EXCEPT !.started = TRUE]
      BY <2>3 DEF Accepted
    <3>2. Open(sink')
      BY <2>2, <3>1 DEF Open, SinkType
    <3>3. QED BY <2>1, <2>3, <3>2 DEF StreamInv, SinkInv
  <2>4. CASE run'.phase = "idle" /\ sink' = [NewSink EXCEPT !.broken = TRUE]
    <3>1. Over(sink', FALSE)
      BY <2>2, <2>4 DEF Over, SinkType
    <3>2. QED BY <2>1, <2>4, <3>1 DEF StreamInv, SinkInv
  <2>5. QED BY <1>2, <2>3, <2>4, StartForm
<1>3. CASE BeginTurn
  BY <1>1, <1>3, BeginTurnForm, InnerStream DEF SameKept
<1>4. CASE Answer
  BY <1>1, <1>4, AnswerForm, InnerStream DEF SameKept
<1>5. CASE BeginCall
  BY <1>1, <1>5, BeginCallForm, InnerStream DEF SameKept
<1>6. CASE Approve
  BY <1>1, <1>6, ApproveForm, InnerStream DEF SameKept
<1>7. CASE Authorize
  BY <1>1, <1>7, AuthorizeForm, InnerStream DEF SameKept
<1>8. CASE ToolReturns
  BY <1>1, <1>8, ToolReturnsForm, InnerStream DEF SameKept
<1>9. CASE EndCall
  <2>1. run.phase = "result" => run.todo # <<>>
    BY DEF PlaceInv, Doing
  <2>2. QED BY <1>1, <1>9, <2>1, EndCallForm, InnerStream DEF SameKept
<1>10. CASE Commit
  BY <1>1, <1>10, CommitForm, InnerStream DEF SameKept
<1>11. CASE Close \/ Fail
  <2>1. /\ run.phase = IF Close THEN "closing" ELSE "failing"
        /\ RunInv' /\ run'.phase = "idle" /\ run'.kept = run.kept /\ UNCHANGED cancelled
        /\ \E o \in Emitted(IF Close THEN "run_completed" ELSE "run_failed") : sink' = o.sink
    BY <1>1, <1>11, LeaveForm DEF SameKept
  <2>2. PICK event \in {"run_completed", "run_failed"} :
            /\ event = IF Close THEN "run_completed" ELSE "run_failed"
            /\ \E o \in Emitted(event) : sink' = o.sink
    BY <2>1
  <2>3. Open(sink) /\ (run.kept <=> run.phase = "closing")
    BY <2>1 DEF StreamInv, SinkInv
  <2>4. event = "run_completed" <=> run.kept
    BY <2>1, <2>2, <2>3
  <2>5. Over(sink', run.kept)
    BY <1>1, <2>2, <2>3, <2>4, LastEvent
  <2>6. QED BY <1>1, <2>1, <2>5 DEF StreamInv, SinkInv
<1>12. CASE Cancel
  <2>1. cancelled' = TRUE /\ UNCHANGED <<run, sink>>
    BY <1>12, CancelForm
  <2>2. QED BY <2>1 DEF StreamInv, RunInv, SinkInv
<1>13. CASE UNCHANGED vars
  BY <1>13 DEF vars, StreamInv, RunInv, SinkInv
<1>14. QED BY <1>2, <1>3, <1>4, <1>5, <1>6, <1>7, <1>8, <1>9, <1>10, <1>11, <1>12, <1>13 DEF Next

-----------------------------------------------------------------------------
(***************************************************************************)
(* The audit log                                                           *)
(***************************************************************************)
LogPhase == {"decision", "authorized", "completed"}

\* A call of which the log has no entry and which did not run.
Untouched(t, c) == <<t, c>> \notin ran /\ \A p \in LogPhase : Entry(<<t, c>>, p) \notin log

\* A call that may run, but for its authorization.
Allowed(x) == Entry(x, "decision") \notin log /\ (x[2].tool \in Asked => x \in approved)

ToolInv ==
    /\ ran \subseteq Nat \X Calls /\ ToolsAreAuthorized
    /\ run.phase # "idle" =>
         /\ \A t \in Nat, c \in Calls : t > run.turn => Untouched(t, c)
         /\ run.phase \in {"turn", "asking"} => \A c \in Calls : Untouched(run.turn, c)
         /\ run.phase \in Doing =>
              \A n \in 2..Len(run.todo) : Untouched(run.turn, run.todo[n])
         /\ run.phase \in {"calling", "approving"} => Untouched(run.turn, Head(run.todo))
         /\ run.phase \in {"authorizing", "executing"} => Allowed(Current)
         /\ run.phase = "authorizing" => Current \notin ran
         /\ run.phase = "executing" => Entry(Current, "authorized") \in log

\* The call at hand, and the ones after it.
LEMMA CurrentFacts ==
    ASSUME RunInv, PlaceInv, run.phase \in Doing
    PROVE  /\ run.turn \in Nat /\ Head(run.todo) \in Calls
           /\ Current = <<run.turn, Head(run.todo)>> /\ Current \in Nat \X Calls
           /\ run.todo \in Seq(Calls) /\ run.todo # <<>>
           /\ \A n \in 2..Len(run.todo) : run.todo[n] \in Calls /\ run.todo[n] # Head(run.todo)
<1>1. run.turn \in Nat /\ run.todo \in Seq(Calls) /\ run.todo # <<>> /\ Differ(run.todo)
  BY DEF RunInv, RunWith, PlaceInv
<1>2. Head(run.todo) = run.todo[1] /\ Head(run.todo) \in Calls /\ Len(run.todo) \in Nat
      /\ Len(run.todo) >= 1
  BY <1>1
<1>3. \A n \in 2..Len(run.todo) : run.todo[n] \in Calls /\ run.todo[n] # run.todo[1]
  BY <1>1, <1>2 DEF Differ
<1>4. QED BY <1>1, <1>2, <1>3 DEF Current

\* Entries of two calls differ, and so do those of two phases.
LEMMA EntryFacts ==
    ASSUME NEW t, NEW c, NEW s, NEW d, NEW p, NEW q, Entry(<<t, c>>, p) = Entry(<<s, d>>, q)
    PROVE  t = s /\ c = d /\ p = q
  BY DEF Entry

\* What was done of the call at hand leaves the other calls untouched.
LEMMA UntouchedStep ==
    ASSUME RunInv, PlaceInv, run.phase \in Doing,
           NEW p \in LogPhase, log' \in {log, log \union {Entry(Current, p)}},
           ran' \in {ran, ran \union {Current}},
           NEW t, NEW c, t # run.turn \/ c # Head(run.todo), Untouched(t, c)
    PROVE  Untouched(t, c)'
<1>1. Current = <<run.turn, Head(run.todo)>>
  BY DEF Current
<1>2. <<t, c>> # Current
  BY <1>1
<1>3. <<t, c>> \notin ran'
  BY <1>2 DEF Untouched
<1>4. ASSUME NEW q \in LogPhase PROVE Entry(<<t, c>>, q) \notin log'
  <2>1. Entry(<<t, c>>, q) # Entry(Current, p)
    BY <1>1, EntryFacts
  <2>2. QED BY <2>1 DEF Untouched
<1>5. QED BY <1>3, <1>4 DEF Untouched

\* An entry that leaves what ran authorized.
LEMMA AuthorizedStep ==
    ASSUME RunInv, PlaceInv, run.phase \in Doing, ToolInv,
           NEW p \in LogPhase, log' \in {log, log \union {Entry(Current, p)}},
           p = "decision" => Current \notin ran,
           approved \subseteq approved',
           \/ ran' = ran
           \/ /\ ran' = ran \union {Current} /\ p # "decision"
              /\ Allowed(Current) /\ Entry(Current, "authorized") \in log
    PROVE  ran' \subseteq Nat \X Calls /\ ToolsAreAuthorized'
<1>1. Current \in Nat \X Calls /\ Current = <<run.turn, Head(run.todo)>>
  BY CurrentFacts
<1>2. ran' \subseteq Nat \X Calls
  BY <1>1 DEF ToolInv
<1>3. ASSUME NEW x \in ran'
      PROVE  /\ Entry(x, "authorized") \in log' /\ Entry(x, "decision") \notin log'
             /\ x[2].tool \in Asked => x \in approved'
  <2>1. x = <<x[1], x[2]>>
    BY <1>2
  <2>2. Entry(x, "authorized") \in log /\ Entry(x, "decision") \notin log
        /\ (x[2].tool \in Asked => x \in approved)
    BY DEF ToolInv, ToolsAreAuthorized, Allowed
  <2>3. p = "decision" => x # Current
    OBVIOUS
  <2>4. Entry(x, "decision") # Entry(Current, p)
    BY <1>1, <2>1, <2>3, EntryFacts
  <2>5. QED BY <2>2, <2>4
<1>4. QED BY <1>2, <1>3 DEF ToolsAreAuthorized

\* A step inside one call.
LEMMA CallStep ==
    ASSUME RunInv, PlaceInv, ToolInv, run.phase \in Doing, RunInv', SamePlace,
           run'.phase \in {"approving", "authorizing", "executing", "result", "failing"},
           NEW p \in LogPhase, log' \in {log, log \union {Entry(Current, p)}},
           p = "decision" => Current \notin ran,
           approved \subseteq approved',
           \/ ran' = ran
           \/ /\ ran' = ran \union {Current} /\ p # "decision"
              /\ Allowed(Current) /\ Entry(Current, "authorized") \in log,
           run'.phase = "approving" => run.phase = "calling" /\ UNCHANGED <<log, ran>>,
           run'.phase \in {"authorizing", "executing"} => Allowed(Current)',
           run'.phase = "authorizing" => Current \notin ran',
           run'.phase = "executing" => Entry(Current, "authorized") \in log'
    PROVE  ToolInv'
<1>1. /\ run.turn \in Nat /\ run.todo \in Seq(Calls) /\ run'.turn = run.turn
      /\ run'.todo = run.todo /\ Len(run.todo) \in Nat
      /\ \A n \in 2..Len(run.todo) : run.todo[n] # Head(run.todo)
  BY CurrentFacts DEF SamePlace
<1>2. Current' = Current
  BY <1>1 DEF Current
<1>3. ran' \subseteq Nat \X Calls /\ ToolsAreAuthorized'
  BY AuthorizedStep
<1>4. ASSUME NEW t \in Nat, NEW c \in Calls, t > run'.turn PROVE Untouched(t, c)'
  <2>1. t # run.turn /\ Untouched(t, c)
    BY <1>1, <1>4 DEF ToolInv, Doing
  <2>2. QED BY <2>1, UntouchedStep
<1>5. ASSUME NEW n \in 2..Len(run'.todo) PROVE Untouched(run.turn, run.todo[n])'
  <2>1. n \in 2..Len(run.todo) /\ run.todo[n] # Head(run.todo)
        /\ Untouched(run.turn, run.todo[n])
    BY <1>1 DEF ToolInv, Doing
  <2>2. PICK c : c = run.todo[n]
    OBVIOUS
  <2>3. PICK t : t = run.turn
    OBVIOUS
  <2>4. Untouched(t, c)'
    BY <2>1, <2>2, <2>3, UntouchedStep
  <2>5. t = run'.turn /\ c = run'.todo[n]
    BY <1>1, <2>2, <2>3
  <2>6. QED BY <2>4, <2>5 DEF Untouched
<1>6. ASSUME run'.phase = "approving" PROVE Untouched(run.turn, Head(run.todo))'
  <2>1. Untouched(run.turn, Head(run.todo))
    BY <1>6 DEF ToolInv
  <2>2. QED BY <1>1, <1>6, <2>1 DEF Untouched
<1>7. QED BY <1>2, <1>3, <1>4, <1>5, <1>6 DEF ToolInv, Doing

\* A step that leaves the history alone.
LEMMA QuietUntouched ==
    ASSUME SameHistory
    PROVE  /\ ToolInv => ran' \subseteq Nat \X Calls /\ ToolsAreAuthorized'
           /\ \A t, c : Untouched(t, c) => Untouched(t, c)'
  BY DEF SameHistory, ToolInv, ToolsAreAuthorized, Untouched

LEMMA ToolStep == ASSUME RunInv, PlaceInv, ToolInv, [Next]_vars PROVE ToolInv'
<1>1. RunInv' /\ PlaceInv'
  BY PlaceStep
<1>2. CASE Start
  BY <1>1, <1>2, StartForm DEF ToolInv, ToolsAreAuthorized, Untouched, Doing
<1>3. CASE BeginTurn
  <2>1. SameHistory /\ run'.turn = run.turn /\ run.phase = "turn"
        /\ run'.phase \in {"asking", "failing"}
    BY <1>3, BeginTurnForm DEF SamePlace
  <2>2. QED BY <2>1, QuietUntouched DEF ToolInv, Doing, Untouched
<1>4. CASE Answer
  <2>1. /\ SameHistory /\ run'.turn = run.turn /\ run.phase = "asking"
        /\ \/ run'.phase \in {"committing", "failing"}
           \/ run'.phase = "calling" /\ run'.todo \in Responses
    BY <1>4, AnswerForm
  <2>2. run'.phase = "calling" => /\ Head(run'.todo) \in Calls
                                  /\ \A n \in 2..Len(run'.todo) : run'.todo[n] \in Calls
    <3>1. ASSUME run'.todo \in Responses
          PROVE  Head(run'.todo) \in Calls /\ \A n \in 2..Len(run'.todo) : run'.todo[n] \in Calls
      <4>1. run'.todo \in Seq(Calls) /\ run'.todo # <<>>
        BY <3>1, ResponseForm
      <4>2. QED BY <4>1
    <3>2. QED BY <2>1, <3>1
  <2>3. QED BY <2>1, <2>2, QuietUntouched DEF ToolInv, Doing, Untouched
<1>5. CASE BeginCall
  <2>1. /\ run.phase = "calling" /\ SamePlace /\ UNCHANGED <<ran, approved>>
        /\ \/ run'.phase = "failing" /\ UNCHANGED log
           \/ run'.phase = "result" /\ log' \in {log, log \union {Entry(Current, "decision")}}
           \/ /\ UNCHANGED log
              /\ run'.phase = IF Head(run.todo).tool \in Asked
                              THEN "approving" ELSE "authorizing"
    BY <1>5, BeginCallForm DEF Logged
  <2>2. run.phase \in Doing
    BY <2>1 DEF Doing
  <2>3. Current = <<run.turn, Head(run.todo)>> /\ Current' = Current
    BY <2>1 DEF Current, SamePlace
  <2>4. "decision" \in LogPhase /\ Untouched(run.turn, Head(run.todo))
    BY <2>1 DEF LogPhase, ToolInv
  <2>5. Current \notin ran /\ Entry(Current, "decision") \notin log
    BY <2>3, <2>4 DEF Untouched
  <2>6. run'.phase = "authorizing" => Allowed(Current)'
    <3>1. Current[2] = Head(run.todo)
      BY <2>3
    <3>2. QED BY <2>1, <2>3, <2>5, <3>1 DEF Allowed
  <2>7. run'.phase \in {"approving", "authorizing", "result", "failing"}
    BY <2>1
  <2>8. run'.phase = "approving" => UNCHANGED <<log, ran>>
    BY <2>1
  <2>9. log' \in {log, log \union {Entry(Current, "decision")}}
    BY <2>1
  <2>10. QED BY <1>1, <2>1, <2>2, <2>3, <2>4, <2>5, <2>6, <2>7, <2>8, <2>9, CallStep
<1>6. CASE Approve
  <2>1. /\ run.phase = "approving" /\ SamePlace /\ UNCHANGED ran
        /\ \/ /\ run'.phase = "authorizing" /\ UNCHANGED log
              /\ approved' = approved \union {Current}
           \/ /\ run'.phase = "result" /\ UNCHANGED approved
              /\ log' \in {log, log \union {Entry(Current, "decision")}}
    BY <1>6, ApproveForm DEF Logged
  <2>2. run.phase \in Doing
    BY <2>1 DEF Doing
  <2>3. Current = <<run.turn, Head(run.todo)>> /\ Current' = Current
    BY <2>1 DEF Current, SamePlace
  <2>4. "decision" \in LogPhase /\ Untouched(run.turn, Head(run.todo))
    BY <2>1 DEF LogPhase, ToolInv
  <2>5. Current \notin ran /\ Entry(Current, "decision") \notin log
    BY <2>3, <2>4 DEF Untouched
  <2>6. run'.phase = "authorizing" => Allowed(Current)'
    BY <2>1, <2>3, <2>5 DEF Allowed
  <2>7. QED BY <1>1, <2>1, <2>2, <2>3, <2>4, <2>5, <2>6, CallStep
<1>7. CASE Authorize
  <2>1. /\ run.phase = "authorizing" /\ SamePlace /\ UNCHANGED <<ran, approved>>
        /\ \/ /\ run'.phase = "executing"
              /\ log' = log \union {Entry(Current, "authorized")}
           \/ run'.phase = "result" /\ UNCHANGED log
    BY <1>7, AuthorizeForm
  <2>2. run.phase \in Doing /\ "authorized" \in LogPhase
    BY <2>1 DEF Doing, LogPhase
  <2>3. Current' = Current /\ Current = <<run.turn, Head(run.todo)>>
    BY <2>1 DEF Current, SamePlace
  <2>4. Allowed(Current)
    BY <2>1 DEF ToolInv
  <2>5. Entry(Current, "decision") # Entry(Current, "authorized")
    BY <2>3, EntryFacts
  <2>6. Allowed(Current)'
    BY <2>1, <2>3, <2>4, <2>5 DEF Allowed
  <2>7. QED BY <1>1, <2>1, <2>2, <2>3, <2>6, CallStep
<1>8. CASE ToolReturns
  <2>1. /\ run.phase = "executing" /\ SamePlace /\ UNCHANGED approved /\ run'.phase = "result"
        /\ ran' = ran \union {Current} /\ log' \in {log, log \union {Entry(Current, "completed")}}
    BY <1>8, ToolReturnsForm DEF Logged
  <2>2. run.phase \in Doing /\ "completed" \in LogPhase
    BY <2>1 DEF Doing, LogPhase
  <2>3. Allowed(Current) /\ Entry(Current, "authorized") \in log
    BY <2>1 DEF ToolInv
  <2>4. QED BY <1>1, <2>1, <2>2, <2>3, CallStep
<1>9. CASE EndCall
  <2>1. run.phase = "result" /\ run.phase \in Doing
    BY <1>9 DEF EndCall, Doing
  <2>2. run.todo # <<>> /\ run.todo \in Seq(Calls) /\ run.turn \in Nat
    BY <2>1, CurrentFacts
  <2>3. SameHistory
    BY <1>9, <2>2, EndCallForm
  <2>4. CASE run'.phase = "failing" /\ SamePlace
    BY <2>1, <2>3, <2>4, QuietUntouched DEF ToolInv, Doing, SamePlace, Untouched
  <2>5. CASE Tail(run.todo) = <<>> /\ run'.phase = "turn" /\ run'.turn = run.turn + 1
    BY <2>1, <2>2, <2>3, <2>5, QuietUntouched DEF ToolInv, Doing, Untouched
  <2>6. CASE /\ Tail(run.todo) # <<>> /\ run'.phase = "calling" /\ run'.turn = run.turn
             /\ run'.todo = Tail(run.todo)
    <3>1. /\ Len(Tail(run.todo)) = Len(run.todo) - 1 /\ Len(run.todo) \in Nat
          /\ \A n \in 1..Len(Tail(run.todo)) : Tail(run.todo)[n] = run.todo[n + 1]
          /\ Len(Tail(run.todo)) >= 1 /\ Head(Tail(run.todo)) = Tail(run.todo)[1]
      BY <2>2, <2>6
    <3>2. \A n \in 1..Len(run'.todo) : Untouched(run'.turn, run'.todo[n])
      BY <2>1, <2>6, <3>1 DEF ToolInv
    <3>3. Untouched(run'.turn, Head(run'.todo))
      BY <2>6, <3>1, <3>2
    <3>4. QED BY <2>1, <2>3, <2>6, <3>2, <3>3, QuietUntouched DEF ToolInv, Doing, Untouched
  <2>7. QED BY <1>9, <2>2, <2>4, <2>5, <2>6, EndCallForm
<1>10. CASE Commit
  <2>1. SameHistory /\ run.phase # "idle" /\ run'.turn = run.turn
        /\ run'.phase \in {"closing", "failing"}
    BY <1>10, CommitForm DEF SamePlace
  <2>2. QED BY <2>1, QuietUntouched DEF ToolInv, Doing, Untouched
<1>11. CASE Close \/ Fail
  <2>1. SameHistory /\ run'.phase = "idle"
    BY <1>11, LeaveForm
  <2>2. QED BY <2>1, QuietUntouched DEF ToolInv
<1>12. CASE Cancel \/ UNCHANGED vars
  <2>1. UNCHANGED run /\ SameHistory
    BY <1>12, CancelForm DEF vars, SameHistory
  <2>2. QED BY <2>1 DEF SameHistory, ToolInv, ToolsAreAuthorized, Untouched, Allowed, Current
<1>13. QED BY <1>2, <1>3, <1>4, <1>5, <1>6, <1>7, <1>8, <1>9, <1>10, <1>11, <1>12 DEF Next

-----------------------------------------------------------------------------
(***************************************************************************)
(* The transcript                                                          *)
(***************************************************************************)
Transcribed == [role: Role, text: Texts, calls: Seq(CallIDs), id: CallIDs]

\* Every call has its result, but for those of todo, which come next.
PairedBut(messages, todo) ==
    /\ \A n \in 1..Len(messages) : messages[n].role = "assistant" =>
         \A k \in 1..Len(messages[n].calls) :
            IF n + k <= Len(messages)
            THEN messages[n + k].role = "tool" /\ messages[n + k].id = messages[n].calls[k]
            ELSE /\ n + k - Len(messages) \in 1..Len(todo)
                 /\ todo[n + k - Len(messages)].id = messages[n].calls[k]
    /\ \A n \in 1..Len(messages) : messages[n].role = "tool" =>
         \E m \in 1..(n - 1) : messages[m].role = "assistant"
                               /\ n - m \in 1..Len(messages[m].calls)
    /\ todo # <<>> => \E m \in 1..Len(messages) :
         /\ messages[m].role = "assistant"
         /\ m + Len(messages[m].calls) = Len(messages) + Len(todo)

\* A transient text is the result of a call that the commit replaces.
Replaceable(messages, ids) ==
    \A n \in 1..Len(messages) : messages[n].text = "transient" =>
        messages[n].role = "tool" /\ messages[n].id \in ids

Kept(messages) ==
    messages \in Seq(Transcribed) /\ PairedBut(messages, <<>>) /\ Replaceable(messages, {})

Going == {"turn", "asking", "committing"} \union Doing

TextInv ==
    /\ live = saved /\ Kept(saved)
    /\ run.phase \in Going =>
         /\ run.working \in Seq(Transcribed)
         /\ PairedBut(run.working, run.todo)
         /\ Replaceable(run.working, run.projections)

\* The messages a run appends.
LEMMA MessageForm ==
    ASSUME NEW role \in Role, NEW text \in Texts
    PROVE  /\ Message(role, text) \in Transcribed /\ Message(role, text).role = role
           /\ Message(role, text).text = text /\ Message(role, text).calls = <<>>
<1>1. "" \in CallIDs /\ <<>> \in Seq(CallIDs)
  BY DEF CallIDs
<1>2. QED BY <1>1 DEF Message, Transcribed

LEMMA SaysForm ==
    ASSUME NEW text \in Texts
    PROVE  /\ UserSays(text) \in Transcribed
           /\ UserSays(text).role = "user" /\ UserSays(text).text = text
           /\ AssistantSays(text) \in Transcribed
           /\ AssistantSays(text).role = "assistant" /\ AssistantSays(text).text = text
           /\ AssistantSays(text).calls = <<>>
<1>1. "user" \in Role /\ "assistant" \in Role
  BY DEF Role
<1>2. QED BY <1>1, MessageForm DEF UserSays, AssistantSays

LEMMA CallsForm ==
    ASSUME NEW ids \in Seq(CallIDs)
    PROVE  /\ AssistantCalls(ids) \in Transcribed
           /\ AssistantCalls(ids).role = "assistant" /\ AssistantCalls(ids).text = ""
           /\ AssistantCalls(ids).calls = ids
<1>1. "assistant" \in Role /\ "" \in Texts
  BY DEF Role, Texts, Outs
<1>2. PICK m : m = Message("assistant", "")
  OBVIOUS
<1>3. m \in Transcribed /\ m.role = "assistant" /\ m.text = ""
  BY <1>1, <1>2, MessageForm
<1>4. AssistantCalls(ids) = [m EXCEPT !.calls = ids]
  BY <1>2 DEF AssistantCalls
<1>5. QED BY <1>3, <1>4 DEF Transcribed

LEMMA ResultForm ==
    ASSUME NEW id \in CallIDs, NEW text \in Texts
    PROVE  /\ ToolResult(id, text) \in Transcribed
           /\ ToolResult(id, text).role = "tool" /\ ToolResult(id, text).text = text
           /\ ToolResult(id, text).id = id
<1>1. "tool" \in Role
  BY DEF Role
<1>2. PICK m : m = Message("tool", text)
  OBVIOUS
<1>3. m \in Transcribed /\ m.role = "tool" /\ m.text = text
  BY <1>1, <1>2, MessageForm
<1>4. ToolResult(id, text) = [m EXCEPT !.id = id]
  BY <1>2 DEF ToolResult
<1>5. QED BY <1>3, <1>4 DEF Transcribed

LEMMA AppendFacts ==
    ASSUME NEW S, NEW s \in Seq(S), NEW e \in S
    PROVE  /\ Append(s, e) \in Seq(S) /\ Len(s) \in Nat /\ Len(Append(s, e)) = Len(s) + 1
           /\ \A n \in 1..Len(s) : Append(s, e)[n] = s[n]
           /\ Append(s, e)[Len(s) + 1] = e
           /\ \A n \in 1..(Len(s) + 1) : n \in 1..Len(s) \/ n = Len(s) + 1
  OBVIOUS

\* A message that calls nothing and answers nothing.
LEMMA PlainAppend ==
    ASSUME NEW ms \in Seq(Transcribed), NEW m \in Transcribed, NEW ids,
           PairedBut(ms, <<>>), Replaceable(ms, ids),
           m.role \in {"user", "assistant"}, m.calls = <<>> \/ m.role = "user",
           m.text # "transient"
    PROVE  /\ Append(ms, m) \in Seq(Transcribed) /\ PairedBut(Append(ms, m), <<>>)
           /\ Replaceable(Append(ms, m), ids)
<1> DEFINE q == Append(ms, m)
<1>1. /\ q \in Seq(Transcribed) /\ Len(ms) \in Nat /\ Len(q) = Len(ms) + 1
      /\ \A n \in 1..Len(ms) : q[n] = ms[n]
      /\ q[Len(ms) + 1] = m
  BY AppendFacts
<1> HIDE DEF q
<1>2. Replaceable(q, ids)
  BY <1>1 DEF Replaceable
<1>3. ASSUME NEW n \in 1..Len(q), q[n].role = "assistant", NEW k \in 1..Len(q[n].calls)
      PROVE  n + k <= Len(q) /\ q[n + k].role = "tool" /\ q[n + k].id = q[n].calls[k]
  <2>1. CASE n = Len(ms) + 1
    BY <1>1, <1>3, <2>1
  <2>2. CASE n \in 1..Len(ms)
    <3>1. q[n] = ms[n] /\ k \in 1..Len(ms[n].calls) /\ Len(<<>>) = 0
      BY <1>1, <1>3, <2>2
    <3>2. n + k <= Len(ms) /\ ms[n + k].role = "tool" /\ ms[n + k].id = ms[n].calls[k]
      BY <1>3, <2>2, <3>1 DEF PairedBut
    <3>3. n + k \in 1..Len(ms)
      BY <1>1, <1>3, <2>2, <3>1, <3>2
    <3>4. QED BY <1>1, <3>1, <3>2, <3>3
  <2>3. QED BY <1>1, <2>1, <2>2
<1>4. ASSUME NEW n \in 1..Len(q), q[n].role = "tool"
      PROVE  \E j \in 1..(n - 1) : q[j].role = "assistant" /\ n - j \in 1..Len(q[j].calls)
  <2>1. n \in 1..Len(ms) /\ ms[n].role = "tool"
    BY <1>1, <1>4
  <2>2. PICK j \in 1..(n - 1) : ms[j].role = "assistant" /\ n - j \in 1..Len(ms[j].calls)
    BY <2>1 DEF PairedBut
  <2>3. q[j] = ms[j]
    BY <1>1, <2>1, <2>2
  <2>4. QED BY <2>2, <2>3
<1>5. PairedBut(q, <<>>)
  BY <1>3, <1>4 DEF PairedBut
<1>6. QED BY <1>1, <1>2, <1>5 DEF q

\* The model calls tools.
LEMMA CallsAppend ==
    ASSUME NEW ms \in Seq(Transcribed), NEW calls \in Responses, NEW ids,
           PairedBut(ms, <<>>), Replaceable(ms, ids)
    PROVE  LET q == Append(ms, AssistantCalls(Ids(calls)))
           IN  q \in Seq(Transcribed) /\ PairedBut(q, calls) /\ Replaceable(q, ids)
<1>0. PICK m : m = AssistantCalls(Ids(calls))
  OBVIOUS
<1> DEFINE q == Append(ms, m)
<1>1. calls \in Seq(Calls) /\ calls # <<>>
  BY ResponseForm
<1>2. Ids(calls) \in Seq(CallIDs) /\ Len(Ids(calls)) = Len(calls)
      /\ \A k \in 1..Len(calls) : Ids(calls)[k] = calls[k].id
  <2>1. \A k \in 1..Len(calls) : calls[k].id \in CallIDs
    <3>1. \A k \in 1..Len(calls) : calls[k] \in Calls
      BY <1>1
    <3>2. QED BY <3>1 DEF CallIDs
  <2>2. DOMAIN calls = 1..Len(calls) /\ Len(calls) \in Nat
    BY <1>1
  <2>3. Ids(calls) = [k \in 1..Len(calls) |-> calls[k].id]
    BY <2>2 DEF Ids
  <2>4. QED BY <2>1, <2>2, <2>3
<1>3. m \in Transcribed /\ m.role = "assistant" /\ m.text = "" /\ m.calls = Ids(calls)
  BY <1>0, <1>2, CallsForm
<1>4. /\ q \in Seq(Transcribed) /\ Len(ms) \in Nat /\ Len(q) = Len(ms) + 1
      /\ \A n \in 1..Len(ms) : q[n] = ms[n]
      /\ q[Len(ms) + 1] = m
  <2>1. m \in Transcribed
    BY <1>3
  <2>2. QED BY ONLY <2>1, ms \in Seq(Transcribed), AppendFacts
<1> HIDE DEF q
<1>5. Replaceable(q, ids)
  <2>1. ASSUME NEW n \in 1..Len(q), q[n].text = "transient"
        PROVE  q[n].role = "tool" /\ q[n].id \in ids
    <3>1. n # Len(ms) + 1
      BY <1>3, <1>4, <2>1
    <3>2. n \in 1..Len(ms) /\ q[n] = ms[n]
      BY <1>4, <3>1
    <3>3. QED BY <2>1, <3>2 DEF Replaceable
  <2>2. QED BY <2>1 DEF Replaceable
<1>6. ASSUME NEW n \in 1..Len(q), q[n].role = "assistant", NEW k \in 1..Len(q[n].calls)
      PROVE  IF n + k <= Len(q)
             THEN q[n + k].role = "tool" /\ q[n + k].id = q[n].calls[k]
             ELSE /\ n + k - Len(q) \in 1..Len(calls)
                  /\ calls[n + k - Len(q)].id = q[n].calls[k]
  <2>1. CASE n = Len(ms) + 1
    <3>1. n = Len(q) /\ q[n] = m /\ k \in 1..Len(calls) /\ Len(calls) \in Nat
      <4>1. n = Len(q) /\ q[n] = m
        BY <1>4, <2>1
      <4>2. q[n].calls = Ids(calls)
        BY <1>3, <4>1
      <4>3. Len(calls) \in Nat
        BY <1>1
      <4>4. QED BY <1>2, <1>6, <4>1, <4>2, <4>3
    <3>2. n + k - Len(q) = k /\ ~(n + k <= Len(q))
      BY <1>4, <2>1, <3>1
    <3>3. QED BY <1>2, <1>3, <3>1, <3>2
  <2>2. CASE n \in 1..Len(ms)
    <3>1. q[n] = ms[n] /\ k \in 1..Len(ms[n].calls) /\ Len(<<>>) = 0
      BY <1>4, <1>6, <2>2
    <3>2. n + k <= Len(ms) /\ ms[n + k].role = "tool" /\ ms[n + k].id = ms[n].calls[k]
      BY <1>6, <2>2, <3>1 DEF PairedBut
    <3>3. n + k \in 1..Len(ms) /\ n + k <= Len(q)
      BY <1>4, <1>6, <2>2, <3>1, <3>2
    <3>4. QED BY <1>4, <3>1, <3>2, <3>3
  <2>3. QED BY <1>4, <2>1, <2>2
<1>7. ASSUME NEW n \in 1..Len(q), q[n].role = "tool"
      PROVE  \E j \in 1..(n - 1) : q[j].role = "assistant" /\ n - j \in 1..Len(q[j].calls)
  <2>1. n \in 1..Len(ms) /\ ms[n].role = "tool"
    <3>1. n # Len(ms) + 1
      BY <1>3, <1>4, <1>7
    <3>2. n \in 1..Len(ms) /\ q[n] = ms[n]
      BY <1>4, <3>1
    <3>3. QED BY <1>7, <3>2
  <2>2. PICK j \in 1..(n - 1) : ms[j].role = "assistant" /\ n - j \in 1..Len(ms[j].calls)
    BY <2>1 DEF PairedBut
  <2>3. q[j] = ms[j]
    BY <1>4, <2>1, <2>2
  <2>4. QED BY <2>2, <2>3
<1>8. \E j \in 1..Len(q) : q[j].role = "assistant" /\ j + Len(q[j].calls) = Len(q) + Len(calls)
  <2>1. Len(q) \in 1..Len(q) /\ q[Len(q)] = m
    BY <1>4
  <2>2. QED BY <1>2, <1>3, <2>1
<1>9. PairedBut(q, calls)
  BY <1>6, <1>7, <1>8 DEF PairedBut
<1>10. QED BY <1>0, <1>4, <1>5, <1>9 DEF q

\* A tool's result.
LEMMA ResultAppend ==
    ASSUME NEW ms \in Seq(Transcribed), NEW todo \in Seq(Calls), todo # <<>>,
           NEW out \in Texts, NEW ids,
           PairedBut(ms, todo), Replaceable(ms, ids)
    PROVE  LET q == Append(ms, ToolResult(Head(todo).id, out))
           IN  /\ q \in Seq(Transcribed) /\ PairedBut(q, Tail(todo))
               /\ Replaceable(q, ids \union IF out = "transient" THEN {Head(todo).id} ELSE {})
<1> DEFINE m == ToolResult(Head(todo).id, out)
           q == Append(ms, m)
           rest == Tail(todo)
<1>1. /\ Len(todo) \in Nat /\ Len(todo) >= 1 /\ Head(todo) = todo[1] /\ Head(todo) \in Calls
      /\ rest \in Seq(Calls) /\ Len(rest) = Len(todo) - 1
      /\ \A n \in 1..Len(rest) : rest[n] = todo[n + 1]
  OBVIOUS
<1> HIDE DEF rest
<1>2. m \in Transcribed /\ m.role = "tool" /\ m.text = out /\ m.id = todo[1].id
  <2>1. todo[1].id \in CallIDs
    BY <1>1 DEF CallIDs
  <2>2. QED BY <1>1, <2>1, ResultForm
<1> HIDE DEF m
<1>3. /\ q \in Seq(Transcribed) /\ Len(ms) \in Nat /\ Len(q) = Len(ms) + 1
      /\ \A n \in 1..Len(ms) : q[n] = ms[n]
      /\ q[Len(ms) + 1] = m
      /\ \A n \in 1..Len(q) : n \in 1..Len(ms) \/ n = Len(ms) + 1
  BY <1>2, AppendFacts
<1> HIDE DEF q
<1>4. Replaceable(q, ids \union IF out = "transient" THEN {todo[1].id} ELSE {})
  BY <1>2, <1>3 DEF Replaceable
<1>5. ASSUME NEW n \in 1..Len(q), q[n].role = "assistant", NEW k \in 1..Len(q[n].calls)
      PROVE  IF n + k <= Len(q)
             THEN q[n + k].role = "tool" /\ q[n + k].id = q[n].calls[k]
             ELSE /\ n + k - Len(q) \in 1..Len(rest)
                  /\ rest[n + k - Len(q)].id = q[n].calls[k]
  <2>1. n \in 1..Len(ms) /\ q[n] = ms[n] /\ ms[n].role = "assistant" /\ k \in 1..Len(ms[n].calls)
    BY <1>2, <1>3, <1>5
  <2>2. IF n + k <= Len(ms)
        THEN ms[n + k].role = "tool" /\ ms[n + k].id = ms[n].calls[k]
        ELSE /\ n + k - Len(ms) \in 1..Len(todo)
             /\ todo[n + k - Len(ms)].id = ms[n].calls[k]
    BY <2>1 DEF PairedBut
  <2>3. n \in Nat /\ k \in Nat /\ n >= 1 /\ k >= 1
    BY <2>1
  <2>4. CASE n + k <= Len(ms)
    <3>1. n + k \in 1..Len(ms) /\ n + k <= Len(q)
      BY <1>3, <2>3, <2>4
    <3>2. QED BY <1>3, <2>1, <2>2, <2>4, <3>1
  <2>5. CASE n + k = Len(ms) + 1
    <3>1. n + k - Len(ms) = 1 /\ ~(n + k <= Len(ms)) /\ n + k <= Len(q)
      BY <1>3, <2>3, <2>5
    <3>2. QED BY <1>2, <1>3, <2>1, <2>2, <2>5, <3>1
  <2>6. CASE n + k > Len(ms) + 1
    <3>1. PICK j : j = n + k - Len(q)
      OBVIOUS
    <3>2. n + k - Len(ms) = j + 1 /\ j \in Nat /\ j >= 1 /\ ~(n + k <= Len(q))
          /\ ~(n + k <= Len(ms))
      BY <1>3, <2>3, <2>6, <3>1
    <3>3. j + 1 \in 1..Len(todo) /\ todo[j + 1].id = ms[n].calls[k]
      BY <2>2, <3>2
    <3>4. j \in 1..Len(rest)
      BY <1>1, <3>2, <3>3
    <3>5. rest[j] = todo[j + 1]
      BY <1>1, <3>4
    <3>6. QED BY <2>1, <3>1, <3>2, <3>3, <3>4, <3>5
  <2>7. QED BY <1>3, <2>3, <2>4, <2>5, <2>6
<1>6. PICK a \in 1..Len(ms) :
        ms[a].role = "assistant" /\ a + Len(ms[a].calls) = Len(ms) + Len(todo)
  BY DEF PairedBut
<1>7. q[a] = ms[a] /\ a \in 1..Len(q) /\ Len(ms[a].calls) \in Nat
  <2>1. ms[a] \in Transcribed
    BY <1>6
  <2>2. ms[a].calls \in Seq(CallIDs)
    BY <2>1 DEF Transcribed
  <2>3. QED BY <1>3, <1>6, <2>2
<1>8. ASSUME NEW n \in 1..Len(q), q[n].role = "tool"
      PROVE  \E j \in 1..(n - 1) : q[j].role = "assistant" /\ n - j \in 1..Len(q[j].calls)
  <2>1. CASE n = Len(ms) + 1
    <3>1. a \in 1..(n - 1) /\ n - a \in 1..Len(q[a].calls)
      BY <1>1, <1>3, <1>6, <1>7, <2>1
    <3>2. QED BY <1>6, <1>7, <3>1
  <2>2. CASE n \in 1..Len(ms)
    <3>1. ms[n].role = "tool"
      BY <1>3, <1>8, <2>2
    <3>2. PICK j \in 1..(n - 1) : ms[j].role = "assistant" /\ n - j \in 1..Len(ms[j].calls)
      BY <2>2, <3>1 DEF PairedBut
    <3>3. q[j] = ms[j]
      BY <1>3, <2>2, <3>2
    <3>4. QED BY <3>2, <3>3
  <2>3. QED BY <1>3, <2>1, <2>2
<1>9. a + Len(q[a].calls) = Len(q) + Len(rest)
  <2>1. Len(q[a].calls) = Len(ms[a].calls)
    BY <1>7
  <2>2. Len(q) + Len(rest) = Len(ms) + Len(todo)
    BY <1>1, <1>3
  <2>3. QED BY <1>6, <2>1, <2>2
<1>10. PairedBut(q, rest)
  BY <1>5, <1>6, <1>7, <1>8, <1>9 DEF PairedBut
<1>11. QED BY <1>1, <1>3, <1>4, <1>10 DEF q, m, rest

\* What the commit stores.
LEMMA PersistedKept ==
    ASSUME NEW ms \in Seq(Transcribed), NEW ids, PairedBut(ms, <<>>), Replaceable(ms, ids)
    PROVE  Kept(Persisted(ms, ids))
<1>1. PICK q : q = Persisted(ms, ids)
  OBVIOUS
<1>2. DOMAIN ms = 1..Len(ms) /\ Len(ms) \in Nat
  OBVIOUS
<1>3. q = [n \in 1..Len(ms) |-> IF ms[n].role = "tool" /\ ms[n].id \in ids
                                THEN [ms[n] EXCEPT !.text = "receipt"] ELSE ms[n]]
  BY <1>1, <1>2 DEF Persisted
<1>4. ASSUME NEW n \in 1..Len(ms)
      PROVE  /\ q[n] \in Transcribed /\ q[n].role = ms[n].role /\ q[n].calls = ms[n].calls
             /\ q[n].id = ms[n].id
             /\ q[n].text = "transient" => FALSE
  <2>1. ms[n] \in Transcribed /\ "receipt" \in Texts
    BY DEF Texts
  <2>2. CASE ms[n].role = "tool" /\ ms[n].id \in ids
    <3>1. q[n] = [ms[n] EXCEPT !.text = "receipt"]
      BY <1>3, <2>2
    <3>2. QED BY <2>1, <3>1 DEF Transcribed
  <2>3. CASE ~(ms[n].role = "tool" /\ ms[n].id \in ids)
    <3>1. q[n] = ms[n] /\ ms[n].text # "transient"
      BY <1>3, <2>3 DEF Replaceable
    <3>2. QED BY <2>1, <3>1
  <2>4. QED BY <2>2, <2>3
<1>5. q \in Seq(Transcribed) /\ Len(q) = Len(ms)
  BY <1>2, <1>3, <1>4
<1>6. Replaceable(q, {})
  BY <1>4, <1>5 DEF Replaceable
<1>7. ASSUME NEW n \in 1..Len(q), q[n].role = "assistant", NEW k \in 1..Len(q[n].calls)
      PROVE  n + k <= Len(q) /\ q[n + k].role = "tool" /\ q[n + k].id = q[n].calls[k]
  <2>1. n \in 1..Len(ms) /\ ms[n].role = "assistant" /\ k \in 1..Len(ms[n].calls)
        /\ q[n].calls = ms[n].calls /\ Len(<<>>) = 0
    BY <1>4, <1>5, <1>7
  <2>2. n + k <= Len(ms) /\ ms[n + k].role = "tool" /\ ms[n + k].id = ms[n].calls[k]
    BY <2>1 DEF PairedBut
  <2>3. n + k \in 1..Len(ms)
    BY <1>2, <2>1, <2>2
  <2>4. QED BY <1>4, <1>5, <2>1, <2>2, <2>3
<1>8. ASSUME NEW n \in 1..Len(q), q[n].role = "tool"
      PROVE  \E j \in 1..(n - 1) : q[j].role = "assistant" /\ n - j \in 1..Len(q[j].calls)
  <2>1. n \in 1..Len(ms) /\ ms[n].role = "tool"
    BY <1>4, <1>5, <1>8
  <2>2. PICK j \in 1..(n - 1) : ms[j].role = "assistant" /\ n - j \in 1..Len(ms[j].calls)
    BY <2>1 DEF PairedBut
  <2>3. j \in 1..Len(ms)
    BY <2>1
  <2>4. QED BY <1>4, <2>2, <2>3
<1>9. PairedBut(q, <<>>)
  BY <1>7, <1>8 DEF PairedBut
<1>10. QED BY <1>1, <1>5, <1>6, <1>9 DEF Kept

-----------------------------------------------------------------------------
(***************************************************************************)
(* The compaction                                                          *)
(***************************************************************************)
\* Induction over the numbers, for a set and so without an operator parameter.
LEMMA SetInduction ==
    ASSUME NEW T, 0 \in T, \A n \in Nat : n \in T => n + 1 \in T
    PROVE  Nat \subseteq T
<1> SUFFICES ASSUME Nat \ T # {} PROVE FALSE
  OBVIOUS
<1>1. PICK x \in Nat \ T : \A y \in Nat \ T : <<y, x>> \notin OpToRel(<, Nat)
  BY NatLessThanWellFounded, WFMin
<1>2. x \in Nat /\ x \notin T
  BY <1>1
<1>3. x # 0
  BY <1>2
<1>4. x - 1 \in Nat /\ x - 1 < x /\ (x - 1) + 1 = x
  BY <1>2, <1>3
<1>5. <<x - 1, x>> \in OpToRel(<, Nat)
  BY <1>2, <1>4 DEF OpToRel
<1>6. x - 1 \in T
  BY <1>1, <1>4, <1>5
<1>7. (x - 1) + 1 \in T
  BY <1>4, <1>6
<1>8. QED BY <1>2, <1>4, <1>7

\* A message that is no part of a call and tells nothing transient: all that a
\* History is made of, since ConvertIntoHistory fails on any other.
Plain ==
    {m \in Transcribed : /\ m.role # "tool" /\ m.text # "transient"
                         /\ m.role = "assistant" => m.calls = <<>>}

\* What a transcript may hold.
Readable == {m \in Transcribed : m.text = "transient" => m.role = "tool"}

Slices == [array: Nat, length: Nat]

\* A slice lies within its array.
Within(slice, arrays) ==
    /\ slice.array <= Len(arrays)
    /\ slice.array = 0 => slice.length = 0
    /\ slice.array > 0 => slice.length <= Len(arrays[slice.array])

Converter ==
    [skip: BOOLEAN, turnseen: BOOLEAN, bad: BOOLEAN, prefix: Seq(Plain),
     turns: Seq([input: Slices, assistant: Plain]), pending: Slices, arrays: Seq(Seq(Plain))]

ConverterInv(c) ==
    /\ c \in Converter
    /\ Within(c.pending, c.arrays)
    /\ \A n \in 1..Len(c.turns) : Within(c.turns[n].input, c.arrays)

\* An array that is written in place, or one more array, leaves every slice within
\* its array.
LEMMA WithinGrows ==
    ASSUME NEW arrays \in Seq(Seq(Plain)), NEW more \in Seq(Seq(Plain)),
           Len(more) >= Len(arrays),
           \A n \in 1..Len(arrays) : Len(more[n]) = Len(arrays[n]),
           NEW s \in Slices, Within(s, arrays)
    PROVE  Within(s, more)
  BY DEF Within, Slices

LEMMA TurnForm ==
    ASSUME NEW turns \in Seq([input: Slices, assistant: Plain])
    PROVE  \A n \in 1..Len(turns) : turns[n].input \in Slices /\ turns[n].assistant \in Plain
<1> DEFINE R == [input: Slices, assistant: Plain]
<1>1. turns \in Seq(R)
  OBVIOUS
<1> HIDE DEF R
<1>2. \A n \in 1..Len(turns) : turns[n] \in R
  BY ONLY <1>1
<1>3. QED BY <1>2 DEF R

\* append, in place or to a new array.
LEMMA Append1Inv ==
    ASSUME NEW c, ConverterInv(c), NEW m \in Plain
    PROVE  /\ ConverterInv(Append1(c, m))
           /\ \A b \in BOOLEAN : ConverterInv([Append1(c, m) EXCEPT !.skip = b])
<1> DEFINE p == c.pending
           cells == IF p.array = 0 THEN <<>> ELSE c.arrays[p.array]
           grown == [n \in 1..(IF p.length = 0 THEN 1 ELSE 2 * p.length) |->
                        IF n <= p.length THEN cells[n] ELSE m]
           d == Append1(c, m)
<1>1. /\ c \in Converter /\ p \in Slices /\ p.array \in Nat /\ p.length \in Nat
      /\ c.arrays \in Seq(Seq(Plain)) /\ Within(p, c.arrays)
      /\ c.turns \in Seq([input: Slices, assistant: Plain])
  BY DEF ConverterInv, Converter, Slices
<1>2. cells \in Seq(Plain) /\ p.length <= Len(cells)
  <2>1. CASE p.array = 0
    BY <1>1, <2>1 DEF Within
  <2>2. CASE p.array # 0
    <3>1. p.array \in 1..Len(c.arrays)
      BY <1>1, <2>2 DEF Within
    <3>2. QED BY <1>1, <2>2, <3>1 DEF Within
  <2>3. QED BY <2>1, <2>2
<1>3. ASSUME NEW e, e \in Converter, e.turns = c.turns, Within(e.pending, e.arrays),
             Len(e.arrays) >= Len(c.arrays),
             \A n \in 1..Len(c.arrays) : Len(e.arrays[n]) = Len(c.arrays[n])
      PROVE  ConverterInv(e) /\ \A b \in BOOLEAN : ConverterInv([e EXCEPT !.skip = b])
  <2>1. e.arrays \in Seq(Seq(Plain))
    BY <1>3 DEF Converter
  <2>2. \A n \in 1..Len(c.turns) : c.turns[n].input \in Slices
    BY ONLY <1>1, TurnForm
  <2>3. \A n \in 1..Len(c.turns) : Within(c.turns[n].input, e.arrays)
    BY <1>1, <1>3, <2>1, <2>2, WithinGrows DEF ConverterInv
  <2>4. ASSUME NEW b \in BOOLEAN PROVE ConverterInv([e EXCEPT !.skip = b])
    <3>1. PICK f : f = [e EXCEPT !.skip = b]
      OBVIOUS
    <3>2. /\ f \in Converter /\ f.turns = e.turns /\ f.pending = e.pending
          /\ f.arrays = e.arrays
      BY <1>3, <2>4, <3>1 DEF Converter
    <3>3. QED BY <1>3, <2>3, <3>1, <3>2 DEF ConverterInv
  <2>5. QED BY <1>3, <2>3, <2>4 DEF ConverterInv
<1> HIDE DEF cells
<1>4. CASE p.length < Len(cells)
  <2>1. p.array \in 1..Len(c.arrays) /\ cells = c.arrays[p.array]
    BY <1>1, <1>2, <1>4 DEF Within, cells
  <2> DEFINE more == [c.arrays EXCEPT ![p.array][p.length + 1] = m]
             q == [p EXCEPT !.length = @ + 1]
  <2>2. d = [c EXCEPT !.arrays = more, !.pending = q]
    <3>1. d = [c EXCEPT !.arrays[p.array][p.length + 1] = m, !.pending.length = @ + 1]
      BY <1>4 DEF Append1, cells
    <3>2. QED BY <1>1, <3>1 DEF Converter
  <2>3. [cells EXCEPT ![p.length + 1] = m] \in Seq(Plain)
        /\ Len([cells EXCEPT ![p.length + 1] = m]) = Len(cells)
    <3>1. PICK k \in Nat : k = p.length + 1
      BY <1>1
    <3>2. k \in 1..Len(cells) /\ cells \in Seq(Plain)
      BY <1>1, <1>2, <1>4, <3>1
    <3>3. [cells EXCEPT ![k] = m] \in Seq(Plain) /\ Len([cells EXCEPT ![k] = m]) = Len(cells)
      BY ONLY <3>2, m \in Plain
    <3>4. QED BY <3>1, <3>3
  <2>4. /\ more \in Seq(Seq(Plain)) /\ Len(more) = Len(c.arrays)
        /\ \A n \in 1..Len(c.arrays) : Len(more[n]) = Len(c.arrays[n])
    <3>1. more = [c.arrays EXCEPT ![p.array] = [cells EXCEPT ![p.length + 1] = m]]
      BY <2>1
    <3> HIDE DEF more
    <3>2. QED BY <1>1, <2>1, <2>3, <3>1
  <2>5. q \in Slices /\ q.array = p.array /\ q.length = p.length + 1
    BY <1>1 DEF Slices
  <2> HIDE DEF more, q
  <2>6. /\ d \in Converter /\ d.turns = c.turns /\ d.pending = q /\ d.arrays = more
    BY <1>1, <2>2, <2>4, <2>5 DEF Converter
  <2>7. Within(q, more)
    BY <1>1, <1>4, <2>1, <2>4, <2>5 DEF Within
  <2> HIDE DEF d
  <2>8. Within(d.pending, d.arrays)
    BY <2>6, <2>7
  <2>9. Len(d.arrays) >= Len(c.arrays)
        /\ \A n \in 1..Len(c.arrays) : Len(d.arrays[n]) = Len(c.arrays[n])
    BY <1>1, <2>4, <2>6
  <2>10. ConverterInv(d) /\ \A b \in BOOLEAN : ConverterInv([d EXCEPT !.skip = b])
    BY ONLY <1>3, <2>6, <2>8, <2>9
  <2>11. QED BY ONLY <2>10 DEF d
<1>5. CASE ~ (p.length < Len(cells))
  <2> DEFINE more == Append(c.arrays, grown)
             q == Slice(Len(c.arrays) + 1, p.length + 1)
  <2>1. d = [c EXCEPT !.arrays = more, !.pending = q]
    BY <1>1, <1>5 DEF Append1, cells, Converter
  <2>2. grown \in Seq(Plain) /\ Len(grown) >= p.length + 1
    <3>1. PICK k \in Nat : k = IF p.length = 0 THEN 1 ELSE 2 * p.length
      BY <1>1
    <3>2. k >= p.length + 1
      BY <1>1, <3>1
    <3>3. \A n \in 1..k : (IF n <= p.length THEN cells[n] ELSE m) \in Plain
      BY <1>1, <1>2
    <3>4. grown = [n \in 1..k |-> IF n <= p.length THEN cells[n] ELSE m]
      BY <3>1
    <3> HIDE DEF grown
    <3>5. grown \in [1..k -> Plain]
      BY <3>3, <3>4
    <3>6. QED BY <3>2, <3>5
  <2> HIDE DEF grown
  <2>3. /\ more \in Seq(Seq(Plain)) /\ Len(more) = Len(c.arrays) + 1
        /\ \A n \in 1..Len(c.arrays) : more[n] = c.arrays[n]
        /\ more[Len(c.arrays) + 1] = grown
    BY <1>1, <2>2
  <2>4. q \in Slices /\ q.array = Len(c.arrays) + 1 /\ q.length = p.length + 1
    BY <1>1 DEF Slice, Slices
  <2> HIDE DEF more, q
  <2>5. /\ d \in Converter /\ d.turns = c.turns /\ d.pending = q /\ d.arrays = more
    BY <1>1, <2>1, <2>3, <2>4 DEF Converter
  <2>6. Within(q, more)
    BY <1>1, <2>2, <2>3, <2>4 DEF Within
  <2> HIDE DEF d
  <2>7. Within(d.pending, d.arrays)
    BY <2>5, <2>6
  <2>8. Len(d.arrays) >= Len(c.arrays)
        /\ \A n \in 1..Len(c.arrays) : Len(d.arrays[n]) = Len(c.arrays[n])
    BY <1>1, <2>3, <2>5
  <2>9. ConverterInv(d) /\ \A b \in BOOLEAN : ConverterInv([d EXCEPT !.skip = b])
    BY ONLY <1>3, <2>5, <2>7, <2>8
  <2>10. QED BY ONLY <2>9 DEF d
<1>6. QED BY <1>4, <1>5

\* What the loop collects is plain: a call, or the result of one, ends it.
LEMMA ConsumeInv ==
    ASSUME NEW c, ConverterInv(c), NEW m \in Readable
    PROVE  ConverterInv(Consume(c, m))
<1>1. /\ c \in Converter /\ c.skip \in BOOLEAN /\ c.bad \in BOOLEAN /\ c.turnseen \in BOOLEAN
      /\ c.pending \in Slices /\ c.prefix \in Seq(Plain)
      /\ c.turns \in Seq([input: Slices, assistant: Plain]) /\ c.arrays \in Seq(Seq(Plain))
  BY DEF ConverterInv, Converter
<1>2. m.role \in {"system", "user"} \/ (m.role = "assistant" /\ m.calls = <<>>) => m \in Plain
  BY DEF Readable, Plain
<1> DEFINE first == m.role = "system" /\ c.turnseen /\ c.pending.length = 0
           d == Consume(c, m)
<1>3. ASSUME NEW e, e \in Converter, e.turns = c.turns, e.pending = c.pending,
             e.arrays = c.arrays
      PROVE  ConverterInv(e)
  <2>1. Within(c.pending, c.arrays) /\ \A n \in 1..Len(c.turns) : Within(c.turns[n].input, c.arrays)
    BY DEF ConverterInv
  <2>2. Within(e.pending, e.arrays) /\ \A n \in 1..Len(e.turns) : Within(e.turns[n].input, e.arrays)
    BY ONLY <1>3, <2>1
  <2>3. QED BY ONLY <1>3, <2>2 DEF ConverterInv
<1>4. CASE c.bad
  BY <1>4 DEF Consume
<1>5. CASE ~c.bad /\ c.skip
  <2>1. d = [c EXCEPT !.skip = FALSE]
    BY <1>5 DEF Consume
  <2> HIDE DEF d
  <2>2. d \in Converter /\ d.turns = c.turns /\ d.pending = c.pending /\ d.arrays = c.arrays
    BY <1>1, <2>1 DEF Converter
  <2>3. ConverterInv(d)
    BY <1>3, <2>2
  <2>4. QED BY ONLY <2>3 DEF d
<1>6. CASE ~c.bad /\ ~c.skip /\ first
  <2>1. d = [c EXCEPT !.prefix = Append(@, m), !.skip = TRUE]
    BY <1>6 DEF Consume
  <2>2. Append(c.prefix, m) \in Seq(Plain)
    <3>1. m \in Plain
      BY <1>2, <1>6
    <3> HIDE DEF first, d
    <3>2. QED BY <1>1, <3>1
  <2> HIDE DEF d
  <2>3. d \in Converter /\ d.turns = c.turns /\ d.pending = c.pending /\ d.arrays = c.arrays
    <3>1. PICK q : q = Append(c.prefix, m)
      OBVIOUS
    <3>2. d = [c EXCEPT !.prefix = q, !.skip = TRUE] /\ q \in Seq(Plain)
      BY <1>1, <2>1, <2>2, <3>1 DEF Converter
    <3>3. QED BY <1>1, <3>2 DEF Converter
  <2>4. ConverterInv(d)
    BY <1>3, <2>3
  <2>5. QED BY ONLY <2>4 DEF d
<1>7. CASE ~c.bad /\ ~c.skip /\ ~first /\ m.role \in {"system", "user"}
  <2>1. d = [Append1(c, m) EXCEPT !.skip = TRUE]
    BY <1>7 DEF Consume
  <2>2. ConverterInv([Append1(c, m) EXCEPT !.skip = TRUE])
    BY <1>2, <1>7, Append1Inv
  <2>3. QED BY <2>1, <2>2
<1>8. CASE ~c.bad /\ ~c.skip /\ m.role = "assistant" /\ m.calls = <<>>
  <2> DEFINE turn == [input |-> c.pending, assistant |-> m]
             turns == Append(c.turns, turn)
             p == [c.pending EXCEPT !.length = 0]
  <2>1. d = [c EXCEPT !.turnseen = TRUE, !.pending = p, !.turns = turns]
    <3>1. d = [c EXCEPT !.turnseen = TRUE, !.pending.length = 0, !.turns = Append(@, turn)]
      BY <1>8 DEF Consume
    <3>2. QED BY <1>1, <3>1 DEF Converter
  <2>2. turn \in [input: Slices, assistant: Plain] /\ turn.input = c.pending
    BY <1>1, <1>2, <1>8
  <2>3. /\ turns \in Seq([input: Slices, assistant: Plain]) /\ Len(turns) = Len(c.turns) + 1
        /\ \A n \in 1..Len(c.turns) : turns[n] = c.turns[n]
        /\ turns[Len(c.turns) + 1] = turn
    <3> DEFINE R == [input: Slices, assistant: Plain]
    <3>1. c.turns \in Seq(R) /\ turn \in R
      BY <1>1, <2>2
    <3> HIDE DEF R, turn, d
    <3>2. /\ turns \in Seq(R) /\ Len(turns) = Len(c.turns) + 1
          /\ \A n \in 1..Len(c.turns) : turns[n] = c.turns[n]
          /\ turns[Len(c.turns) + 1] = turn
      BY ONLY <3>1
    <3>3. QED BY ONLY <3>2 DEF R
  <2>4. p \in Slices /\ p.array = c.pending.array /\ p.length = 0
    BY <1>1 DEF Slices
  <2>5. Within(p, c.arrays) /\ Within(c.pending, c.arrays)
    <3>1. Within(c.pending, c.arrays)
      BY DEF ConverterInv
    <3>2. p.array > 0 => Len(c.arrays[p.array]) >= 0
      <4>1. p.array > 0 => p.array \in 1..Len(c.arrays)
        BY <1>1, <2>4, <3>1 DEF Within, Slices
      <4>2. QED BY <1>1, <4>1
    <3>3. QED BY <1>1, <2>4, <3>1, <3>2 DEF Within
  <2> HIDE DEF turn, turns, p, d
  <2>6. /\ d \in Converter /\ d.turns = turns /\ d.pending = p /\ d.arrays = c.arrays
    BY <1>1, <2>1, <2>3, <2>4 DEF Converter
  <2>7. \A n \in 1..Len(turns) : Within(turns[n].input, c.arrays)
    <3>1. \A n \in 1..Len(c.turns) : Within(c.turns[n].input, c.arrays)
      BY DEF ConverterInv
    <3>2. Len(c.turns) \in Nat
      BY ONLY <1>1
    <3>3. QED BY ONLY <2>2, <2>3, <2>5, <3>1, <3>2
  <2>8. ConverterInv(d)
    BY ONLY <2>5, <2>6, <2>7 DEF ConverterInv
  <2>9. QED BY ONLY <2>8 DEF d
<1>9. CASE /\ ~c.bad /\ ~c.skip /\ ~(m.role \in {"system", "user"})
           /\ ~(m.role = "assistant" /\ m.calls = <<>>)
  <2>1. d = [c EXCEPT !.bad = TRUE]
    BY <1>9 DEF Consume
  <2> HIDE DEF d
  <2>2. d \in Converter /\ d.turns = c.turns /\ d.pending = c.pending /\ d.arrays = c.arrays
    BY <1>1, <2>1 DEF Converter
  <2>3. ConverterInv(d)
    BY <1>3, <2>2
  <2>4. QED BY ONLY <2>3 DEF d
<1>10. QED BY <1>1, <1>4, <1>5, <1>6, <1>7, <1>8, <1>9

(***************************************************************************)
(* A fold is taken along the finite sets of positions of its sequence      *)
(***************************************************************************)
LEMMA LastPosition ==
    ASSUME NEW k \in Nat, NEW s \in SUBSET (1..(k + 1)), k + 1 \in s
    PROVE  Max(s) = k + 1 /\ s \ {k + 1} \in SUBSET (1..k)
<1>1. \A x \in s : x \in 1..(k + 1)
  OBVIOUS
<1>2. \A x \in s : (\A y \in s : x >= y) <=> x = k + 1
  BY <1>1
<1>3. Max(s) = k + 1
  BY <1>2 DEF Max
<1>4. QED BY <1>1, <1>3

LEMMA MaxIn ==
    ASSUME NEW k \in Nat, NEW s \in SUBSET (1..k), s # {}
    PROVE  Max(s) \in s
<1> DEFINE T == {j \in Nat : \A t \in SUBSET (1..j) : t # {} => Max(t) \in t}
<1>1. 0 \in T
  <2>1. \A t \in SUBSET (1..0) : t = {}
    OBVIOUS
  <2>2. QED BY <2>1
<1>2. ASSUME NEW j \in Nat, j \in T PROVE j + 1 \in T
  <2>1. ASSUME NEW t \in SUBSET (1..(j + 1)), t # {} PROVE Max(t) \in t
    <3>1. CASE j + 1 \in t
      BY <3>1, LastPosition
    <3>2. CASE j + 1 \notin t
      <4>1. t \in SUBSET (1..j)
        BY <3>2
      <4>2. QED BY <1>2, <2>1, <4>1
    <3>3. QED BY <3>1, <3>2
  <2>2. QED BY <2>1
<1> HIDE DEF T
<1>3. Nat \subseteq T
  BY <1>1, <1>2, SetInduction
<1>4. QED BY <1>3 DEF T

FoldsOf(base, Y, F, n) ==
    {g \in [SUBSET (1..n) -> Y] : \A s \in SUBSET (1..n) :
        g[s] = IF s = {} THEN base ELSE F[<<g[s \ {Max(s)}], Max(s)>>]}

\* There is such a function ...
LEMMA FoldExists ==
    ASSUME NEW base, NEW Y, base \in Y, NEW n \in Nat, NEW F \in [Y \X (1..n) -> Y]
    PROVE  \E g : g \in FoldsOf(base, Y, F, n)
<1> DEFINE Folds(k) == FoldsOf(base, Y, F, k)
           T == {k \in Nat : k <= n => Folds(k) # {}}
<1>1. 0 \in T
  <2>1. \A s \in SUBSET (1..0) : s = {}
    <3>1. \A x : x \notin 1..0
      OBVIOUS
    <3>2. QED BY <3>1
  <2>2. PICK g : g = [s \in SUBSET (1..0) |-> base]
    OBVIOUS
  <2>3. g \in [SUBSET (1..0) -> Y] /\ \A s \in SUBSET (1..0) : g[s] = base
    BY <2>2
  <2>4. \A s \in SUBSET (1..0) :
            g[s] = IF s = {} THEN base ELSE F[<<g[s \ {Max(s)}], Max(s)>>]
    BY ONLY <2>1, <2>3
  <2>5. g \in Folds(0)
    BY <2>3, <2>4 DEF FoldsOf
  <2> HIDE DEF Folds
  <2>6. QED BY <2>5
<1> HIDE DEF Folds
<1>2. ASSUME NEW k \in Nat, k \in T PROVE k + 1 \in T
  <2> SUFFICES ASSUME k + 1 <= n PROVE Folds(k + 1) # {}
    OBVIOUS
  <2>1. PICK g : g \in Folds(k)
    BY <1>2
  <2>2. g \in [SUBSET (1..k) -> Y]
    BY <2>1 DEF Folds, FoldsOf
  <2>3. ASSUME NEW s \in SUBSET (1..k), s # {}
        PROVE g[s] = F[<<g[s \ {Max(s)}], Max(s)>>]
    BY <2>1, <2>3 DEF Folds, FoldsOf
  <2>4. g[{}] = base
    BY <2>1 DEF Folds, FoldsOf
  <2> DEFINE h == [s \in SUBSET (1..(k + 1)) |->
                      IF k + 1 \in s THEN F[<<g[s \ {k + 1}], k + 1>>] ELSE g[s]]
  <2>5. ASSUME NEW s \in SUBSET (1..(k + 1)), k + 1 \notin s
        PROVE s \in SUBSET (1..k) /\ h[s] = g[s]
    <3>1. s \in SUBSET (1..k)
      BY <2>5
    <3>2. QED BY <2>5, <3>1
  <2>6. ASSUME NEW s \in SUBSET (1..(k + 1)), k + 1 \in s
        PROVE /\ Max(s) = k + 1 /\ s \ {k + 1} \in SUBSET (1..k)
              /\ h[s] = F[<<g[s \ {k + 1}], k + 1>>]
              /\ h[s \ {k + 1}] = g[s \ {k + 1}]
    <3>1. Max(s) = k + 1 /\ s \ {k + 1} \in SUBSET (1..k)
      BY <2>6, LastPosition
    <3>2. s \ {k + 1} \in SUBSET (1..(k + 1)) /\ k + 1 \notin s \ {k + 1}
      OBVIOUS
    <3>3. h[s \ {k + 1}] = g[s \ {k + 1}]
      BY <2>5, <3>2
    <3>4. QED BY <2>6, <3>1, <3>3
  <2> HIDE DEF h
  <2>7. h \in [SUBSET (1..(k + 1)) -> Y]
    <3>1. \A s \in SUBSET (1..(k + 1)) : h[s] \in Y
      <4> TAKE s \in SUBSET (1..(k + 1))
      <4>1. CASE k + 1 \in s
        <5>1. g[s \ {k + 1}] \in Y /\ k + 1 \in 1..n
          BY <2>2, <2>6, <4>1
        <5>2. QED BY <2>6, <4>1, <5>1
      <4>2. CASE k + 1 \notin s
        BY <2>2, <2>5, <4>2
      <4>3. QED BY <4>1, <4>2
    <3>2. h = [s \in SUBSET (1..(k + 1)) |-> h[s]]
      BY DEF h
    <3>3. QED BY <3>1, <3>2
  <2>8. ASSUME NEW s \in SUBSET (1..(k + 1))
        PROVE h[s] = IF s = {} THEN base ELSE F[<<h[s \ {Max(s)}], Max(s)>>]
    <3>1. CASE k + 1 \in s
      <4>1. s # {}
        BY <3>1
      <4>2. QED BY <2>6, <3>1, <4>1
    <3>2. CASE k + 1 \notin s /\ s # {}
      <4>1. s \in SUBSET (1..k) /\ h[s] = g[s]
        BY <2>5, <3>2
      <4>2. s \ {Max(s)} \in SUBSET (1..(k + 1)) /\ k + 1 \notin s \ {Max(s)}
        BY <3>2
      <4>3. h[s \ {Max(s)}] = g[s \ {Max(s)}]
        BY <2>5, <4>2
      <4>4. QED BY <2>3, <3>2, <4>1, <4>3
    <3>3. CASE s = {}
      BY <2>4, <2>5, <3>3
    <3>4. QED BY <3>1, <3>2, <3>3
  <2>9. h \in Folds(k + 1)
    BY <2>7, <2>8 DEF Folds, FoldsOf
  <2>10. QED BY <2>9
<1> HIDE DEF T
<1>3. Nat \subseteq T
  BY <1>1, <1>2, SetInduction
<1>4. Folds(n) # {}
  BY <1>3 DEF T
<1>5. QED BY <1>4 DEF Folds

\* ... and what each step keeps, it keeps.
LEMMA FoldKeeps ==
    ASSUME NEW Y, NEW n \in Nat, NEW g, g[{}] \in Y,
           \A s \in SUBSET (1..n) : s # {} /\ g[s \ {Max(s)}] \in Y => g[s] \in Y
    PROVE  \A s \in SUBSET (1..n) : g[s] \in Y
<1> DEFINE T == {k \in Nat : k <= n => \A s \in SUBSET (1..k) : g[s] \in Y}
<1>1. 0 \in T
  <2>1. \A s \in SUBSET (1..0) : s = {}
    OBVIOUS
  <2>2. QED BY <2>1
<1>2. ASSUME NEW k \in Nat, k \in T PROVE k + 1 \in T
  <2> SUFFICES ASSUME k + 1 <= n, NEW s \in SUBSET (1..(k + 1)) PROVE g[s] \in Y
    OBVIOUS
  <2>1. \A t \in SUBSET (1..k) : g[t] \in Y
    BY <1>2
  <2>2. CASE k + 1 \in s
    <3>1. Max(s) = k + 1 /\ s \ {k + 1} \in SUBSET (1..k) /\ s # {}
      BY <2>2, LastPosition
    <3>2. s \in SUBSET (1..n)
      OBVIOUS
    <3>3. QED BY <2>1, <3>1, <3>2
  <2>3. CASE k + 1 \notin s
    <3>1. s \in SUBSET (1..k)
      BY <2>3
    <3>2. QED BY <2>1, <3>1
  <2>4. QED BY <2>2, <2>3
<1> HIDE DEF T
<1>3. Nat \subseteq T
  BY <1>1, <1>2, SetInduction
<1>4. QED BY <1>3 DEF T

LEMMA ConvertedInv ==
    ASSUME NEW ms \in Seq(Readable)
    PROVE  ConverterInv(FoldLeft(Consume, Converting, ms))
<1> DEFINE n == Len(ms)
           Y == {c \in Converter : ConverterInv(c)}
           F == [p \in Y \X (1..n) |-> Consume(p[1], ms[p[2]])]
           Step(h) == [s \in SUBSET (1..n) |->
                          IF s = {} THEN Converting
                          ELSE Consume(h[s \ {Max(s)}], ms[Max(s)])]
           iter == CHOOSE h : h = Step(h)
<1>1. n \in Nat /\ DOMAIN ms = 1..n /\ \A k \in 1..n : ms[k] \in Readable
  <2> HIDE DEF Y, F, Step, iter
  <2>1. QED OBVIOUS
<1>2. Converting \in Y
  <2>1. /\ Converting = [skip |-> FALSE, turnseen |-> FALSE, bad |-> FALSE, prefix |-> <<>>,
                         turns |-> <<>>, pending |-> Slice(0, 0), arrays |-> <<>>]
        /\ Slice(0, 0) = [array |-> 0, length |-> 0] /\ Slice(0, 0) \in Slices
    BY DEF Converting, Slice, Slices
  <2> DEFINE R == [input: Slices, assistant: Plain]
  <2>2. <<>> \in Seq(Plain) /\ <<>> \in Seq(R) /\ <<>> \in Seq(Seq(Plain)) /\ Len(<<>>) = 0
    <3> HIDE DEF R
    <3>1. QED OBVIOUS
  <2>3. Converting \in Converter
    BY <2>1, <2>2 DEF Converter
  <2>4. /\ Converting.pending = Slice(0, 0) /\ Converting.turns = <<>>
        /\ Converting.arrays = <<>>
    BY <2>1
  <2>5. Within(Slice(0, 0), <<>>)
    BY <2>1, <2>2 DEF Within
  <2>6. \A k \in 1..Len(Converting.turns) : Within(Converting.turns[k].input, Converting.arrays)
    BY <2>2, <2>4
  <2>7. QED BY <2>3, <2>4, <2>5, <2>6 DEF ConverterInv
<1>3. ASSUME NEW c \in Y, NEW k \in 1..n PROVE Consume(c, ms[k]) \in Y
  <2>1. ConverterInv(Consume(c, ms[k]))
    BY <1>1, <1>3, ConsumeInv
  <2>2. QED BY <2>1 DEF ConverterInv
<1> HIDE DEF Y
<1>4. F \in [Y \X (1..n) -> Y] /\ \A c \in Y, k \in 1..n : F[<<c, k>>] = Consume(c, ms[k])
  <2> HIDE DEF n, Step, iter
  <2>1. \A p \in Y \X (1..n) : p[1] \in Y /\ p[2] \in 1..n
    OBVIOUS
  <2>2. QED BY <1>3, <2>1
<1>5. \A s \in SUBSET (1..n) : s # {} => Max(s) \in 1..n /\ s \ {Max(s)} \in SUBSET (1..n)
  BY <1>1, MaxIn
<1>6. \E h : h = Step(h)
  <2> HIDE DEF F
  <2> DEFINE Folds == FoldsOf(Converting, Y, F, n)
  <2>0. PICK g : g \in Folds
    BY <1>1, <1>2, <1>4, FoldExists
  <2>1. /\ g \in [SUBSET (1..n) -> Y]
        /\ \A s \in SUBSET (1..n) :
              g[s] = IF s = {} THEN Converting ELSE F[<<g[s \ {Max(s)}], Max(s)>>]
    BY <2>0 DEF FoldsOf
  <2>2. ASSUME NEW s \in SUBSET (1..n)
        PROVE g[s] = IF s = {} THEN Converting ELSE Consume(g[s \ {Max(s)}], ms[Max(s)])
    <3>1. CASE s = {}
      BY <2>1, <3>1
    <3>2. CASE s # {}
      <4>1. g[s \ {Max(s)}] \in Y
        BY <1>5, <2>1, <3>2
      <4>2. QED BY <1>4, <1>5, <2>1, <3>2, <4>1
    <3>3. QED BY <3>1, <3>2
  <2>3. g = [s \in SUBSET (1..n) |-> g[s]]
    BY <2>1
  <2>4. g = Step(g)
    BY <2>2, <2>3
  <2>5. QED BY <2>4
<1>7. iter = Step(iter)
  BY <1>6
<1>8. FoldLeft(Consume, Converting, ms) = iter[1..n]
  BY <1>1 DEF FoldLeft, MapThenFoldSet
<1> HIDE DEF iter, F
<1>9. /\ iter[{}] = Converting
      /\ \A s \in SUBSET (1..n) : s # {} => iter[s] = Consume(iter[s \ {Max(s)}], ms[Max(s)])
  <2>1. \A s \in SUBSET (1..n) : iter[s] = Step(iter)[s]
    BY <1>7
  <2>2. \A s \in SUBSET (1..n) : iter[s] = IF s = {} THEN Converting
                                 ELSE Consume(iter[s \ {Max(s)}], ms[Max(s)])
    BY <2>1
  <2>3. {} \in SUBSET (1..n)
    OBVIOUS
  <2>4. QED BY <2>2, <2>3
<1> HIDE DEF Step
<1>10. \A s \in SUBSET (1..n) : s # {} /\ iter[s \ {Max(s)}] \in Y => iter[s] \in Y
  BY <1>3, <1>5, <1>9
<1>11. \A s \in SUBSET (1..n) : iter[s] \in Y
  BY <1>1, <1>2, <1>9, <1>10, FoldKeeps
<1>12. iter[1..n] \in Y
  BY <1>11
<1>13. QED BY <1>8, <1>12 DEF Y

Flattening(h, ss, k) == [i \in 1..k |-> IF i = 1 THEN ss[i] ELSE h[i - 1] \o ss[i]]

\* The turns one after the other.
LEMMA FlattenPlain ==
    ASSUME NEW ss \in Seq(Seq(Plain))
    PROVE  FlattenSeq(ss) \in Seq(Plain)
<1> DEFINE n == Len(ss)
           flatten == CHOOSE h : h = Flattening(h, ss, n)
           T == {k \in Nat : k <= n => \E h : h = Flattening(h, ss, k)}
<1>1. n \in Nat /\ \A i \in 1..n : ss[i] \in Seq(Plain)
  OBVIOUS
<1> HIDE DEF n
<1>2. 0 \in T
  <2>1. PICK h : h = [i \in 1..0 |-> ss[i]]
    OBVIOUS
  <2>2. h = Flattening(h, ss, 0)
    BY <2>1 DEF Flattening
  <2>3. QED BY <2>2
<1>3. ASSUME NEW k \in Nat, k \in T PROVE k + 1 \in T
  <2>0. CASE ~(k + 1 <= n)
    BY <2>0
  <2> SUFFICES ASSUME k + 1 <= n PROVE \E h : h = Flattening(h, ss, k + 1)
    BY <2>0
  <2>1. PICK g : g = Flattening(g, ss, k)
    <3>1. k <= n
      BY <1>1
    <3>2. \E h : h = Flattening(h, ss, k)
      BY <1>3, <3>1
    <3>3. QED BY <3>2
  <2> DEFINE h == [i \in 1..(k + 1) |-> IF i = 1 THEN ss[i] ELSE g[i - 1] \o ss[i]]
  <2>2. \A i \in 1..k : h[i] = g[i]
    <3>1. \A i \in 1..k : g[i] = IF i = 1 THEN ss[i] ELSE g[i - 1] \o ss[i]
      BY <2>1 DEF Flattening
    <3>2. \A i \in 1..k : h[i] = IF i = 1 THEN ss[i] ELSE g[i - 1] \o ss[i]
      OBVIOUS
    <3>3. QED BY <3>1, <3>2
  <2>3. \A i \in 1..(k + 1) : i # 1 => i - 1 \in 1..k
    OBVIOUS
  <2> HIDE DEF h
  <2>4. \A i \in 1..(k + 1) : i # 1 => g[i - 1] = h[i - 1]
    BY <2>2, <2>3
  <2>5. \A i \in 1..(k + 1) : (IF i = 1 THEN ss[i] ELSE g[i - 1] \o ss[i])
                             = (IF i = 1 THEN ss[i] ELSE h[i - 1] \o ss[i])
    BY <2>4
  <2>6. h = Flattening(h, ss, k + 1)
    BY <2>5 DEF h, Flattening
  <2>7. QED BY <2>6
<1> HIDE DEF T
<1>4. Nat \subseteq T
  BY <1>2, <1>3, SetInduction
<1>5. \E h : h = Flattening(h, ss, n)
  <2>1. n \in Nat
    BY <1>1
  <2>2. n \in T /\ n <= n
    BY ONLY <1>4, <2>1
  <2>3. QED BY ONLY <2>2 DEF T
<1>6. flatten = Flattening(flatten, ss, n)
  BY <1>5
<1> HIDE DEF flatten
<1>7. \A i \in 1..n : flatten[i] = IF i = 1 THEN ss[i] ELSE flatten[i - 1] \o ss[i]
  BY <1>6 DEF Flattening
<1> DEFINE U == {k \in Nat : k \in 1..n => flatten[k] \in Seq(Plain)}
<1>8. 0 \in U
  OBVIOUS
<1>9. ASSUME NEW k \in Nat, k \in U PROVE k + 1 \in U
  <2> SUFFICES ASSUME k + 1 \in 1..n PROVE flatten[k + 1] \in Seq(Plain)
    OBVIOUS
  <2>1. ss[k + 1] \in Seq(Plain)
    BY <1>1
  <2>2. CASE k + 1 = 1
    BY <1>7, <2>1, <2>2
  <2>3. CASE k + 1 # 1
    <3>1. k \in 1..n /\ (k + 1) - 1 = k
      BY <1>1, <2>3
    <3>2. flatten[k] \in Seq(Plain)
      BY <1>9, <3>1
    <3>3. flatten[k + 1] = flatten[k] \o ss[k + 1]
      BY <1>7, <2>3, <3>1
    <3>4. flatten[k] \o ss[k + 1] \in Seq(Plain)
      BY ONLY <2>1, <3>2
    <3>5. QED BY <3>3, <3>4
  <2>4. QED BY <2>2, <2>3
<1> HIDE DEF U
<1>10. Nat \subseteq U
  BY <1>8, <1>9, SetInduction
<1>11. CASE n = 0
  <2>1. FlattenSeq(ss) = ss /\ ss = <<>>
    BY <1>11 DEF FlattenSeq, n
  <2>2. QED BY <2>1
<1>12. CASE n # 0
  <2>1. flatten[n] \in Seq(Plain)
    BY <1>1, <1>10, <1>12 DEF U
  <2>2. FlattenSeq(ss) = flatten[n]
    BY <1>12 DEF FlattenSeq, Flattening, flatten, n
  <2>3. QED BY <2>1, <2>2
<1>13. QED BY <1>11, <1>12

LEMMA ElementsPlain ==
    ASSUME NEW c, ConverterInv(c), NEW s \in Slices, Within(s, c.arrays)
    PROVE  Elements(c, s) \in Seq(Plain)
<1>1. c.arrays \in Seq(Seq(Plain)) /\ s.array \in Nat /\ s.length \in Nat
  BY DEF ConverterInv, Converter, Slices
<1>2. CASE s.array = 0
  BY <1>2 DEF Elements
<1>3. CASE s.array # 0
  <2>1. PICK cells : cells = c.arrays[s.array]
    OBVIOUS
  <2>2. s.array \in 1..Len(c.arrays) /\ s.length <= Len(c.arrays[s.array])
    BY <1>1, <1>3 DEF Within
  <2>3. cells \in Seq(Plain) /\ s.length <= Len(cells)
    BY <1>1, <2>1, <2>2
  <2>4. SubSeq(cells, 1, s.length) \in Seq(Plain)
    BY ONLY <1>1, <2>3
  <2>5. QED BY <1>3, <2>1, <2>4 DEF Elements
<1>4. QED BY <1>2, <1>3

\* A transcript that is compacted ends up without a call.
LEMMA CompactedPlain ==
    ASSUME NEW ms \in Seq(Readable), NEW b \in OverBudget(ms), b.ok
    PROVE  b.messages \in Seq(Plain)
<1> DEFINE c == FoldLeft(Consume, Converting, ms)
           h == ConvertIntoHistory(ms)
           turns == [n \in DOMAIN c.turns |->
                        Append(Elements(c, c.turns[n].input), c.turns[n].assistant)]
<1>1. ConverterInv(c)
  BY ConvertedInv
<1>2. h = [ok |-> ~c.bad, prefix |-> c.prefix, pending |-> Elements(c, c.pending), turns |-> turns]
  BY DEF ConvertIntoHistory
<1>3. Compactable(h) /\ b.messages = Messages(Compacted(h))
  BY DEF OverBudget, Failed
<1> HIDE DEF c
<1>4. /\ c.prefix \in Seq(Plain) /\ c.pending \in Slices /\ Within(c.pending, c.arrays)
      /\ c.turns \in Seq([input: Slices, assistant: Plain])
      /\ \A n \in 1..Len(c.turns) : Within(c.turns[n].input, c.arrays)
  BY <1>1 DEF ConverterInv, Converter
<1>5. Len(c.turns) \in Nat /\ DOMAIN c.turns = 1..Len(c.turns)
  <2> DEFINE R == [input: Slices, assistant: Plain]
  <2>1. c.turns \in Seq(R)
    BY <1>4
  <2> HIDE DEF R
  <2>2. QED BY ONLY <2>1
<1>6. \A n \in 1..Len(c.turns) :
          Append(Elements(c, c.turns[n].input), c.turns[n].assistant) \in Seq(Plain)
  <2> TAKE n \in 1..Len(c.turns)
  <2>1. c.turns[n].input \in Slices /\ c.turns[n].assistant \in Plain
    BY <1>4, TurnForm
  <2>2. Elements(c, c.turns[n].input) \in Seq(Plain)
    BY <1>1, <1>4, <2>1, ElementsPlain
  <2>3. PICK e \in Seq(Plain), a \in Plain :
            e = Elements(c, c.turns[n].input) /\ a = c.turns[n].assistant
    BY <2>1, <2>2
  <2>4. Append(e, a) \in Seq(Plain)
    BY ONLY e \in Seq(Plain), a \in Plain
  <2>5. QED BY <2>3, <2>4
<1>7. turns \in Seq(Seq(Plain)) /\ Len(turns) = Len(c.turns)
  <2>1. turns \in [1..Len(c.turns) -> Seq(Plain)]
    BY <1>5, <1>6
  <2> HIDE DEF turns
  <2>2. QED BY <1>5, <2>1
<1>8. Elements(c, c.pending) \in Seq(Plain)
  BY <1>1, <1>4, ElementsPlain
<1> HIDE DEF turns, h
<1> DEFINE recent == SubSeq(turns, Len(turns) - KeepRecent + 1, Len(turns))
           prefix == Append(c.prefix, Summary)
<1>9. recent \in Seq(Seq(Plain))
  <2>1. h.turns = turns
    BY <1>2
  <2>2. Len(turns) > KeepRecent
    BY <1>3, <2>1 DEF Compactable
  <2>3. Len(turns) \in Nat /\ KeepRecent \in Nat
    BY <1>5, <1>7, KeepRecentAssumption
  <2>4. Len(turns) - KeepRecent + 1 \in 1..(Len(turns) + 1)
    BY <2>2, <2>3
  <2> DEFINE R == Seq(Plain)
  <2>5. turns \in Seq(R)
    BY <1>7
  <2> HIDE DEF R
  <2>6. SubSeq(turns, Len(turns) - KeepRecent + 1, Len(turns)) \in Seq(R)
    BY ONLY <2>3, <2>4, <2>5
  <2>7. QED BY <2>6 DEF R
<1>10. prefix \in Seq(Plain)
  <2>1. Summary \in Transcribed /\ Summary.role = "system" /\ Summary.text = "summary"
    BY MessageForm DEF Summary, Role, Texts
  <2>2. Summary \in Plain
    BY <2>1 DEF Plain
  <2>3. QED BY <1>4, <2>2
<1>11. Messages(Compacted(h)) = prefix \o FlattenSeq(recent) \o Elements(c, c.pending)
  BY <1>2 DEF Messages, Compacted
<1>12. FlattenSeq(recent) \in Seq(Plain)
  BY <1>9, FlattenPlain
<1> HIDE DEF prefix, recent
<1>13. PICK x \in Seq(Plain), y \in Seq(Plain), z \in Seq(Plain) :
            x = prefix /\ y = FlattenSeq(recent) /\ z = Elements(c, c.pending)
  BY <1>8, <1>10, <1>12
<1>14. x \o y \o z \in Seq(Plain)
  BY ONLY x \in Seq(Plain), y \in Seq(Plain), z \in Seq(Plain)
<1>15. QED BY <1>3, <1>11, <1>13, <1>14

LEMMA ReplaceableIsReadable ==
    ASSUME NEW ms \in Seq(Transcribed), NEW ids, Replaceable(ms, ids)
    PROVE  ms \in Seq(Readable)
<1>1. Len(ms) \in Nat /\ ms \in [1..Len(ms) -> Transcribed]
  <2> HIDE DEF Transcribed
  <2>1. QED OBVIOUS
<1>2. \A n \in 1..Len(ms) : ms[n] \in Readable
  BY <1>1 DEF Replaceable, Readable
<1> HIDE DEF Readable
<1>3. ms \in [1..Len(ms) -> Readable]
  BY <1>1, <1>2
<1>4. QED BY <1>1, <1>3

\* What has no call and no result has no gap.
LEMMA PlainKept ==
    ASSUME NEW ms \in Seq(Plain), NEW ids
    PROVE  ms \in Seq(Transcribed) /\ PairedBut(ms, <<>>) /\ Replaceable(ms, ids)
<1>1. Plain \subseteq Transcribed
  BY DEF Plain
<1> HIDE DEF Plain
<1>2. ms \in Seq(Transcribed) /\ DOMAIN ms = 1..Len(ms) /\ \A n \in 1..Len(ms) : ms[n] \in Plain
  BY <1>1
<1>3. \A n \in 1..Len(ms) : /\ ms[n].role # "tool" /\ ms[n].text # "transient"
                            /\ ms[n].role = "assistant" => ms[n].calls = <<>>
  BY <1>2 DEF Plain
<1>4. QED BY <1>2, <1>3 DEF PairedBut, Replaceable

-----------------------------------------------------------------------------
LEMMA TextInit == Init => TextInv
<1> SUFFICES ASSUME Init PROVE TextInv
  OBVIOUS
<1>1. live = <<System>> /\ saved = <<System>> /\ run.phase = "idle"
  BY IdleForm DEF Init
<1>2. System \in Transcribed /\ System.role = "system" /\ System.text = "prompt"
  <2>1. "system" \in Role /\ "prompt" \in Texts
    BY DEF Role, Texts
  <2>2. QED BY <2>1, MessageForm DEF System
<1>3. <<System>> \in Seq(Transcribed) /\ Len(<<System>>) = 1 /\ <<System>>[1] = System
  BY <1>2
<1>4. Kept(<<System>>)
  BY <1>2, <1>3 DEF Kept, PairedBut, Replaceable
<1>5. QED BY <1>1, <1>4 DEF TextInv, Going, Doing

\* The transcript stays well formed, compacted or not.
LEMMA TextStep ==
    ASSUME RunInv, PlaceInv, TextInv, [Next]_vars
    PROVE  TextInv'
<1>1. /\ live = saved /\ saved \in Seq(Transcribed) /\ PairedBut(saved, <<>>)
      /\ Replaceable(saved, {}) /\ Kept(saved)
  BY DEF TextInv, Kept
<1>2. ASSUME SameFiles,
             run'.phase \in Going =>
                /\ run.phase \in Going /\ run'.working = run.working
                /\ run'.todo = run.todo /\ run'.projections = run.projections
      PROVE  TextInv'
  BY <1>2 DEF TextInv, SameFiles, Going
<1>3. ASSUME SameFiles,
             run'.phase \in Going =>
                /\ run'.working \in Seq(Transcribed)
                /\ PairedBut(run'.working, run'.todo)
                /\ Replaceable(run'.working, run'.projections)
      PROVE  TextInv'
  BY <1>3 DEF TextInv, SameFiles
<1>4. run.phase \in {"turn", "asking", "committing"} =>
        /\ run.todo = <<>> /\ run.working \in Seq(Transcribed) /\ PairedBut(run.working, <<>>)
        /\ Replaceable(run.working, run.projections)
  BY DEF TextInv, PlaceInv, Going
<1>5. CASE Start
  <2>1. /\ run'.todo = <<>> /\ run'.projections = {} /\ SameFiles
        /\ run'.phase \in Going => run'.working = Append(live, UserSays("input"))
    BY <1>5, StartForm DEF Going, Doing
  <2>2. PICK m : m = UserSays("input")
    OBVIOUS
  <2>3. "input" \in Texts
    BY DEF Texts
  <2>4. m \in Transcribed /\ m.role = "user" /\ m.text = "input"
    BY <2>2, <2>3, SaysForm
  <2>5. PICK q : q = Append(saved, m)
    OBVIOUS
  <2>6. q \in Seq(Transcribed) /\ PairedBut(q, <<>>) /\ Replaceable(q, {})
    BY <1>1, <2>4, <2>5, PlainAppend
  <2>7. QED BY <1>1, <1>3, <2>1, <2>2, <2>5, <2>6
<1>6. CASE BeginTurn
  <2>1. /\ run.phase = "turn" /\ SameFiles /\ run'.todo = run.todo
        /\ run'.projections = run.projections
    BY <1>6, BeginTurnForm DEF SamePlace
  <2>2. run'.phase = "failing" \/ \E b \in Budgeted : b.ok /\ run'.working = b.messages
    BY <1>6, BeginTurnForm
  <2>3. CASE run'.phase = "failing"
    BY <1>2, <2>1, <2>3 DEF Going, Doing
  <2>4. ASSUME NEW b \in Budgeted, b.ok, run'.working = b.messages PROVE TextInv'
    <3>1. CASE b = [ok |-> TRUE, messages |-> run.working]
      BY <1>2, <2>1, <2>4, <3>1 DEF Going, Doing
    <3>2. CASE b \in OverBudget(run.working)
      <4>1. PICK ms : ms = run.working
        OBVIOUS
      <4>2. ms \in Seq(Transcribed) /\ Replaceable(ms, run.projections)
        BY <1>4, <2>1, <4>1
      <4>3. ms \in Seq(Readable)
        BY <4>2, ReplaceableIsReadable
      <4>4. b.messages \in Seq(Plain)
        BY <2>4, <3>2, <4>1, <4>3, CompactedPlain
      <4>5. /\ run'.working \in Seq(Transcribed) /\ PairedBut(run'.working, <<>>)
            /\ Replaceable(run'.working, run.projections)
        BY <2>4, <4>4, PlainKept
      <4>6. run.todo = <<>>
        BY <1>4, <2>1
      <4>7. QED BY <1>3, <2>1, <4>5, <4>6
    <3>3. QED BY <3>1, <3>2 DEF Budgeted, EnforceBudget
  <2>5. QED BY <2>2, <2>3, <2>4
<1>7. CASE Answer
  <2>1. run.phase = "asking" /\ SameFiles /\ run'.projections = run.projections
    BY <1>7, AnswerForm
  <2>2. CASE run'.phase = "failing"
    BY <1>2, <2>1, <2>2 DEF Going, Doing
  <2>3. CASE /\ run'.todo = run.todo
             /\ run'.working = Append(run.working, AssistantSays("answer"))
    <3>1. PICK m : m = AssistantSays("answer")
      OBVIOUS
    <3>2. "answer" \in Texts
      BY DEF Texts
    <3>3. m \in Transcribed /\ m.role = "assistant" /\ m.text = "answer" /\ m.calls = <<>>
      BY <3>1, <3>2, SaysForm
    <3>4. PICK q : q = Append(run.working, m)
      OBVIOUS
    <3>5. q \in Seq(Transcribed) /\ PairedBut(q, <<>>) /\ Replaceable(q, run.projections)
      BY <1>4, <2>1, <3>3, <3>4, PlainAppend
    <3>6. QED BY <1>3, <1>4, <2>1, <2>3, <3>1, <3>4, <3>5
  <2>4. CASE /\ run'.todo \in Responses
             /\ run'.working = Append(run.working, AssistantCalls(Ids(run'.todo)))
    <3>1. PICK calls \in Responses : calls = run'.todo
      BY <2>4
    <3>2. PICK q : q = Append(run.working, AssistantCalls(Ids(calls)))
      OBVIOUS
    <3>3. q \in Seq(Transcribed) /\ PairedBut(q, calls) /\ Replaceable(q, run.projections)
      BY <1>4, <2>1, <3>2, CallsAppend
    <3>4. QED BY <1>3, <2>1, <2>4, <3>1, <3>2, <3>3
  <2>5. QED BY <1>7, <2>2, <2>3, <2>4, AnswerForm
<1>8. CASE BeginCall
  <2>1. run.phase = "calling" /\ SamePlace /\ SameWork /\ SameFiles
    BY <1>8, BeginCallForm
  <2>2. QED BY <1>2, <2>1 DEF SamePlace, SameWork, Going, Doing
<1>9. CASE Approve
  <2>1. run.phase = "approving" /\ SamePlace /\ SameWork /\ SameFiles
    BY <1>9, ApproveForm
  <2>2. QED BY <1>2, <2>1 DEF SamePlace, SameWork, Going, Doing
<1>10. CASE Authorize
  <2>1. run.phase = "authorizing" /\ SamePlace /\ SameWork /\ SameFiles
    BY <1>10, AuthorizeForm
  <2>2. QED BY <1>2, <2>1 DEF SamePlace, SameWork, Going, Doing
<1>11. CASE ToolReturns
  <2>1. run.phase = "executing" /\ SamePlace /\ SameWork /\ SameFiles
    BY <1>11, ToolReturnsForm
  <2>2. QED BY <1>2, <2>1 DEF SamePlace, SameWork, Going, Doing
<1>12. CASE EndCall
  <2>1. run.phase = "result" => run.todo # <<>>
    BY DEF PlaceInv, Doing
  <2>2. run.phase = "result" /\ SameFiles
    BY <1>12, <2>1, EndCallForm
  <2>3. CASE run'.phase = "failing"
    BY <1>2, <2>2, <2>3 DEF Going, Doing
  <2>4. CASE /\ run'.todo = Tail(run.todo)
             /\ run'.working = Append(run.working, ToolResult(Head(run.todo).id, run.out))
             /\ run'.projections = run.projections \union
                    IF run.out = "transient" THEN {Head(run.todo).id} ELSE {}
    <3>1. PICK ms \in Seq(Transcribed), todo \in Seq(Calls), out \in Texts,
             ids \in SUBSET CallIDs :
            /\ ms = run.working /\ todo = run.todo /\ out = run.out /\ ids = run.projections
      BY <2>2 DEF TextInv, Going, Doing, RunInv, RunWith, Texts
    <3>2. todo # <<>> /\ PairedBut(ms, todo) /\ Replaceable(ms, ids)
      BY <2>1, <2>2, <3>1 DEF TextInv, Going, Doing
    <3>3. PICK q : q = Append(ms, ToolResult(Head(todo).id, out))
      OBVIOUS
    <3>4. /\ q \in Seq(Transcribed) /\ PairedBut(q, Tail(todo))
          /\ Replaceable(q, ids \union IF out = "transient" THEN {Head(todo).id} ELSE {})
      BY <3>2, <3>3, ResultAppend
    <3>5. QED BY <1>3, <2>2, <2>4, <3>1, <3>3, <3>4
  <2>5. QED BY <1>12, <2>1, <2>3, <2>4, EndCallForm
<1>13. CASE Commit
  <2>1. run.phase = "committing" /\ run'.phase \in {"closing", "failing"}
    BY <1>13, CommitForm
  <2>2. CASE SameFiles
    BY <1>2, <2>1, <2>2 DEF Going, Doing
  <2>3. CASE saved' = Persisted(run.working, run.projections) /\ live' = saved'
    <3>1. PICK q : q = Persisted(run.working, run.projections)
      OBVIOUS
    <3>2. Kept(q)
      BY <1>4, <2>1, <3>1, PersistedKept
    <3>3. QED BY <2>1, <2>3, <3>1, <3>2 DEF TextInv, Going, Doing
  <2>4. QED BY <1>13, <2>2, <2>3, CommitForm
<1>14. CASE Close \/ Fail
  <2>1. run'.phase = "idle" /\ SameFiles
    BY <1>14, LeaveForm
  <2>2. QED BY <1>2, <2>1 DEF Going, Doing
<1>15. CASE Cancel \/ UNCHANGED vars
  <2>1. UNCHANGED run /\ SameFiles
    BY <1>15, CancelForm DEF vars, SameFiles
  <2>2. QED BY <1>2, <2>1
<1>16. QED BY <1>5, <1>6, <1>7, <1>8, <1>9, <1>10, <1>11, <1>12, <1>13, <1>14, <1>15 DEF Next

LEMMA KeptFacts ==
    ASSUME NEW ms, Kept(ms)
    PROVE  Paired(ms) /\ \A n \in DOMAIN ms : ms[n].text # "transient"
<1>1. ms \in Seq(Transcribed) /\ DOMAIN ms = 1..Len(ms) /\ Len(ms) \in Nat
  BY DEF Kept
<1>2. ASSUME NEW n \in DOMAIN ms
      PROVE  ms[n] \in Transcribed /\ DOMAIN ms[n].calls = 1..Len(ms[n].calls)
  <2>1. ms[n] \in Transcribed
    BY <1>1
  <2>2. ms[n].calls \in Seq(CallIDs)
    BY <2>1 DEF Transcribed
  <2>3. QED BY <2>1, <2>2
<1>3. ASSUME NEW n \in DOMAIN ms, ms[n].text = "transient" PROVE FALSE
  BY <1>1, <1>3 DEF Kept, Replaceable
<1>4. ASSUME NEW n \in DOMAIN ms, ms[n].role = "assistant", NEW k \in DOMAIN ms[n].calls
      PROVE  /\ n + k \in DOMAIN ms
             /\ ms[n + k].role = "tool" /\ ms[n + k].id = ms[n].calls[k]
  <2>1. n \in 1..Len(ms) /\ k \in 1..Len(ms[n].calls) /\ Len(<<>>) = 0
    BY <1>1, <1>2
  <2>2. n + k <= Len(ms) /\ ms[n + k].role = "tool" /\ ms[n + k].id = ms[n].calls[k]
    BY <1>4, <2>1 DEF Kept, PairedBut
  <2>3. QED BY <1>1, <2>1, <2>2
<1>5. ASSUME NEW n \in DOMAIN ms, ms[n].role = "tool"
      PROVE  \E k \in 1..(n - 1) : /\ ms[k].role = "assistant"
                                   /\ n - k \in DOMAIN ms[k].calls
  <2>1. PICK k \in 1..(n - 1) : ms[k].role = "assistant" /\ n - k \in 1..Len(ms[k].calls)
    BY <1>1, <1>5 DEF Kept, PairedBut
  <2>2. k \in DOMAIN ms
    BY <1>1, <2>1
  <2>3. QED BY <1>2, <2>1, <2>2
<1>6. QED BY <1>3, <1>4, <1>5 DEF Paired

-----------------------------------------------------------------------------
(***************************************************************************)
(* Turns and runs are bounded                                              *)
(***************************************************************************)
BoundInv ==
    /\ run.turn <= MaxTurns + 1
    /\ run.phase \in {"asking"} \union Doing => run.turn <= MaxTurns
    /\ runs \in 0..MaxRuns

LEMMA IdleTurn == Idle.turn = 0 /\ Idle.phase = "idle"
  BY DEF Idle

LEMMA BoundStep ==
    ASSUME RunInv, PlaceInv, BoundInv, [Next]_vars
    PROVE  BoundInv'
<1>1. run.turn \in Nat /\ MaxTurns \in Nat \ {0} /\ MaxRuns \in Nat
  BY AgentRunAssumption DEF RunInv, RunWith
<1>2. runs' \in 0..MaxRuns
  <2>1. runs' = runs \/ (runs < MaxRuns /\ runs' = runs + 1)
    BY DEF Next, Start, BeginTurn, Answer, BeginCall, Approve, Authorize, ToolReturns,
           EndCall, Commit, Close, Fail, Cancel, vars
  <2>2. QED BY <1>1, <2>1 DEF BoundInv
<1>3. CASE Start
  <2>1. CASE run'.phase = "turn" /\ run'.turn = 1
    BY <1>1, <1>2, <2>1 DEF BoundInv, Doing
  <2>2. CASE run' = Idle
    <3>1. run'.turn = 0 /\ run'.phase = "idle"
      BY <2>2, IdleTurn
    <3>2. QED BY <1>1, <1>2, <3>1 DEF BoundInv, Doing
  <2>3. run' = Idle \/ (run'.phase = "turn" /\ run'.turn = 1)
    <3>1. CASE run' = [Idle EXCEPT !.phase = "turn", !.turn = 1,
                                   !.working = Append(live, UserSays("input"))]
      <4>1. PICK w : w = Append(live, UserSays("input"))
        OBVIOUS
      <4>2. run' = [Idle EXCEPT !.phase = "turn", !.turn = 1, !.working = w]
        BY <3>1, <4>1
      <4>3. QED BY <4>2 DEF Idle
    <3>2. QED BY <1>3, <3>1 DEF Start
  <2>4. QED BY <2>1, <2>2, <2>3
<1>4. CASE BeginTurn
  BY <1>1, <1>2, <1>4, BeginTurnForm DEF BoundInv, Doing, SamePlace
<1>5. CASE Answer
  BY <1>1, <1>2, <1>5, AnswerForm DEF BoundInv, Doing
<1>6. CASE EndCall
  <2>1. run.phase = "result" => run.todo # <<>>
    BY DEF PlaceInv, Doing
  <2>2. run.phase = "result" /\ run'.turn \in {run.turn, run.turn + 1}
        /\ (run'.turn = run.turn \/ run'.phase \in {"turn"})
    BY <1>6, <2>1, EndCallForm DEF SamePlace
  <2>3. QED BY <1>1, <1>2, <2>2 DEF BoundInv, Doing
<1>7. CASE BeginCall \/ Approve \/ Authorize \/ ToolReturns \/ Commit
  <2>1. run'.turn = run.turn /\ (run'.phase \in Doing => run.phase \in Doing)
        /\ run'.phase # "asking"
    BY <1>7, BeginCallForm, ApproveForm, AuthorizeForm, ToolReturnsForm, CommitForm
       DEF SamePlace, Doing
  <2>2. QED BY <1>2, <2>1 DEF BoundInv
<1>8. CASE Close \/ Fail
  <2>1. run'.turn = 0 /\ run'.phase = "idle"
    BY <1>8 DEF Close, Fail, Ended, Idle
  <2>2. QED BY <1>1, <1>2, <2>1 DEF BoundInv, Doing
<1>9. CASE Cancel \/ UNCHANGED vars
  <2>1. UNCHANGED run
    BY <1>9, CancelForm DEF vars
  <2>2. QED BY <1>2, <2>1 DEF BoundInv
<1>10. QED BY <1>3, <1>4, <1>5, <1>6, <1>7, <1>8, <1>9 DEF Next

-----------------------------------------------------------------------------
(***************************************************************************)
(* Theorems                                                                *)
(***************************************************************************)
IInv == StreamInv /\ PlaceInv /\ ToolInv /\ BoundInv

\* The run, its stream and its audit log fit together in every state, whatever
\* fails: the inductive invariant of runWorking and Executor.Execute.
THEOREM InductiveInvariant == Spec => []IInv
<1>1. Init => IInv
  <2> SUFFICES ASSUME Init PROVE IInv
    OBVIOUS
  <2>1. run.phase = "idle" /\ ran = {}
    BY IdleForm DEF Init
  <2>2. StreamInv
    BY StreamInit
  <2>3. BoundInv
    <3>1. run = Idle /\ runs = 0 /\ MaxTurns \in Nat /\ MaxRuns \in Nat
      BY AgentRunAssumption DEF Init
    <3>2. QED BY <3>1, IdleTurn DEF BoundInv, Doing
  <2>4. QED BY <2>1, <2>2, <2>3 DEF IInv, PlaceInv, Doing, ToolInv, ToolsAreAuthorized
<1>2. IInv /\ [Next]_vars => IInv'
  <2> SUFFICES ASSUME IInv, [Next]_vars PROVE IInv'
    OBVIOUS
  <2>1. RunInv /\ StreamInv /\ PlaceInv /\ ToolInv /\ BoundInv
    BY DEF IInv, StreamInv
  <2>2. StreamInv' /\ PlaceInv' /\ ToolInv' /\ BoundInv'
    BY <2>1, StreamStep, PlaceStep, ToolStep, BoundStep
  <2>3. QED BY <2>2 DEF IInv
<1>3. QED BY <1>1, <1>2, PTL DEF Spec

\* A run stays within its turns, and a phase that works on a call has one (runWorking).
THEOREM TypeCorrect == Spec => []TypeOK
<1>1. IInv => TypeOK
  <2> SUFFICES ASSUME IInv PROVE TypeOK
    OBVIOUS
  <2>1. run.phase \in Phase /\ run.turn \in Nat /\ MaxTurns \in Nat
    BY AgentRunAssumption DEF IInv, StreamInv, RunInv, RunWith
  <2>2. sink.told \in {"nothing", "completed", "failed"}
    BY DEF IInv, StreamInv, SinkInv, Open, Over, SinkType
  <2>3. QED BY <2>1, <2>2 DEF IInv, BoundInv, PlaceInv, Doing, TypeOK
<1>2. QED BY <1>1, InductiveInvariant, PTL

\* The sink gets no event out of place, and the user is told that a run completed
\* only when its transcript was kept (SequenceEmitter, Run, failRun).
THEOREM StreamTellsTheSessionAlways == Spec => []StreamTellsTheSession
<1>1. IInv => StreamTellsTheSession
  BY DEF IInv, StreamInv, SinkInv, Open, Over, StreamTellsTheSession
<1>2. QED BY <1>1, InductiveInvariant, PTL

\* A tool that ran had its authorization logged, was not decided against, and was
\* approved if the policy asks about it (Executor.Execute).
THEOREM ToolsAreAuthorizedAlways == Spec => []ToolsAreAuthorized
<1>1. IInv => ToolsAreAuthorized
  BY DEF IInv, ToolInv
<1>2. QED BY <1>1, InductiveInvariant, PTL

\* The session's file is the registry's transcript, pairs every call with its result
\* and holds no transient payload, whatever fails and whatever is compacted (Commit).
THEOREM OnlyReceiptsAreKeptAlways == Spec => []OnlyReceiptsAreKept
<1>1. Init => TextInv
  BY TextInit
<1>2. IInv /\ TextInv /\ [Next]_vars => TextInv'
  BY TextStep DEF IInv, StreamInv
<1>3. TextInv => OnlyReceiptsAreKept
  BY KeptFacts DEF TextInv, OnlyReceiptsAreKept
<1>4. QED BY <1>1, <1>2, <1>3, InductiveInvariant, PTL DEF Spec

=============================================================================
