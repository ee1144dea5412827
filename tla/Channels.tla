------------------------------ MODULE Channels ------------------------------
(***************************************************************************)
(* app.Runtime supervising its channels: the CLI's read loop, the Telegram *)
(* poller with its workers, and the process around them (main's signal     *)
(* context, Close, a crash and a restart).                                 *)
(*                                                                         *)
(* A worker is one update's goroutine: Handle with the request's sink,     *)
(* Finish, then a fallback or reply message.  What Handle does inside is   *)
(* Sessions and ModelingWorkflow; here it ends in an outcome, having       *)
(* rendered nothing, status lines or streamed text.  Delays (backoff,      *)
(* RetryAfter, EditInterval) are not modelled: a timer may fire any time.  *)
(***************************************************************************)
EXTENDS Naturals, FiniteSets

CONSTANTS
    Enabled,        \* the channels of this configuration
    Updates,        \* bound: messages users send, 1..n
    Unwanted,       \* updates mapUpdate filters: bots, strangers, empty or long
    MaxConcurrency, \* workers at once
    MaxCrashes,     \* bound: crashes, each followed by a restart
    Faults          \* which of AllFaults may happen

AllFaults == {"signal", "poll", "fatal", "client", "terminal"}

ASSUME ChannelsAssumption ==
    /\ Enabled \subseteq {"cli", "telegram"} /\ Enabled # {}
    /\ Updates \in Nat /\ Unwanted \subseteq 1..Updates
    /\ MaxConcurrency \in Nat /\ MaxConcurrency >= 1
    /\ MaxCrashes \in Nat
    /\ Faults \subseteq AllFaults

VARIABLES
    signalled,  \* main's NotifyContext is done
    runtime,    \* Runtime.Run's context, results, and what became of it
    cli,        \* where CLI.Run is
    poller,     \* where telegram's Channel.Run is
    worker,     \* each update's goroutine
    server,     \* Telegram's queue: what was sent to it, what is confirmed
    taken,      \* history: updates dispatched or filtered, by any process
    crashes     \* crashes so far (bound)

vars == <<signalled, runtime, cli, poller, worker, server, taken, crashes>>

Update == 1..Updates
Fault(f) == f \in Faults

Result == {"none", "nil", "canceled", "error"}

Runtime == [cancelled: BOOLEAN,                    \* the child context's cancel was called
            results: [Enabled -> Result],          \* what each channel returned
            collected: SUBSET Enabled,
            fatal: BOOLEAN,
            state: {"running", "returned", "closed"}]

StartedRuntime == [cancelled |-> FALSE, results |-> [c \in Enabled |-> "none"],
                   collected |-> {}, fatal |-> FALSE, state |-> "running"]

\* reading and asking block on the terminal: ReadSlice and the approver's
\* ReadString do not look at a context.
CLI == {"looping", "reading", "handling", "asking", "returned"}

Poller == [phase: {"polling", "backoff", "dispatching", "draining", "returned"},
           offset: 1..(Updates + 1),
           next: 1..(Updates + 1),      \* the batch is next..(offset - 1)
           error: BOOLEAN]              \* returns an error, not ctx.Err()

StartedPoller == [phase |-> "polling", offset |-> 1, next |-> 1, error |-> FALSE]

Outcome == {"ok", "quiet", "recoverable", "failed"}

Worker == [phase: {"none", "handling", "finishing", "sending", "done"},
           runs: Nat,                           \* history: handlers started by this process
           outcome: Outcome,
           rendered: {"nothing", "lines", "stream"},
           answers: 0..2,                       \* history: delivered to the user
           lost: BOOLEAN]                       \* history: stopped, or a client call failed

NoWorker == [phase |-> "none", runs |-> 0, outcome |-> "ok", rendered |-> "nothing",
             answers |-> 0, lost |-> FALSE]

ChildDone == signalled \/ runtime.cancelled

Returned(c) == runtime.results[c] # "none"

Return(c, result) == runtime' = [runtime EXCEPT !.results[c] = result]

(***************************************************************************)
(* The CLI: one request at a time, on the goroutine that reads             *)
(***************************************************************************)
CLIReturn(result) == cli' = "returned" /\ Return("cli", result)

\* Reading or writing the terminal may fail.
TerminalFails == Fault("terminal") /\ CLIReturn("error")

Prompt ==
    /\ cli = "looping"
    /\ \/ ChildDone /\ CLIReturn("canceled")
       \/ ~ChildDone /\ cli' = "reading" /\ UNCHANGED runtime
       \/ ~ChildDone /\ TerminalFails
    /\ UNCHANGED <<signalled, poller, worker, server, taken, crashes>>

\* A line, a blank or oversized line, or the end of the input.
ReadLine ==
    /\ cli = "reading"
    /\ \/ cli' \in {"handling", "looping"} /\ UNCHANGED runtime
       \/ CLIReturn("nil")
       \/ TerminalFails
    /\ UNCHANGED <<signalled, poller, worker, server, taken, crashes>>

\* Handle's reply or its recoverable error, /exit, the error of its context, any
\* other error, a panic or a reply that cannot be rendered.
HandleLine ==
    /\ cli = "handling"
    /\ \/ cli' = "looping" /\ UNCHANGED runtime
       \/ CLIReturn("nil")
       \/ ChildDone /\ CLIReturn("canceled")
       \/ CLIReturn("error")
    /\ UNCHANGED <<signalled, poller, worker, server, taken, crashes>>

\* CLIApprover.Approve reads the same terminal.
AskApproval ==
    /\ cli = "handling" /\ cli' = "asking"
    /\ UNCHANGED <<signalled, runtime, poller, worker, server, taken, crashes>>

Answer ==
    /\ cli = "asking" /\ cli' = "handling"
    /\ UNCHANGED <<signalled, runtime, poller, worker, server, taken, crashes>>

(***************************************************************************)
(* Telegram's poll loop                                                    *)
(***************************************************************************)
Drain(error) == poller' = [poller EXCEPT !.phase = "draining", !.error = error]

\* workerCtx: the child context, cancelled as well when Run returns.
WorkerDone == ChildDone \/ poller.phase \in {"draining", "returned"}

Active == {u \in Update : worker[u].phase \notin {"none", "done"}}

\* Mutant of PollFrom: polls on while the batch is being dispatched.
PollFromAnywhere == poller.phase \in {"polling", "dispatching"}

PollFrom == poller.phase = "polling"

\* getUpdates confirms everything below the offset and returns what is above it.
Confirmed ==
    [server EXCEPT !.confirmed = IF poller.offset - 1 > @ THEN poller.offset - 1 ELSE @]

Poll ==
    /\ PollFrom /\ ~ChildDone
    /\ server' = Confirmed
    /\ LET first == server'.confirmed + 1
       IN  poller' = IF server.sent < first THEN poller
                     ELSE [poller EXCEPT !.phase = "dispatching", !.next = first,
                                         !.offset = server.sent + 1]
    /\ UNCHANGED <<signalled, runtime, cli, worker, taken, crashes>>

\* Retryable: wait.  Anything else ends the channel.  Whether the request or its
\* response was lost, the poller does not learn.
PollFails ==
    /\ poller.phase = "polling" /\ ~ChildDone
    /\ server' \in {server, Confirmed}
    /\ \/ Fault("poll") /\ poller' = [poller EXCEPT !.phase = "backoff"]
       \/ Fault("fatal") /\ Drain(TRUE)
    /\ UNCHANGED <<signalled, runtime, cli, worker, taken, crashes>>

\* Mutant of BackoffEnds: a poller that failed once never polls again.
BackoffForgets ==
    /\ poller.phase = "backoff" /\ ChildDone /\ Drain(FALSE)
    /\ UNCHANGED <<signalled, runtime, cli, worker, server, taken, crashes>>

BackoffEnds ==
    /\ poller.phase = "backoff"
    /\ IF ChildDone THEN Drain(FALSE) ELSE poller' = [poller EXCEPT !.phase = "polling"]
    /\ UNCHANGED <<signalled, runtime, cli, worker, server, taken, crashes>>

Moved == [poller EXCEPT !.next = @ + 1,
                        !.phase = IF poller.next + 1 = poller.offset THEN "polling" ELSE @]

Skip ==
    /\ poller.phase = "dispatching" /\ poller.next \in Unwanted
    /\ poller' = Moved
    /\ taken' = taken \union {poller.next}
    /\ UNCHANGED <<signalled, runtime, cli, worker, server, crashes>>

\* The send on sem blocks at MaxConcurrency; select may take it after a cancel.
SlotFree == Cardinality(Active) < MaxConcurrency

Dispatch ==
    LET u == poller.next
    IN  /\ poller.phase = "dispatching" /\ u \notin Unwanted
        /\ SlotFree
        /\ worker' = [worker EXCEPT ![u] = [NoWorker EXCEPT !.phase = "handling",
                                                            !.runs = worker[u].runs + 1]]
        /\ poller' = Moved
        /\ taken' = taken \union {u}
        /\ UNCHANGED <<signalled, runtime, cli, server, crashes>>

\* ctx.Err() at the head of the loop, or at the semaphore.
StopPolling ==
    /\ ChildDone
    /\ \/ poller.phase = "polling"
       \/ poller.phase = "dispatching" /\ poller.next \notin Unwanted
    /\ Drain(FALSE)
    /\ UNCHANGED <<signalled, runtime, cli, worker, server, taken, crashes>>

\* Mutant of Drained: Run returns and leaves its workers behind.
NotDrained == TRUE

\* The deferred cancelWorkers and workers.Wait.
Drained == Active = {}

PollerReturns ==
    /\ poller.phase = "draining" /\ Drained
    /\ poller' = [poller EXCEPT !.phase = "returned"]
    /\ Return("telegram", IF poller.error THEN "error" ELSE "canceled")
    /\ UNCHANGED <<signalled, cli, worker, server, taken, crashes>>

(***************************************************************************)
(* A worker: Channel.handle                                                *)
(***************************************************************************)
Become(u, w) == worker' = [worker EXCEPT ![u] = w]

\* A command renders nothing; only a run that ends badly renders its failure; a
\* recoverable error is a command's.
HandlerEnds(u) ==
    /\ worker[u].phase = "handling"
    /\ \E outcome \in Outcome, rendered \in {"nothing", "lines", "stream"} :
         /\ outcome \in {"quiet", "recoverable"} => rendered = "nothing"
         /\ Become(u, [worker[u] EXCEPT !.phase = "finishing", !.outcome = outcome,
                                        !.rendered = rendered])
    /\ UNCHANGED <<signalled, runtime, cli, poller, server, taken, crashes>>

\* What is left of a worker that could not tell its user.
Lost(w) == [NoWorker EXCEPT !.phase = "done", !.runs = w.runs, !.lost = TRUE]

\* What is left of one that is through: how often it owed and gave an answer.
Through(w, answers) ==
    [NoWorker EXCEPT !.phase = "done", !.runs = w.runs, !.answers = answers,
                     !.outcome = IF w.outcome = "quiet" THEN "quiet" ELSE "ok"]

Failed(w) == w.outcome \in {"recoverable", "failed"}

\* Mutant of Replies: the text is sent even when it was streamed.
RepliesAnyway(w) == w.outcome = "ok"

\* What handle sends after a Finish that went well.
Replies(w) == w.outcome = "ok" /\ w.rendered # "stream"

Apologizes(w) == Failed(w) /\ w.rendered = "nothing"

\* A request's status lines are an answer only when they end in its failure.
Flushed(w) ==
    LET told == w.rendered = "stream" \/ (Failed(w) /\ w.rendered # "nothing")
        answers == IF told THEN 1 ELSE 0
    IN  IF Replies(w) \/ Apologizes(w)
        THEN [w EXCEPT !.answers = answers, !.phase = "sending"]
        ELSE Through(w, answers)

\* Rendered says that something is in the buffer, not that it was delivered.
FinishSink(u) ==
    LET w == worker[u]
    IN  /\ w.phase = "finishing"
        /\ \/ ~WorkerDone /\ Become(u, Flushed(w))
           \/ /\ WorkerDone \/ (Fault("client") /\ w.rendered # "nothing")
              /\ Become(u, Lost(w))
        /\ UNCHANGED <<signalled, runtime, cli, poller, server, taken, crashes>>

Send(u) ==
    LET w == worker[u]
    IN  /\ w.phase = "sending"
        /\ \/ /\ ~WorkerDone
              /\ Become(u, Through(w, w.answers + 1))
           \/ /\ WorkerDone \/ Fault("client")
              /\ Become(u, Lost(w))
        /\ UNCHANGED <<signalled, runtime, cli, poller, server, taken, crashes>>

(***************************************************************************)
(* Runtime.Run and the process                                             *)
(***************************************************************************)
Harmless(result) == result = "nil" \/ (result = "canceled" /\ ChildDone)

Collect(c) ==
    /\ Returned(c) /\ c \notin runtime.collected
    /\ LET bad == ~Harmless(runtime.results[c])
       IN  runtime' = [runtime EXCEPT !.collected = @ \union {c},
                                      !.fatal = @ \/ bad, !.cancelled = @ \/ bad]
    /\ UNCHANGED <<signalled, cli, poller, worker, server, taken, crashes>>

RunReturns ==
    /\ runtime.state = "running" /\ runtime.collected = Enabled
    /\ runtime' = [runtime EXCEPT !.state = "returned", !.cancelled = TRUE]
    /\ UNCHANGED <<signalled, cli, poller, worker, server, taken, crashes>>

\* main's deferred Close: the audit log.
Close ==
    /\ runtime.state = "returned"
    /\ runtime' = [runtime EXCEPT !.state = "closed"]
    /\ UNCHANGED <<signalled, cli, poller, worker, server, taken, crashes>>

Signal ==
    /\ Fault("signal") /\ ~signalled /\ runtime.state = "running"
    /\ signalled' = TRUE
    /\ UNCHANGED <<runtime, cli, poller, worker, server, taken, crashes>>

\* A user sends a message (external).
UserSends ==
    /\ server.sent < Updates
    /\ server' = [server EXCEPT !.sent = @ + 1]
    /\ UNCHANGED <<signalled, runtime, cli, poller, worker, taken, crashes>>

StartedCLI == IF "cli" \in Enabled THEN "looping" ELSE "returned"
Idle == [StartedPoller EXCEPT !.phase = IF "telegram" \in Enabled THEN @ ELSE "returned"]

\* The process dies, a panic in a worker kills it too, and is started again: the
\* offset was in memory only.
Restart ==
    /\ crashes < MaxCrashes
    /\ crashes' = crashes + 1
    /\ signalled' = FALSE
    /\ runtime' = StartedRuntime
    /\ cli' = StartedCLI
    /\ poller' = Idle
    /\ worker' = [u \in Update |-> NoWorker]
    /\ UNCHANGED <<server, taken>>

(***************************************************************************)
(* Specification                                                           *)
(***************************************************************************)
Init ==
    /\ signalled = FALSE
    /\ runtime = StartedRuntime
    /\ cli = StartedCLI
    /\ poller = Idle
    /\ worker = [u \in Update |-> NoWorker]
    /\ server = [sent |-> 0, confirmed |-> 0]
    /\ taken = {}
    /\ crashes = 0

RunPoller == PollFails \/ BackoffEnds \/ Skip \/ Dispatch \/ StopPolling \/ PollerReturns
RunWorker(u) == HandlerEnds(u) \/ FinishSink(u) \/ Send(u)
RunCLI == Prompt \/ HandleLine
Supervise == (\E c \in Enabled : Collect(c)) \/ RunReturns \/ Close

Next ==
    \/ Poll \/ RunPoller \/ \E u \in Update : RunWorker(u)
    \/ RunCLI \/ ReadLine \/ AskApproval \/ Answer
    \/ Supervise \/ Signal \/ UserSends \/ Restart

Spec == Init /\ [][Next]_vars

\* Goroutines are scheduled, handlers are bounded by timeouts, and Telegram
\* answers a poll again some day.  Nobody is obliged to type at the terminal.
Fairness ==
    /\ SF_vars(Poll)
    /\ WF_vars(BackoffEnds \/ Skip \/ StopPolling \/ PollerReturns)
    /\ SF_vars(Dispatch)
    /\ \A u \in Update : WF_vars(RunWorker(u))
    /\ WF_vars(RunCLI) /\ WF_vars(Supervise)

FairSpec == Spec /\ Fairness

(***************************************************************************)
(* Properties                                                              *)
(***************************************************************************)

\* Every variable stays in the values the Go types and the phases allow; the
\* semaphore bounds the workers.
TypeOK ==
    /\ signalled \in BOOLEAN
    /\ runtime \in Runtime
    /\ cli \in CLI
    /\ poller \in Poller
    /\ worker \in [Update -> Worker]
    /\ Cardinality(Active) <= MaxConcurrency
    /\ server \in [sent: 0..Updates, confirmed: 0..Updates]
    /\ taken \subseteq Update
    /\ crashes \in 0..MaxCrashes

\* "Run supervises all configured channels": when it returns and main closes the
\* runtime's resources, no request of any channel is being handled, so that no
\* tool runs after the audit log is closed.
ReturnedMeansQuiet ==
    runtime.state # "running" => Active = {} /\ cli = "returned"

\* The offset is confirmed with the next poll, after every update of the batch
\* went to a worker: a message that Telegram will not send again was taken.  And
\* one process handles a message once.
ConfirmedMeansTaken ==
    /\ 1..server.confirmed \subseteq taken
    /\ \A u \in Update : worker[u].runs <= 1

\* Channel.handle: a message is answered once, by its streamed text, its reply,
\* or its error, unless the channel stops or a call to Telegram fails.
AnsweredOnce ==
    \A u \in Update :
        worker[u].phase = "done" /\ ~worker[u].lost =>
            worker[u].answers = IF worker[u].outcome = "quiet" THEN 0 ELSE 1

\* A message that was sent is taken, and whatever stops the runtime ends it, but
\* for a CLI that waits for its terminal.
KeepsUp ==
    /\ \A u \in Update : server.sent >= u ~> u \in taken \/ WorkerDone
    /\ ChildDone ~> runtime.state = "closed" \/ cli \in {"reading", "asking"} \/ ~ChildDone

=============================================================================
