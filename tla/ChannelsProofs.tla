---------------------------- MODULE ChannelsProofs ----------------------------
(***************************************************************************)
(* What holds of Channels for every number of messages, workers and        *)
(* crashes, and under any choice of faults.                                *)
(*                                                                         *)
(* The argument.  A channel has a result exactly when its loop is over,    *)
(* and the poller's loop is over only when its workers are; Run returns    *)
(* when it has every result.  The poller's offset runs ahead of what was   *)
(* taken only while a batch is being dispatched, and it polls only         *)
(* between batches.  A worker sends a message only after a flush that told *)
(* its user nothing.                                                       *)
(***************************************************************************)
EXTENDS Channels, FiniteSetTheorems, TLAPS

Types ==
    /\ signalled \in BOOLEAN
    /\ runtime \in Runtime
    /\ cli \in CLI
    /\ poller \in Poller
    /\ worker \in [Update -> Worker]
    /\ server \in [sent: 0..Updates, confirmed: 0..Updates]
    /\ taken \subseteq Update
    /\ crashes \in 0..MaxCrashes

\* A channel's result and the place where its loop is.
ResultInv ==
    /\ "cli" \in Enabled => (runtime.results["cli"] # "none" <=> cli = "returned")
    /\ "cli" \notin Enabled => cli = "returned"
    /\ "telegram" \in Enabled =>
         (runtime.results["telegram"] # "none" <=> poller.phase = "returned")
    /\ "telegram" \notin Enabled => poller.phase = "returned"
    /\ poller.phase = "returned" => Active = {}
    /\ \A c \in runtime.collected : runtime.results[c] # "none"
    /\ runtime.state # "running" => runtime.collected = Enabled

\* The first update that the poller has not dealt with.
Ahead == IF poller.phase = "dispatching" THEN poller.next ELSE poller.offset

\* How far the poller is, and what it has taken up to there.
OffsetInv ==
    /\ 1..server.confirmed \subseteq taken
    /\ server.confirmed <= server.sent
    /\ poller.offset <= server.sent + 1
    /\ poller.phase \in {"polling", "backoff", "dispatching"} =>
         /\ 1..(Ahead - 1) \subseteq taken
         /\ \A u \in Update : u >= Ahead => worker[u].runs = 0
    /\ poller.phase = "dispatching" => poller.next < poller.offset
    /\ \A u \in Update : worker[u].runs <= 1

\* What a worker's phase implies about what its user was told.
WorkerInv(w) ==
    /\ w.phase \in {"handling", "finishing", "sending"} => w.answers = 0 /\ ~w.lost
    /\ w.phase = "finishing" /\ w.outcome \in {"quiet", "recoverable"} => w.rendered = "nothing"
    /\ w.phase = "sending" => w.outcome # "quiet"
    /\ w.phase = "done" /\ ~w.lost => w.answers = IF w.outcome = "quiet" THEN 0 ELSE 1

IInv ==
    /\ Types
    /\ Cardinality(Active) <= MaxConcurrency
    /\ ResultInv
    /\ OffsetInv
    /\ \A u \in Update : WorkerInv(worker[u])

-----------------------------------------------------------------------------
\* What the types say of the parts of a state.
LEMMA TypeFacts ==
    ASSUME Types
    PROVE  /\ runtime.cancelled \in BOOLEAN /\ runtime.results \in [Enabled -> Result]
           /\ runtime.collected \subseteq Enabled /\ runtime.fatal \in BOOLEAN
           /\ poller.offset \in 1..(Updates + 1) /\ poller.next \in 1..(Updates + 1)
           /\ \A u \in Update : worker[u] \in Worker
           /\ server.sent \in 0..Updates /\ server.confirmed \in 0..Updates
           /\ Updates \in Nat
  BY ChannelsAssumption DEF Types, Runtime, Poller

\* A worker that was not started.
LEMMA NoWorkerFacts ==
    /\ NoWorker \in Worker /\ NoWorker.phase = "none" /\ NoWorker.runs = 0
    /\ NoWorker.outcome = "ok" /\ NoWorker.rendered = "nothing" /\ NoWorker.answers = 0
    /\ ~NoWorker.lost /\ WorkerInv(NoWorker)
  BY DEF NoWorker, Worker, Outcome, WorkerInv

\* The process starts with every loop at its head.
LEMMA StartFacts ==
    /\ StartedRuntime \in Runtime /\ StartedCLI \in CLI /\ Idle \in Poller
    /\ StartedRuntime.results = [c \in Enabled |-> "none"]
    /\ StartedRuntime.collected = {} /\ StartedRuntime.state = "running"
    /\ StartedCLI = IF "cli" \in Enabled THEN "looping" ELSE "returned"
    /\ Idle.phase = IF "telegram" \in Enabled THEN "polling" ELSE "returned"
    /\ Idle.offset = 1 /\ Idle.next = 1
<1>1. StartedRuntime \in Runtime /\ StartedCLI \in CLI
  BY DEF StartedRuntime, Runtime, Result, StartedCLI, CLI
<1>2. StartedPoller \in Poller /\ StartedPoller.phase = "polling"
      /\ StartedPoller.offset = 1 /\ StartedPoller.next = 1
  BY ChannelsAssumption DEF StartedPoller, Poller
<1>3. Idle \in Poller /\ Idle.offset = 1 /\ Idle.next = 1
      /\ Idle.phase = IF "telegram" \in Enabled THEN "polling" ELSE "returned"
  BY <1>2 DEF Poller, Idle
<1>4. QED BY <1>1, <1>3 DEF StartedRuntime, StartedCLI

\* A worker that could not tell its user.
LEMMA LostForm ==
    ASSUME NEW w \in Worker
    PROVE  /\ Lost(w) \in Worker /\ WorkerInv(Lost(w)) /\ Lost(w).runs = w.runs
           /\ Lost(w).phase = "done"
<1>1. Lost(w) \in Worker /\ Lost(w).phase = "done" /\ Lost(w).runs = w.runs /\ Lost(w).lost
  BY NoWorkerFacts DEF Lost, Worker
<1>2. QED BY <1>1 DEF WorkerInv

\* A worker that is through and told its user what it owed.
LEMMA ThroughForm ==
    ASSUME NEW w \in Worker, NEW n, n = IF w.outcome = "quiet" THEN 0 ELSE 1
    PROVE  /\ Through(w, n) \in Worker /\ WorkerInv(Through(w, n))
           /\ Through(w, n).runs = w.runs /\ Through(w, n).phase = "done"
<1>1. n \in 0..2
  OBVIOUS
<1>2. /\ Through(w, n) \in Worker /\ Through(w, n).phase = "done"
      /\ Through(w, n).runs = w.runs /\ Through(w, n).answers = n
      /\ Through(w, n).outcome = IF w.outcome = "quiet" THEN "quiet" ELSE "ok"
  BY <1>1, NoWorkerFacts DEF Through, Worker, Outcome
<1>3. WorkerInv(Through(w, n))
  BY <1>2 DEF WorkerInv
<1>4. QED BY <1>2, <1>3

\* A worker that goes on to send.
LEMMA SendingForm ==
    ASSUME NEW w \in Worker
    PROVE  LET v == [w EXCEPT !.answers = 0, !.phase = "sending"]
           IN  v \in Worker /\ v.phase = "sending" /\ v.answers = 0
               /\ v.runs = w.runs /\ v.outcome = w.outcome /\ v.lost = w.lost
<1> DEFINE v == [w EXCEPT !.answers = 0, !.phase = "sending"]
<1>0. 0 \in 0..2
  OBVIOUS
<1>1. v \in Worker
  BY <1>0 DEF Worker
<1>2. v.phase = "sending"
  BY DEF Worker
<1>3. v.answers = 0
  BY DEF Worker
<1>4. v.runs = w.runs /\ v.outcome = w.outcome /\ v.lost = w.lost
  BY DEF Worker
<1>5. QED BY <1>1, <1>2, <1>3, <1>4

\* What a finished flush leaves: the worker is through, having told its user, or
\* sends a message, having told nothing.
LEMMA FlushedForms ==
    ASSUME NEW w \in Worker, w.phase = "finishing", WorkerInv(w)
    PROVE  /\ Flushed(w) \in Worker /\ WorkerInv(Flushed(w)) /\ Flushed(w).runs = w.runs
           /\ Flushed(w).phase \in {"sending", "done"}
<1> DEFINE told == w.rendered = "stream" \/ (Failed(w) /\ w.rendered # "nothing")
           answers == IF told THEN 1 ELSE 0
<1>1. CASE Replies(w) \/ Apologizes(w)
  <2>1. ~told
    BY <1>1 DEF Replies, Apologizes, Failed
  <2> DEFINE v == [w EXCEPT !.answers = 0, !.phase = "sending"]
  <2>2. v \in Worker /\ v.phase = "sending" /\ v.answers = 0
        /\ v.runs = w.runs /\ v.outcome = w.outcome /\ v.lost = w.lost
    BY SendingForm
  <2>3. Flushed(w) = v
    BY <1>1, <2>1 DEF Flushed
  <2> HIDE DEF v
  <2>4. w.outcome # "quiet"
    BY <1>1 DEF Replies, Apologizes, Failed
  <2>5. ~w.lost
    BY DEF WorkerInv
  <2>6. WorkerInv(v)
    BY <2>2, <2>4, <2>5 DEF WorkerInv
  <2>7. QED BY <2>2, <2>3, <2>6
<1>2. CASE ~(Replies(w) \/ Apologizes(w))
  <2>1. Flushed(w) = Through(w, answers)
    BY <1>2 DEF Flushed
  <2>2. answers = IF w.outcome = "quiet" THEN 0 ELSE 1
    BY <1>2 DEF Replies, Apologizes, Failed, WorkerInv, Worker, Outcome
  <2>3. QED BY <2>1, <2>2, ThroughForm
<1>3. QED BY <1>1, <1>2

\* What a step of a worker makes of it.
LEMMA WorkerMoves ==
    ASSUME Types, \A u \in Update : WorkerInv(worker[u]), NEW u \in Update, RunWorker(u)
    PROVE  \E w \in Worker :
             /\ worker' = [worker EXCEPT ![u] = w]
             /\ WorkerInv(w) /\ w.runs = worker[u].runs
             /\ worker[u].phase \notin {"none", "done"}
             /\ w.phase # "none"
<1>0. worker[u] \in Worker /\ WorkerInv(worker[u])
  BY TypeFacts
<1>1. CASE HandlerEnds(u)
  <2>1. PICK outcome \in Outcome, rendered \in {"nothing", "lines", "stream"} :
          /\ outcome \in {"quiet", "recoverable"} => rendered = "nothing"
          /\ Become(u, [worker[u] EXCEPT !.phase = "finishing", !.outcome = outcome,
                                         !.rendered = rendered])
    BY <1>1 DEF HandlerEnds
  <2> DEFINE w == [worker[u] EXCEPT !.phase = "finishing", !.outcome = outcome,
                                    !.rendered = rendered]
  <2>2. w \in Worker /\ w.phase = "finishing" /\ w.outcome = outcome
        /\ w.rendered = rendered /\ w.runs = worker[u].runs
        /\ w.answers = worker[u].answers /\ w.lost = worker[u].lost
    BY <1>0 DEF Worker
  <2>3. worker[u].phase = "handling"
    BY <1>1 DEF HandlerEnds
  <2>4. worker' = [worker EXCEPT ![u] = w]
    BY <2>1 DEF Become
  <2> HIDE DEF w
  <2>5. WorkerInv(w)
    BY <1>0, <2>1, <2>2, <2>3 DEF WorkerInv
  <2>6. QED BY <2>2, <2>3, <2>4, <2>5
<1>2. CASE FinishSink(u)
  <2>1. worker[u].phase = "finishing"
    BY <1>2 DEF FinishSink
  <2>2. worker' = [worker EXCEPT ![u] = Flushed(worker[u])]
        \/ worker' = [worker EXCEPT ![u] = Lost(worker[u])]
    BY <1>2 DEF FinishSink, Become
  <2>3. QED BY <1>0, <2>1, <2>2, FlushedForms, LostForm
<1>3. CASE Send(u)
  <2>1. worker[u].phase = "sending" /\ worker[u].answers = 0 /\ worker[u].outcome # "quiet"
    BY <1>0, <1>3 DEF Send, WorkerInv
  <2>2. worker' = [worker EXCEPT ![u] = Through(worker[u], 1)]
        \/ worker' = [worker EXCEPT ![u] = Lost(worker[u])]
    BY <1>3, <2>1 DEF Send, Become
  <2>3. WorkerInv(Through(worker[u], 1)) /\ Through(worker[u], 1) \in Worker
        /\ Through(worker[u], 1).runs = worker[u].runs /\ Through(worker[u], 1).phase = "done"
    BY <1>0, <2>1, ThroughForm
  <2>4. QED BY <1>0, <2>1, <2>2, <2>3, LostForm
<1>4. QED BY <1>1, <1>2, <1>3 DEF RunWorker

\* Dispatch's fresh worker.
LEMMA DispatchedWorker ==
    ASSUME NEW n \in Nat
    PROVE  LET w == [NoWorker EXCEPT !.phase = "handling", !.runs = n]
           IN  w \in Worker /\ w.phase = "handling" /\ w.runs = n /\ WorkerInv(w)
<1> DEFINE w == [NoWorker EXCEPT !.phase = "handling", !.runs = n]
<1>1. w \in Worker /\ w.phase = "handling" /\ w.runs = n /\ w.answers = 0 /\ ~w.lost
  BY NoWorkerFacts DEF Worker
<1> HIDE DEF w
<1>2. WorkerInv(w)
  BY <1>1 DEF WorkerInv
<1>3. QED BY <1>1, <1>2 DEF w

-----------------------------------------------------------------------------
\* The initial state.
LEMMA InitStep == Init => IInv
<1> SUFFICES ASSUME Init PROVE IInv
  OBVIOUS
<1>1. Types
  <2>1. server \in [sent: 0..Updates, confirmed: 0..Updates] /\ crashes \in 0..MaxCrashes
    BY ChannelsAssumption DEF Init
  <2>2. worker \in [Update -> Worker]
    BY NoWorkerFacts DEF Init
  <2>3. QED BY <2>1, <2>2, StartFacts DEF Init, Types
<1>2. Active = {}
  BY NoWorkerFacts DEF Init, Active
<1>3. Cardinality(Active) <= MaxConcurrency
  BY <1>2, FS_EmptySet, ChannelsAssumption
<1>4. ResultInv
  BY <1>2, StartFacts DEF Init, ResultInv
<1>5. OffsetInv
  <2>1. \A u \in Update : worker[u].runs = 0
    BY NoWorkerFacts DEF Init
  <2>2. poller.offset = 1 /\ poller.next = 1 /\ poller.phase # "dispatching"
    BY StartFacts DEF Init
  <2>3. server.confirmed = 0 /\ server.sent = 0
    BY DEF Init
  <2>4. QED BY <2>1, <2>2, <2>3 DEF OffsetInv, Ahead
<1>6. \A u \in Update : WorkerInv(worker[u])
  BY NoWorkerFacts DEF Init
<1>7. QED BY <1>1, <1>3, <1>4, <1>5, <1>6 DEF IInv

\* A channel that returns: its loop is over, and it has the result.
LEMMA ReturnFacts ==
    ASSUME Types, NEW c \in Enabled, NEW result \in Result, Return(c, result)
    PROVE  /\ runtime' \in Runtime
           /\ runtime'.results[c] = result
           /\ \A d \in Enabled \ {c} : runtime'.results[d] = runtime.results[d]
           /\ runtime'.collected = runtime.collected /\ runtime'.state = runtime.state
<1>1. runtime \in Runtime /\ runtime.results \in [Enabled -> Result]
  BY TypeFacts DEF Types
<1>2. [runtime.results EXCEPT ![c] = result] \in [Enabled -> Result]
  BY <1>1
<1>3. runtime' = [runtime EXCEPT !.results = [runtime.results EXCEPT ![c] = result]]
  BY DEF Return
<1>4. QED BY <1>1, <1>2, <1>3 DEF Runtime

\* The CLI's loop.
LEMMA CLIStep ==
    ASSUME IInv, RunCLI \/ ReadLine \/ AskApproval \/ Answer
    PROVE  IInv'
<1>1. UNCHANGED <<signalled, poller, worker, server, taken, crashes>>
  BY DEF RunCLI, Prompt, ReadLine, HandleLine, AskApproval, Answer
<1>2. cli # "returned"
  BY DEF RunCLI, Prompt, ReadLine, HandleLine, AskApproval, Answer
<1>3. "cli" \in Enabled
  BY <1>2 DEF IInv, ResultInv
<1>4. \/ cli' \in CLI \ {"returned"} /\ runtime' = runtime
      \/ cli' = "returned" /\ \E result \in {"nil", "canceled", "error"} : Return("cli", result)
  BY DEF RunCLI, Prompt, ReadLine, HandleLine, AskApproval, Answer, TerminalFails, CLIReturn, CLI
<1>5. Active' = Active
  BY <1>1 DEF Active
<1>6. OffsetInv' /\ \A u \in Update : WorkerInv(worker[u])'
  BY <1>1 DEF IInv, OffsetInv, Ahead
<1>7. CASE cli' \in CLI \ {"returned"} /\ runtime' = runtime
  <2>1. Types' /\ ResultInv'
    BY <1>1, <1>2, <1>5, <1>7 DEF IInv, Types, ResultInv
  <2>2. QED BY <1>5, <1>6, <2>1 DEF IInv
<1>8. CASE cli' = "returned" /\ \E result \in {"nil", "canceled", "error"} : Return("cli", result)
  <2>1. PICK result \in {"nil", "canceled", "error"} : Return("cli", result)
    BY <1>8
  <2>2. result \in Result /\ result # "none"
    BY DEF Result
  <2>3. /\ runtime' \in Runtime /\ runtime'.results["cli"] = result
        /\ \A d \in Enabled \ {"cli"} : runtime'.results[d] = runtime.results[d]
        /\ runtime'.collected = runtime.collected /\ runtime'.state = runtime.state
    BY <1>3, <2>1, <2>2, ReturnFacts DEF IInv
  <2>4. Types'
    BY <1>1, <1>8, <2>3 DEF IInv, Types, CLI
  <2>5. ResultInv'
    <3>1. \A c \in runtime'.collected : runtime'.results[c] # "none"
      BY <2>2, <2>3, TypeFacts DEF IInv, ResultInv
    <3>2. QED BY <1>1, <1>3, <1>5, <1>8, <2>2, <2>3, <3>1 DEF IInv, ResultInv
  <2>6. QED BY <1>5, <1>6, <2>4, <2>5 DEF IInv
<1>9. QED BY <1>4, <1>7, <1>8

\* Run's own steps read the results.
LEMMA SuperviseStep ==
    ASSUME IInv, Supervise
    PROVE  IInv'
<1>1. UNCHANGED <<signalled, cli, poller, worker, server, taken, crashes>>
  BY DEF Supervise, Collect, RunReturns, Close
<1>2. Active' = Active
  BY <1>1 DEF Active
<1>3. OffsetInv' /\ \A u \in Update : WorkerInv(worker[u])'
  BY <1>1 DEF IInv, OffsetInv, Ahead
<1>4. runtime \in Runtime /\ runtime.collected \subseteq Enabled
  BY TypeFacts DEF IInv, Types
<1>5. /\ runtime' \in Runtime /\ runtime'.results = runtime.results
      /\ \A c \in runtime'.collected : runtime'.results[c] # "none"
      /\ runtime'.state # "running" => runtime'.collected = Enabled
  <2>1. CASE \E c \in Enabled : Collect(c)
    <3>1. PICK c \in Enabled : Collect(c)
      BY <2>1
    <3> DEFINE bad == ~Harmless(runtime.results[c])
               col == runtime.collected \union {c}
               fat == runtime.fatal \/ bad
               can == runtime.cancelled \/ bad
    <3>2. runtime' = [runtime EXCEPT !.collected = col, !.fatal = fat, !.cancelled = can]
          /\ runtime.results[c] # "none"
      BY <3>1 DEF Collect, Returned
    <3>3. col \subseteq Enabled /\ fat \in BOOLEAN /\ can \in BOOLEAN
      BY <1>4
    <3>4. \A d \in col : runtime.results[d] # "none"
      BY <3>2 DEF IInv, ResultInv
    <3>5. runtime.state # "running" => col = Enabled
      BY DEF IInv, ResultInv
    <3> HIDE DEF col, fat, can
    <3>6. QED BY <1>4, <3>2, <3>3, <3>4, <3>5 DEF Runtime
  <2>2. CASE RunReturns
    BY <1>4, <2>2 DEF RunReturns, Runtime, IInv, ResultInv
  <2>3. CASE Close
    BY <1>4, <2>3 DEF Close, Runtime, IInv, ResultInv
  <2>4. QED BY <2>1, <2>2, <2>3 DEF Supervise
<1>6. Types'
  BY <1>1, <1>5 DEF IInv, Types
<1>7. ResultInv'
  BY <1>1, <1>2, <1>5 DEF IInv, ResultInv
<1>8. QED BY <1>2, <1>3, <1>6, <1>7 DEF IInv

\* There are finitely many workers.
LEMMA ActiveFinite == IsFiniteSet(Active) /\ IsFiniteSet(Active')
<1>1. IsFiniteSet(Update)
  BY FS_Interval, ChannelsAssumption DEF Update
<1>2. Active \subseteq Update /\ Active' \subseteq Update
  BY DEF Active
<1>3. QED BY <1>1, <1>2, FS_Subset

\* A worker's steps start no handler, and only ever end one.
LEMMA WorkerStep ==
    ASSUME IInv, NEW u \in Update, RunWorker(u)
    PROVE  IInv'
<1>1. UNCHANGED <<signalled, runtime, cli, poller, server, taken, crashes>>
  BY DEF RunWorker, HandlerEnds, FinishSink, Send
<1>2. PICK w \in Worker :
        /\ worker' = [worker EXCEPT ![u] = w]
        /\ WorkerInv(w) /\ w.runs = worker[u].runs
        /\ worker[u].phase \notin {"none", "done"}
        /\ w.phase # "none"
  BY WorkerMoves DEF IInv
<1>3. worker \in [Update -> Worker]
  BY DEF IInv, Types
<1>4. worker'[u] = w /\ \A v \in Update \ {u} : worker'[v] = worker[v]
  BY <1>2, <1>3
<1>5. Types'
  BY <1>1, <1>2 DEF IInv, Types
<1>6. Active' \subseteq Active
  BY <1>2, <1>4 DEF Active
<1>7. Cardinality(Active)' <= MaxConcurrency
  <2>1. IsFiniteSet(Active)
    BY ActiveFinite
  <2>2. Cardinality(Active') <= Cardinality(Active)
    BY <1>6, <2>1, FS_Subset
  <2>3. IsFiniteSet(Active') /\ Cardinality(Active') \in Nat /\ Cardinality(Active) \in Nat
    BY <1>6, <2>1, FS_Subset, FS_CardinalityType
  <2>4. QED BY <2>2, <2>3, ChannelsAssumption DEF IInv
<1>8. ResultInv'
  BY <1>1, <1>6 DEF IInv, ResultInv
<1>9. OffsetInv'
  <2>1. \A v \in Update : worker'[v].runs = worker[v].runs
    BY <1>2, <1>4
  <2>2. QED BY <1>1, <2>1 DEF IInv, OffsetInv, Ahead
<1>10. \A v \in Update : WorkerInv(worker'[v])
  BY <1>2, <1>4 DEF IInv
<1>11. QED BY <1>5, <1>7, <1>8, <1>9, <1>10 DEF IInv

\* A step of the poller that starts no worker and does not return: what matters is
\* where it leaves the offset.
LEMMA PollerMoves ==
    ASSUME IInv, UNCHANGED <<signalled, runtime, cli, worker, crashes>>,
           poller' \in Poller, poller.phase # "returned", poller'.phase # "returned",
           server' \in [sent: 0..Updates, confirmed: 0..Updates],
           taken' \subseteq Update, OffsetInv'
    PROVE  IInv'
<1>1. Active' = Active
  BY DEF Active
<1>2. "telegram" \in Enabled
  BY DEF IInv, ResultInv
<1>3. ResultInv'
  BY <1>1, <1>2 DEF IInv, ResultInv
<1>4. Types'
  BY DEF IInv, Types
<1>5. QED BY <1>1, <1>3, <1>4 DEF IInv

\* getUpdates is called between batches: everything below the offset was taken.
LEMMA PollStep ==
    ASSUME IInv, Poll
    PROVE  IInv'
<1> DEFINE conf == IF poller.offset - 1 > server.confirmed THEN poller.offset - 1
                   ELSE server.confirmed
<1>0. /\ poller \in Poller /\ poller.offset \in 1..(Updates + 1) /\ Updates \in Nat
      /\ server \in [sent: 0..Updates, confirmed: 0..Updates]
      /\ server.sent \in 0..Updates /\ server.confirmed \in 0..Updates
  BY TypeFacts DEF IInv, Types
<1>1. /\ UNCHANGED <<signalled, runtime, cli, worker, crashes>> /\ taken' = taken
      /\ poller.phase = "polling"
      /\ server' = [server EXCEPT !.confirmed = conf]
      /\ poller' = IF server.sent < conf + 1 THEN poller
                   ELSE [poller EXCEPT !.phase = "dispatching", !.next = conf + 1,
                                       !.offset = server.sent + 1]
  <2>1. server' = [server EXCEPT !.confirmed = conf] /\ poller.phase = "polling"
        /\ UNCHANGED <<signalled, runtime, cli, worker, crashes>> /\ taken' = taken
    BY DEF Poll, PollFrom, Confirmed
  <2>2. server'.confirmed = conf
    BY <1>0, <2>1
  <2>3. poller' = IF server.sent < server'.confirmed + 1 THEN poller
                  ELSE [poller EXCEPT !.phase = "dispatching", !.next = server'.confirmed + 1,
                                      !.offset = server.sent + 1]
    BY DEF Poll
  <2>4. QED BY <2>1, <2>2, <2>3
<1>2. /\ server.confirmed <= server.sent /\ poller.offset <= server.sent + 1
      /\ 1..server.confirmed \subseteq taken /\ 1..(poller.offset - 1) \subseteq taken
      /\ \A u \in Update : u >= poller.offset => worker[u].runs = 0
      /\ \A u \in Update : worker[u].runs <= 1
  BY <1>1 DEF IInv, OffsetInv, Ahead
<1>3. conf \in 0..Updates /\ conf >= poller.offset - 1 /\ conf <= server.sent
      /\ 1..conf \subseteq taken
  BY <1>0, <1>2
<1> HIDE DEF conf
<1>4. server' \in [sent: 0..Updates, confirmed: 0..Updates]
      /\ server'.sent = server.sent /\ server'.confirmed = conf
  BY <1>0, <1>1, <1>3
<1>5. CASE server.sent < conf + 1
  <2>1. poller' = poller
    BY <1>1, <1>5
  <2>2. OffsetInv'
    BY <1>1, <1>2, <1>3, <1>4, <2>1 DEF OffsetInv, Ahead
  <2>3. QED BY <1>0, <1>1, <1>4, <2>1, <2>2, PollerMoves DEF IInv, Types
<1>6. CASE ~(server.sent < conf + 1)
  <2>1. poller' = [poller EXCEPT !.phase = "dispatching", !.next = conf + 1,
                                 !.offset = server.sent + 1]
    BY <1>1, <1>6
  <2>2. conf + 1 \in 1..(Updates + 1) /\ server.sent + 1 \in 1..(Updates + 1)
    BY <1>0, <1>3
  <2>3. poller' \in Poller /\ poller'.phase = "dispatching" /\ poller'.next = conf + 1
        /\ poller'.offset = server.sent + 1
    BY <1>0, <2>1, <2>2 DEF Poller
  <2>4. 1..((conf + 1) - 1) \subseteq taken
    BY <1>3
  <2>5. \A u \in Update : u >= conf + 1 => worker[u].runs = 0
    BY <1>0, <1>2, <1>3 DEF Update
  <2>6. conf + 1 < server.sent + 1
    BY <1>0, <1>3, <1>6
  <2>7. OffsetInv'
    BY <1>0, <1>1, <1>2, <1>3, <1>4, <2>3, <2>4, <2>5, <2>6 DEF OffsetInv, Ahead
  <2>8. taken' \subseteq Update
    BY <1>1 DEF IInv, Types
  <2>9. QED BY <1>1, <1>4, <2>3, <2>7, <2>8, PollerMoves
<1>7. QED BY <1>5, <1>6

\* A poll that fails, a wait that ends, and a cancelled poller start nothing; the
\* failed poll may have confirmed what is below the offset.
LEMMA QuietPollerStep ==
    ASSUME IInv, PollFails \/ BackoffEnds \/ StopPolling
    PROVE  IInv'
<1>0. poller \in Poller /\ server \in [sent: 0..Updates, confirmed: 0..Updates]
      /\ taken \subseteq Update /\ poller.offset \in 1..(Updates + 1) /\ Updates \in Nat
  BY TypeFacts DEF IInv, Types
<1>1. UNCHANGED <<signalled, runtime, cli, worker, taken, crashes>>
  BY DEF PollFails, BackoffEnds, StopPolling
<1>2. \/ /\ poller.phase \in {"polling", "backoff"}
         /\ \E ph \in {"polling", "backoff"} : poller' = [poller EXCEPT !.phase = ph]
      \/ /\ poller.phase \in {"polling", "backoff", "dispatching"}
         /\ \E e \in BOOLEAN : poller' = [poller EXCEPT !.phase = "draining", !.error = e]
  BY DEF PollFails, BackoffEnds, StopPolling, Drain
<1>3. /\ server' \in [sent: 0..Updates, confirmed: 0..Updates]
      /\ server'.sent = server.sent
      /\ server'.confirmed <= server.sent /\ 1..server'.confirmed \subseteq taken
  <2>1. server.confirmed <= server.sent /\ 1..server.confirmed \subseteq taken
    BY DEF IInv, OffsetInv
  <2>2. CASE server' = server
    BY <1>0, <2>1, <2>2
  <2>3. CASE poller.phase = "polling" /\ server' = Confirmed
    <3>1. poller.offset - 1 <= server.sent /\ 1..(poller.offset - 1) \subseteq taken
      BY <1>0, <2>3 DEF IInv, OffsetInv, Ahead
    <3>2. QED BY <1>0, <2>1, <2>3, <3>1 DEF Confirmed
  <2>4. QED BY <2>2, <2>3 DEF PollFails, BackoffEnds, StopPolling
<1>4. CASE /\ poller.phase \in {"polling", "backoff"}
           /\ \E ph \in {"polling", "backoff"} : poller' = [poller EXCEPT !.phase = ph]
  <2>1. PICK ph \in {"polling", "backoff"} : poller' = [poller EXCEPT !.phase = ph]
    BY <1>4
  <2>2. poller' \in Poller /\ poller'.phase = ph /\ poller'.offset = poller.offset
        /\ poller'.next = poller.next
    BY <1>0, <2>1 DEF Poller
  <2>3. OffsetInv'
    BY <1>1, <1>3, <1>4, <2>2 DEF IInv, OffsetInv, Ahead
  <2>4. QED BY <1>0, <1>1, <1>3, <1>4, <2>2, <2>3, PollerMoves
<1>5. CASE /\ poller.phase \in {"polling", "backoff", "dispatching"}
           /\ \E e \in BOOLEAN : poller' = [poller EXCEPT !.phase = "draining", !.error = e]
  <2>1. PICK e \in BOOLEAN : poller' = [poller EXCEPT !.phase = "draining", !.error = e]
    BY <1>5
  <2>2. poller' \in Poller /\ poller'.phase = "draining" /\ poller'.offset = poller.offset
    BY <1>0, <2>1 DEF Poller
  <2>3. OffsetInv'
    BY <1>1, <1>3, <2>2 DEF IInv, OffsetInv
  <2>4. QED BY <1>0, <1>1, <1>3, <1>5, <2>2, <2>3, PollerMoves
<1>6. QED BY <1>2, <1>4, <1>5

\* Where the poller is when it has dealt with one more update of its batch.
LEMMA MovedFacts ==
    ASSUME IInv, poller.phase = "dispatching"
    PROVE  /\ Moved \in Poller /\ Moved.offset = poller.offset
           /\ Moved.phase \in {"polling", "dispatching"}
           /\ poller.next \in Update
           /\ Moved.phase = "dispatching" =>
                Moved.next = poller.next + 1 /\ poller.next + 1 < poller.offset
           /\ Moved.phase = "polling" => poller.offset = poller.next + 1
<1>1. poller \in Poller /\ poller.next \in 1..(Updates + 1) /\ poller.offset \in 1..(Updates + 1)
      /\ Updates \in Nat
  BY TypeFacts DEF IInv, Types
<1>2. poller.next < poller.offset
  BY DEF IInv, OffsetInv
<1> DEFINE ph == IF poller.next + 1 = poller.offset THEN "polling" ELSE poller.phase
<1>3. Moved = [poller EXCEPT !.next = poller.next + 1, !.phase = ph]
  BY DEF Moved
<1>4. poller.next + 1 \in 1..(Updates + 1) /\ ph \in {"polling", "dispatching"}
      /\ poller.next \in Update
  BY <1>1, <1>2 DEF Update
<1>5. ph = "dispatching" => poller.next + 1 < poller.offset
  BY <1>1, <1>2
<1>6. ph = "polling" => poller.offset = poller.next + 1
  OBVIOUS
<1> HIDE DEF ph
<1>7. Moved \in Poller /\ Moved.offset = poller.offset /\ Moved.phase = ph
      /\ Moved.next = poller.next + 1
  BY <1>1, <1>3, <1>4 DEF Poller
<1>8. QED BY <1>4, <1>5, <1>6, <1>7

\* How far the poller is after it dealt with one update.
LEMMA MovedOffset ==
    ASSUME IInv, poller.phase = "dispatching", poller' = Moved,
           taken' = taken \union {poller.next}, server' = server,
           \A u \in Update : u # poller.next => worker'[u].runs = worker[u].runs,
           worker'[poller.next].runs <= 1
    PROVE  OffsetInv'
<1>0. poller.next \in 1..(Updates + 1) /\ poller.offset \in 1..(Updates + 1) /\ Updates \in Nat
  BY TypeFacts DEF IInv
<1>1. /\ 1..(poller.next - 1) \subseteq taken
      /\ \A u \in Update : u >= poller.next => worker[u].runs = 0
      /\ \A u \in Update : worker[u].runs <= 1
      /\ 1..server.confirmed \subseteq taken
      /\ server.confirmed <= server.sent /\ poller.offset <= server.sent + 1
  BY DEF IInv, OffsetInv, Ahead
<1>2. 1..((poller.next + 1) - 1) \subseteq taken'
  BY <1>0, <1>1
<1>3. \A u \in Update : u >= poller.next + 1 => worker'[u].runs = 0
  BY <1>0, <1>1 DEF Update
<1>4. \A u \in Update : worker'[u].runs <= 1
  BY <1>1
<1>5. Ahead' = poller.next + 1
  BY MovedFacts DEF Ahead
<1>6. QED BY <1>1, <1>2, <1>3, <1>4, <1>5, MovedFacts DEF OffsetInv

\* mapUpdate filters an update.
LEMMA SkipStep ==
    ASSUME IInv, Skip
    PROVE  IInv'
<1>1. /\ poller.phase = "dispatching" /\ poller' = Moved
      /\ taken' = taken \union {poller.next}
      /\ UNCHANGED <<signalled, runtime, cli, worker, server, crashes>>
  BY DEF Skip
<1>2. poller.next \in Update /\ worker[poller.next].runs <= 1
  BY <1>1, MovedFacts DEF IInv, OffsetInv
<1>3. OffsetInv'
  BY <1>1, <1>2, MovedOffset
<1>4. taken' \subseteq Update /\ server' \in [sent: 0..Updates, confirmed: 0..Updates]
  BY <1>1, <1>2 DEF IInv, Types
<1>5. QED BY <1>1, <1>3, <1>4, MovedFacts, PollerMoves

\* An update of the batch goes to a worker of its own: the first this process
\* starts for it, and within the semaphore.
LEMMA DispatchStep ==
    ASSUME IInv, Dispatch
    PROVE  IInv'
<1> DEFINE u == poller.next
           n == worker[u].runs + 1
           w == [NoWorker EXCEPT !.phase = "handling", !.runs = n]
<1>1. /\ poller.phase = "dispatching" /\ poller' = Moved /\ taken' = taken \union {u}
      /\ worker' = [worker EXCEPT ![u] = w]
      /\ Cardinality(Active) < MaxConcurrency
      /\ UNCHANGED <<signalled, runtime, cli, server, crashes>>
  BY DEF Dispatch, SlotFree
<1>2. u \in Update /\ worker[u].runs = 0 /\ worker \in [Update -> Worker]
  <2>1. u \in Update /\ u \in Nat
    BY <1>1, MovedFacts, ChannelsAssumption DEF Update
  <2>2. QED BY <1>1, <2>1 DEF IInv, OffsetInv, Ahead, Types
<1>3. w \in Worker /\ w.phase = "handling" /\ w.runs = 1 /\ WorkerInv(w)
  <2>1. n \in Nat /\ n = 1
    BY <1>2
  <2> HIDE DEF n
  <2>2. QED BY <2>1, DispatchedWorker
<1> HIDE DEF w
<1>4. worker'[u] = w /\ \A v \in Update \ {u} : worker'[v] = worker[v]
  BY <1>1, <1>2
<1>5. Types'
  <2>1. worker' \in [Update -> Worker]
    BY <1>1, <1>2, <1>3
  <2>2. QED BY <1>1, <1>2, <2>1, MovedFacts DEF IInv, Types
<1>6. OffsetInv'
  BY <1>1, <1>3, <1>4, MovedOffset
<1>7. Active' \subseteq Active \union {u}
  BY <1>4 DEF Active
<1>8. Cardinality(Active)' <= MaxConcurrency
  <2>1. IsFiniteSet(Active \union {u})
        /\ Cardinality(Active \union {u}) <= Cardinality(Active) + 1
    <3>1. IsFiniteSet(Active) /\ Cardinality(Active) \in Nat
      BY ActiveFinite, FS_CardinalityType
    <3>2. IsFiniteSet(Active \union {u})
          /\ Cardinality(Active \union {u})
               = IF u \in Active THEN Cardinality(Active) ELSE Cardinality(Active) + 1
      BY <3>1, FS_AddElement, Zenon
    <3>3. QED BY <3>1, <3>2
  <2>2. Cardinality(Active') <= Cardinality(Active \union {u})
    BY <1>7, <2>1, FS_Subset
  <2>3. Cardinality(Active') \in Nat /\ Cardinality(Active) \in Nat
        /\ Cardinality(Active \union {u}) \in Nat
    BY <2>1, ActiveFinite, FS_CardinalityType
  <2>4. QED BY <1>1, <2>1, <2>2, <2>3, ChannelsAssumption
<1>9. ResultInv'
  BY <1>1, MovedFacts DEF IInv, ResultInv
<1>10. \A v \in Update : WorkerInv(worker'[v])
  BY <1>3, <1>4 DEF IInv
<1>11. QED BY <1>5, <1>6, <1>8, <1>9, <1>10 DEF IInv

\* Run's deferred Wait: the loop is over when the workers are.
LEMMA PollerReturnsStep ==
    ASSUME IInv, PollerReturns
    PROVE  IInv'
<1>0. poller \in Poller
  BY DEF IInv, Types
<1>1. /\ poller.phase = "draining" /\ Active = {}
      /\ poller' = [poller EXCEPT !.phase = "returned"]
      /\ UNCHANGED <<signalled, cli, worker, server, taken, crashes>>
  BY DEF PollerReturns, Drained
<1>2. PICK result \in {"error", "canceled"} : Return("telegram", result)
  BY DEF PollerReturns
<1>3. "telegram" \in Enabled
  BY <1>1 DEF IInv, ResultInv
<1>4. result \in Result /\ result # "none"
  BY DEF Result
<1>5. /\ runtime' \in Runtime /\ runtime'.results["telegram"] = result
      /\ \A d \in Enabled \ {"telegram"} : runtime'.results[d] = runtime.results[d]
      /\ runtime'.collected = runtime.collected /\ runtime'.state = runtime.state
  BY <1>2, <1>3, <1>4, ReturnFacts DEF IInv
<1>6. poller' \in Poller /\ poller'.phase = "returned" /\ poller'.offset = poller.offset
  BY <1>0, <1>1 DEF Poller
<1>7. Active' = Active
  BY <1>1 DEF Active
<1>8. Types'
  BY <1>1, <1>5, <1>6 DEF IInv, Types
<1>9. ResultInv'
  <2>1. \A c \in runtime'.collected : runtime'.results[c] # "none"
    BY <1>4, <1>5, TypeFacts DEF IInv, ResultInv
  <2>2. QED BY <1>1, <1>3, <1>4, <1>5, <1>6, <1>7, <2>1 DEF IInv, ResultInv
<1>10. OffsetInv'
  BY <1>1, <1>6 DEF IInv, OffsetInv
<1>11. \A u \in Update : WorkerInv(worker'[u])
  BY <1>1 DEF IInv
<1>12. QED BY <1>1, <1>7, <1>8, <1>9, <1>10, <1>11 DEF IInv

\* A signal and a user's message.
LEMMA EnvironmentStep ==
    ASSUME IInv, Signal \/ UserSends
    PROVE  IInv'
<1>1. UNCHANGED <<runtime, cli, poller, worker, taken, crashes>>
  BY DEF Signal, UserSends
<1>2. Active' = Active
  BY <1>1 DEF Active
<1>3. /\ server \in [sent: 0..Updates, confirmed: 0..Updates]
      /\ server.sent \in 0..Updates /\ server.confirmed \in 0..Updates /\ Updates \in Nat
      /\ poller.offset \in 1..(Updates + 1)
  BY TypeFacts DEF IInv, Types
<1>4. /\ server' \in [sent: 0..Updates, confirmed: 0..Updates]
      /\ server'.confirmed = server.confirmed /\ server'.sent >= server.sent
      /\ server'.sent \in Nat
  <2>1. CASE Signal
    BY <1>3, <2>1 DEF Signal
  <2>2. CASE UserSends
    <3>1. server.sent + 1 \in 0..Updates
      BY <1>3, <2>2 DEF UserSends
    <3>2. server' = [server EXCEPT !.sent = server.sent + 1]
      BY <2>2 DEF UserSends
    <3>3. QED BY <1>3, <3>1, <3>2
  <2>3. QED BY <2>1, <2>2
<1>5. signalled' \in BOOLEAN
  BY DEF Signal, UserSends, IInv, Types
<1>6. Types' /\ ResultInv'
  BY <1>1, <1>2, <1>4, <1>5 DEF IInv, Types, ResultInv
<1>7. OffsetInv'
  BY <1>1, <1>3, <1>4 DEF IInv, OffsetInv, Ahead
<1>8. QED BY <1>1, <1>2, <1>6, <1>7 DEF IInv

\* A restarted process polls from the start: what the server confirmed was taken.
LEMMA RestartStep ==
    ASSUME IInv, Restart
    PROVE  IInv'
<1>1. /\ signalled' = FALSE /\ runtime' = StartedRuntime /\ cli' = StartedCLI /\ poller' = Idle
      /\ worker' = [u \in Update |-> NoWorker]
      /\ crashes < MaxCrashes /\ crashes' = crashes + 1
      /\ server' = server /\ taken' = taken
  BY DEF Restart
<1>2. \A u \in Update : worker'[u] = NoWorker
  BY <1>1
<1>3. Active' = {}
  BY <1>2, NoWorkerFacts DEF Active
<1>4. Cardinality(Active)' <= MaxConcurrency
  BY <1>3, FS_EmptySet, ChannelsAssumption
<1>5. Types'
  <2>1. worker' \in [Update -> Worker] /\ crashes' \in 0..MaxCrashes
    BY <1>1, NoWorkerFacts, ChannelsAssumption DEF IInv, Types
  <2>2. QED BY <1>1, <2>1, StartFacts DEF IInv, Types
<1>6. ResultInv'
  BY <1>1, <1>3, StartFacts DEF ResultInv
<1>7. OffsetInv'
  <2>1. server.sent \in Nat
    BY TypeFacts DEF IInv
  <2>2. Ahead' = 1
    BY <1>1, StartFacts DEF Ahead
  <2>3. QED BY <1>1, <1>2, <2>1, <2>2, StartFacts, NoWorkerFacts DEF IInv, OffsetInv
<1>8. \A u \in Update : WorkerInv(worker'[u])
  BY <1>2, NoWorkerFacts
<1>9. QED BY <1>4, <1>5, <1>6, <1>7, <1>8 DEF IInv

\* Every step preserves the invariant.
LEMMA NextStep == IInv /\ [Next]_vars => IInv'
<1> SUFFICES ASSUME IInv, [Next]_vars PROVE IInv'
  OBVIOUS
<1>1. CASE UNCHANGED vars
  <2>1. Active' = Active
    BY <1>1 DEF vars, Active
  <2>2. QED BY <1>1, <2>1 DEF vars, IInv, Types, ResultInv, OffsetInv, Ahead
<1>2. CASE RunPoller
  BY <1>2, QuietPollerStep, SkipStep, DispatchStep, PollerReturnsStep DEF RunPoller
<1>3. CASE \E u \in Update : RunWorker(u)
  BY <1>3, WorkerStep
<1>4. QED
  BY <1>1, <1>2, <1>3, PollStep, CLIStep, SuperviseStep, EnvironmentStep, RestartStep DEF Next

\* The invariant the theorems below rest on.
THEOREM InductiveInvariant == Spec => []IInv
<1>1. QED BY InitStep, NextStep, PTL DEF Spec

\* The semaphore bounds the workers, and every variable keeps its type.
THEOREM TypeCorrect == Spec => []TypeOK
<1>1. IInv => TypeOK
  BY DEF IInv, Types, TypeOK
<1>2. QED BY <1>1, InductiveInvariant, PTL

\* When Run returns, no handler of any channel is left.
THEOREM ReturnedMeansQuietAlways == Spec => []ReturnedMeansQuiet
<1>1. IInv => ReturnedMeansQuiet
  <2> SUFFICES ASSUME IInv, runtime.state # "running"
               PROVE  Active = {} /\ cli = "returned"
    BY DEF ReturnedMeansQuiet
  <2>1. \A c \in Enabled : runtime.results[c] # "none"
    BY DEF IInv, ResultInv
  <2>2. QED BY <2>1 DEF IInv, ResultInv
<1>2. QED BY <1>1, InductiveInvariant, PTL

\* A message Telegram will not send again was dispatched or filtered, and one
\* process hands it to one worker, across signals, failures and restarts.
THEOREM ConfirmedMeansTakenAlways == Spec => []ConfirmedMeansTaken
<1>1. IInv => ConfirmedMeansTaken
  BY DEF IInv, OffsetInv, ConfirmedMeansTaken
<1>2. QED BY <1>1, InductiveInvariant, PTL

\* A worker that is through told its user exactly once what it owed.
THEOREM AnsweredOnceAlways == Spec => []AnsweredOnce
<1>1. IInv => AnsweredOnce
  BY DEF IInv, WorkerInv, AnsweredOnce
<1>2. QED BY <1>1, InductiveInvariant, PTL

=============================================================================
