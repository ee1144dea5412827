------------------------------ MODULE Sessions ------------------------------
(***************************************************************************)
(* session.Registry over session.FileStore, as Application.Handle, RunOnce *)
(* and the slash commands use them: concurrent requests for a few session  *)
(* keys, one live session per key behind that key's mutex, and one file    *)
(* per session id.                                                         *)
(*                                                                         *)
(* A session is the set of exchanges (a user message with its answer) it   *)
(* holds.  A run is long: it works on a clone and commits at its end.  The *)
(* lock of a key's entry is held from Enter to the end of the operation,   *)
(* so that what happens under it between two disk accesses is one step.    *)
(* What EnforceBudget makes of the messages is any subset of them here;    *)
(* ConversationHistory says what it really is.                             *)
(***************************************************************************)
EXTENDS Naturals

CONSTANTS
    Keys,           \* session keys: one per chat, user or one-shot trace
    Requests,       \* request goroutines
    MaxRequests,    \* bound: requests handled
    Faults,         \* which of AllFaults may happen
    Nobody          \* holds no lock

AllFaults == {"crash", "save", "run", "compact"}

ASSUME SessionsAssumption ==
    /\ MaxRequests \in Nat
    /\ Keys # {}
    /\ Faults \subseteq AllFaults
    /\ Nobody \notin Requests

VARIABLES
    saved,      \* ids of the sessions that have a file
    disk,       \* what the file of an id holds
    live,       \* the in-memory session of each key
    holder,     \* the request that holds the mutex of a key's entry
    request,    \* what each request is doing
    requests,   \* requests received so far (bound)
    kept,       \* history: <<id, exchange>> committed, and not taken out by a reset
                \* or a compaction since
    shared      \* history: ids that were live under two keys at once

vars == <<saved, disk, live, holder, request, requests, kept, shared>>

Exchange == 1..MaxRequests
NoID == 0

\* A session created by request n is session n: uuid.NewString never repeats.
ID == 1..MaxRequests

Session == [id: ID \union {NoID}, log: SUBSET Exchange]
NoSession == [id |-> NoID, log |-> {}]
Fresh(id) == [id |-> id, log |-> {}]

\* The operations with an effect: a message, -p, /new, /reset, /resume, /compact.
Ops == {"chat", "once", "new", "reset", "resume", "compact"}

Phase == {"idle", "entering", "inside", "running", "compacting"}

Request == [phase: Phase, op: Ops, key: Keys, number: Nat,
            target: ID \union {NoID},   \* the id /resume was given
            work: Session]              \* the clone a run works on

AnyKey == CHOOSE k \in Keys : TRUE
IdleRequest == [phase |-> "idle", op |-> "chat", key |-> AnyKey, number |-> 0,
                target |-> NoID, work |-> NoSession]

Fault(f) == f \in Faults
At(r, phase) == request[r].phase = phase
Become(r, rec) == request' = [request EXCEPT ![r] = rec]
GoTo(r, phase) == Become(r, [request[r] EXCEPT !.phase = phase])
Key(r) == request[r].key
Inside(r, op) == At(r, "inside") /\ request[r].op = op
Live(r) == live[Key(r)]

Lock(r) == holder' = [holder EXCEPT ![Key(r)] = r]

\* Mutant of Unlock: an early return that forgets the mutex.
StayLocked(r) == UNCHANGED holder

Unlock(r) == holder' = [holder EXCEPT ![Key(r)] = Nobody]

End(r) == Become(r, IdleRequest) /\ Unlock(r)

\* FileStore.Save and the assignment that follows it: the file first.
SaveSession(r, sess) ==
    /\ saved' = saved \union {sess.id}
    /\ disk' = [disk EXCEPT ![sess.id] = sess.log]
    /\ live' = [live EXCEPT ![Key(r)] = sess]

\* Mutant of Commit: the live session is replaced and the file is not written.
CommitInMemory(r, sess) ==
    /\ live' = [live EXCEPT ![Key(r)] = sess]
    /\ kept' = (kept \ ({sess.id} \X Live(r).log)) \union ({sess.id} \X sess.log)
    /\ UNCHANGED <<saved, disk>>

\* A session saved over its own file.  What it drops, it drops on purpose.
Commit(r, sess) ==
    /\ SaveSession(r, sess)
    /\ kept' = (kept \ ({sess.id} \X Live(r).log)) \union ({sess.id} \X sess.log)

(***************************************************************************)
(* Requests and the mutex of an entry                                      *)
(***************************************************************************)
\* /resume takes an id that /sessions lists.
Receive(r) ==
    /\ At(r, "idle") /\ requests < MaxRequests
    /\ \E op \in Ops, k \in Keys :
         \E id \in IF op = "resume" THEN saved ELSE {NoID} :
            Become(r, [phase |-> "entering", op |-> op, key |-> k, target |-> id,
                       number |-> requests + 1, work |-> NoSession])
    /\ requests' = requests + 1
    /\ UNCHANGED <<saved, disk, live, holder, kept, shared>>

\* ErrNoCurrentSession: reset and compact do not create a session.
NeedsSession(r) == request[r].op \in {"reset", "compact"}

\* What an operation does first under the lock: a run clones the session, and
\* Update calls its callback, the summarizer's model call in it.
Admitted(r) ==
    CASE request[r].op = "chat" /\ Live(r) # NoSession ->
            [request[r] EXCEPT !.phase = "running", !.work = Live(r)]
      [] request[r].op = "compact" -> [request[r] EXCEPT !.phase = "compacting"]
      [] OTHER -> [request[r] EXCEPT !.phase = "inside"]

\* Mutant of Available: /new replaces the session without the entry's mutex.
AvailableToNew(r) == holder[Key(r)] = Nobody \/ request[r].op = "new"

Available(r) == holder[Key(r)] = Nobody

Enter(r) ==
    /\ At(r, "entering") /\ Available(r)
    /\ IF NeedsSession(r) /\ Live(r) = NoSession
       THEN Become(r, IdleRequest) /\ UNCHANGED holder
       ELSE Become(r, Admitted(r)) /\ Lock(r)
    /\ UNCHANGED <<saved, disk, live, requests, kept, shared>>

(***************************************************************************)
(* createAndSave: New, NewWithTrace, and WithSession's lazy first session  *)
(***************************************************************************)
Creates(r) ==
    \/ Inside(r, "new") \/ Inside(r, "once")
    \/ Inside(r, "chat")

\* Mutant of Created: the registry keeps an id that is not the created session's.
CreatedAmiss(r) == Fresh(NoID)

Created(r) == Fresh(request[r].number)

\* RunOnce runs its message in a second operation on the key; a message goes on
\* with the session it created.
CreateSession(r) ==
    /\ Creates(r)
    /\ SaveSession(r, Created(r))
    /\ \/ request[r].op = "new" /\ End(r)
       \/ /\ request[r].op = "once"
          /\ Become(r, [request[r] EXCEPT !.phase = "entering", !.op = "chat"])
          /\ Unlock(r)
       \/ /\ request[r].op = "chat"
          /\ Become(r, [request[r] EXCEPT !.phase = "running", !.work = Created(r)])
          /\ UNCHANGED holder
    /\ UNCHANGED <<requests, kept, shared>>

(***************************************************************************)
(* A run under WithSession: modelingagent's Runner, or agent's             *)
(***************************************************************************)
\* CanReplaceFrom: a run may not change which session it is.
CanReplace(r) == Live(r).id = request[r].work.id

\* Save and ReplaceFrom.  The answer, the proposed memories and run_completed
\* come after and touch no session, even if they fail.
CommitRun(r) ==
    /\ At(r, "running") /\ CanReplace(r)
    /\ \E log \in SUBSET request[r].work.log :
         Commit(r, [request[r].work EXCEPT !.log = log \union {request[r].number}])
    /\ End(r)
    /\ UNCHANGED <<requests, shared>>

\* The model, the workflow, the context budget or Save fails: the clone is dropped.
RunFails(r) ==
    /\ At(r, "running") /\ (Fault("run") \/ ~CanReplace(r))
    /\ End(r)
    /\ UNCHANGED <<saved, disk, live, requests, kept, shared>>

(***************************************************************************)
(* /resume, /reset, /compact                                               *)
(***************************************************************************)
Others(r, id) == {k \in Keys \ {Key(r)} : live[k].id = id}

Resume(r) ==
    LET id == request[r].target
    IN  /\ Inside(r, "resume") /\ id \in saved
        /\ live' = [live EXCEPT ![Key(r)] = [id |-> id, log |-> disk[id]]]
        /\ shared' = IF Others(r, id) # {} THEN shared \union {id} ELSE shared
        /\ End(r)
        /\ UNCHANGED <<saved, disk, requests, kept>>

\* The file cannot be read, or it is a session whose model is not registered any more.
ResumeRefused(r) ==
    /\ Inside(r, "resume")
    /\ End(r)
    /\ UNCHANGED <<saved, disk, live, requests, kept, shared>>

Reset(r) ==
    /\ Inside(r, "reset")
    /\ Commit(r, Fresh(Live(r).id))
    /\ End(r)
    /\ UNCHANGED <<requests, shared>>

Compact(r) ==
    /\ At(r, "compacting")
    /\ \E log \in SUBSET Live(r).log : Commit(r, [Live(r) EXCEPT !.log = log])
    /\ End(r)
    /\ UNCHANGED <<requests, shared>>

\* Mutant of CompactFails: the live session is not restored when Save fails.
CompactFailsDirty(r) ==
    /\ At(r, "compacting") /\ Fault("compact")
    /\ \E log \in SUBSET Live(r).log :
         live' = [live EXCEPT ![Key(r)].log = log]
    /\ End(r)
    /\ UNCHANGED <<saved, disk, requests, kept, shared>>

\* The callback or Save fails: the clone taken before it comes back.
CompactFails(r) ==
    /\ At(r, "compacting") /\ Fault("compact")
    /\ End(r)
    /\ UNCHANGED <<saved, disk, live, requests, kept, shared>>

\* Save fails, or its ctx is done: nothing was assigned, nothing is on disk.
SaveFails(r) ==
    /\ Fault("save")
    /\ Creates(r) \/ Inside(r, "reset")
    /\ End(r)
    /\ UNCHANGED <<saved, disk, live, requests, kept, shared>>

\* The process dies: the files stay.
Crash ==
    /\ Fault("crash")
    /\ \E k \in Keys : live[k] # NoSession
    /\ live' = [k \in Keys |-> NoSession]
    /\ holder' = [k \in Keys |-> Nobody]
    /\ request' = [r \in Requests |-> IdleRequest]
    /\ UNCHANGED <<saved, disk, requests, kept, shared>>

(***************************************************************************)
(* Specification                                                           *)
(***************************************************************************)
Init ==
    /\ saved = {}
    /\ disk = [id \in ID |-> {}]
    /\ live = [k \in Keys |-> NoSession]
    /\ holder = [k \in Keys |-> Nobody]
    /\ request = [r \in Requests |-> IdleRequest]
    /\ requests = 0
    /\ kept = {}
    /\ shared = {}

Operate(r) ==
    \/ CreateSession(r) \/ CommitRun(r) \/ RunFails(r)
    \/ Resume(r) \/ ResumeRefused(r) \/ Reset(r)
    \/ Compact(r) \/ CompactFails(r) \/ SaveFails(r)

Next ==
    \/ \E r \in Requests : Receive(r) \/ Enter(r) \/ Operate(r)
    \/ Crash

Spec == Init /\ [][Next]_vars

\* A goroutine that runs goes on running, model calls are bounded by timeouts,
\* and sync.Mutex is handed to a waiter that has starved.
Fairness == \A r \in Requests : WF_vars(Operate(r)) /\ SF_vars(Enter(r))

FairSpec == Spec /\ Fairness

(***************************************************************************)
(* Properties                                                              *)
(***************************************************************************)

\* Every variable stays in the values the Go types and the phases allow, and a
\* key is only ever bound to a session that has a file.
TypeOK ==
    /\ saved \subseteq ID
    /\ disk \in [ID -> SUBSET Exchange]
    /\ live \in [Keys -> Session]
    /\ \A k \in Keys : live[k] = NoSession \/ live[k].id \in saved
    /\ holder \in [Keys -> Requests \union {Nobody}]
    /\ request \in [Requests -> Request]
    /\ requests \in 0..MaxRequests
    /\ kept \subseteq ID \X Exchange
    /\ shared \subseteq ID

\* Registry.Update "rolls back the in-memory value if the callback or
\* persistence fails", New and Reset assign after Save, Runner.Run replaces
\* after Save: what a key would answer from is what its file holds, unless the
\* session was resumed under a second key.
LiveIsSaved ==
    \A k \in Keys :
        live[k] # NoSession /\ live[k].id \notin shared => live[k].log = disk[live[k].id]

\* "WithSession serializes access to one session key": no /new, /resume, /reset
\* or /compact replaces the session a run has cloned, so that the run's commit
\* is never refused after its work was done.
RunSeesItsSession ==
    \A r \in Requests : At(r, "running") => live[Key(r)] = request[r].work

\* Runner.Run saves the session before it answers: an exchange that ended well is
\* in the session's file, across restarts, until the user resets or compacts the
\* session.  A session resumed under two keys is excepted, because the last run
\* to end writes its own copy over the other's.
ExchangesAreKept ==
    \A e \in kept : e[1] \in shared \/ e[2] \in disk[e[1]]

\* Every request ends, whatever failed before it under the same key's mutex.
RequestEnds == \A r \in Requests : ~At(r, "idle") ~> At(r, "idle")

=============================================================================
