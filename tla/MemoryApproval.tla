--------------------------- MODULE MemoryApproval ---------------------------
(***************************************************************************)
(* Long-term memory: the item store, the queue of proposals a model made,  *)
(* and the commands with which users remember, forget, approve and reject. *)
(*                                                                         *)
(* Both stores keep a directory of one file per item and an index of it;   *)
(* each call holds the store's mutex throughout, so it is one action.  An  *)
(* approval is three calls, and approvals of different channels interleave.*)
(* A fact is its owner and its text; kinds, keywords, ranking and the      *)
(* commands that only read are left out.  A call that is refused changes   *)
(* nothing: that is a stuttering step.                                     *)
(***************************************************************************)
EXTENDS Naturals, FiniteSets

CONSTANTS
    Users,          \* authenticated users
    NoUser,         \* the CLI's user, and the owner of what a workspace shares
    Texts,
    Unsafe,         \* texts the sanitizer refuses
    Fold,           \* text |-> its normalized, lower-case form
    MaxItems,       \* memories, and pending proposals
    MemoryIds,      \* bound: ids the generator has for memories
    CandidateIds,   \* bound: ids it has for proposals
    Requests,       \* approvals at once
    None,           \* no id
    Faults          \* which of AllFaults may happen

AllFaults == {"save", "resolve", "expiry", "crash"}

ASSUME MemoryAssumption ==
    /\ NoUser \notin Users
    /\ Unsafe \subseteq Texts
    /\ Fold \in [Texts -> Texts]
    /\ MaxItems \in Nat \ {0}
    /\ IsFiniteSet(MemoryIds)
    /\ None \notin MemoryIds /\ None \notin CandidateIds
    /\ Faults \subseteq AllFaults

VARIABLES
    up,         \* the process opened its stores
    files,      \* items/: the ids with a file
    index,      \* FileStore.byID: the ids it knows
    content,    \* history: what each id was given; an item is never rewritten
    queue,      \* CandidateStore.byID
    saved,      \* candidates/
    due,        \* pending proposals past their ExpiresAt
    request     \* the approvals under way

vars == <<up, files, index, content, queue, saved, due, request>>

Fault(f) == f \in Faults

Caller == Users \union {NoUser}

Fact == [owner: Caller, text: Texts]    \* owner NoUser: visible to the workspace

Candidate == [status: {"pending", "approved", "rejected", "expired"}, fact: Fact,
              memory: MemoryIds \union {None}]

\* An id that was given nothing is told from every one that was.
ASSUME NoneAssumption == None \notin Fact /\ None \notin Candidate

Idle == [phase |-> "idle", candidate |-> None, memory |-> None]

Request ==
    [phase: {"idle"}, candidate: {None}, memory: {None}] \union
    [phase: {"saving"}, candidate: CandidateIds, memory: {None}] \union
    [phase: {"resolving"}, candidate: CandidateIds, memory: MemoryIds]

\* DefaultSanitizer: a fact with a secret or an instruction in it is not kept.
Storable(fact) == fact.text \notin Unsafe

\* writableBy: one's own, and what the workspace shares.
Writable(user, fact) == fact.owner \in {user, NoUser}

\* Mutant of Fingerprint: the scope is not hashed.
FingerprintUnscoped(fact) == Fold[fact.text]

\* Fingerprint: the scope as it is, the text folded.
Fingerprint(fact) == <<fact.owner, Fold[fact.text]>>

(***************************************************************************)
(* The item store                                                          *)
(***************************************************************************)
Known(fact) == {id \in index : Fingerprint(content[id]) = Fingerprint(fact)}

\* Mutant of Full: the limit is off by one.
FullLate == Cardinality(index) > MaxItems

Full == Cardinality(index) >= MaxItems

\* Save without an id: write the file, then index it.
StoreNew(fact, id) ==
    /\ Storable(fact) /\ Known(fact) = {} /\ ~Full
    /\ content[id] = None
    /\ files' = files \union {id}
    /\ index' = index \union {id}
    /\ content' = [content EXCEPT ![id] = fact]

\* What loadExisting accepts.
Loadable ==
    /\ Cardinality(files) <= MaxItems
    /\ \A id \in files : Storable(content[id])
    /\ \A id, other \in files :
          Fingerprint(content[id]) = Fingerprint(content[other]) => id = other

\* /remember, private to the user or for the workspace.
Remember(user, fact) ==
    /\ up /\ Writable(user, fact)
    /\ \E id \in MemoryIds : StoreNew(fact, id)
    /\ UNCHANGED <<up, queue, saved, due, request>>

\* /memory forget: the file first.
Forget(user, id) ==
    /\ up /\ id \in index /\ Writable(user, content[id])
    /\ files' = files \ {id}
    /\ index' = index \ {id}
    /\ UNCHANGED <<up, content, queue, saved, due, request>>

(***************************************************************************)
(* The queue of proposals                                                  *)
(***************************************************************************)
Candidates == {c \in CandidateIds : queue[c] # None}
Pending == {c \in Candidates : queue[c].status = "pending"}

\* expireLocked leaves a proposal as it is when it cannot write its file.
Unwritable == IF Fault("expiry") THEN SUBSET (Pending \intersect due) ELSE {{}}

Swept(stuck) ==
    [c \in CandidateIds |->
        IF c \in (Pending \intersect due) \ stuck THEN [queue[c] EXCEPT !.status = "expired"]
        ELSE queue[c]]

\* Every change is written to the proposal's file and to the map, or to neither.
Queued(q) ==
    /\ queue' = q /\ saved' = q
    /\ due' = {c \in due : q[c].status = "pending"}

\* A model's proposal after an exchange: private if the channel knows the user.
Proposal(user, text) == [owner |-> user, text |-> text]

Propose(user, text) ==
    LET fact == Proposal(user, text)
    IN  \E stuck \in Unwritable, c \in CandidateIds :
            /\ up /\ Storable(fact) /\ queue[c] = None
            /\ LET q == Swept(stuck)
                   open == {d \in Candidates : q[d].status = "pending"}
               IN  /\ Cardinality(open) < MaxItems
                   /\ \A d \in open : Fingerprint(q[d].fact) # Fingerprint(fact)
                   /\ Queued([q EXCEPT ![c] = [status |-> "pending", fact |-> fact,
                                               memory |-> None]])
            /\ UNCHANGED <<up, files, index, content, request>>

\* /memory pending, or any call that is refused after it swept.
Review ==
    /\ up
    /\ \E stuck \in Unwritable : Queued(Swept(stuck))
    /\ UNCHANGED <<up, files, index, content, request>>

TimePasses(c) ==
    /\ c \in Pending \ due
    /\ due' = due \union {c}
    /\ UNCHANGED <<up, files, index, content, queue, saved, request>>

\* /memory reject: Resolve.
Reject(user, c) ==
    \E stuck \in Unwritable :
        LET q == Swept(stuck)
        IN  /\ up /\ c \in Candidates /\ Writable(user, q[c].fact) /\ q[c].status = "pending"
            /\ Queued([q EXCEPT ![c].status = "rejected"])
            /\ UNCHANGED <<up, files, index, content, request>>

(***************************************************************************)
(* /memory approve: Get, Save, Resolve                                     *)
(***************************************************************************)
Become(r, record) == request' = [request EXCEPT ![r] = record]

BeginApprove(r, user, c) ==
    \E stuck \in Unwritable :
        LET q == Swept(stuck)
        IN  /\ up /\ request[r] = Idle
            /\ c \in Candidates /\ Writable(user, q[c].fact) /\ q[c].status = "pending"
            /\ Queued(q)
            /\ Become(r, [phase |-> "saving", candidate |-> c, memory |-> None])
            /\ UNCHANGED <<up, files, index, content>>

\* A full store or a file that cannot be written: the proposal stays pending.
SaveFails(r) ==
    /\ Fault("save") \/ Full
    /\ Become(r, Idle)
    /\ UNCHANGED <<files, index, content>>

SaveApproved(r) ==
    LET c == request[r].candidate
        fact == queue[c].fact
        GoOn(id) == Become(r, [phase |-> "resolving", candidate |-> c, memory |-> id])
    IN  /\ request[r].phase = "saving"
        /\ \/ \E id \in Known(fact) : GoOn(id) /\ UNCHANGED <<files, index, content>>
           \/ \E id \in MemoryIds : StoreNew(fact, id) /\ GoOn(id)
           \/ Known(fact) = {} /\ SaveFails(r)
        /\ UNCHANGED <<up, queue, saved, due>>

\* The candidate may have been resolved, or have expired, since Get; its owner
\* is what it was.
ResolveApproved(r) ==
    /\ request[r].phase = "resolving"
    /\ \E stuck \in Unwritable :
          LET q == Swept(stuck)
              c == request[r].candidate
          IN  \/ /\ q[c].status = "pending"
                 /\ Queued([q EXCEPT ![c] = [@ EXCEPT !.status = "approved",
                                                       !.memory = request[r].memory]])
              \/ /\ q[c].status # "pending" \/ Fault("resolve")
                 /\ Queued(q)
    /\ Become(r, Idle)
    /\ UNCHANGED <<up, files, index, content>>

(***************************************************************************)
(* The process                                                             *)
(***************************************************************************)
\* It dies and is started again: OpenFileStore and OpenCandidateStore.
Restart ==
    /\ Fault("crash")
    /\ up' = Loadable
    /\ index' = files
    /\ queue' = saved
    /\ request' = [r \in Requests |-> Idle]
    /\ UNCHANGED <<files, content, saved, due>>

(***************************************************************************)
(* Specification                                                           *)
(***************************************************************************)
Init ==
    /\ up = TRUE
    /\ files = {} /\ index = {}
    /\ content = [id \in MemoryIds |-> None]
    /\ queue = [c \in CandidateIds |-> None]
    /\ saved = queue
    /\ due = {}
    /\ request = [r \in Requests |-> Idle]

Next ==
    \/ \E user \in Caller, fact \in Fact : Remember(user, fact)
    \/ \E user \in Caller, id \in MemoryIds : Forget(user, id)
    \/ \E user \in Caller, text \in Texts : Propose(user, text)
    \/ \E c \in CandidateIds : TimePasses(c)
    \/ \E user \in Caller, c \in CandidateIds : Reject(user, c)
    \/ \E r \in Requests, user \in Caller, c \in CandidateIds : BeginApprove(r, user, c)
    \/ \E r \in Requests : SaveApproved(r) \/ ResolveApproved(r)
    \/ Review \/ Restart

Spec == Init /\ [][Next]_vars

(***************************************************************************)
(* Properties                                                              *)
(***************************************************************************)

\* Both indexes hold what the Go types allow, and what they index was stored.
TypeOK ==
    /\ up \in BOOLEAN
    /\ files \subseteq MemoryIds /\ index \subseteq MemoryIds
    /\ \A id \in MemoryIds : content[id] = None \/ content[id] \in Fact
    /\ \A id \in files \union index : content[id] # None
    /\ \A c \in CandidateIds : queue[c] = None \/ queue[c] \in Candidate
    /\ due \subseteq Pending
    /\ request \in [Requests -> Request]

\* What this process keeps is what the next one will find, and OpenFileStore will
\* accept it: no two files of one fact, no more than MaxItems of them, and no
\* forgotten memory comes back.
ReopensTheSame ==
    /\ up /\ Loadable
    /\ index = files /\ queue = saved

\* approveCandidate: "the reverse order could acknowledge an approval that never
\* stored anything".  A proposal marked approved names a memory that was stored,
\* of the same fact and the same owner.
ApprovedIsStored ==
    \A c \in Candidates :
        queue[c].status = "approved" =>
            /\ queue[c].memory # None
            /\ LET fact == content[queue[c].memory]
               IN  fact.owner = queue[c].fact.owner /\ Fold[fact.text] = Fold[queue[c].fact.text]

=============================================================================
