-------------------------- MODULE MemoryApprovalProofs -------------------------
(***************************************************************************)
(* What holds of MemoryApproval for every set of users, texts, ids and     *)
(* approvals, every limit, and under any choice of faults.                 *)
(*                                                                         *)
(* The argument.  A call changes a file and what indexes it together, so   *)
(* the index is what the next process finds, and what a store accepts is   *)
(* what it would load.  An approval under way names a proposal, whose fact *)
(* and owner never change, and then a memory that was stored of that fact; *)
(* ids are never given twice, so that memory stays what it was even when   *)
(* somebody forgets it.                                                    *)
(***************************************************************************)
EXTENDS MemoryApproval, FiniteSetTheorems, TLAPS

\* An id that was given a memory of this fact.
Stored(id, fact) ==
    /\ id \in MemoryIds /\ content[id] # None
    /\ Fingerprint(content[id]) = Fingerprint(fact)

StoreInv ==
    /\ up
    /\ files \subseteq MemoryIds /\ index = files
    /\ content \in [MemoryIds -> Fact \union {None}]
    /\ \A id \in files : content[id] # None
    /\ Loadable

QueueInv ==
    /\ queue \in [CandidateIds -> Candidate \union {None}]
    /\ saved = queue
    /\ due \subseteq Pending
    /\ \A c \in Candidates :
         queue[c].status = "approved" => Stored(queue[c].memory, queue[c].fact)

\* What an approval's phase implies about its proposal and its memory.
ApprovalInv(a) ==
    /\ a.phase # "idle" => a.candidate \in Candidates
    /\ a.phase = "resolving" => Stored(a.memory, queue[a.candidate].fact)

IInv ==
    /\ StoreInv /\ QueueInv
    /\ request \in [Requests -> Request]
    /\ \A r \in Requests : ApprovalInv(request[r])

-----------------------------------------------------------------------------
\* Before anything happened.
LEMMA InitStep == Init => IInv
<1> SUFFICES ASSUME Init PROVE IInv
  OBVIOUS
<1>1. Cardinality({}) = 0 /\ MaxItems \in Nat
  BY FS_EmptySet, MemoryAssumption
<1>2. StoreInv
  BY <1>1 DEF Init, StoreInv, Loadable
<1>3. QueueInv
  BY DEF Init, QueueInv, Candidates
<1>4. Idle \in Request /\ Idle.phase = "idle"
  BY DEF Idle, Request
<1>5. request \in [Requests -> Request] /\ \A r \in Requests : ApprovalInv(request[r])
  BY <1>4 DEF Init, ApprovalInv
<1>6. QED BY <1>2, <1>3, <1>5 DEF IInv

\* expireLocked changes nothing of a proposal but a status that was pending.
LEMMA SweptFacts ==
    ASSUME IInv, NEW stuck
    PROVE  /\ Swept(stuck) \in [CandidateIds -> Candidate \union {None}]
           /\ \A c \in CandidateIds : Swept(stuck)[c] # None <=> c \in Candidates
           /\ \A c \in Candidates :
                /\ Swept(stuck)[c] \in Candidate
                /\ Swept(stuck)[c].fact = queue[c].fact
                /\ Swept(stuck)[c].memory = queue[c].memory
                /\ Swept(stuck)[c].status = queue[c].status \/ Swept(stuck)[c].status = "expired"
<1>1. queue \in [CandidateIds -> Candidate \union {None}]
  BY DEF IInv, QueueInv
<1>2. ASSUME NEW c \in CandidateIds
      PROVE  \/ Swept(stuck)[c] = queue[c]
             \/ c \in Candidates /\ Swept(stuck)[c] = [queue[c] EXCEPT !.status = "expired"]
  BY DEF Swept, Pending
<1>3. ASSUME NEW c \in Candidates
      PROVE  queue[c] \in Candidate /\ c \in CandidateIds
  BY <1>1 DEF Candidates
<1>4. \A c \in CandidateIds : queue[c] # None <=> c \in Candidates
  BY DEF Candidates
<1>5. ASSUME NEW c \in Candidates
      PROVE  /\ Swept(stuck)[c] \in Candidate
             /\ Swept(stuck)[c].fact = queue[c].fact
             /\ Swept(stuck)[c].memory = queue[c].memory
             /\ Swept(stuck)[c].status = queue[c].status \/ Swept(stuck)[c].status = "expired"
  <2>1. queue[c] \in Candidate
    BY <1>3
  <2>2. CASE Swept(stuck)[c] = queue[c]
    BY <2>1, <2>2
  <2>3. CASE Swept(stuck)[c] = [queue[c] EXCEPT !.status = "expired"]
    BY <2>1, <2>3 DEF Candidate
  <2>4. QED BY <1>2, <1>3, <2>2, <2>3
<1>6. \A c \in Candidates : Swept(stuck)[c] \in Candidate
  BY <1>5
<1>7. \A c \in CandidateIds \ Candidates : Swept(stuck)[c] = None
  BY <1>2, <1>4
<1>8. DOMAIN Swept(stuck) = CandidateIds
      /\ Swept(stuck) = [c \in CandidateIds |-> Swept(stuck)[c]]
  BY DEF Swept
<1>9. \A c \in CandidateIds : Swept(stuck)[c] \in Candidate \union {None}
  BY <1>6, <1>7
<1>10. Swept(stuck) \in [CandidateIds -> Candidate \union {None}]
  BY <1>8, <1>9
<1>11. QED BY <1>4, <1>5, <1>6, <1>7, <1>10, NoneAssumption

\* A call that only writes the queue: what the approvals know of it stands.
LEMMA QueueStep ==
    ASSUME IInv, NEW q \in [CandidateIds -> Candidate \union {None}], Queued(q),
           UNCHANGED <<up, files, index, content>>,
           \A c \in Candidates : q[c] # None /\ q[c].fact = queue[c].fact,
           \A c \in CandidateIds :
             q[c] # None /\ q[c].status = "approved" => Stored(q[c].memory, q[c].fact),
           request' \in [Requests -> Request],
           \A r \in Requests :
             \/ request'[r] = request[r] \/ request'[r].phase = "idle"
             \/ request'[r].phase = "saving" /\ request'[r].candidate \in Candidates
    PROVE  IInv'
<1>1. queue' = q /\ saved' = q /\ due' = {c \in due : q[c].status = "pending"}
  BY DEF Queued
<1>2. StoreInv'
  BY DEF IInv, StoreInv, Loadable
<1>3. Candidates \subseteq Candidates'
  BY <1>1 DEF Candidates
<1>4. due \subseteq Candidates
  BY DEF IInv, QueueInv, Pending
<1>5. due' \subseteq Pending'
  BY <1>1, <1>3, <1>4 DEF Pending
<1>6. \A c \in Candidates' :
        q[c].status = "approved" => Stored(q[c].memory, q[c].fact)'
  BY <1>1 DEF Candidates, Stored
<1>7. QueueInv'
  BY <1>1, <1>5, <1>6 DEF QueueInv
<1>8. ASSUME NEW r \in Requests PROVE ApprovalInv(request[r])'
  <2>1. CASE request'[r] = request[r]
    BY <1>1, <1>3, <2>1 DEF IInv, ApprovalInv, Stored
  <2>2. CASE request'[r] # request[r]
    BY <1>3, <2>2 DEF ApprovalInv
  <2>3. QED BY <2>1, <2>2
<1>9. QED BY <1>2, <1>7, <1>8 DEF IInv

\* A call that only sweeps.
LEMMA SweepStep ==
    ASSUME IInv, NEW stuck, Queued(Swept(stuck)), UNCHANGED <<up, files, index, content>>,
           request' \in [Requests -> Request],
           \A r \in Requests :
             \/ request'[r] = request[r] \/ request'[r].phase = "idle"
             \/ request'[r].phase = "saving" /\ request'[r].candidate \in Candidates
    PROVE  IInv'
<1> DEFINE q == Swept(stuck)
<1>1. q \in [CandidateIds -> Candidate \union {None}]
      /\ \A c \in Candidates : q[c] # None /\ q[c].fact = queue[c].fact
  BY SweptFacts DEF Candidates
<1>2. ASSUME NEW c \in CandidateIds, q[c] # None, q[c].status = "approved"
      PROVE  Stored(q[c].memory, q[c].fact)
  BY <1>2, SweptFacts DEF IInv, QueueInv
<1> HIDE DEF q
<1>3. Queued(q)
  BY DEF q
<1>4. QED BY <1>1, <1>2, <1>3, QueueStep

\* A new memory: no file is of its fact, there is room for it, and what was
\* stored stays what it was.
LEMMA StoreStep ==
    ASSUME IInv, NEW fact \in Fact, NEW id \in MemoryIds, StoreNew(fact, id), up' = up
    PROVE  /\ StoreInv' /\ Stored(id, fact)'
           /\ \A other, f : Stored(other, f) => Stored(other, f)'
<1>0. /\ content \in [MemoryIds -> Fact \union {None}] /\ files \subseteq MemoryIds
      /\ index = files /\ up /\ Loadable /\ \A i \in files : content[i] # None
  BY DEF IInv, StoreInv
<1>1. /\ Storable(fact) /\ Known(fact) = {} /\ Cardinality(files) < MaxItems
      /\ content[id] = None
      /\ files' = files \union {id} /\ index' = files'
      /\ content' = [content EXCEPT ![id] = fact]
  <2>1. IsFiniteSet(files) /\ Cardinality(files) \in Nat
    BY <1>0, FS_Subset, FS_CardinalityType, MemoryAssumption
  <2>2. QED BY <1>0, <2>1, MemoryAssumption DEF StoreNew, Full
<1>2. fact # None
  BY NoneAssumption
<1>3. content'[id] = fact /\ \A other \in MemoryIds \ {id} : content'[other] = content[other]
  BY <1>0, <1>1
<1>4. id \notin files
  BY <1>0, <1>1
<1>5. content' \in [MemoryIds -> Fact \union {None}]
  BY <1>0, <1>1
<1>6. Cardinality(files') <= MaxItems
  <2>1. IsFiniteSet(files) /\ Cardinality(files) \in Nat
    BY <1>0, FS_Subset, FS_CardinalityType, MemoryAssumption
  <2>2. Cardinality(files') = Cardinality(files) + 1
    BY <1>1, <1>4, <2>1, FS_AddElement
  <2>3. QED BY <1>1, <2>1, <2>2, MemoryAssumption
<1>7. \A i \in files' : Storable(content'[i]) /\ content'[i] # None
  BY <1>0, <1>1, <1>2, <1>3 DEF Loadable
<1>8. \A i \in files : Fingerprint(content'[i]) # Fingerprint(fact)
  BY <1>0, <1>1, <1>3, <1>4 DEF Known
<1>9. ASSUME NEW i \in files', NEW other \in files',
             Fingerprint(content'[i]) = Fingerprint(content'[other])
      PROVE  i = other
  <2>1. CASE i \in files /\ other \in files
    BY <1>0, <1>3, <1>4, <1>9, <2>1 DEF Loadable
  <2>2. CASE i = id \/ other = id
    BY <1>1, <1>3, <1>8, <1>9, <2>2
  <2>3. QED BY <1>1, <2>1, <2>2
<1>10. Loadable'
  <2>1. Cardinality(files)' <= MaxItems
    BY <1>6
  <2>2. (\A i \in files : Storable(content[i]))'
    BY <1>7
  <2>3. (\A i, other \in files :
           Fingerprint(content[i]) = Fingerprint(content[other]) => i = other)'
    BY <1>9
  <2>4. QED BY <2>1, <2>2, <2>3 DEF Loadable
<1>11. StoreInv'
  BY <1>0, <1>1, <1>5, <1>7, <1>10 DEF StoreInv
<1>12. \A other, f : Stored(other, f) => Stored(other, f)'
  BY <1>1, <1>3 DEF Stored
<1>13. Stored(id, fact)'
  BY <1>2, <1>3 DEF Stored
<1>14. QED BY <1>11, <1>12, <1>13

\* What the queue and the approvals know of stored memories stands.
LEMMA KeepsQueue ==
    ASSUME IInv, UNCHANGED <<queue, saved, due>>,
           \A id, f : Stored(id, f) => Stored(id, f)'
    PROVE  /\ QueueInv'
           /\ \A a : ApprovalInv(a) => ApprovalInv(a)'
<1>1. Candidates' = Candidates /\ Pending' = Pending
  BY DEF Candidates, Pending
<1>2. QueueInv'
  BY <1>1 DEF IInv, QueueInv
<1>3. \A a : ApprovalInv(a) => ApprovalInv(a)'
  BY <1>1 DEF ApprovalInv
<1>4. QED BY <1>2, <1>3

\* /remember and /memory forget.
LEMMA CommandStep ==
    ASSUME IInv, NEW user \in Caller,
           \/ \E fact \in Fact : Remember(user, fact)
           \/ \E id \in MemoryIds : Forget(user, id)
    PROVE  IInv'
<1>1. ASSUME NEW fact \in Fact, Remember(user, fact) PROVE IInv'
  <2>1. UNCHANGED <<up, queue, saved, due, request>>
    BY <1>1 DEF Remember
  <2>2. PICK id \in MemoryIds : StoreNew(fact, id)
    BY <1>1 DEF Remember
  <2>3. StoreInv' /\ \A other, f : Stored(other, f) => Stored(other, f)'
    BY <2>1, <2>2, StoreStep
  <2>4. QueueInv' /\ \A a : ApprovalInv(a) => ApprovalInv(a)'
    BY <2>1, <2>3, KeepsQueue
  <2>5. QED BY <2>1, <2>3, <2>4 DEF IInv
<1>2. ASSUME NEW id \in MemoryIds, Forget(user, id) PROVE IInv'
  <2>1. /\ files' = files \ {id} /\ index' = index \ {id}
        /\ UNCHANGED <<up, content, queue, saved, due, request>>
    BY <1>2 DEF Forget
  <2>2. Cardinality(files') <= MaxItems
    <3>1. IsFiniteSet(files)
      BY FS_Subset, MemoryAssumption DEF IInv, StoreInv
    <3>2. Cardinality(files') <= Cardinality(files) /\ IsFiniteSet(files')
      BY <2>1, <3>1, FS_Subset
    <3>3. Cardinality(files) \in Nat /\ Cardinality(files') \in Nat
      BY <3>1, <3>2, FS_CardinalityType
    <3>4. QED BY <3>2, <3>3, MemoryAssumption DEF IInv, StoreInv, Loadable
  <2>3. StoreInv'
    BY <2>1, <2>2 DEF IInv, StoreInv, Loadable
  <2>4. \A other, f : Stored(other, f) => Stored(other, f)'
    BY <2>1 DEF Stored
  <2>5. QueueInv' /\ \A a : ApprovalInv(a) => ApprovalInv(a)'
    BY <2>1, <2>4, KeepsQueue
  <2>6. QED BY <2>1, <2>3, <2>5 DEF IInv
<1>3. QED BY <1>1, <1>2

\* A proposal that joins the queue under a new id.
LEMMA ProposeStep ==
    ASSUME IInv, NEW user \in Caller, NEW text \in Texts, Propose(user, text)
    PROVE  IInv'
<1> DEFINE fact == Proposal(user, text)
           k == [status |-> "pending", fact |-> fact, memory |-> None]
<1>1. PICK stuck \in Unwritable, c \in CandidateIds :
        /\ queue[c] = None
        /\ Queued([Swept(stuck) EXCEPT ![c] = k])
        /\ UNCHANGED <<up, files, index, content, request>>
  BY DEF Propose
<1> DEFINE q == [Swept(stuck) EXCEPT ![c] = k]
<1>2. k \in Candidate /\ k.status = "pending"
  BY DEF Proposal, Fact, Candidate
<1>3. Swept(stuck) \in [CandidateIds -> Candidate \union {None}]
  BY SweptFacts
<1>4. q \in [CandidateIds -> Candidate \union {None}] /\ q[c] = k
      /\ \A d \in CandidateIds \ {c} : q[d] = Swept(stuck)[d]
  BY <1>2, <1>3
<1>5. c \notin Candidates
  BY <1>1 DEF Candidates
<1>6. Queued(q)
  BY <1>1
<1> HIDE DEF q, k
<1>7. \A d \in Candidates : q[d] # None /\ q[d].fact = queue[d].fact
  BY <1>4, <1>5, SweptFacts DEF Candidates
<1>8. ASSUME NEW d \in CandidateIds, q[d] # None, q[d].status = "approved"
      PROVE  Stored(q[d].memory, q[d].fact)
  <2>1. d # c /\ q[d] = Swept(stuck)[d]
    BY <1>2, <1>4, <1>8
  <2>2. QED BY <1>8, <2>1, SweptFacts DEF IInv, QueueInv
<1>9. QED BY <1>1, <1>4, <1>6, <1>7, <1>8, QueueStep DEF IInv

\* A proposal that is not pending any more: rejected, or approved with a memory
\* that was stored of its fact.
LEMMA SettleStep ==
    ASSUME IInv, NEW stuck, NEW c \in Candidates, NEW k \in Candidate,
           k.fact = queue[c].fact,
           k.status = "approved" => Stored(k.memory, k.fact),
           Queued([Swept(stuck) EXCEPT ![c] = k]),
           UNCHANGED <<up, files, index, content>>,
           request' \in [Requests -> Request],
           \A r \in Requests : request'[r] = request[r] \/ request'[r].phase = "idle"
    PROVE  IInv'
<1> DEFINE q == [Swept(stuck) EXCEPT ![c] = k]
<1>1. Swept(stuck) \in [CandidateIds -> Candidate \union {None}] /\ c \in CandidateIds
  BY SweptFacts DEF Candidates
<1>2. q \in [CandidateIds -> Candidate \union {None}] /\ q[c] = k
      /\ \A d \in CandidateIds \ {c} : q[d] = Swept(stuck)[d]
  BY <1>1
<1>3. k # None
  BY NoneAssumption
<1>4. Queued(q)
  OBVIOUS
<1> HIDE DEF q
<1>5. \A d \in Candidates : q[d] # None /\ q[d].fact = queue[d].fact
  BY <1>2, <1>3, SweptFacts DEF Candidates
<1>6. ASSUME NEW d \in CandidateIds, q[d] # None, q[d].status = "approved"
      PROVE  Stored(q[d].memory, q[d].fact)
  <2>1. CASE d = c
    BY <1>2, <1>6, <2>1
  <2>2. CASE d # c
    BY <1>2, <1>6, <2>2, SweptFacts DEF IInv, QueueInv
  <2>3. QED BY <2>1, <2>2
<1>7. QED BY <1>2, <1>4, <1>5, <1>6, QueueStep

\* /memory pending, /memory reject, and the first call of /memory approve.
LEMMA ReviewStep ==
    ASSUME IInv,
           \/ Review
           \/ \E user \in Caller, c \in CandidateIds : Reject(user, c)
           \/ \E r \in Requests, user \in Caller, c \in CandidateIds : BeginApprove(r, user, c)
    PROVE  IInv'
<1>0. request \in [Requests -> Request]
  BY DEF IInv
<1>1. CASE Review
  <2>1. PICK stuck \in Unwritable : Queued(Swept(stuck))
    BY <1>1 DEF Review
  <2>2. UNCHANGED <<up, files, index, content, request>>
    BY <1>1 DEF Review
  <2>3. QED BY <1>0, <2>1, <2>2, SweepStep
<1>2. ASSUME NEW user \in Caller, NEW c \in CandidateIds, Reject(user, c) PROVE IInv'
  <2>1. PICK stuck \in Unwritable :
          /\ c \in Candidates
          /\ Queued([Swept(stuck) EXCEPT ![c].status = "rejected"])
          /\ UNCHANGED <<up, files, index, content, request>>
    BY <1>2 DEF Reject
  <2> DEFINE k == [Swept(stuck)[c] EXCEPT !.status = "rejected"]
  <2>2. Swept(stuck)[c] \in Candidate /\ Swept(stuck)[c].fact = queue[c].fact
    BY <2>1, SweptFacts
  <2>3. k \in Candidate /\ k.status = "rejected" /\ k.fact = queue[c].fact
    BY <2>2 DEF Candidate
  <2>4. Queued([Swept(stuck) EXCEPT ![c] = k])
    BY <2>1
  <2> HIDE DEF k
  <2>5. QED BY <1>0, <2>1, <2>3, <2>4, SettleStep
<1>3. ASSUME NEW r \in Requests, NEW user \in Caller, NEW c \in CandidateIds,
             BeginApprove(r, user, c)
      PROVE  IInv'
  <2> DEFINE a == [phase |-> "saving", candidate |-> c, memory |-> None]
  <2>1. PICK stuck \in Unwritable :
          /\ c \in Candidates /\ Queued(Swept(stuck))
          /\ request' = [request EXCEPT ![r] = a]
          /\ UNCHANGED <<up, files, index, content>>
    BY <1>3 DEF BeginApprove, Become
  <2>2. a \in Request /\ a.phase = "saving" /\ a.candidate = c
    BY DEF Request
  <2> HIDE DEF a
  <2>3. request' \in [Requests -> Request]
    BY <1>0, <2>1, <2>2
  <2>4. \A s \in Requests :
          request'[s] = request[s]
          \/ (request'[s].phase = "saving" /\ request'[s].candidate \in Candidates)
    BY <1>0, <2>1, <2>2
  <2>5. QED BY <2>1, <2>3, <2>4, SweepStep
<1>4. QED BY <1>1, <1>2, <1>3

\* The second call of an approval: it finds the memory of its fact, stores one,
\* or fails.
LEMMA SaveApprovedStep ==
    ASSUME IInv, NEW r \in Requests, SaveApproved(r)
    PROVE  IInv'
<1>a. PICK c : c = request[r].candidate
  OBVIOUS
<1>b. PICK fact : fact = queue[c].fact
  OBVIOUS
<1>0. request \in [Requests -> Request] /\ request[r].phase = "saving"
  BY DEF SaveApproved, IInv
<1>1. UNCHANGED <<up, queue, saved, due>>
  BY DEF SaveApproved
<1>2. c \in Candidates /\ c \in CandidateIds /\ fact \in Fact
  <2>1. c \in Candidates
    BY <1>0, <1>a DEF IInv, ApprovalInv
  <2>2. queue[c] \in Candidate
    BY <2>1 DEF IInv, QueueInv, Candidates
  <2>3. QED BY <1>b, <2>1, <2>2 DEF Candidates, Candidate
<1>3. ASSUME NEW id \in MemoryIds, StoreInv', Stored(id, fact)',
             \A other, f : Stored(other, f) => Stored(other, f)',
             request' = [request EXCEPT ![r] = [phase |-> "resolving", candidate |-> c,
                                                memory |-> id]]
      PROVE  IInv'
  <2> DEFINE a == [phase |-> "resolving", candidate |-> c, memory |-> id]
  <2>1. a \in Request /\ a.phase = "resolving" /\ a.candidate = c /\ a.memory = id
    BY <1>2 DEF Request
  <2>2. QueueInv' /\ \A b : ApprovalInv(b) => ApprovalInv(b)'
    BY <1>1, <1>3, KeepsQueue
  <2>3. request' = [request EXCEPT ![r] = a]
    BY <1>3
  <2> HIDE DEF a
  <2>4. request' \in [Requests -> Request] /\ request'[r] = a
        /\ \A s \in Requests \ {r} : request'[s] = request[s]
    BY <1>0, <2>1, <2>3
  <2>5. ApprovalInv(a)'
    BY <1>1, <1>2, <1>3, <1>b, <2>1 DEF ApprovalInv, Candidates
  <2>6. ASSUME NEW s \in Requests PROVE ApprovalInv(request[s])'
    <3>1. CASE s = r
      BY <2>1, <2>4, <2>5, <3>1 DEF ApprovalInv
    <3>2. CASE s # r
      <4>1. PICK b : b = request[s]
        OBVIOUS
      <4>2. ApprovalInv(b)'
        BY <2>2, <4>1 DEF IInv
      <4>3. QED BY <2>4, <3>2, <4>1, <4>2 DEF ApprovalInv
    <3>3. QED BY <3>1, <3>2
  <2>7. QED BY <1>3, <2>2, <2>4, <2>6 DEF IInv
<1>4. CASE \E id \in Known(fact) :
             /\ Become(r, [phase |-> "resolving", candidate |-> c, memory |-> id])
             /\ UNCHANGED <<files, index, content>>
  <2>1. PICK id \in Known(fact) :
          request' = [request EXCEPT ![r] = [phase |-> "resolving", candidate |-> c,
                                             memory |-> id]]
    BY <1>4 DEF Become
  <2>2. UNCHANGED <<files, index, content>>
    BY <1>4
  <2>3. id \in MemoryIds /\ Stored(id, fact)
    BY DEF Known, Stored, IInv, StoreInv
  <2>4. StoreInv'
    BY <1>1, <2>2 DEF IInv, StoreInv, Loadable
  <2>5. \A other, f : Stored(other, f) => Stored(other, f)'
    BY <2>2 DEF Stored
  <2>6. Stored(id, fact)'
    BY <1>1, <2>2, <2>3 DEF Stored
  <2>7. QED BY <1>3, <2>1, <2>3, <2>4, <2>5, <2>6
<1>5. CASE \E id \in MemoryIds :
             /\ StoreNew(fact, id)
             /\ Become(r, [phase |-> "resolving", candidate |-> c, memory |-> id])
  <2>1. PICK id \in MemoryIds :
          /\ StoreNew(fact, id)
          /\ request' = [request EXCEPT ![r] = [phase |-> "resolving", candidate |-> c,
                                                memory |-> id]]
    BY <1>5 DEF Become
  <2>2. StoreInv' /\ Stored(id, fact)' /\ \A other, f : Stored(other, f) => Stored(other, f)'
    BY <1>1, <1>2, <2>1, StoreStep
  <2>3. QED BY <1>3, <2>1, <2>2
<1>6. CASE SaveFails(r)
  <2>1. request' = [request EXCEPT ![r] = Idle] /\ UNCHANGED <<files, index, content>>
    BY <1>6 DEF SaveFails, Become
  <2>2. Idle \in Request /\ Idle.phase = "idle"
    BY DEF Idle, Request
  <2>3. request' \in [Requests -> Request] /\ request'[r] = Idle
        /\ \A s \in Requests \ {r} : request'[s] = request[s]
    BY <1>0, <2>1, <2>2
  <2>4. StoreInv' /\ \A other, f : Stored(other, f) => Stored(other, f)'
    BY <1>1, <2>1 DEF IInv, StoreInv, Loadable, Stored
  <2>5. QueueInv' /\ \A b : ApprovalInv(b) => ApprovalInv(b)'
    BY <1>1, <2>4, KeepsQueue
  <2>6. (\A s \in Requests : ApprovalInv(request[s]))'
    BY <2>2, <2>3, <2>5 DEF IInv, ApprovalInv
  <2>7. QED BY <2>3, <2>4, <2>5, <2>6 DEF IInv
<1>7. QED BY <1>a, <1>b, <1>4, <1>5, <1>6 DEF SaveApproved

\* The third call: whatever became of the proposal meanwhile, it is only marked
\* approved with the memory of its own fact.
LEMMA ResolveStep ==
    ASSUME IInv, NEW r \in Requests, ResolveApproved(r)
    PROVE  IInv'
<1> DEFINE c == request[r].candidate
           id == request[r].memory
<1>0. /\ request \in [Requests -> Request] /\ request[r].phase = "resolving"
      /\ request' = [request EXCEPT ![r] = Idle]
      /\ UNCHANGED <<up, files, index, content>>
  BY DEF ResolveApproved, IInv, Become
<1>1. Idle \in Request /\ Idle.phase = "idle"
  BY DEF Idle, Request
<1>2. request' \in [Requests -> Request]
      /\ \A s \in Requests : request'[s] = request[s] \/ request'[s].phase = "idle"
  BY <1>0, <1>1
<1>3. c \in Candidates /\ Stored(id, queue[c].fact)
  BY <1>0 DEF IInv, ApprovalInv
<1>4. PICK stuck \in Unwritable :
        \/ Queued([Swept(stuck) EXCEPT
             ![c] = [Swept(stuck)[c] EXCEPT !.status = "approved", !.memory = id]])
        \/ Queued(Swept(stuck))
  <2>1. PICK stuck \in Unwritable :
          \/ Queued([Swept(stuck) EXCEPT
               ![c] = [@ EXCEPT !.status = "approved", !.memory = id]])
          \/ Queued(Swept(stuck))
    BY DEF ResolveApproved
  <2>2. QED BY <2>1
<1>5. CASE Queued(Swept(stuck))
  BY <1>0, <1>2, <1>5, SweepStep
<1>6. CASE Queued([Swept(stuck) EXCEPT
             ![c] = [Swept(stuck)[c] EXCEPT !.status = "approved", !.memory = id]])
  <2> DEFINE k == [Swept(stuck)[c] EXCEPT !.status = "approved", !.memory = id]
  <2>1. Swept(stuck)[c] \in Candidate /\ Swept(stuck)[c].fact = queue[c].fact
    BY <1>3, SweptFacts
  <2>2. id \in MemoryIds
    BY <1>3 DEF Stored
  <2>3. k \in Candidate /\ k.memory = id /\ k.fact = queue[c].fact
    BY <2>1, <2>2 DEF Candidate
  <2>4. Queued([Swept(stuck) EXCEPT ![c] = k])
    BY <1>6
  <2> HIDE DEF k
  <2>5. k.status = "approved" => Stored(k.memory, k.fact)
    BY <1>3, <2>3
  <2>6. QED BY <1>0, <1>2, <1>3, <2>3, <2>4, <2>5, SettleStep
<1>7. QED BY <1>4, <1>5, <1>6

\* Time passes, or the process dies and another one opens what it left.
LEMMA OutsideStep ==
    ASSUME IInv, Restart \/ \E c \in CandidateIds : TimePasses(c)
    PROVE  IInv'
<1>1. CASE Restart
  <2>1. /\ up' = Loadable /\ index' = files /\ queue' = saved
        /\ request' = [r \in Requests |-> Idle]
        /\ UNCHANGED <<files, content, saved, due>>
    BY <1>1 DEF Restart
  <2>2. Loadable /\ saved = queue
    BY DEF IInv, StoreInv, QueueInv
  <2>3. StoreInv'
    BY <2>1, <2>2 DEF IInv, StoreInv, Loadable
  <2>4. \A id, f : Stored(id, f) => Stored(id, f)'
    BY <2>1 DEF Stored
  <2>5. QueueInv'
    BY <2>1, <2>2, <2>4, KeepsQueue
  <2>6. Idle \in Request /\ Idle.phase = "idle"
    BY DEF Idle, Request
  <2>7. (request \in [Requests -> Request] /\ \A r \in Requests : ApprovalInv(request[r]))'
    BY <2>1, <2>6 DEF ApprovalInv
  <2>8. QED BY <2>3, <2>5, <2>7 DEF IInv
<1>2. ASSUME NEW c \in CandidateIds, TimePasses(c) PROVE IInv'
  <2>1. c \in Pending /\ due' = due \union {c}
        /\ UNCHANGED <<up, files, index, content, queue, saved, request>>
    BY <1>2 DEF TimePasses
  <2>2. StoreInv' /\ Candidates' = Candidates /\ Pending' = Pending
        /\ \A id, f : Stored(id, f) => Stored(id, f)'
    BY <2>1 DEF IInv, StoreInv, Loadable, Candidates, Pending, Stored
  <2>3. QueueInv'
    BY <2>1, <2>2 DEF IInv, QueueInv
  <2>4. (\A r \in Requests : ApprovalInv(request[r]))'
    BY <2>1, <2>2 DEF IInv, ApprovalInv
  <2>5. QED BY <2>1, <2>2, <2>3, <2>4 DEF IInv
<1>3. QED BY <1>1, <1>2

\* Every step preserves the invariant.
LEMMA NextStep == IInv /\ [Next]_vars => IInv'
<1> SUFFICES ASSUME IInv, [Next]_vars PROVE IInv'
  OBVIOUS
<1>1. CASE UNCHANGED vars
  <2>1. StoreInv' /\ Candidates' = Candidates /\ Pending' = Pending
        /\ \A id, f : Stored(id, f) => Stored(id, f)'
    BY <1>1 DEF vars, IInv, StoreInv, Loadable, Candidates, Pending, Stored
  <2>2. QueueInv'
    BY <1>1, <2>1 DEF vars, IInv, QueueInv
  <2>3. (\A r \in Requests : ApprovalInv(request[r]))' /\ request' = request
    BY <1>1, <2>1 DEF vars, IInv, ApprovalInv
  <2>4. QED BY <2>1, <2>2, <2>3 DEF IInv
<1>2. CASE Next
  BY <1>2, CommandStep, ProposeStep, ReviewStep, SaveApprovedStep, ResolveStep, OutsideStep
     DEF Next
<1>3. QED BY <1>1, <1>2

\* The invariant the theorems below rest on.
THEOREM InductiveInvariant == Spec => []IInv
<1>1. QED BY InitStep, NextStep, PTL DEF Spec

\* Every reachable state has its types.
THEOREM TypeCorrect == Spec => []TypeOK
<1>1. IInv => TypeOK
  BY DEF IInv, StoreInv, QueueInv, TypeOK
<1>2. QED BY <1>1, InductiveInvariant, PTL

\* Whatever was remembered, forgotten, approved or left unfinished: the next
\* process accepts the directory and finds in it what this one knew.
THEOREM ReopensTheSameAlways == Spec => []ReopensTheSame
<1>1. IInv => ReopensTheSame
  BY DEF IInv, StoreInv, QueueInv, ReopensTheSame
<1>2. QED BY <1>1, InductiveInvariant, PTL

\* No interleaving of approvals, rejections, expiry and failures marks a proposal
\* approved whose fact, with its owner, was not stored.
THEOREM ApprovedIsStoredAlways == Spec => []ApprovedIsStored
<1>1. IInv => ApprovedIsStored
  <2> SUFFICES ASSUME IInv, NEW c \in Candidates, queue[c].status = "approved"
               PROVE  /\ queue[c].memory # None
                      /\ content[queue[c].memory].owner = queue[c].fact.owner
                      /\ Fold[content[queue[c].memory].text] = Fold[queue[c].fact.text]
    BY DEF ApprovedIsStored
  <2>1. Stored(queue[c].memory, queue[c].fact)
    BY DEF IInv, QueueInv
  <2>2. QED BY <2>1, MemoryAssumption DEF Stored, Fingerprint
<1>2. QED BY <1>1, InductiveInvariant, PTL

=============================================================================
