---------------------------- MODULE SessionsProofs ----------------------------
(***************************************************************************)
(* What holds of Sessions for every number of keys, requests and request   *)
(* goroutines, and under any choice of faults.                             *)
(*                                                                         *)
(* The argument.  Whoever is past Enter holds its key's mutex, so that     *)
(* what it saw under the lock still stands; a session that is about to be  *)
(* created bears the number of its request, which no file has; a session   *)
(* live under two keys is in shared.  So a save over a file replaces what  *)
(* the key answered from, and only drops what the run dropped on purpose.  *)
(***************************************************************************)
EXTENDS Sessions, TLAPS

Active(q) == q.phase # "idle"
Locked(q) == q.phase \in {"inside", "running", "compacting"}
MayCreate(q) == q.phase \in {"entering", "inside"} /\ q.op \in {"chat", "new", "once"}

\* What a request's phase implies about the session of its key.
SeesInv(q, sess) ==
    /\ q.phase = "running" => sess # NoSession /\ sess = q.work
    /\ q.phase = "compacting" => sess # NoSession
    /\ q.phase = "inside" /\ q.op = "chat" => sess = NoSession
    /\ q.phase = "inside" /\ q.op = "reset" => sess # NoSession
    /\ q.phase = "inside" => q.op # "compact"

\* A request's number is its own, and so is the session it may create: only the
\* second operation of RunOnce finds it there, behind its key.
NumberInv(q, sess, ids, count) ==
    /\ Active(q) => q.number \in 1..count
    /\ MayCreate(q) /\ q.number \in ids =>
         q.phase = "entering" /\ q.op = "chat" /\ sess # NoSession

LockInv ==
    \A r \in Requests : Locked(request[r]) => holder[Key(r)] = r

OwnNumber ==
    \A r, s \in Requests :
        Active(request[r]) /\ Active(request[s]) /\ request[r].number = request[s].number
            => r = s

RequestInv ==
    \A r \in Requests :
        /\ SeesInv(request[r], Live(r))
        /\ NumberInv(request[r], Live(r), saved, requests)

\* A session that two keys answer from is known to be shared.
TwiceIsShared ==
    \A k, l \in Keys :
        k # l /\ live[k] # NoSession /\ live[k].id = live[l].id => live[k].id \in shared

IInv ==
    /\ TypeOK
    /\ \A id \in saved : id <= requests
    /\ \A e \in kept : e[1] \in saved
    /\ LockInv
    /\ OwnNumber
    /\ RequestInv
    /\ TwiceIsShared
    /\ LiveIsSaved
    /\ ExchangesAreKept

-----------------------------------------------------------------------------
\* What an idle request is.
LEMMA IdleFacts ==
    /\ IdleRequest \in Request
    /\ IdleRequest.phase = "idle"
    /\ ~Active(IdleRequest) /\ ~Locked(IdleRequest) /\ ~MayCreate(IdleRequest)
<1>1. AnyKey \in Keys
  BY SessionsAssumption DEF AnyKey
<1>2. NoSession \in Session /\ IdleRequest.phase = "idle"
  BY DEF NoSession, Session, IdleRequest
<1>3. IdleRequest \in Request
  BY <1>1, <1>2 DEF IdleRequest, Request, Phase, Ops
<1>4. QED BY <1>2, <1>3 DEF Active, Locked, MayCreate

\* A session with a file is one, and has an id.
LEMMA LiveFacts ==
    ASSUME TypeOK, NEW k \in Keys, live[k] # NoSession
    PROVE  live[k] \in Session /\ live[k].id \in saved /\ live[k].id \in ID
           /\ live[k].id # NoID /\ live[k].log \subseteq Exchange
<1>1. live[k] \in Session /\ live[k].id \in saved /\ live[k].id \in ID
  BY DEF TypeOK
<1>2. QED BY <1>1, SessionsAssumption DEF Session, ID, NoID

\* Initially no key has a session.
LEMMA InitStep == Init => IInv
<1> SUFFICES ASSUME Init PROVE IInv
  OBVIOUS
<1>1. TypeOK
  <2>1. NoSession \in Session
    BY DEF NoSession, Session
  <2>2. QED BY <2>1, IdleFacts, SessionsAssumption DEF Init, TypeOK
<1>2. \A r \in Requests : request[r] = IdleRequest
  BY DEF Init
<1>3. LockInv /\ OwnNumber /\ RequestInv
  <2>1. LockInv /\ OwnNumber
    BY <1>2, IdleFacts DEF LockInv, OwnNumber
  <2>2. RequestInv
    BY <1>2, IdleFacts DEF RequestInv, SeesInv, NumberInv
  <2>3. QED BY <2>1, <2>2
<1>4. TwiceIsShared /\ LiveIsSaved /\ ExchangesAreKept
  BY DEF Init, TwiceIsShared, LiveIsSaved, ExchangesAreKept
<1>5. QED BY <1>1, <1>3, <1>4 DEF IInv, Init

\* What a session keeps while nobody touches a session: a step that only moves
\* requests and mutexes.
LEMMA SessionsUntouched ==
    ASSUME IInv, UNCHANGED <<saved, disk, live, kept, shared>>,
           requests' \in 0..MaxRequests, requests' >= requests
    PROVE  /\ \A id \in saved' : id <= requests'
           /\ \A e \in kept' : e[1] \in saved'
           /\ TwiceIsShared' /\ LiveIsSaved' /\ ExchangesAreKept'
<1>1. \A id \in saved' : id <= requests'
  BY SessionsAssumption DEF IInv, TypeOK, ID
<1>2. QED BY <1>1 DEF IInv, TwiceIsShared, LiveIsSaved, ExchangesAreKept

\* A request that gives its key's mutex back is idle, and every other one is as
\* it was.
LEMMA EndRequests ==
    ASSUME IInv, NEW r \in Requests, End(r), Locked(request[r]),
           requests' = requests
    PROVE  /\ request' \in [Requests -> Request]
           /\ holder' \in [Keys -> Requests \union {Nobody}]
           /\ LockInv' /\ OwnNumber'
           /\ request'[r] = IdleRequest
           /\ \A s \in Requests \ {r} : request'[s] = request[s]
           /\ \A s \in Requests \ {r} :
                Locked(request[s]) => request[s].key # Key(r)
<1>0. request \in [Requests -> Request] /\ holder \in [Keys -> Requests \union {Nobody}]
  BY DEF IInv, TypeOK
<1>1. request' = [request EXCEPT ![r] = IdleRequest]
  BY DEF End, Become
<1>2. holder' = [holder EXCEPT ![Key(r)] = Nobody]
  BY DEF End, Unlock
<1>3. \A s \in Requests : request[s].key \in Keys
  BY <1>0 DEF Request
<1>4. request'[r] = IdleRequest /\ \A s \in Requests \ {r} : request'[s] = request[s]
  BY <1>0, <1>1
<1>5. \A s \in Requests \ {r} : Locked(request[s]) => request[s].key # Key(r)
  BY DEF IInv, LockInv, Key
<1>6. LockInv'
  BY <1>0, <1>2, <1>3, <1>4, <1>5, IdleFacts DEF IInv, LockInv, Key
<1>7. OwnNumber'
  BY <1>4, IdleFacts DEF IInv, OwnNumber
<1>8. QED BY <1>0, <1>1, <1>2, <1>4, <1>5, <1>6, <1>7, IdleFacts

\* A failed operation leaves the sessions alone.
LEMMA GivesUp ==
    ASSUME IInv, NEW r \in Requests, End(r), Locked(request[r]),
           UNCHANGED <<saved, disk, live, requests, kept, shared>>
    PROVE  IInv'
<1>1. TypeOK'
  BY EndRequests DEF IInv, TypeOK
<1>2. RequestInv'
  <2> SUFFICES ASSUME NEW s \in Requests
               PROVE  SeesInv(request[s], Live(s))' /\ NumberInv(request[s], Live(s), saved, requests)'
    BY DEF RequestInv
  <2>1. CASE s = r
    BY <2>1, EndRequests, IdleFacts DEF SeesInv, NumberInv, IdleRequest
  <2>2. CASE s # r
    BY <2>2, EndRequests DEF IInv, RequestInv, Live, Key
  <2>3. QED BY <2>1, <2>2
<1>3. requests' \in 0..MaxRequests /\ requests' >= requests
  BY DEF IInv, TypeOK
<1>4. QED BY <1>1, <1>2, <1>3, EndRequests, SessionsUntouched DEF IInv

\* A request that changes what it is doing, and not its session: its mutex is
\* the same, taken or its own.
LEMMA MovesOn ==
    ASSUME IInv, NEW r \in Requests, NEW q \in Request, Become(r, q),
           Active(q), q.key \in Keys,
           requests' \in 0..MaxRequests, requests' >= requests,
           UNCHANGED <<saved, disk, live, kept, shared>>,
           holder' \in [Keys -> Requests \union {Nobody}],
           \A k \in Keys : holder'[k] = holder[k] \/ (holder[k] = Nobody /\ k = q.key),
           Locked(q) => holder'[q.key] = r,
           \A s \in Requests \ {r} : Active(request[s]) => request[s].number # q.number,
           SeesInv(q, live[q.key]), NumberInv(q, live[q.key], saved, requests')
    PROVE  IInv'
<1>0. request \in [Requests -> Request]
  BY DEF IInv, TypeOK
<1>1. request' = [request EXCEPT ![r] = q]
  BY DEF Become
<1>2. request'[r] = q /\ \A s \in Requests \ {r} : request'[s] = request[s]
  BY <1>0, <1>1
<1>3. TypeOK'
  BY <1>0, <1>1 DEF IInv, TypeOK
<1>4. LockInv'
  <2> SUFFICES ASSUME NEW s \in Requests, Locked(request'[s])
               PROVE  holder'[request'[s].key] = s
    BY DEF LockInv, Key
  <2>1. CASE s = r
    BY <2>1, <1>2
  <2>2. CASE s # r
    <3>1. request'[s] = request[s] /\ holder[request[s].key] = s /\ request[s].key \in Keys
      BY <1>0, <1>2, <2>2 DEF IInv, LockInv, Key, Request
    <3>2. QED BY <3>1, SessionsAssumption
  <2>3. QED BY <2>1, <2>2
<1>5. OwnNumber'
  BY <1>2 DEF IInv, OwnNumber
<1>6. RequestInv'
  <2> SUFFICES ASSUME NEW s \in Requests
               PROVE  SeesInv(request'[s], live[request'[s].key])
                      /\ NumberInv(request'[s], live[request'[s].key], saved, requests')
    BY DEF RequestInv, Live, Key
  <2>1. CASE s = r
    BY <2>1, <1>2
  <2>2. CASE s # r
    <3>1. SeesInv(request[s], live[request[s].key])
          /\ NumberInv(request[s], live[request[s].key], saved, requests)
      BY DEF IInv, RequestInv, Live, Key
    <3>2. requests \in Nat /\ requests' \in Nat
      BY SessionsAssumption DEF IInv, TypeOK
    <3>3. QED BY <1>2, <2>2, <3>1, <3>2 DEF NumberInv
  <2>3. QED BY <2>1, <2>2
<1>7. QED BY <1>3, <1>4, <1>5, <1>6, SessionsUntouched DEF IInv

\* A request that comes in bears a number nobody has.
LEMMA ReceiveStep ==
    ASSUME IInv, NEW r \in Requests, Receive(r)
    PROVE  IInv'
<1>1. PICK op \in Ops, k \in Keys, id \in ID \union {NoID} :
        Become(r, [phase |-> "entering", op |-> op, key |-> k, target |-> id,
                   number |-> requests + 1, work |-> NoSession])
  BY DEF Receive, IInv, TypeOK
<1> DEFINE q == [phase |-> "entering", op |-> op, key |-> k, target |-> id,
                 number |-> requests + 1, work |-> NoSession]
<1>2. requests \in Nat /\ requests' = requests + 1 /\ requests' \in 0..MaxRequests
  BY SessionsAssumption DEF Receive, IInv, TypeOK
<1>3. q \in Request /\ q.phase = "entering" /\ q.key = k /\ q.number = requests + 1
  <2>1. NoSession \in Session
    BY DEF NoSession, Session
  <2>2. QED BY <1>2, <2>1 DEF Request, Phase
<1>4. \A s \in Requests : Active(request[s]) => request[s].number \in 1..requests
  BY DEF IInv, RequestInv, NumberInv
<1>5. q.number \notin saved
  BY <1>2, <1>3 DEF IInv
<1>6. SeesInv(q, live[q.key]) /\ NumberInv(q, live[q.key], saved, requests')
  BY <1>2, <1>3, <1>5 DEF SeesInv, NumberInv
<1>7. UNCHANGED <<saved, disk, live, holder, kept, shared>>
  BY DEF Receive
<1>8. \A s \in Requests \ {r} : Active(request[s]) => request[s].number # q.number
  BY <1>2, <1>3, <1>4
<1>9. holder' \in [Keys -> Requests \union {Nobody}]
  BY <1>7 DEF IInv, TypeOK
<1>10. Active(q) /\ ~Locked(q)
  BY <1>3 DEF Active, Locked
<1>11. requests' >= requests
  BY <1>2
<1> HIDE DEF q
<1>12. Become(r, q)
  BY <1>1 DEF q
<1>13. q.key \in Keys
  BY <1>3
<1>14. QED BY <1>2, <1>3, <1>6, <1>7, <1>8, <1>9, <1>10, <1>11, <1>12, <1>13, MovesOn

\* A request that takes its key's mutex sees the session that is there, or finds
\* none and creates one under its own number.
LEMMA EnterStep ==
    ASSUME IInv, NEW r \in Requests, Enter(r)
    PROVE  IInv'
<1>0. request[r] \in Request /\ Key(r) \in Keys /\ request[r].phase = "entering"
  BY DEF Enter, At, IInv, TypeOK, Request, Key
<1>1. CASE NeedsSession(r) /\ Live(r) = NoSession
  <2>1. Become(r, IdleRequest) /\ UNCHANGED <<holder, saved, disk, live, requests, kept, shared>>
    BY <1>1 DEF Enter
  <2>2. request' = [request EXCEPT ![r] = IdleRequest]
    BY <2>1 DEF Become
  <2>3. request \in [Requests -> Request]
    BY DEF IInv, TypeOK
  <2>4. request'[r] = IdleRequest /\ \A s \in Requests \ {r} : request'[s] = request[s]
    BY <2>2, <2>3
  <2>5. TypeOK'
    BY <2>1, <2>2, <2>3, IdleFacts DEF IInv, TypeOK
  <2>6. LockInv' /\ OwnNumber'
    BY <2>1, <2>4, IdleFacts DEF IInv, LockInv, OwnNumber, Key
  <2>7. RequestInv'
    <3> SUFFICES ASSUME NEW s \in Requests
                 PROVE  SeesInv(request'[s], live[request'[s].key])
                        /\ NumberInv(request'[s], live[request'[s].key], saved, requests)
      BY <2>1 DEF RequestInv, Live, Key
    <3>1. CASE s = r
      BY <2>4, <3>1, IdleFacts DEF SeesInv, NumberInv
    <3>2. CASE s # r
      BY <2>4, <3>2 DEF IInv, RequestInv, Live, Key
    <3>3. QED BY <3>1, <3>2
  <2>8. requests' \in 0..MaxRequests /\ requests' >= requests
    BY <2>1 DEF IInv, TypeOK
  <2>9. QED BY <2>1, <2>5, <2>6, <2>7, <2>8, SessionsUntouched DEF IInv
<1>2. CASE ~(NeedsSession(r) /\ Live(r) = NoSession)
  <2>1. /\ Become(r, Admitted(r)) /\ Lock(r)
        /\ UNCHANGED <<saved, disk, live, requests, kept, shared>>
        /\ holder[Key(r)] = Nobody
    BY <1>2 DEF Enter, Available
  <2>2. Live(r) \in Session /\ Live(r) = live[Key(r)]
    BY <1>0 DEF IInv, TypeOK, Live
  <2>3. /\ Admitted(r) \in Request /\ Admitted(r).key = Key(r)
        /\ Admitted(r).op = request[r].op /\ Admitted(r).number = request[r].number
        /\ Admitted(r).phase \in {"inside", "running", "compacting"}
    BY <1>0, <2>2 DEF Admitted, Request, Phase, Key
  <2>4. SeesInv(Admitted(r), Live(r))
    <3>1. CASE request[r].op = "chat" /\ Live(r) # NoSession
      BY <1>0, <3>1 DEF Admitted, SeesInv, Request
    <3>2. CASE request[r].op = "compact"
      BY <1>0, <1>2, <3>2 DEF Admitted, SeesInv, Request, NeedsSession
    <3>3. CASE request[r].op # "compact" /\ ~(request[r].op = "chat" /\ Live(r) # NoSession)
      BY <1>0, <1>2, <3>3 DEF Admitted, SeesInv, Request, NeedsSession
    <3>4. QED BY <3>1, <3>2, <3>3
  <2>5. NumberInv(request[r], Live(r), saved, requests)
    BY DEF IInv, RequestInv
  <2>6. NumberInv(Admitted(r), Live(r), saved, requests)
    <3>1. Active(request[r]) /\ request[r].number \in 1..requests
      BY <1>0, <2>5 DEF NumberInv, Active
    <3>2. CASE request[r].op = "chat" /\ Live(r) # NoSession
      BY <1>0, <3>1, <3>2, <2>3 DEF Admitted, NumberInv, Request, MayCreate
    <3>3. CASE request[r].op = "chat" /\ Live(r) = NoSession
      BY <1>0, <2>3, <2>5, <3>1, <3>3 DEF NumberInv, MayCreate
    <3>4. CASE request[r].op # "chat"
      BY <1>0, <2>3, <2>5, <3>1, <3>4 DEF NumberInv, MayCreate
    <3>5. QED BY <3>2, <3>3, <3>4
  <2>7. holder' = [holder EXCEPT ![Key(r)] = r] /\ holder \in [Keys -> Requests \union {Nobody}]
    BY <2>1 DEF Lock, IInv, TypeOK
  <2>8. \A s \in Requests \ {r} : Active(request[s]) => request[s].number # request[r].number
    BY <1>0 DEF IInv, OwnNumber, Active
  <2>9. requests' \in 0..MaxRequests /\ requests' >= requests
    BY <2>1 DEF IInv, TypeOK
  <2>10. Active(Admitted(r))
    BY <2>3 DEF Active
  <2>11. holder' \in [Keys -> Requests \union {Nobody}] /\ holder'[Key(r)] = r
         /\ \A k \in Keys : holder'[k] = holder[k] \/ (holder[k] = Nobody /\ k = Key(r))
    BY <1>0, <2>1, <2>7
  <2>12. QED BY <1>0, <2>1, <2>2, <2>3, <2>4, <2>6, <2>8, <2>9, <2>10, <2>11, MovesOn
<1>3. QED BY <1>1, <1>2

\* A session saved over its own file by the holder of its key's mutex, which then
\* lets go: what the key answered from was the file, so the commit drops what it
\* means to drop.
LEMMA CommitStep ==
    ASSUME IInv, NEW r \in Requests, NEW log \in SUBSET Exchange,
           Locked(request[r]), Live(r) # NoSession,
           Commit(r, [id |-> Live(r).id, log |-> log]), End(r),
           UNCHANGED <<requests, shared>>
    PROVE  IInv'
<1> DEFINE k == Key(r)
           id == Live(r).id
<1>0. k \in Keys /\ request \in [Requests -> Request] /\ live \in [Keys -> Session]
  BY DEF IInv, TypeOK, Request, Key
<1>1. /\ saved' = saved /\ id \in saved /\ id \in ID /\ id # NoID
      /\ disk' = [disk EXCEPT ![id] = log]
      /\ live' = [live EXCEPT ![k] = [id |-> id, log |-> log]]
      /\ kept' = (kept \ ({id} \X Live(r).log)) \union ({id} \X log)
  BY <1>0, LiveFacts DEF Commit, SaveSession, IInv, Live
<1>2. [id |-> id, log |-> log] \in Session /\ [id |-> id, log |-> log] # NoSession
  BY <1>1 DEF Session, NoSession
<1>3. TypeOK'
  <2>1. live' \in [Keys -> Session] /\ disk' \in [ID -> SUBSET Exchange]
    BY <1>0, <1>1, <1>2 DEF IInv, TypeOK
  <2>2. \A l \in Keys : live'[l] = NoSession \/ live'[l].id \in saved'
    BY <1>0, <1>1 DEF IInv, TypeOK
  <2>3. kept' \subseteq ID \X Exchange
    BY <1>1 DEF IInv, TypeOK
  <2>4. QED BY <1>1, <2>1, <2>2, <2>3, EndRequests DEF IInv, TypeOK
<1>4. \A e \in kept' : e[1] \in saved'
  BY <1>1 DEF IInv
<1>5. live'[k] = [id |-> id, log |-> log] /\ \A l \in Keys \ {k} : live'[l] = live[l]
  BY <1>0, <1>1
<1>6. RequestInv'
  <2> SUFFICES ASSUME NEW s \in Requests
               PROVE  SeesInv(request'[s], live'[request'[s].key])
                      /\ NumberInv(request'[s], live'[request'[s].key], saved', requests')
    BY DEF RequestInv, Live, Key
  <2>1. CASE s = r
    BY <2>1, EndRequests, IdleFacts DEF SeesInv, NumberInv, IdleRequest
  <2>2. CASE s # r
    <3>1. request'[s] = request[s] /\ request[s].key \in Keys
          /\ (Locked(request[s]) => request[s].key # k)
      BY <1>0, <2>2, EndRequests DEF Request
    <3>2. SeesInv(request[s], live[request[s].key])
          /\ NumberInv(request[s], live[request[s].key], saved, requests)
      BY DEF IInv, RequestInv, Live, Key
    <3>3. Locked(request[s]) => live'[request[s].key] = live[request[s].key]
      BY <1>5, <3>1
    <3>4. SeesInv(request[s], live'[request[s].key])
      BY <3>2, <3>3 DEF SeesInv, Locked
    <3>5. NumberInv(request[s], live'[request[s].key], saved, requests)
      BY <1>2, <1>5, <3>1, <3>2 DEF NumberInv
    <3>6. QED BY <1>1, <3>1, <3>4, <3>5
  <2>3. QED BY <2>1, <2>2
<1>7. TwiceIsShared'
  BY <1>0, <1>1, <1>2, <1>5 DEF IInv, TwiceIsShared, Live
<1>8. \A l \in Keys : live[l] # NoSession /\ live[l].id = id /\ l # k => id \in shared
  BY <1>0 DEF IInv, TwiceIsShared, Live
<1>9. LiveIsSaved'
  <2> SUFFICES ASSUME NEW l \in Keys, live'[l] # NoSession, live'[l].id \notin shared
               PROVE  live'[l].log = disk'[live'[l].id]
    BY DEF LiveIsSaved
  <2>1. CASE l = k
    BY <1>1, <1>5, <2>1 DEF IInv, TypeOK
  <2>2. CASE l # k
    <3>1. live'[l] = live[l] /\ live[l].id # id /\ live[l].id \in ID
      BY <1>5, <1>8, <2>2, LiveFacts DEF IInv
    <3>2. live[l].log = disk[live[l].id]
      BY <3>1 DEF IInv, LiveIsSaved
    <3>3. QED BY <1>1, <3>1, <3>2 DEF IInv, TypeOK
  <2>3. QED BY <2>1, <2>2
<1>10. ExchangesAreKept'
  <2> SUFFICES ASSUME NEW e \in kept', e[1] \notin shared
               PROVE  e[2] \in disk'[e[1]]
    BY DEF ExchangesAreKept
  <2>1. CASE e[1] = id /\ e[2] \in log
    BY <1>1, <2>1 DEF IInv, TypeOK
  <2>2. CASE ~(e[1] = id /\ e[2] \in log)
    <3>1. e \in kept /\ ~(e[1] = id /\ e[2] \in Live(r).log) /\ e[1] \in ID
      BY <1>1, <2>2 DEF IInv, TypeOK
    <3>2. e[2] \in disk[e[1]]
      BY <3>1 DEF IInv, ExchangesAreKept
    <3>3. e[1] # id
      BY <1>0, <3>1, <3>2 DEF IInv, LiveIsSaved, Live
    <3>4. QED BY <1>1, <3>1, <3>2, <3>3 DEF IInv, TypeOK
  <2>3. QED BY <2>1, <2>2
<1>11. \A i \in saved' : i <= requests'
  BY <1>1 DEF IInv
<1>12. QED BY <1>3, <1>4, <1>6, <1>7, <1>9, <1>10, <1>11, EndRequests DEF IInv

\* The commit of a run, a reset and a compaction.
LEMMA OverwriteStep ==
    ASSUME IInv, NEW r \in Requests, CommitRun(r) \/ Reset(r) \/ Compact(r)
    PROVE  IInv'
<1>0. request[r] \in Request /\ Key(r) \in Keys /\ Live(r) \in Session
  BY DEF IInv, TypeOK, Request, Key, Live
<1>1. SeesInv(request[r], Live(r)) /\ NumberInv(request[r], Live(r), saved, requests)
  BY DEF IInv, RequestInv
<1>2. CASE CommitRun(r)
  <2>1. request[r].phase = "running" /\ Live(r) # NoSession /\ Live(r) = request[r].work
    BY <1>1, <1>2 DEF CommitRun, At, SeesInv
  <2>2. request[r].number \in Exchange
    BY <1>1, <2>1, SessionsAssumption DEF NumberInv, Active, Exchange, IInv, TypeOK
  <2>3. PICK log \in SUBSET Live(r).log :
          Commit(r, [Live(r) EXCEPT !.log = log \union {request[r].number}])
    BY <1>2, <2>1 DEF CommitRun
  <2>4. [Live(r) EXCEPT !.log = log \union {request[r].number}]
          = [id |-> Live(r).id, log |-> log \union {request[r].number}]
    BY <1>0 DEF Session
  <2>5. log \union {request[r].number} \in SUBSET Exchange
    BY <1>0, <2>2 DEF Session
  <2>6. End(r) /\ UNCHANGED <<requests, shared>> /\ Locked(request[r])
    BY <1>2, <2>1 DEF CommitRun, Locked
  <2>7. Commit(r, [id |-> Live(r).id, log |-> log \union {request[r].number}])
    BY <2>3, <2>4
  <2>8. QED BY <2>1, <2>5, <2>6, <2>7, CommitStep
<1>3. CASE Reset(r)
  <2>1. Live(r) # NoSession /\ Locked(request[r])
    BY <1>1, <1>3 DEF Reset, Inside, At, SeesInv, Locked
  <2>2. Commit(r, [id |-> Live(r).id, log |-> {}]) /\ End(r) /\ UNCHANGED <<requests, shared>>
    BY <1>3 DEF Reset, Fresh
  <2>3. QED BY <2>1, <2>2, CommitStep
<1>4. CASE Compact(r)
  <2>1. Live(r) # NoSession /\ Locked(request[r])
    BY <1>1, <1>4 DEF Compact, At, SeesInv, Locked
  <2>2. PICK log \in SUBSET Live(r).log : Commit(r, [Live(r) EXCEPT !.log = log])
    BY <1>4 DEF Compact
  <2>3. [Live(r) EXCEPT !.log = log] = [id |-> Live(r).id, log |-> log]
    BY <1>0 DEF Session
  <2>4. log \in SUBSET Exchange /\ End(r) /\ UNCHANGED <<requests, shared>>
    BY <1>0, <1>4 DEF Session, Compact
  <2>5. Commit(r, [id |-> Live(r).id, log |-> log])
    BY <2>2, <2>3
  <2>6. QED BY <2>1, <2>4, <2>5, CommitStep
<1>5. QED BY <1>2, <1>3, <1>4

\* What a created session does to the sessions: its id was in no file and behind
\* no key.
LEMMA CreatedSession ==
    ASSUME IInv, NEW r \in Requests, CreateSession(r)
    PROVE  LET id == request[r].number
           IN  /\ id \in ID /\ id # NoID /\ id <= requests /\ id \notin saved
               /\ Fresh(id) \in Session /\ Fresh(id) # NoSession /\ Fresh(id).id = id
               /\ Key(r) \in Keys
               /\ saved' = saved \union {id}
               /\ disk' = [disk EXCEPT ![id] = {}]
               /\ live' = [live EXCEPT ![Key(r)] = Fresh(id)]
               /\ live'[Key(r)] = Fresh(id)
               /\ \A l \in Keys \ {Key(r)} : live'[l] = live[l]
               /\ \A l \in Keys : live[l].id # id
<1> DEFINE id == request[r].number
<1>0. request[r] \in Request /\ Key(r) \in Keys /\ live \in [Keys -> Session]
  BY DEF IInv, TypeOK, Request, Key
<1>1. request[r].phase = "inside" /\ request[r].op \in {"chat", "new", "once"}
  BY DEF CreateSession, Creates, Inside, At
<1>2. NumberInv(request[r], Live(r), saved, requests)
  BY DEF IInv, RequestInv
<1>3. id \in 1..requests /\ id \notin saved
  BY <1>1, <1>2 DEF NumberInv, Active, MayCreate
<1>4. id \in ID /\ id # NoID /\ id <= requests
  BY <1>3, SessionsAssumption DEF ID, NoID, IInv, TypeOK
<1>5. Fresh(id) \in Session /\ Fresh(id) # NoSession /\ Fresh(id).id = id /\ Fresh(id).log = {}
  BY <1>4 DEF Fresh, Session, NoSession
<1>6. /\ saved' = saved \union {id}
      /\ disk' = [disk EXCEPT ![id] = {}]
      /\ live' = [live EXCEPT ![Key(r)] = Fresh(id)]
  BY <1>5 DEF CreateSession, SaveSession, Created
<1>7. live'[Key(r)] = Fresh(id) /\ \A l \in Keys \ {Key(r)} : live'[l] = live[l]
  BY <1>0, <1>6
<1>8. \A l \in Keys : live[l].id # id
  BY <1>3, <1>4, LiveFacts DEF IInv, NoSession, TypeOK
<1>9. QED BY <1>0, <1>3, <1>4, <1>5, <1>6, <1>7, <1>8

\* Creating a session disturbs no session there is.
LEMMA CreateSessions ==
    ASSUME IInv, NEW r \in Requests, CreateSession(r)
    PROVE  /\ saved' \subseteq ID /\ disk' \in [ID -> SUBSET Exchange]
           /\ live' \in [Keys -> Session]
           /\ \A k \in Keys : live'[k] = NoSession \/ live'[k].id \in saved'
           /\ requests' = requests /\ kept' = kept /\ shared' = shared
           /\ \A i \in saved' : i <= requests'
           /\ \A e \in kept' : e[1] \in saved'
           /\ TwiceIsShared' /\ LiveIsSaved' /\ ExchangesAreKept'
<1> DEFINE id == request[r].number
<1>0. saved \subseteq ID /\ disk \in [ID -> SUBSET Exchange] /\ live \in [Keys -> Session]
  BY DEF IInv, TypeOK
<1>1. requests' = requests /\ kept' = kept /\ shared' = shared
  BY DEF CreateSession
<1>2. saved' \subseteq ID /\ disk' \in [ID -> SUBSET Exchange] /\ live' \in [Keys -> Session]
  BY <1>0, CreatedSession
<1>3. \A k \in Keys : live'[k] = NoSession \/ live'[k].id \in saved'
  BY CreatedSession DEF IInv, TypeOK
<1>4. \A i \in saved' : i <= requests'
  BY <1>1, CreatedSession DEF IInv
<1>5. \A e \in kept' : e[1] \in saved'
  BY <1>1, CreatedSession DEF IInv
<1>6. TwiceIsShared'
  BY <1>1, CreatedSession DEF IInv, TwiceIsShared
<1>7. LiveIsSaved'
  <2> SUFFICES ASSUME NEW l \in Keys, live'[l] # NoSession, live'[l].id \notin shared
               PROVE  live'[l].log = disk'[live'[l].id]
    BY <1>1 DEF LiveIsSaved
  <2>1. CASE l = Key(r)
    <3>1. live'[l] = Fresh(id) /\ id \in ID /\ disk' = [disk EXCEPT ![id] = {}]
      BY <2>1, CreatedSession
    <3>2. live'[l].id = id /\ live'[l].log = {}
      BY <3>1 DEF Fresh
    <3>3. QED BY <1>0, <3>1, <3>2
  <2>2. CASE l # Key(r)
    <3>1. live'[l] = live[l] /\ live[l].id # id /\ live[l].id \in ID
      BY <2>2, CreatedSession, LiveFacts DEF IInv
    <3>2. live[l].log = disk[live[l].id]
      BY <3>1 DEF IInv, LiveIsSaved
    <3>3. QED BY <1>0, <3>1, <3>2, CreatedSession
  <2>3. QED BY <2>1, <2>2
<1>8. ExchangesAreKept'
  <2> SUFFICES ASSUME NEW e \in kept, e[1] \notin shared
               PROVE  e[2] \in disk'[e[1]]
    BY <1>1 DEF ExchangesAreKept
  <2>1. e[2] \in disk[e[1]] /\ e[1] \in saved
    BY DEF IInv, ExchangesAreKept
  <2>2. QED BY <1>0, <2>1, CreatedSession
<1>9. QED BY <1>1, <1>2, <1>3, <1>4, <1>5, <1>6, <1>7, <1>8

\* What the requests other than the creating one know stands: the new session's
\* id is the number of nobody else.
LEMMA CreateOthers ==
    ASSUME IInv, NEW r \in Requests, CreateSession(r), NEW s \in Requests, s # r
    PROVE  SeesInv(request[s], live'[request[s].key])
           /\ NumberInv(request[s], live'[request[s].key], saved', requests)
<1>1. SeesInv(request[s], live[request[s].key])
      /\ NumberInv(request[s], live[request[s].key], saved, requests)
  BY DEF IInv, RequestInv, Live, Key
<1>2. request[s].key \in Keys
  BY DEF IInv, TypeOK, Request
<1>3. Locked(request[r]) /\ Active(request[r])
  BY DEF CreateSession, Creates, Inside, At, Locked, Active
<1>4. Locked(request[s]) => request[s].key # Key(r)
  BY <1>3 DEF IInv, LockInv, Key
<1>5. Locked(request[s]) => live'[request[s].key] = live[request[s].key]
  BY <1>2, <1>4, CreatedSession
<1>6. SeesInv(request[s], live'[request[s].key])
  BY <1>1, <1>5 DEF SeesInv, Locked
<1>7. Active(request[s]) => request[s].number # request[r].number
  BY <1>3 DEF IInv, OwnNumber
<1>8. MayCreate(request[s]) => Active(request[s])
  BY DEF MayCreate, Active
<1>9. live[request[s].key] # NoSession => live'[request[s].key] # NoSession
  BY <1>2, CreatedSession
<1>10. NumberInv(request[s], live'[request[s].key], saved', requests)
  BY <1>1, <1>7, <1>8, <1>9, CreatedSession DEF NumberInv
<1>11. QED BY <1>6, <1>10

\* createAndSave for /new, a one-shot run, and the first message of a key.
LEMMA CreateStep ==
    ASSUME IInv, NEW r \in Requests, CreateSession(r)
    PROVE  IInv'
<1>0. /\ request \in [Requests -> Request] /\ request[r].phase = "inside"
      /\ holder \in [Keys -> Requests \union {Nobody}] /\ holder[Key(r)] = r
      /\ request[r].op \in {"chat", "new", "once"} /\ Locked(request[r])
      /\ Key(r) = request[r].key /\ Key(r) \in Keys
  BY DEF CreateSession, Creates, Inside, At, IInv, TypeOK, LockInv, Locked, Key, Request
<1>1. CASE request[r].op = "new"
  <2>1. End(r) /\ requests' = requests
    BY <1>1 DEF CreateSession
  <2>2. TypeOK'
    BY <1>0, <2>1, CreateSessions, EndRequests DEF IInv, TypeOK
  <2>3. RequestInv'
    <3> SUFFICES ASSUME NEW s \in Requests
                 PROVE  SeesInv(request'[s], live'[request'[s].key])
                        /\ NumberInv(request'[s], live'[request'[s].key], saved', requests)
      BY <2>1 DEF RequestInv, Live, Key
    <3>1. CASE s = r
      BY <1>0, <2>1, <3>1, EndRequests, IdleFacts DEF SeesInv, NumberInv
    <3>2. CASE s # r
      BY <1>0, <2>1, <3>2, EndRequests, CreateOthers
    <3>3. QED BY <3>1, <3>2
  <2>4. LockInv' /\ OwnNumber'
    BY <1>0, <2>1, EndRequests
  <2>5. QED BY <2>2, <2>3, <2>4, CreateSessions DEF IInv
<1>2. ASSUME NEW q \in Request, request' = [request EXCEPT ![r] = q],
             q.key = Key(r), q.number = request[r].number,
             \/ /\ q.phase = "entering" /\ q.op = "chat"
                /\ holder' = [holder EXCEPT ![Key(r)] = Nobody]
             \/ /\ q.phase = "running" /\ q.work = Fresh(request[r].number)
                /\ holder' = holder
      PROVE  IInv'
  <2>1. request'[r] = q /\ \A s \in Requests \ {r} : request'[s] = request[s]
    BY <1>0, <1>2
  <2>2. TypeOK'
    <3>1. request' \in [Requests -> Request] /\ holder' \in [Keys -> Requests \union {Nobody}]
      BY <1>0, <1>2
    <3>2. QED BY <3>1, CreateSessions DEF IInv, TypeOK
  <2>3. OwnNumber'
    BY <1>0, <1>2, <2>1 DEF IInv, OwnNumber, Active
  <2>4. LockInv'
    <3> SUFFICES ASSUME NEW s \in Requests, Locked(request'[s])
                 PROVE  holder'[request'[s].key] = s
      BY DEF LockInv, Key
    <3>1. CASE s = r
      BY <1>0, <1>2, <2>1, <3>1 DEF Locked
    <3>2. CASE s # r
      <4>1. request'[s] = request[s] /\ holder[request[s].key] = s /\ request[s].key \in Keys
            /\ request[s].key # Key(r)
        BY <1>0, <2>1, <3>2 DEF IInv, LockInv, Key, Request
      <4>2. QED BY <1>0, <1>2, <4>1
    <3>3. QED BY <3>1, <3>2
  <2>5. RequestInv'
    <3> SUFFICES ASSUME NEW s \in Requests
                 PROVE  SeesInv(request'[s], live'[request'[s].key])
                        /\ NumberInv(request'[s], live'[request'[s].key], saved', requests)
      BY CreateSessions DEF RequestInv, Live, Key
    <3>1. CASE s = r
      <4>1. live'[q.key] = Fresh(request[r].number) /\ Fresh(request[r].number) # NoSession
        BY <1>2, CreatedSession
      <4>2. SeesInv(q, live'[q.key])
        BY <1>2, <4>1 DEF SeesInv
      <4>3. q.number \in 1..requests
        BY <1>0, <1>2 DEF IInv, RequestInv, NumberInv, Active
      <4>4. NumberInv(q, live'[q.key], saved', requests)
        BY <1>2, <4>1, <4>3 DEF NumberInv, MayCreate
      <4>5. QED BY <2>1, <3>1, <4>2, <4>4
    <3>2. CASE s # r
      BY <2>1, <3>2, CreateOthers
    <3>3. QED BY <3>1, <3>2
  <2>6. QED BY <2>2, <2>3, <2>4, <2>5, CreateSessions DEF IInv
<1>3. CASE request[r].op = "once"
  <2> DEFINE q == [request[r] EXCEPT !.phase = "entering", !.op = "chat"]
  <2>1. request' = [request EXCEPT ![r] = q]
        /\ holder' = [holder EXCEPT ![Key(r)] = Nobody]
    BY <1>3 DEF CreateSession, Become, Unlock
  <2>2. q \in Request /\ q.key = Key(r) /\ q.number = request[r].number
        /\ q.phase = "entering" /\ q.op = "chat"
    BY <1>0 DEF Request, Phase, Ops
  <2> HIDE DEF q
  <2>3. QED BY <1>2, <2>1, <2>2
<1>4. CASE request[r].op = "chat"
  <2> DEFINE q == [request[r] EXCEPT !.phase = "running", !.work = Created(r)]
  <2>1. request' = [request EXCEPT ![r] = q] /\ holder' = holder
    BY <1>4 DEF CreateSession, Become
  <2>2. q \in Request /\ q.key = Key(r) /\ q.number = request[r].number
        /\ q.phase = "running" /\ q.work = Fresh(request[r].number)
    BY <1>0, CreatedSession DEF Request, Phase, Created
  <2> HIDE DEF q
  <2>3. QED BY <1>2, <2>1, <2>2
<1>5. QED BY <1>0, <1>1, <1>3, <1>4

\* /resume answers from what the file holds, and notes when another key does.
LEMMA ResumeStep ==
    ASSUME IInv, NEW r \in Requests, Resume(r)
    PROVE  IInv'
<1> DEFINE id == request[r].target
           sess == [id |-> id, log |-> disk[id]]
<1>0. /\ request[r] \in Request /\ Key(r) \in Keys /\ live \in [Keys -> Session]
      /\ disk \in [ID -> SUBSET Exchange] /\ saved \subseteq ID /\ shared \subseteq ID
  BY DEF IInv, TypeOK, Request, Key
<1>1. /\ id \in saved /\ live' = [live EXCEPT ![Key(r)] = sess]
      /\ shared' = IF Others(r, id) # {} THEN shared \union {id} ELSE shared
      /\ End(r) /\ Locked(request[r])
      /\ saved' = saved /\ disk' = disk /\ requests' = requests /\ kept' = kept
  BY DEF Resume, Inside, At, Locked
<1>2. sess \in Session /\ sess.id \in ID /\ sess # NoSession
  <2>1. id \in ID /\ id # NoID /\ disk[id] \in SUBSET Exchange
    <3>1. id \in ID
      BY <1>0, <1>1
    <3>2. id # NoID
      BY <3>1, SessionsAssumption DEF ID, NoID
    <3>3. QED BY <1>0, <3>1, <3>2
  <2>2. QED BY <2>1 DEF Session, NoSession
<1>3. live'[Key(r)] = sess /\ \A l \in Keys \ {Key(r)} : live'[l] = live[l]
  BY <1>0, <1>1
<1>4. shared \subseteq shared' /\ shared' \subseteq ID
  BY <1>0, <1>1
<1>5. \A l \in Keys \ {Key(r)} : live[l].id = id => id \in shared'
  BY <1>1 DEF Others
<1>6. TypeOK'
  <2>1. live' \in [Keys -> Session]
    BY <1>0, <1>1, <1>2
  <2>2. \A l \in Keys : live'[l] = NoSession \/ live'[l].id \in saved'
    BY <1>1, <1>3 DEF IInv, TypeOK
  <2>3. QED BY <1>0, <1>1, <1>4, <2>1, <2>2, EndRequests DEF IInv, TypeOK
<1>7. RequestInv'
  <2> SUFFICES ASSUME NEW s \in Requests
               PROVE  SeesInv(request'[s], live'[request'[s].key])
                      /\ NumberInv(request'[s], live'[request'[s].key], saved', requests')
    BY DEF RequestInv, Live, Key
  <2>1. CASE s = r
    BY <1>1, <2>1, EndRequests, IdleFacts DEF SeesInv, NumberInv
  <2>2. CASE s # r
    <3>1. request'[s] = request[s] /\ request[s].key \in Keys
          /\ (Locked(request[s]) => request[s].key # Key(r))
      BY <1>1, <2>2, EndRequests DEF IInv, TypeOK, Request
    <3>2. SeesInv(request[s], live[request[s].key])
          /\ NumberInv(request[s], live[request[s].key], saved, requests)
      BY DEF IInv, RequestInv, Live, Key
    <3>3. Locked(request[s]) => live'[request[s].key] = live[request[s].key]
      BY <1>3, <3>1
    <3>4. SeesInv(request[s], live'[request[s].key])
      BY <3>2, <3>3 DEF SeesInv, Locked
    <3>5. NumberInv(request[s], live'[request[s].key], saved, requests)
      BY <1>2, <1>3, <3>1, <3>2 DEF NumberInv
    <3>6. QED BY <1>1, <3>1, <3>4, <3>5
  <2>3. QED BY <2>1, <2>2
<1>8. TwiceIsShared'
  <2> SUFFICES ASSUME NEW k \in Keys, NEW l \in Keys, k # l,
                      live'[k] # NoSession, live'[k].id = live'[l].id
               PROVE  live'[k].id \in shared'
    BY DEF TwiceIsShared
  <2>1. CASE k = Key(r)
    BY <1>3, <1>5, <2>1
  <2>2. CASE l = Key(r)
    BY <1>3, <1>5, <2>2
  <2>3. CASE k # Key(r) /\ l # Key(r)
    BY <1>3, <1>4, <2>3 DEF IInv, TwiceIsShared
  <2>4. QED BY <2>1, <2>2, <2>3
<1>9. LiveIsSaved'
  BY <1>1, <1>3, <1>4 DEF IInv, LiveIsSaved
<1>10. ExchangesAreKept'
  BY <1>1, <1>4 DEF IInv, ExchangesAreKept
<1>11. QED
  BY <1>1, <1>6, <1>7, <1>8, <1>9, <1>10, EndRequests DEF IInv

\* A crash loses the live sessions and the mutexes, and no file.
LEMMA CrashStep ==
    ASSUME IInv, Crash
    PROVE  IInv'
<1>1. /\ live' = [k \in Keys |-> NoSession]
      /\ holder' = [k \in Keys |-> Nobody]
      /\ request' = [r \in Requests |-> IdleRequest]
      /\ saved' = saved /\ disk' = disk /\ requests' = requests
      /\ kept' = kept /\ shared' = shared
  BY DEF Crash
<1>2. TypeOK'
  <2>1. NoSession \in Session
    BY DEF NoSession, Session
  <2>2. QED BY <1>1, <2>1, IdleFacts DEF IInv, TypeOK
<1>3. LockInv' /\ OwnNumber'
  BY <1>1, IdleFacts DEF LockInv, OwnNumber
<1>4. RequestInv'
  BY <1>1, IdleFacts DEF RequestInv, SeesInv, NumberInv
<1>5. TwiceIsShared' /\ LiveIsSaved' /\ ExchangesAreKept'
  BY <1>1 DEF IInv, TwiceIsShared, LiveIsSaved, ExchangesAreKept
<1>6. QED BY <1>1, <1>2, <1>3, <1>4, <1>5 DEF IInv

\* A failure drops the clone and gives the mutex back.
LEMMA FailureStep ==
    ASSUME IInv, NEW r \in Requests,
           RunFails(r) \/ ResumeRefused(r) \/ CompactFails(r) \/ SaveFails(r)
    PROVE  IInv'
<1>1. Locked(request[r])
  BY DEF RunFails, ResumeRefused, CompactFails, SaveFails, Creates, Inside, At, Locked
<1>2. End(r) /\ UNCHANGED <<saved, disk, live, requests, kept, shared>>
  BY DEF RunFails, ResumeRefused, CompactFails, SaveFails
<1>3. QED BY <1>1, <1>2, GivesUp

\* Every step preserves the invariant.
LEMMA NextStep == IInv /\ [Next]_vars => IInv'
<1> SUFFICES ASSUME IInv, [Next]_vars PROVE IInv'
  OBVIOUS
<1>1. CASE UNCHANGED vars
  BY <1>1 DEF vars, IInv, TypeOK, LockInv, OwnNumber, RequestInv, TwiceIsShared,
              LiveIsSaved, ExchangesAreKept, Live, Key
<1>2. ASSUME NEW r \in Requests, Receive(r) \/ Enter(r) \/ Operate(r) PROVE IInv'
  BY <1>2, ReceiveStep, EnterStep, CreateStep, OverwriteStep, ResumeStep, FailureStep
     DEF Operate
<1>3. QED BY <1>1, <1>2, CrashStep DEF Next

\* The invariant the theorems below rest on.
THEOREM InductiveInvariant == Spec => []IInv
<1>1. QED BY InitStep, NextStep, PTL DEF Spec

\* Every reachable state has its types, and a key is only bound to a session that
\* has a file.
THEOREM TypeCorrect == Spec => []TypeOK
<1>1. IInv => TypeOK
  BY DEF IInv
<1>2. QED BY <1>1, InductiveInvariant, PTL

\* However operations fail and restarts fall, a key answers from what its
\* session's file holds.
THEOREM LiveIsSavedAlways == Spec => []LiveIsSaved
<1>1. IInv => LiveIsSaved
  BY DEF IInv
<1>2. QED BY <1>1, InductiveInvariant, PTL

\* WithSession serializes: no run's session is replaced under it.
THEOREM RunSeesItsSessionAlways == Spec => []RunSeesItsSession
<1>1. IInv => RunSeesItsSession
  BY DEF IInv, RequestInv, SeesInv, RunSeesItsSession, At, Live
<1>2. QED BY <1>1, InductiveInvariant, PTL

\* An exchange that was answered is in its session's file until the user takes it
\* out, for sessions that one key at a time answers from.
THEOREM ExchangesAreKeptAlways == Spec => []ExchangesAreKept
<1>1. IInv => ExchangesAreKept
  BY DEF IInv
<1>2. QED BY <1>1, InductiveInvariant, PTL

=============================================================================
