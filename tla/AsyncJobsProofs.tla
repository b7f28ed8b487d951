-------------------------- MODULE AsyncJobsProofs --------------------------
(***************************************************************************)
(* Proofs about AsyncJobs for every set of namespaces, entries, requests   *)
(* and admins, every script, every bound and every number of calls: first  *)
(* the store, its cancels, its bound and the lifecycle it implements, then *)
(* which poll of a job is served what, from one inductive invariant for    *)
(* the namespaces no reset overlaps, and what clients are promised.        *)
(***************************************************************************)
EXTENDS AsyncJobs, OperatorLemmas

-----------------------------------------------------------------------------
(* Operators *)

\* Identifiers carry the entry that minted them.
LEMMA JobIDFacts ==
    /\ \A id \in JobIDs : id[1] \in Entries
    /\ \A e \in Entries : \A i \in 0..(MaxCalls - 1) : JobID(e, i) \in JobIDs
    /\ JobIDs # {}
<1>1. \A id \in JobIDs : id[1] \in Entries
  BY DEF JobIDs, JobID
<1>2. \A e \in Entries : \A i \in 0..(MaxCalls - 1) : JobID(e, i) \in JobIDs
  BY DEF JobIDs
<1>3. JobIDs # {}
  <2>1. PICK e \in Entries : TRUE
    BY RegistryAssumption
  <2>2. 0 \in 0..(MaxCalls - 1)
    BY RegistryAssumption
  <2> QED
    BY <1>2, <2>1, <2>2
<1> QED
  BY <1>1, <1>2, <1>3

\* The record a miss returns is a job, and not a live one.
LEMMA NoJobType == NoJob \in Job /\ ~ NoJob.live
BY RegistryAssumption DEF NoJob, Job

\* A request at rest is well typed.
LEMMA IdleType == Idle \in Request /\ Idle.pc = "idle"
<1>1. (CHOOSE n \in Namespaces : TRUE) \in Namespaces
  BY JobsAssumption
<1>2. (CHOOSE id \in JobIDs : TRUE) \in JobIDs
  BY JobIDFacts
<1> QED
  BY <1>1, <1>2, NoJobType DEF Idle, Request, PCs

\* The store's methods keep a store a store.
LEMMA StoreTypes ==
    ASSUME NEW store \in [JobIDs -> Job], NEW id \in JobIDs
    PROVE  /\ \A e \in Entries : Create(store, id, e) \in [JobIDs -> Job]
           /\ \A i \in Nat : Advance(store, id, i) \in [JobIDs -> Job]
           /\ \A p \in Nat : MarkCancel(store, id, p) \in [JobIDs -> Job]
           /\ EmptyStore \in [JobIDs -> Job]
<1>1. \A e \in Entries : Create(store, id, e) \in [JobIDs -> Job]
  BY NoJobType DEF Create, Job
<1>2. \A i \in Nat : Advance(store, id, i) \in [JobIDs -> Job]
  BY DEF Advance, Job
<1>3. \A p \in Nat : MarkCancel(store, id, p) \in [JobIDs -> Job]
  BY DEF MarkCancel, Job
<1> QED
  BY <1>1, <1>2, <1>3, NoJobType DEF EmptyStore

\* A snapshot is a turn of one of the two scripts.
LEMMA SnapshotType ==
    ASSUME NEW e \in Entries, NEW job, NEW index
    PROVE  PollSnapshot(e, job, index) \in Snapshot
<1>1. \A at : selectTurn(Turns[e], at) \in Nat /\ selectTurn(CancelTurns[e], at) \in Nat
  BY SelectTurnRange, JobsAssumption
<1> QED
  BY <1>1 DEF PollSnapshot, Snapshot

\* Ending a cancel, or keeping a reading for its compare-and-set, keeps the
\* requests and the recorded answers well typed.
LEMMA ConcludeType ==
    ASSUME TypeOK, NEW r \in Requests, NEW job \in Job, NEW verdict, Conclude(r, job, verdict)
    PROVE  req' \in [Requests -> Request] /\ answered' \in [Namespaces -> SUBSET Served]
<1>1. req[r].ns \in Namespaces /\ req[r].id \in JobIDs /\ req[r].id[1] \in Entries
  BY JobIDFacts DEF TypeOK, Request
<1>2. PollSnapshot(req[r].id[1], job, job.polls) \in Snapshot
  BY <1>1, SnapshotType
<1>3. [id |-> req[r].id, index |-> job.polls,
       snap |-> PollSnapshot(req[r].id[1], job, job.polls)] \in Served
  BY <1>1, <1>2 DEF Served, Job
<1>4. answered' \in [Namespaces -> SUBSET Served]
  BY <1>1, <1>3 DEF Conclude, TypeOK
<1>5. req' \in [Requests -> Request]
  BY IdleType DEF Conclude, TypeOK
<1> QED
  BY <1>4, <1>5

\* So does one pass of CancelJob's loop over a reading of the job.
LEMMA JudgeType ==
    ASSUME TypeOK, NEW r \in Requests, NEW job \in Job, NEW tries \in Nat,
           NEW first \in Nat, Judge(r, job, tries, first)
    PROVE  req' \in [Requests -> Request] /\ answered' \in [Namespaces -> SUBSET Served]
<1> DEFINE verdict == CancelVerdict(req[r].id[1], job, req[r].commit)
<1>1. CASE verdict = "mark"
  <2>1. [req[r] EXCEPT !.pc = "mark", !.job = job, !.tries = tries, !.first = first] \in Request
    <3>1. req[r] \in Request
      BY DEF TypeOK
    <3> QED
      BY <3>1 DEF Request, PCs
  <2>2. req' \in [Requests -> Request]
    BY <1>1, <2>1 DEF Judge, TypeOK
  <2> QED
    BY <1>1, <2>2 DEF Judge, TypeOK
<1>2. CASE verdict # "mark"
  BY <1>2, ConcludeType DEF Judge
<1> QED
  BY <1>1, <1>2

-----------------------------------------------------------------------------
(* Type correctness *)

\* The initial stores, cursors and requests are well typed.
LEMMA TypeInit == Init => TypeOK
<1> SUFFICES ASSUME Init PROVE TypeOK
  OBVIOUS
<1>1. EmptyStore \in [JobIDs -> Job]
  BY NoJobType DEF EmptyStore
<1>2. 0 \in 0..MaxCalls
  BY RegistryAssumption
<1> QED
  BY <1>1, <1>2, IdleType DEF Init, TypeOK

\* Every step of a request or of a reset keeps the types.
LEMMA TypeStep == TypeOK /\ [Next]_vars => TypeOK'
<1> SUFFICES ASSUME TypeOK, [Next]_vars PROVE TypeOK'
  OBVIOUS
<1>1. ASSUME NEW r \in Requests, NEW ns \in Namespaces, NEW e \in Entries,
             ClaimCreate(r, ns, e)
      PROVE  TypeOK'
  <2>1. creates[ns][e] \in 0..(MaxCalls - 1)
    BY <1>1, RegistryAssumption DEF ClaimCreate, TypeOK
  <2>2. JobID(e, creates[ns][e]) \in JobIDs
    BY <2>1, JobIDFacts
  <2>3. creates' \in [Namespaces -> [Entries -> 0..MaxCalls]]
    BY <1>1, <2>1, RegistryAssumption DEF ClaimCreate, TypeOK
  <2>4. \A commit \in BOOLEAN :
          [Idle EXCEPT !.pc = "mint", !.ns = ns,
                       !.id = JobID(e, creates[ns][e]), !.commit = commit] \in Request
    BY <2>2, IdleType DEF Request, PCs
  <2>5. req' \in [Requests -> Request]
    BY <1>1, <2>4, IdleType DEF ClaimCreate, Start, TypeOK
  <2>6. straddled' \subseteq Namespaces
    BY <1>1 DEF ClaimCreate, Start, TypeOK
  <2> QED
    BY <1>1, <2>3, <2>5, <2>6 DEF ClaimCreate, TypeOK
<1>2. ASSUME NEW r \in Requests, StoreCreate(r) PROVE TypeOK'
  <2>1. req[r].ns \in Namespaces /\ req[r].id \in JobIDs /\ req[r].id[1] \in Entries
    BY JobIDFacts DEF TypeOK, Request
  <2>2. Create(jobs[req[r].ns], req[r].id, req[r].id[1]) \in [JobIDs -> Job]
    BY <2>1, StoreTypes DEF TypeOK
  <2> QED
    BY <1>2, <2>1, <2>2, IdleType DEF StoreCreate, TypeOK
<1>3. ASSUME NEW r \in Requests, NEW op \in {"poll", "cancel"}, NEW ns \in Namespaces,
             NEW e \in Entries, NEW id \in JobIDs, Resolve(r, op, ns, e, id)
      PROVE  TypeOK'
  <2>1. [Idle EXCEPT !.pc = op, !.ns = ns, !.id = id] \in Request
    BY IdleType DEF Request, PCs
  <2> QED
    BY <1>3, <2>1 DEF Resolve, Start, TypeOK
<1>4. ASSUME NEW r \in Requests, ClaimPoll(r) PROVE TypeOK'
  <2>1. req[r].ns \in Namespaces /\ req[r].id \in JobIDs
    BY DEF TypeOK, Request
  <2>2. polled[req[r].ns][req[r].id] \in Nat
    BY <2>1 DEF TypeOK
  <2>3. polled' \in [Namespaces -> [JobIDs -> Nat]]
    BY <1>4, <2>1, <2>2 DEF ClaimPoll, TypeOK
  <2>4. [req[r] EXCEPT !.pc = "advance", !.index = polled[req[r].ns][req[r].id]] \in Request
    <3>1. req[r] \in Request
      BY DEF TypeOK
    <3> QED
      BY <2>2, <3>1 DEF Request, PCs
  <2>5. req' \in [Requests -> Request]
    BY <1>4, <2>4 DEF ClaimPoll, TypeOK
  <2> QED
    BY <1>4, <2>3, <2>5 DEF ClaimPoll, TypeOK
<1>5. ASSUME NEW r \in Requests, AdvancePoll(r) PROVE TypeOK'
  <2> DEFINE ns == req[r].ns
             id == req[r].id
             after == Advance(jobs[ns], id, req[r].index)
             snap == PollSnapshot(id[1], after[id], req[r].index)
  <2>1. ns \in Namespaces /\ id \in JobIDs /\ id[1] \in Entries /\ req[r].index \in Nat
    BY JobIDFacts DEF TypeOK, Request
  <2>2. after \in [JobIDs -> Job]
    BY <2>1, StoreTypes DEF TypeOK
  <2>3. snap \in Snapshot
    BY <2>1, SnapshotType
  <2>4. [id |-> id, index |-> req[r].index, snap |-> snap] \in Served
    BY <2>1, <2>3 DEF Served
  <2> HIDE DEF ns, id, after, snap
  <2>5. /\ jobs' = [jobs EXCEPT ![ns] = after]
        /\ served' = [served EXCEPT ![ns] =
              @ \cup {[id |-> id, index |-> req[r].index, snap |-> snap]}]
        /\ req' = [req EXCEPT ![r] = Idle]
        /\ UNCHANGED <<creates, polled, admin, answered, straddled>>
    BY <1>5 DEF AdvancePoll, ns, id, after, snap
  <2> QED
    BY <2>1, <2>2, <2>4, <2>5, IdleType DEF TypeOK
<1>6. ASSUME NEW r \in Requests, ClaimCancel(r) PROVE TypeOK'
  <2>1. \A commit \in BOOLEAN :
          [req[r] EXCEPT !.pc = "lookup", !.commit = commit] \in Request
    BY DEF TypeOK, Request, PCs
  <2> QED
    BY <1>6, <2>1 DEF ClaimCancel, TypeOK
<1>7. ASSUME NEW r \in Requests, LookupCancel(r) PROVE TypeOK'
  <2> DEFINE job == jobs[req[r].ns][req[r].id]
  <2>1. job \in Job /\ job.polls \in Nat
    BY DEF TypeOK, Request, Job
  <2>2. Conclude(r, job, "not_found") \/ Judge(r, job, 0, job.polls)
    BY <1>7 DEF LookupCancel
  <2> HIDE DEF job
  <2>3. CASE Conclude(r, job, "not_found")
    BY <1>7, <2>1, <2>3, ConcludeType DEF LookupCancel, TypeOK
  <2>4. CASE Judge(r, job, 0, job.polls)
    <3>1. req' \in [Requests -> Request] /\ answered' \in [Namespaces -> SUBSET Served]
      BY <2>1, <2>4, JudgeType
    <3> QED
      BY <1>7, <3>1 DEF LookupCancel, TypeOK
  <2> QED
    BY <2>2, <2>3, <2>4
<1>8. ASSUME NEW r \in Requests, WriteCancel(r) PROVE TypeOK'
  <2> DEFINE ns == req[r].ns
             id == req[r].id
             result == MarkResult(jobs[ns], id, req[r].job.polls)
             after == MarkCancel(jobs[ns], id, req[r].job.polls)
  <2>1. /\ ns \in Namespaces /\ id \in JobIDs /\ req[r].job.polls \in Nat
        /\ req[r].tries \in Nat /\ req[r].first \in Nat
    BY DEF TypeOK, Request, Job
  <2>2. after \in [JobIDs -> Job] /\ after[id] \in Job
    <3>1. jobs[ns] \in [JobIDs -> Job]
      BY <2>1 DEF TypeOK
    <3>2. after \in [JobIDs -> Job]
      BY <2>1, <3>1, StoreTypes
    <3> QED
      BY <2>1, <3>2
  <2>3. result \in {"marked", "already_marked", "not_found", "position_moved"}
    BY DEF MarkResult
  <2> HIDE DEF ns, id, after, result
  <2>4. \/ \E verdict : Conclude(r, after[id], verdict)
        \/ Judge(r, after[id], req[r].tries + 1, req[r].first)
    BY <1>8, <2>3 DEF WriteCancel, ns, id, after, result
  <2>5. req' \in [Requests -> Request] /\ answered' \in [Namespaces -> SUBSET Served]
    <3>1. CASE \E verdict : Conclude(r, after[id], verdict)
      BY <2>1, <2>2, <3>1, ConcludeType
    <3>2. CASE Judge(r, after[id], req[r].tries + 1, req[r].first)
      <4>1. req[r].tries + 1 \in Nat
        BY <2>1
      <4> QED
        BY <2>1, <2>2, <3>2, <4>1, JudgeType
    <3> QED
      BY <2>4, <3>1, <3>2
  <2>6. jobs' \in [Namespaces -> [JobIDs -> Job]]
    <3>1. jobs' = [jobs EXCEPT ![ns] = after]
      BY <1>8 DEF WriteCancel, ns, id, after
    <3> QED
      BY <2>1, <2>2, <3>1 DEF TypeOK
  <2> QED
    BY <1>8, <2>5, <2>6 DEF WriteCancel, TypeOK
<1>9. ASSUME NEW a \in Admins, NEW scope \in Scopes, ResetCursors(a, scope) PROVE TypeOK'
  <2>1. scope \subseteq Namespaces
    BY DEF Scopes
  <2>2. creates' \in [Namespaces -> [Entries -> 0..MaxCalls]]
    BY <1>9, RegistryAssumption DEF ResetCursors, TypeOK
  <2>3. polled' \in [Namespaces -> [JobIDs -> Nat]]
    BY <1>9 DEF ResetCursors, TypeOK
  <2> QED
    BY <1>9, <2>1, <2>2, <2>3 DEF ResetCursors, TypeOK
<1>10. ASSUME NEW a \in Admins, ResetJobs(a) PROVE TypeOK'
  <2>1. EmptyStore \in [JobIDs -> Job]
    BY NoJobType DEF EmptyStore
  <2> QED
    BY <1>10, <2>1 DEF ResetJobs, TypeOK
<1>11. CASE UNCHANGED vars
  BY <1>11 DEF vars, TypeOK
<1> QED
  BY <1>1, <1>2, <1>3, <1>4, <1>5, <1>6, <1>7, <1>8, <1>9, <1>10, <1>11
  DEF Next, Continue

\* The store, the cursors, the requests and the history keep their types:
\* no index, poll count or cancel position ever leaves the naturals.
THEOREM TypeCorrect == Spec => []TypeOK
BY TypeInit, TypeStep, PTL DEF Spec
-----------------------------------------------------------------------------
(* A recorded cancel is one that was judged *)

\* What each method of the store may change.
LEMMA CreateFacts ==
    ASSUME NEW store \in [JobIDs -> Job], NEW id \in JobIDs, NEW e \in Entries
    PROVE  \/ Create(store, id, e) = store
           \/ /\ ~ store[id].live
              /\ ~ Full(store)
              /\ Create(store, id, e) =
                   [store EXCEPT ![id] = [NoJob EXCEPT !.live = TRUE, !.entry = e]]
BY DEF Create, CreateResult

\* Advance only raises a poll count: identities and cancels stay as they are.
LEMMA AdvanceFacts ==
    ASSUME NEW store \in [JobIDs -> Job], NEW id \in JobIDs, NEW i \in Nat, NEW j \in JobIDs
    PROVE  /\ Advance(store, id, i)[j].live = store[j].live
           /\ Advance(store, id, i)[j].cancelRequested = store[j].cancelRequested
           /\ Advance(store, id, i)[j].cancelAtPoll = store[j].cancelAtPoll
           /\ Advance(store, id, i)[j].polls >= store[j].polls
BY DEF Advance, Job

\* MarkCancel writes one job, at the position it was given, and only when it
\* still stands there uncancelled.
LEMMA MarkFacts ==
    ASSUME NEW store \in [JobIDs -> Job], NEW id \in JobIDs, NEW p \in Nat
    PROVE  \/ /\ MarkResult(store, id, p) # "marked"
              /\ MarkCancel(store, id, p) = store
           \/ /\ MarkResult(store, id, p) = "marked"
              /\ store[id].live /\ ~ store[id].cancelRequested /\ store[id].polls = p
              /\ MarkCancel(store, id, p) =
                   [store EXCEPT ![id].cancelRequested = TRUE, ![id].cancelAtPoll = p]
<1>1. MarkResult(store, id, p) = "marked" =>
        store[id].live /\ ~ store[id].cancelRequested /\ store[id].polls = p
  BY DEF MarkResult, Job
<1> QED
  BY <1>1 DEF MarkCancel

\* CancelJob goes on to write only what it may cancel.
LEMMA VerdictMark ==
    ASSUME NEW id, NEW job, NEW commit, CancelVerdict(id[1], job, commit) = "mark"
    PROVE  MayCancel(id, job.polls)
<1>1. ~ job.cancelRequested
  BY DEF CancelVerdict
<1>2. PollSnapshot(id[1], job, job.polls) =
        [script |-> "turns", turn |-> selectTurn(Turns[id[1]], job.polls)]
  BY <1>1 DEF PollSnapshot
<1>3. /\ selectTurn(Turns[id[1]], job.polls) # 0
      /\ ~ Terminal(id[1], PollSnapshot(id[1], job, job.polls))
      /\ selectTurn(CancelTurns[id[1]], 0) # 0
  BY <1>1, <1>2 DEF CancelVerdict
<1> QED
  BY <1>2, <1>3 DEF Terminal, TurnOf, MayCancel

\* The strengthening CancelSound needs: a request that is about to write holds
\* a position at which the job may be cancelled.
MarkJudged ==
    \A r \in Requests : req[r].pc = "mark" => MayCancel(req[r].id, req[r].job.polls)

CancelInv == TypeOK /\ CancelSound /\ MarkJudged

\* A cancel that ends leaves no reading behind to be written.
LEMMA ConcludeJudged ==
    ASSUME TypeOK, MarkJudged, NEW r \in Requests, NEW job, NEW verdict, Conclude(r, job, verdict)
    PROVE  MarkJudged'
BY IdleType DEF Conclude, MarkJudged, TypeOK, MayCancel

\* A cancel that goes on to write carries a reading judged cancellable.
LEMMA JudgeJudged ==
    ASSUME TypeOK, MarkJudged, NEW r \in Requests, NEW job \in Job, NEW tries \in Nat,
           NEW first \in Nat, Judge(r, job, tries, first)
    PROVE  MarkJudged'
<1> DEFINE verdict == CancelVerdict(req[r].id[1], job, req[r].commit)
<1>1. CASE verdict = "mark"
  <2>1. MayCancel(req[r].id, job.polls)
    BY <1>1, VerdictMark
  <2>2. req' = [req EXCEPT ![r] = [@ EXCEPT !.pc = "mark", !.job = job, !.tries = tries, !.first = first]]
    BY <1>1 DEF Judge
  <2> SUFFICES ASSUME NEW q \in Requests, req'[q].pc = "mark"
               PROVE  MayCancel(req'[q].id, req'[q].job.polls)
    BY DEF MarkJudged, MayCancel
  <2>3. CASE q = r
    <3>1. req'[q].id = req[r].id /\ req'[q].job = job
      BY <2>2, <2>3 DEF TypeOK, Request
    <3> QED
      BY <2>1, <3>1
  <2>4. CASE q # r
    BY <2>2, <2>4 DEF TypeOK, MarkJudged
  <2> QED
    BY <2>3, <2>4
<1>2. CASE verdict # "mark"
  BY <1>2, ConcludeJudged DEF Judge
<1> QED
  BY <1>1, <1>2

\* Every step keeps recorded cancels sound and pending ones judged.
LEMMA CancelStep == CancelInv /\ [Next]_vars => CancelInv'
<1> SUFFICES ASSUME CancelInv, [Next]_vars PROVE CancelInv'
  OBVIOUS
<1>0. TypeOK /\ TypeOK'
  BY TypeStep DEF CancelInv
<1> DEFINE Sound(job, id) == job.live /\ job.cancelRequested =>
                               job.cancelAtPoll <= job.polls /\ MayCancel(id, job.cancelAtPoll)
<1>s. \A ns \in Namespaces, id \in JobIDs : Sound(jobs[ns][id], id)
  BY DEF CancelInv, CancelSound
<1>t. ASSUME \A ns \in Namespaces, id \in JobIDs : Sound(jobs'[ns][id], id)
      PROVE  CancelSound'
  BY <1>t DEF CancelSound, MayCancel
<1>u. jobs' = jobs => CancelSound'
  BY DEF CancelInv, CancelSound, MayCancel
<1> HIDE DEF Sound
<1>1. ASSUME NEW r \in Requests, NEW ns \in Namespaces, NEW e \in Entries,
             ClaimCreate(r, ns, e)
      PROVE  CancelInv'
  <2>1. MarkJudged'
    <3>1. PICK commit \in BOOLEAN :
             req' = [req EXCEPT ![r] = IF commit THEN [Idle EXCEPT !.pc = "mint", !.ns = ns,
                                                         !.id = JobID(e, creates[ns][e]), !.commit = commit]
                                       ELSE Idle]
      BY <1>1 DEF ClaimCreate, Start
    <3>2. req'[r].pc # "mark"
      BY <1>0, <3>1, IdleType DEF TypeOK, Request
    <3>3. \A q \in Requests : q # r => req'[q] = req[q]
      BY <1>0, <3>1 DEF TypeOK
    <3> QED
      BY <3>2, <3>3 DEF CancelInv, MarkJudged, MayCancel
  <2> QED
    BY <1>0, <1>1, <1>u, <2>1 DEF ClaimCreate, CancelInv
<1>2. ASSUME NEW r \in Requests, StoreCreate(r) PROVE CancelInv'
  <2> DEFINE ns == req[r].ns
             id == req[r].id
  <2>1. ns \in Namespaces /\ id \in JobIDs /\ id[1] \in Entries
    BY <1>0, JobIDFacts DEF TypeOK, Request
  <2>2. jobs[ns] \in [JobIDs -> Job] /\ jobs' = [jobs EXCEPT ![ns] = Create(jobs[ns], id, id[1])]
    BY <1>0, <1>2, <2>1 DEF StoreCreate, TypeOK
  <2>3. ~ [NoJob EXCEPT !.live = TRUE, !.entry = id[1]].cancelRequested
    BY DEF NoJob
  <2>4. \A j \in JobIDs : Sound(Create(jobs[ns], id, id[1])[j], j)
    <3> DEFINE after == Create(jobs[ns], id, id[1])
               fresh == [NoJob EXCEPT !.live = TRUE, !.entry = id[1]]
    <3>1. after = jobs[ns] \/ after = [jobs[ns] EXCEPT ![id] = fresh]
      BY <2>1, <2>2, CreateFacts
    <3>2. \A j \in JobIDs : after[j] = jobs[ns][j] \/ after[j] = fresh
      BY <2>1, <2>2, <3>1
    <3>3. Sound(fresh, id) /\ \A j \in JobIDs : Sound(fresh, j)
      BY <2>3 DEF Sound
    <3> HIDE DEF after, fresh
    <3>4. \A j \in JobIDs : Sound(after[j], j)
      BY <1>s, <2>1, <3>2, <3>3
    <3> QED
      BY <3>4 DEF after
  <2>5. \A n \in Namespaces, j \in JobIDs : Sound(jobs'[n][j], j)
    BY <1>0, <1>s, <2>1, <2>2, <2>4 DEF TypeOK
  <2>6. MarkJudged'
    BY <1>0, <1>2, IdleType DEF StoreCreate, CancelInv, MarkJudged, TypeOK, MayCancel
  <2> QED
    BY <1>0, <1>t, <2>5, <2>6 DEF CancelInv
<1>3. ASSUME NEW r \in Requests, NEW op \in {"poll", "cancel"}, NEW ns \in Namespaces,
             NEW e \in Entries, NEW id \in JobIDs, Resolve(r, op, ns, e, id)
      PROVE  CancelInv'
  <2>1. MarkJudged'
    <3>1. req'[r].pc = op /\ \A q \in Requests : q # r => req'[q] = req[q]
      BY <1>0, <1>3, IdleType DEF Resolve, Start, TypeOK
    <3> QED
      BY <3>1 DEF CancelInv, MarkJudged, MayCancel
  <2> QED
    BY <1>0, <1>3, <1>u, <2>1 DEF Resolve, CancelInv
<1>4. ASSUME NEW r \in Requests, ClaimPoll(r) PROVE CancelInv'
  <2>1. MarkJudged'
    <3>1. req'[r].pc = "advance" /\ \A q \in Requests : q # r => req'[q] = req[q]
      BY <1>0, <1>4 DEF ClaimPoll, TypeOK, Request
    <3> QED
      BY <3>1 DEF CancelInv, MarkJudged, MayCancel
  <2> QED
    BY <1>0, <1>4, <1>u, <2>1 DEF ClaimPoll, CancelInv
<1>5. ASSUME NEW r \in Requests, AdvancePoll(r) PROVE CancelInv'
  <2> DEFINE ns == req[r].ns
             id == req[r].id
             after == Advance(jobs[ns], id, req[r].index)
  <2>1. ns \in Namespaces /\ id \in JobIDs /\ req[r].index \in Nat
    BY <1>0 DEF TypeOK, Request
  <2>2. jobs[ns] \in [JobIDs -> Job] /\ jobs' = [jobs EXCEPT ![ns] = after]
    BY <1>0, <1>5, <2>1 DEF AdvancePoll, TypeOK
  <2>3. after \in [JobIDs -> Job]
    BY <2>1, <2>2, StoreTypes
  <2>4. \A j \in JobIDs : /\ after[j].live = jobs[ns][j].live
                          /\ after[j].cancelRequested = jobs[ns][j].cancelRequested
                          /\ after[j].cancelAtPoll = jobs[ns][j].cancelAtPoll
                          /\ after[j].polls >= jobs[ns][j].polls
    BY <2>1, <2>2, AdvanceFacts
  <2> HIDE DEF after
  <2>5. \A j \in JobIDs : Sound(after[j], j)
    BY <1>s, <2>1, <2>2, <2>3, <2>4 DEF Sound, Job
  <2>6. \A n \in Namespaces, j \in JobIDs : Sound(jobs'[n][j], j)
    BY <1>0, <1>s, <2>1, <2>2, <2>5 DEF TypeOK
  <2>7. MarkJudged'
    BY <1>0, <1>5, IdleType DEF AdvancePoll, CancelInv, MarkJudged, TypeOK, MayCancel
  <2> QED
    BY <1>0, <1>t, <2>6, <2>7 DEF CancelInv
<1>6. ASSUME NEW r \in Requests, ClaimCancel(r) PROVE CancelInv'
  <2>1. MarkJudged'
    BY <1>0, <1>6, ZenonT(60) DEF ClaimCancel, CancelInv, MarkJudged, TypeOK, Request, MayCancel
  <2> QED
    BY <1>0, <1>6, <1>u, <2>1 DEF ClaimCancel, CancelInv
<1>7. ASSUME NEW r \in Requests, LookupCancel(r) PROVE CancelInv'
  <2> DEFINE job == jobs[req[r].ns][req[r].id]
  <2>1. job \in Job /\ job.polls \in Nat
    BY <1>0 DEF TypeOK, Request, Job
  <2>2. Conclude(r, job, "not_found") \/ Judge(r, job, 0, job.polls)
    BY <1>7 DEF LookupCancel
  <2> HIDE DEF job
  <2>3. MarkJudged'
    <3>1. CASE Conclude(r, job, "not_found")
      BY <1>0, <3>1, ConcludeJudged DEF CancelInv
    <3>2. CASE Judge(r, job, 0, job.polls)
      BY <1>0, <2>1, <3>2, JudgeJudged DEF CancelInv
    <3> QED
      BY <2>2, <3>1, <3>2
  <2> QED
    BY <1>0, <1>7, <1>u, <2>3 DEF LookupCancel, CancelInv
<1>8. ASSUME NEW r \in Requests, WriteCancel(r) PROVE CancelInv'
  <2> DEFINE ns == req[r].ns
             id == req[r].id
             p == req[r].job.polls
             result == MarkResult(jobs[ns], id, p)
             after == MarkCancel(jobs[ns], id, p)
  <2>1. ns \in Namespaces /\ id \in JobIDs /\ p \in Nat /\ req[r].tries \in Nat /\ req[r].first \in Nat
    BY <1>0 DEF TypeOK, Request, Job
  <2>2. jobs[ns] \in [JobIDs -> Job] /\ jobs' = [jobs EXCEPT ![ns] = after]
    BY <1>0, <1>8, <2>1 DEF WriteCancel, TypeOK
  <2>3. after \in [JobIDs -> Job] /\ after[id] \in Job
    BY <2>1, <2>2, StoreTypes
  <2>4. MayCancel(id, p)
    BY <1>8 DEF WriteCancel, CancelInv, MarkJudged
  <2>5. \/ after = jobs[ns]
        \/ /\ jobs[ns][id].polls = p
           /\ after = [jobs[ns] EXCEPT ![id].cancelRequested = TRUE, ![id].cancelAtPoll = p]
    <3>1. jobs[ns] \in [JobIDs -> Job]
      BY <2>2
    <3> HIDE DEF ns, id, p
    <3> QED
      BY <2>1, <3>1, MarkFacts
  <2>6. result \in {"marked", "already_marked", "not_found", "position_moved"}
    BY DEF MarkResult
  <2> HIDE DEF after, result
  <2>7. \A j \in JobIDs : Sound(after[j], j)
    <3>1. CASE after = jobs[ns]
      BY <1>s, <2>1, <3>1
    <3>2. CASE /\ jobs[ns][id].polls = p
               /\ after = [jobs[ns] EXCEPT ![id].cancelRequested = TRUE, ![id].cancelAtPoll = p]
      <4>1. after[id].polls = p /\ after[id].cancelAtPoll = p
        BY <2>1, <2>2, <3>2 DEF Job
      <4>2. Sound(after[id], id)
        BY <2>1, <2>4, <4>1 DEF Sound
      <4>3. \A j \in JobIDs : j # id => after[j] = jobs[ns][j]
        BY <2>1, <2>2, <3>2
      <4> QED
        BY <1>s, <2>1, <4>2, <4>3
    <3> QED
      BY <2>5, <3>1, <3>2
  <2>8. \A n \in Namespaces, j \in JobIDs : Sound(jobs'[n][j], j)
    <3>1. jobs'[ns] = after /\ \A n \in Namespaces : n # ns => jobs'[n] = jobs[n]
      BY <1>0, <2>1, <2>2 DEF TypeOK
    <3> QED
      BY <1>s, <2>7, <3>1
  <2>9. \/ \E verdict : Conclude(r, after[id], verdict)
        \/ Judge(r, after[id], req[r].tries + 1, req[r].first)
    BY <1>8, <2>6 DEF WriteCancel, after, result
  <2>10. MarkJudged'
    BY <1>0, <2>1, <2>3, <2>9, ConcludeJudged, JudgeJudged DEF CancelInv
  <2> QED
    BY <1>0, <1>t, <2>8, <2>10 DEF CancelInv
<1>9. ASSUME NEW a \in Admins, NEW scope \in Scopes, ResetCursors(a, scope) PROVE CancelInv'
  <2>1. MarkJudged'
    BY <1>9 DEF ResetCursors, CancelInv, MarkJudged, MayCancel
  <2> QED
    BY <1>0, <1>9, <1>u, <2>1 DEF ResetCursors, CancelInv
<1>10. ASSUME NEW a \in Admins, ResetJobs(a) PROVE CancelInv'
  <2>1. \A id \in JobIDs : ~ EmptyStore[id].live
    BY NoJobType DEF EmptyStore
  <2>2. \A n \in Namespaces, j \in JobIDs : Sound(jobs'[n][j], j)
    BY <1>10, <1>s, <2>1 DEF ResetJobs, Sound
  <2>3. MarkJudged'
    BY <1>10 DEF ResetJobs, CancelInv, MarkJudged, MayCancel
  <2> QED
    BY <1>0, <1>t, <2>2, <2>3 DEF CancelInv
<1>11. CASE UNCHANGED vars
  BY <1>0, <1>11 DEF vars, CancelInv, CancelSound, MarkJudged, MayCancel
<1> QED
  BY <1>1, <1>2, <1>3, <1>4, <1>5, <1>6, <1>7, <1>8, <1>9, <1>10, <1>11
  DEF Next, Continue

\* No cancel is recorded or about to be at first.
LEMMA CancelInit == Init => CancelInv
<1> SUFFICES ASSUME Init PROVE CancelInv
  OBVIOUS
<1>1. \A id \in JobIDs : ~ EmptyStore[id].live
  BY NoJobType DEF EmptyStore
<1>2. CancelSound
  BY <1>1 DEF Init, CancelSound
<1>3. MarkJudged
  BY IdleType DEF Init, MarkJudged
<1> QED
  BY TypeInit, <1>2, <1>3 DEF CancelInv

\* Every reachable state has the invariant a recorded cancel relies on.
LEMMA CancelInvariant == Spec => []CancelInv
BY CancelInit, CancelStep, PTL DEF Spec

\* However cancels race polls, other cancels and resets, a recorded cancel
\* stands at a position the job has reached and at which it was judged
\* cancellable: completion wins, and every later poll has a script.
THEOREM CancelIsSound == Spec => []CancelSound
<1>1. CancelInv => CancelSound
  BY DEF CancelInv
<1> QED
  BY <1>1, CancelInvariant, PTL

-----------------------------------------------------------------------------
(* The bound *)

\* A namespace's live records are finitely many and within the bound.
Bounded(store) == IsFiniteSet(Live(store)) /\ Cardinality(Live(store)) <= MaxJobs

BoundInv == TypeOK /\ \A ns \in Namespaces : Bounded(jobs[ns])

\* No method of the store takes a namespace past its bound.
LEMMA BoundedMethods ==
    ASSUME NEW store \in [JobIDs -> Job], Bounded(store), NEW id \in JobIDs
    PROVE  /\ \A e \in Entries : Bounded(Create(store, id, e))
           /\ \A i \in Nat : Bounded(Advance(store, id, i))
           /\ \A p \in Nat : Bounded(MarkCancel(store, id, p))
           /\ Bounded(EmptyStore)
<1>1. ASSUME NEW e \in Entries PROVE Bounded(Create(store, id, e))
  <2> DEFINE after == Create(store, id, e)
  <2>1. CASE after = store
    BY <2>1
  <2>2. CASE /\ ~ store[id].live /\ ~ Full(store)
             /\ after = [store EXCEPT ![id] = [NoJob EXCEPT !.live = TRUE, !.entry = e]]
    <3>1. [NoJob EXCEPT !.live = TRUE, !.entry = e].live
      BY DEF NoJob
    <3> HIDE DEF after
    <3>2. Live(after) = Live(store) \cup {id} /\ id \notin Live(store)
      BY <2>2, <3>1 DEF Live
    <3>3. IsFiniteSet(Live(after)) /\ Cardinality(Live(after)) = Cardinality(Live(store)) + 1
      BY <3>2, FS_AddElement DEF Bounded
    <3>4. Cardinality(Live(store)) \in Nat
      BY FS_CardinalityType DEF Bounded
    <3>5. Cardinality(Live(store)) < MaxJobs
      BY <2>2, <3>4, RegistryAssumption DEF Full
    <3>6. Bounded(after)
      BY <3>3, <3>4, <3>5, RegistryAssumption DEF Bounded
    <3> QED
      BY <3>6 DEF after
  <2> QED
    BY <2>1, <2>2, CreateFacts
<1>2. ASSUME NEW i \in Nat PROVE Bounded(Advance(store, id, i))
  <2>1. Live(Advance(store, id, i)) = Live(store)
    BY AdvanceFacts DEF Live
  <2> QED
    BY <2>1 DEF Bounded
<1>3. ASSUME NEW p \in Nat PROVE Bounded(MarkCancel(store, id, p))
  <2> DEFINE after == MarkCancel(store, id, p)
  <2>1. \A j \in JobIDs : after[j].live = store[j].live
    BY DEF MarkCancel, Job
  <2> HIDE DEF after
  <2>2. Live(after) = Live(store)
    BY <2>1 DEF Live
  <2>3. Bounded(after)
    BY <2>2 DEF Bounded
  <2> QED
    BY <2>3 DEF after
<1>4. Bounded(EmptyStore)
  <2>1. Live(EmptyStore) = {}
    BY NoJobType DEF Live, EmptyStore
  <2> QED
    BY <2>1, FS_EmptySet, RegistryAssumption DEF Bounded
<1> QED
  BY <1>1, <1>2, <1>3, <1>4

\* Every step keeps every namespace within its bound.
LEMMA BoundStep == BoundInv /\ [Next]_vars => BoundInv'
<1> SUFFICES ASSUME BoundInv, [Next]_vars PROVE BoundInv'
  OBVIOUS
<1>0. TypeOK /\ TypeOK' /\ \A ns \in Namespaces : Bounded(jobs[ns])
  BY TypeStep DEF BoundInv
<1>u. jobs' = jobs => BoundInv'
  BY <1>0 DEF BoundInv
<1>w. ASSUME NEW ns \in Namespaces, NEW store, Bounded(store), jobs' = [jobs EXCEPT ![ns] = store]
      PROVE  BoundInv'
  <2>1. \A n \in Namespaces : Bounded(jobs'[n])
    BY <1>0, <1>w DEF TypeOK
  <2> QED
    BY <1>0, <2>1 DEF BoundInv
<1>1. ASSUME NEW r \in Requests, StoreCreate(r) PROVE BoundInv'
  <2>1. req[r].ns \in Namespaces /\ req[r].id \in JobIDs /\ req[r].id[1] \in Entries
    BY <1>0, JobIDFacts DEF TypeOK, Request
  <2>2. Bounded(Create(jobs[req[r].ns], req[r].id, req[r].id[1]))
    BY <1>0, <2>1, BoundedMethods DEF TypeOK
  <2> QED
    BY <1>1, <1>w, <2>1, <2>2 DEF StoreCreate
<1>2. ASSUME NEW r \in Requests, AdvancePoll(r) PROVE BoundInv'
  <2>1. req[r].ns \in Namespaces /\ req[r].id \in JobIDs /\ req[r].index \in Nat
    BY <1>0 DEF TypeOK, Request
  <2>2. Bounded(Advance(jobs[req[r].ns], req[r].id, req[r].index))
    BY <1>0, <2>1, BoundedMethods DEF TypeOK
  <2> QED
    BY <1>2, <1>w, <2>1, <2>2 DEF AdvancePoll
<1>3. ASSUME NEW r \in Requests, WriteCancel(r) PROVE BoundInv'
  <2>1. req[r].ns \in Namespaces /\ req[r].id \in JobIDs /\ req[r].job.polls \in Nat
    BY <1>0 DEF TypeOK, Request, Job
  <2>2. Bounded(MarkCancel(jobs[req[r].ns], req[r].id, req[r].job.polls))
    BY <1>0, <2>1, BoundedMethods DEF TypeOK
  <2> QED
    BY <1>3, <1>w, <2>1, <2>2 DEF WriteCancel
<1>4. ASSUME NEW a \in Admins, ResetJobs(a) PROVE BoundInv'
  <2>1. Bounded(EmptyStore)
    <3>1. Live(EmptyStore) = {}
      BY NoJobType DEF Live, EmptyStore
    <3> QED
      BY <3>1, FS_EmptySet, RegistryAssumption DEF Bounded
  <2>2. \A n \in Namespaces : jobs'[n] = EmptyStore \/ jobs'[n] = jobs[n]
    BY <1>4 DEF ResetJobs
  <2>3. \A n \in Namespaces : Bounded(jobs'[n])
    BY <1>0, <2>1, <2>2
  <2> QED
    BY <1>0, <2>3 DEF BoundInv
<1>5. ASSUME \/ \E r \in Requests, ns \in Namespaces, e \in Entries : ClaimCreate(r, ns, e)
             \/ \E r \in Requests, op \in {"poll", "cancel"}, ns \in Namespaces,
                   e \in Entries, id \in JobIDs : Resolve(r, op, ns, e, id)
             \/ \E r \in Requests : ClaimPoll(r) \/ ClaimCancel(r) \/ LookupCancel(r)
             \/ \E a \in Admins, scope \in Scopes : ResetCursors(a, scope)
             \/ UNCHANGED vars
      PROVE  BoundInv'
  <2>1. jobs' = jobs
    BY <1>5 DEF ClaimCreate, Resolve, ClaimPoll, ClaimCancel, LookupCancel, ResetCursors, vars
  <2> QED
    BY <1>u, <2>1
<1> QED
  BY <1>1, <1>2, <1>3, <1>4, <1>5 DEF Next, Continue

\* No namespace holds a job at first.
LEMMA BoundInit == Init => BoundInv
<1> SUFFICES ASSUME Init PROVE BoundInv
  OBVIOUS
<1>1. Live(EmptyStore) = {}
  BY NoJobType DEF Live, EmptyStore
<1>2. Bounded(EmptyStore)
  BY <1>1, FS_EmptySet, RegistryAssumption DEF Bounded
<1> QED
  BY TypeInit, <1>2 DEF Init, BoundInv

\* Every reachable state has the store's records within the bound.
LEMMA BoundInvariant == Spec => []BoundInv
BY BoundInit, BoundStep, PTL DEF Spec

\* The job store refuses at its bound and never holds more than it: the check
\* and the insert of Create are one critical section.
THEOREM BoundIsHeld == Spec => []BoundHeld
<1>1. BoundInv => BoundHeld
  BY DEF BoundInv, BoundHeld, Bounded
<1> QED
  BY <1>1, BoundInvariant, PTL

-----------------------------------------------------------------------------
(* The store implements the lifecycle *)

\* A job as JobLifecycle sees it.
State(job) ==
    IF job.live
    THEN {[polls |-> job.polls,
           cancelled |-> IF job.cancelRequested THEN {job.cancelAtPoll} ELSE {}]}
    ELSE {}

\* The refinement mapping, one record at a time.
LEMMA RecordStates ==
    LifecycleRecord = [ns \in Namespaces |-> [id \in JobIDs |-> State(jobs[ns][id])]]
BY DEF LifecycleRecord, State

\* A step that writes one job writes one state of the lifecycle.
LEMMA RecordWrite ==
    ASSUME TypeOK, NEW ns \in Namespaces, NEW id \in JobIDs,
           \A n \in Namespaces, j \in JobIDs : n # ns \/ j # id => jobs'[n][j] = jobs[n][j]
    PROVE  /\ LifecycleRecord' = [LifecycleRecord EXCEPT ![ns][id] = State(jobs'[ns][id])]
           /\ LifecycleRecord[ns][id] = State(jobs[ns][id])
           /\ LifecycleRecord'[ns][id] = State(jobs'[ns][id])
<1>1. LifecycleRecord' = [n \in Namespaces |-> [j \in JobIDs |-> State(jobs'[n][j])]]
  BY DEF State, LifecycleRecord
<1>2. \A n \in Namespaces, j \in JobIDs :
         State(jobs'[n][j]) = IF n = ns /\ j = id THEN State(jobs'[ns][id]) ELSE State(jobs[n][j])
  OBVIOUS
<1> DEFINE after == [n \in Namespaces |-> [j \in JobIDs |-> State(jobs'[n][j])]]
           before == [n \in Namespaces |-> [j \in JobIDs |-> State(jobs[n][j])]]
<1>3. after = [before EXCEPT ![ns][id] = State(jobs'[ns][id])]
  <2>1. after = [n \in Namespaces |-> IF n = ns THEN [before[n] EXCEPT ![id] = State(jobs'[ns][id])]
                                     ELSE before[n]]
    BY <1>2
  <2> QED
    BY <2>1
<1>4. before[ns][id] = State(jobs[ns][id]) /\ after[ns][id] = State(jobs'[ns][id])
  OBVIOUS
<1> QED
  BY <1>1, <1>3, <1>4, RecordStates

\* The lifecycle counts as the store does.
LEMMA SameCardinality == \A S : Lifecycle!Cardinality(S) = Cardinality(S)
BY DEF Lifecycle!Cardinality, Cardinality

\* A job within the bound that is not there may be created.
LEMMA CreateMaps ==
    ASSUME BoundInv, NEW ns \in Namespaces, NEW id \in JobIDs, NEW e \in Entries,
           jobs' = [jobs EXCEPT ![ns] = Create(jobs[ns], id, e)]
    PROVE  Lifecycle!Create(ns, id) \/ LifecycleRecord' = LifecycleRecord
<1> DEFINE fresh == [NoJob EXCEPT !.live = TRUE, !.entry = e]
<1>1. TypeOK /\ jobs[ns] \in [JobIDs -> Job] /\ Bounded(jobs[ns])
  BY DEF BoundInv, TypeOK
<1>2. CASE Create(jobs[ns], id, e) = jobs[ns]
  <2>1. jobs' = jobs
    BY <1>1, <1>2 DEF TypeOK
  <2> QED
    BY <2>1 DEF LifecycleRecord
<1>3. CASE Create(jobs[ns], id, e) # jobs[ns]
  <2>1. /\ ~ jobs[ns][id].live /\ ~ Full(jobs[ns])
        /\ Create(jobs[ns], id, e) = [jobs[ns] EXCEPT ![id] = fresh]
    BY <1>3 DEF Create, CreateResult
  <2>2. State(fresh) = {[polls |-> 0, cancelled |-> {}]}
    BY DEF State, NoJob
  <2> HIDE DEF fresh
  <2>3. /\ LifecycleRecord' = [LifecycleRecord EXCEPT ![ns][id] = {[polls |-> 0, cancelled |-> {}]}]
        /\ LifecycleRecord[ns][id] = {}
    <3>1. /\ jobs'[ns][id] = fresh
          /\ \A n \in Namespaces, j \in JobIDs : n # ns \/ j # id => jobs'[n][j] = jobs[n][j]
      BY <1>1, <2>1 DEF TypeOK
    <3>2. State(jobs[ns][id]) = {}
      BY <2>1 DEF State
    <3> QED
      BY <1>1, <2>2, <3>1, <3>2, RecordWrite
  <2>4. {j \in JobIDs : LifecycleRecord[ns][j] # {}} = Live(jobs[ns])
    BY RecordStates DEF State, Live
  <2>5. Cardinality(Live(jobs[ns])) < MaxJobs
    BY <1>1, <2>1, FS_CardinalityType, RegistryAssumption DEF Bounded, Full
  <2> QED
    BY <2>3, <2>4, <2>5, SameCardinality DEF Lifecycle!Create, Lifecycle!Write
<1> QED
  BY <1>2, <1>3

\* A poll recorded moves the job forward, or was overtaken and changes nothing.
LEMMA PollMaps ==
    ASSUME TypeOK, NEW ns \in Namespaces, NEW id \in JobIDs, NEW i \in Nat,
           jobs' = [jobs EXCEPT ![ns] = Advance(jobs[ns], id, i)]
    PROVE  Lifecycle!Poll(ns, id) \/ LifecycleRecord' = LifecycleRecord
<1> DEFINE old == jobs[ns][id]
           new == [old EXCEPT !.polls = i + 1]
<1>1. old \in Job /\ jobs[ns] \in [JobIDs -> Job]
  BY DEF TypeOK
<1>2. CASE ~ (old.live /\ old.polls < i + 1)
  <2>1. jobs' = jobs
    BY <1>1, <1>2 DEF TypeOK, Advance
  <2> QED
    BY <2>1 DEF LifecycleRecord
<1>3. CASE old.live /\ old.polls < i + 1
  <2>1. Advance(jobs[ns], id, i) = [jobs[ns] EXCEPT ![id] = new]
    BY <1>1, <1>3 DEF Advance
  <2> DEFINE cancelled == IF old.cancelRequested THEN {old.cancelAtPoll} ELSE {}
             s == [polls |-> old.polls, cancelled |-> cancelled]
             t == [polls |-> i + 1, cancelled |-> cancelled]
  <2>2. State(old) = {s} /\ State(new) = {t}
    BY <1>1, <1>3 DEF State, Job
  <2> HIDE DEF new, old
  <2>3. /\ LifecycleRecord' = [LifecycleRecord EXCEPT ![ns][id] = {t}]
        /\ LifecycleRecord[ns][id] = {s}
        /\ LifecycleRecord'[ns][id] = {t}
    <3> HIDE DEF s, t
    <3>1. /\ jobs'[ns][id] = new
          /\ \A n \in Namespaces, j \in JobIDs : n # ns \/ j # id => jobs'[n][j] = jobs[n][j]
      BY <1>1, <2>1 DEF TypeOK
    <3> QED
      BY <2>2, <3>1, RecordWrite DEF old
  <2>4. t.polls > s.polls /\ t = [s EXCEPT !.polls = t.polls]
    BY <1>3
  <2> HIDE DEF s, t
  <2> QED
    BY <2>3, <2>4 DEF Lifecycle!Poll, Lifecycle!Write
<1> QED
  BY <1>2, <1>3

\* A recorded cancel is one atomic cancel at the position the job is at.
LEMMA CancelMaps ==
    ASSUME TypeOK, NEW ns \in Namespaces, NEW id \in JobIDs, NEW p \in Nat, MayCancel(id, p),
           jobs' = [jobs EXCEPT ![ns] = MarkCancel(jobs[ns], id, p)]
    PROVE  Lifecycle!Cancel(ns, id) \/ LifecycleRecord' = LifecycleRecord
<1> DEFINE old == jobs[ns][id]
           new == [old EXCEPT !.cancelRequested = TRUE, !.cancelAtPoll = p]
<1>1. old \in Job /\ jobs[ns] \in [JobIDs -> Job]
  BY DEF TypeOK
<1>2. CASE MarkCancel(jobs[ns], id, p) = jobs[ns]
  <2>1. jobs' = jobs
    BY <1>1, <1>2 DEF TypeOK
  <2> QED
    BY <2>1 DEF LifecycleRecord
<1>3. CASE /\ old.live /\ ~ old.cancelRequested /\ old.polls = p
           /\ MarkCancel(jobs[ns], id, p) =
                [jobs[ns] EXCEPT ![id].cancelRequested = TRUE, ![id].cancelAtPoll = p]
  <2>1. MarkCancel(jobs[ns], id, p) = [jobs[ns] EXCEPT ![id] = new]
    BY <1>1, <1>3
  <2> DEFINE s == [polls |-> p, cancelled |-> {}]
             t == [polls |-> p, cancelled |-> {p}]
  <2>2. State(old) = {s} /\ State(new) = {t}
    BY <1>1, <1>3 DEF State, Job
  <2> HIDE DEF new, old
  <2>3. /\ LifecycleRecord' = [LifecycleRecord EXCEPT ![ns][id] = {t}]
        /\ LifecycleRecord[ns][id] = {s}
    <3> HIDE DEF s, t
    <3>1. /\ jobs'[ns][id] = new
          /\ \A n \in Namespaces, j \in JobIDs : n # ns \/ j # id => jobs'[n][j] = jobs[n][j]
      BY <1>1, <2>1 DEF TypeOK
    <3> QED
      BY <2>2, <3>1, RecordWrite DEF old
  <2>4. s.cancelled = {} /\ s.polls = p /\ t = [s EXCEPT !.cancelled = {s.polls}]
    OBVIOUS
  <2> HIDE DEF s, t
  <2> QED
    BY <2>3, <2>4 DEF Lifecycle!Cancel, Lifecycle!Write
<1> QED
  BY <1>1, <1>2, <1>3, MarkFacts

\* Every step of a request or of an admin is one atomic operation of the
\* lifecycle on one job, a drop of whole namespaces, or nothing to it.
LEMMA LifecycleStep ==
    BoundInv /\ CancelInv /\ [Next]_vars => [Lifecycle!Next]_LifecycleRecord
<1> SUFFICES ASSUME BoundInv, CancelInv, [Next]_vars
             PROVE  Lifecycle!Next \/ LifecycleRecord' = LifecycleRecord
  OBVIOUS
<1>0. TypeOK
  BY DEF BoundInv
<1>u. jobs' = jobs => LifecycleRecord' = LifecycleRecord
  BY DEF LifecycleRecord
<1>1. ASSUME NEW r \in Requests, StoreCreate(r)
      PROVE  Lifecycle!Next \/ LifecycleRecord' = LifecycleRecord
  <2>1. req[r].ns \in Namespaces /\ req[r].id \in JobIDs /\ req[r].id[1] \in Entries
    BY <1>0, JobIDFacts DEF TypeOK, Request
  <2>2. jobs' = [jobs EXCEPT ![req[r].ns] = Create(jobs[req[r].ns], req[r].id, req[r].id[1])]
    BY <1>1 DEF StoreCreate
  <2> QED
    BY <2>1, <2>2, CreateMaps DEF Lifecycle!Next
<1>2. ASSUME NEW r \in Requests, AdvancePoll(r)
      PROVE  Lifecycle!Next \/ LifecycleRecord' = LifecycleRecord
  <2>1. req[r].ns \in Namespaces /\ req[r].id \in JobIDs /\ req[r].index \in Nat
    BY <1>0 DEF TypeOK, Request
  <2>2. jobs' = [jobs EXCEPT ![req[r].ns] = Advance(jobs[req[r].ns], req[r].id, req[r].index)]
    BY <1>2 DEF AdvancePoll
  <2> QED
    BY <1>0, <2>1, <2>2, PollMaps DEF Lifecycle!Next
<1>3. ASSUME NEW r \in Requests, WriteCancel(r)
      PROVE  Lifecycle!Next \/ LifecycleRecord' = LifecycleRecord
  <2>1. req[r].ns \in Namespaces /\ req[r].id \in JobIDs /\ req[r].job.polls \in Nat
    BY <1>0 DEF TypeOK, Request, Job
  <2>2. MayCancel(req[r].id, req[r].job.polls)
    BY <1>3 DEF WriteCancel, CancelInv, MarkJudged
  <2>3. jobs' = [jobs EXCEPT ![req[r].ns] = MarkCancel(jobs[req[r].ns], req[r].id, req[r].job.polls)]
    BY <1>3 DEF WriteCancel
  <2> QED
    BY <1>0, <2>1, <2>2, <2>3, CancelMaps DEF Lifecycle!Next
<1>4. ASSUME NEW a \in Admins, ResetJobs(a) PROVE Lifecycle!Next
  <2>1. admin[a] \in SUBSET Namespaces
    BY <1>0 DEF TypeOK
  <2>2. \A ns \in Namespaces, id \in JobIDs :
           State(jobs'[ns][id]) = IF ns \in admin[a] THEN {} ELSE State(jobs[ns][id])
    BY <1>4, NoJobType DEF ResetJobs, EmptyStore, State
  <2>3. LifecycleRecord' = [ns \in Namespaces |-> [id \in JobIDs |-> State(jobs'[ns][id])]]
    BY DEF LifecycleRecord, State
  <2>4. LifecycleRecord' = [ns \in Namespaces |->
                              IF ns \in admin[a] THEN [id \in JobIDs |-> {}] ELSE LifecycleRecord[ns]]
    BY <2>2, <2>3, RecordStates
  <2> QED
    BY <2>1, <2>4 DEF Lifecycle!Next, Lifecycle!Drop
<1>5. ASSUME \/ \E r \in Requests, ns \in Namespaces, e \in Entries : ClaimCreate(r, ns, e)
             \/ \E r \in Requests, op \in {"poll", "cancel"}, ns \in Namespaces,
                   e \in Entries, id \in JobIDs : Resolve(r, op, ns, e, id)
             \/ \E r \in Requests : ClaimPoll(r) \/ ClaimCancel(r) \/ LookupCancel(r)
             \/ \E a \in Admins, scope \in Scopes : ResetCursors(a, scope)
             \/ UNCHANGED vars
      PROVE  LifecycleRecord' = LifecycleRecord
  <2>1. jobs' = jobs
    BY <1>5 DEF ClaimCreate, Resolve, ClaimPoll, ClaimCancel, LookupCancel, ResetCursors, vars
  <2> QED
    BY <1>u, <2>1
<1> QED
  BY <1>1, <1>2, <1>3, <1>4, <1>5 DEF Next, Continue

\* Creates, polls and cancels that interleave at every access to shared state,
\* and resets that run beside them, amount to atomic creates within the bound,
\* polls that only move a job forward, single cancels at the position judged,
\* and drops of whole namespaces.
THEOREM LifecycleIsImplemented == Spec => ImplementsLifecycle
<1>1. Init => Lifecycle!Init
  BY NoJobType DEF Init, Lifecycle!Init, LifecycleRecord, EmptyStore
<1>2. Spec => []BoundInv
  BY BoundInvariant
<1>3. Spec => []CancelInv
  BY CancelInvariant
<1>4. Spec => Lifecycle!Spec
  BY <1>1, <1>2, <1>3, LifecycleStep, PTL DEF Spec, Lifecycle!Spec
<1> QED
  BY <1>4 DEF ImplementsLifecycle

-----------------------------------------------------------------------------
(* The state of a settled namespace *)

\* The request works on a job of the namespace that it found in the store.
Working(r, ns) ==
    /\ req[r].ns = ns
    /\ req[r].pc \in {"poll", "advance", "cancel", "lookup", "mark"}

\* The request has claimed a poll position of the job and not recorded it yet.
Holds(r, ns, id, i) ==
    req[r].pc = "advance" /\ req[r].ns = ns /\ req[r].id = id /\ req[r].index = i

\* The request is about to record a job under this identifier.
Minting(r, ns, id) == req[r].pc = "mint" /\ req[r].ns = ns /\ req[r].id = id

\* The job a request works on is in the store.
JobsLive(ns) == \A r \in Requests : Working(r, ns) => jobs[ns][req[r].id].live

\* A position is held only if it was claimed, by one poll, and was not served.
PositionsOwned(ns) ==
    \A id \in JobIDs, r \in Requests, i \in Nat : Holds(r, ns, id, i) =>
        /\ i < polled[ns][id]
        /\ \A q \in Requests : Holds(q, ns, id, i) => q = r
        /\ \A s \in served[ns] : s.id = id => s.index # i

\* The count on the record trails the lane by positions that are held.
PollsTrail(ns) ==
    \A id \in JobIDs :
        /\ jobs[ns][id].polls <= polled[ns][id]
        /\ ~ jobs[ns][id].live => polled[ns][id] = 0
        /\ \A i \in Nat : jobs[ns][id].polls <= i /\ i < polled[ns][id] =>
              \E r \in Requests : Holds(r, ns, id, i)

\* Every identifier minted, or about to be, comes from a claim of its own.
IDsClaimed(ns) ==
    \A e \in Entries, i \in 0..(MaxCalls - 1) :
        LET id == JobID(e, i)
        IN  /\ jobs[ns][id].live => i < creates[ns][e]
            /\ \A r \in Requests : Minting(r, ns, id) =>
                  /\ i < creates[ns][e]
                  /\ ~ jobs[ns][id].live
                  /\ \A q \in Requests : Minting(q, ns, id) => q = r

\* A cancel about to write read the job at a position it has not gone back
\* from, and has retried at most once for each poll that landed since it first did.
ReadingsOld(ns) ==
    \A r \in Requests : req[r].pc = "mark" /\ req[r].ns = ns =>
        /\ req[r].job.polls <= jobs[ns][req[r].id].polls
        /\ req[r].first + req[r].tries <= req[r].job.polls

\* What a poll was served is what the record still selects at its position.
ServedStands(ns, s) ==
    /\ jobs[ns][s.id].live
    /\ s.index < jobs[ns][s.id].polls
    /\ s.snap = PollSnapshot(s.id[1], jobs[ns][s.id], s.index)

\* So is what a cancel answered, and unless the job was cancelled it ends it.
AnswerStands(ns, a) ==
    /\ jobs[ns][a.id].live
    /\ a.index <= jobs[ns][a.id].polls
    /\ a.snap = PollSnapshot(a.id[1], jobs[ns][a.id], a.index)
    /\ ~ jobs[ns][a.id].cancelRequested => Terminal(a.id[1], a.snap)

HistoryStands(ns) ==
    /\ \A s \in served[ns] : ServedStands(ns, s)
    /\ \A a \in answered[ns] : AnswerStands(ns, a)

InOrder(ns) ==
    /\ JobsLive(ns)
    /\ PositionsOwned(ns)
    /\ PollsTrail(ns)
    /\ IDsClaimed(ns)
    /\ ReadingsOld(ns)
    /\ HistoryStands(ns)

\* Between the two steps of a clean reset the namespace is still: one admin
\* holds it, no request is in it, and its cursors stand at zero.
ResetStill(ns) ==
    /\ ~ InFlight(ns)
    /\ \A a, b \in Admins : ns \in admin[a] /\ ns \in admin[b] => a = b
    /\ \A e \in Entries : creates[ns][e] = 0
    /\ \A id \in JobIDs : polled[ns][id] = 0

PositionsInv ==
    /\ CancelInv
    /\ \A ns \in Namespaces : Settled(ns) => InOrder(ns)
    /\ \A ns \in Namespaces : ns \notin straddled /\ HalfReset(ns) => ResetStill(ns)

-----------------------------------------------------------------------------
(* What a step of a request leaves alone *)

\* A step of a request in flight moves that request only, to rest or on with
\* the same job, and touches no namespace but its own.
LEMMA ContinueFrame ==
    ASSUME TypeOK, NEW r \in Requests, Continue(r)
    PROVE  /\ req[r].pc # "idle"
           /\ \A q \in Requests : q # r => req'[q] = req[q]
           /\ \/ req'[r] = Idle
              \/ /\ req'[r].ns = req[r].ns /\ req'[r].id = req[r].id
                 /\ req'[r].pc \in {"advance", "lookup", "mark"}
           /\ creates' = creates /\ admin' = admin /\ straddled' = straddled
           /\ \A ns \in Namespaces : ns # req[r].ns =>
                 /\ jobs'[ns] = jobs[ns] /\ polled'[ns] = polled[ns]
                 /\ served'[ns] = served[ns] /\ answered'[ns] = answered[ns]
<1> DEFINE Framed ==
           /\ \A q \in Requests : q # r => req'[q] = req[q]
           /\ \/ req'[r] = Idle
              \/ /\ req'[r].ns = req[r].ns /\ req'[r].id = req[r].id
                 /\ req'[r].pc \in {"advance", "lookup", "mark"}
           /\ \A ns \in Namespaces : ns # req[r].ns => answered'[ns] = answered[ns]
<1>1. ASSUME NEW job, NEW verdict, Conclude(r, job, verdict) PROVE Framed
  BY <1>1 DEF Conclude, TypeOK
<1>2. ASSUME NEW job, NEW tries, NEW first, Judge(r, job, tries, first) PROVE Framed
  <2>1. CASE CancelVerdict(req[r].id[1], job, req[r].commit) = "mark"
    <3>1. /\ req' = [req EXCEPT ![r] = [@ EXCEPT !.pc = "mark", !.job = job, !.tries = tries, !.first = first]]
          /\ answered' = answered
      BY <1>2, <2>1 DEF Judge
    <3> QED
      BY <3>1 DEF TypeOK, Request
  <2>2. CASE CancelVerdict(req[r].id[1], job, req[r].commit) # "mark"
    BY <1>1, <1>2, <2>2 DEF Judge
  <2> QED
    BY <2>1, <2>2
<1> HIDE DEF Framed
<1>3. CASE StoreCreate(r)
  BY <1>3 DEF StoreCreate, TypeOK
<1>4. CASE ClaimPoll(r)
  BY <1>4 DEF ClaimPoll, TypeOK, Request
<1>5. CASE AdvancePoll(r)
  BY <1>5 DEF AdvancePoll, TypeOK
<1>6. CASE ClaimCancel(r)
  BY <1>6 DEF ClaimCancel, TypeOK, Request
<1>7. CASE LookupCancel(r)
  <2>1. Framed
    BY <1>1, <1>2, <1>7 DEF LookupCancel
  <2> QED
    BY <1>7, <2>1 DEF LookupCancel, Framed
<1>8. CASE WriteCancel(r)
  <2>1. MarkResult(jobs[req[r].ns], req[r].id, req[r].job.polls)
          \in {"marked", "already_marked", "not_found", "position_moved"}
    BY DEF MarkResult
  <2>2. Framed
    BY <1>1, <1>2, <1>8, <2>1 DEF WriteCancel
  <2>3. /\ req[r].pc = "mark"
        /\ jobs' = [jobs EXCEPT ![req[r].ns] =
                      MarkCancel(jobs[req[r].ns], req[r].id, req[r].job.polls)]
        /\ UNCHANGED <<creates, polled, admin, served, straddled>>
    BY <1>8 DEF WriteCancel
  <2>4. \A ns \in Namespaces : ns # req[r].ns => jobs'[ns] = jobs[ns]
    BY <2>3 DEF TypeOK
  <2> QED
    BY <2>2, <2>3, <2>4 DEF Framed
<1> QED
  BY <1>3, <1>4, <1>5, <1>6, <1>7, <1>8 DEF Continue

\* A request that starts is the only one to move, in its own namespace, and
\* marks that namespace if a reset of it is half done.
LEMMA StartFrame ==
    ASSUME TypeOK, NEW r \in Requests, NEW ns \in Namespaces, NEW new, Start(r, ns, new)
    PROVE  /\ req[r].pc = "idle" /\ req'[r] = new
           /\ \A q \in Requests : q # r => req'[q] = req[q]
           /\ straddled \subseteq straddled'
           /\ HalfReset(ns) => ns \in straddled'
BY DEF Start, TypeOK

\* A request of the namespace moves, or leaves it or enters it, with no poll
\* position in its hands before or after.
Moved(r, ns) ==
    /\ ~ (req[r].pc = "advance" /\ req[r].ns = ns)
    /\ ~ (req'[r].pc = "advance" /\ req'[r].ns = ns)
    /\ Working(r, ns)' => jobs[ns][req'[r].id].live
    /\ req'[r].pc = "mark" /\ req'[r].ns = ns =>
          /\ req'[r].job.polls <= jobs[ns][req'[r].id].polls
          /\ req'[r].first + req'[r].tries <= req'[r].job.polls

\* While requests only move, and the store stands, all but the minting of
\* identifiers stays in order.
LEMMA QuietStep ==
    ASSUME TypeOK, NEW ns \in Namespaces, InOrder(ns),
           jobs'[ns] = jobs[ns], polled'[ns] = polled[ns], served'[ns] = served[ns],
           \A a \in answered'[ns] : a \in answered[ns] \/ AnswerStands(ns, a),
           \A q \in Requests : req'[q] = req[q] \/ Moved(q, ns)
    PROVE  /\ JobsLive(ns)' /\ PositionsOwned(ns)' /\ PollsTrail(ns)'
           /\ ReadingsOld(ns)' /\ HistoryStands(ns)'
<1>1. JobsLive(ns)'
  BY DEF InOrder, JobsLive, Moved, Working
<1>2. \A q \in Requests, id \in JobIDs, i \in Nat : Holds(q, ns, id, i)' <=> Holds(q, ns, id, i)
  BY DEF Moved, Holds
<1>3. PositionsOwned(ns)'
  BY <1>2 DEF InOrder, PositionsOwned
<1>4. PollsTrail(ns)'
  BY <1>2 DEF InOrder, PollsTrail
<1>5. ReadingsOld(ns)'
  BY DEF InOrder, ReadingsOld, Moved
<1>6. HistoryStands(ns)'
  <2>1. \A s \in served'[ns] : ServedStands(ns, s)'
    BY DEF InOrder, HistoryStands, ServedStands, PollSnapshot
  <2>2. \A a : AnswerStands(ns, a) => AnswerStands(ns, a)'
    BY DEF AnswerStands, PollSnapshot, Terminal, TurnOf
  <2> QED
    BY <2>1, <2>2 DEF InOrder, HistoryStands
<1> QED
  BY <1>1, <1>3, <1>4, <1>5, <1>6

\* Identifiers stay claimed while no request starts or ends minting one.
LEMMA IDsKept ==
    ASSUME TypeOK, TypeOK', NEW ns \in Namespaces, IDsClaimed(ns),
           \A id \in JobIDs : jobs'[ns][id].live = jobs[ns][id].live,
           \A e \in Entries : creates'[ns][e] >= creates[ns][e],
           \A q \in Requests, id \in JobIDs : Minting(q, ns, id)' => Minting(q, ns, id)
    PROVE  IDsClaimed(ns)'
<1> SUFFICES ASSUME NEW e \in Entries, NEW i \in 0..(MaxCalls - 1)
             PROVE  /\ jobs'[ns][JobID(e, i)].live => i < creates'[ns][e]
                    /\ \A r \in Requests : Minting(r, ns, JobID(e, i))' =>
                          /\ i < creates'[ns][e]
                          /\ ~ jobs'[ns][JobID(e, i)].live
                          /\ \A q \in Requests : Minting(q, ns, JobID(e, i))' => q = r
  BY DEF IDsClaimed
<1>1. JobID(e, i) \in JobIDs
  BY JobIDFacts
<1>2. creates[ns][e] \in Nat /\ creates'[ns][e] \in Nat /\ i \in Nat
  BY DEF TypeOK
<1>3. creates'[ns][e] >= creates[ns][e]
  OBVIOUS
<1>4. i < creates[ns][e] => i < creates'[ns][e]
  BY <1>2, <1>3
<1> QED
  BY <1>1, <1>4 DEF IDsClaimed

\* A step in another namespace changes nothing here.
LEMMA ElsewhereKept ==
    ASSUME TypeOK, TypeOK', NEW ns \in Namespaces, InOrder(ns), NEW r \in Requests,
           \A q \in Requests : q # r => req'[q] = req[q],
           req[r].pc = "idle" \/ req[r].ns # ns,
           req'[r].pc = "idle" \/ req'[r].ns # ns,
           jobs'[ns] = jobs[ns], polled'[ns] = polled[ns], creates'[ns] = creates[ns],
           served'[ns] = served[ns], answered'[ns] = answered[ns]
    PROVE  InOrder(ns)'
<1>1. Moved(r, ns)
  BY DEF Moved, Working
<1>2. JobsLive(ns)' /\ PositionsOwned(ns)' /\ PollsTrail(ns)' /\ ReadingsOld(ns)' /\ HistoryStands(ns)'
  BY <1>1, QuietStep
<1>3. \A q \in Requests, id \in JobIDs : Minting(q, ns, id)' => Minting(q, ns, id)
  BY DEF Minting
<1>4. \A e \in Entries : creates'[ns][e] >= creates[ns][e]
  BY DEF TypeOK
<1>5. IDsClaimed(ns)'
  BY <1>3, <1>4, IDsKept DEF InOrder
<1> QED
  BY <1>2, <1>5 DEF InOrder

-----------------------------------------------------------------------------
(* Every action keeps a namespace in order *)

\* A create claims an index no other create of the entry has.
LEMMA ClaimCreateOrder ==
    ASSUME TypeOK, TypeOK', NEW ns \in Namespaces, InOrder(ns),
           NEW r \in Requests, NEW n \in Namespaces, NEW e \in Entries, ClaimCreate(r, n, e)
    PROVE  InOrder(ns)'
<1> DEFINE new == [Idle EXCEPT !.pc = "mint", !.ns = n, !.id = JobID(e, creates[n][e]),
                               !.commit = TRUE]
<1>1. /\ req[r].pc = "idle"
      /\ req'[r] = Idle \/ req'[r] = new
      /\ \A q \in Requests : q # r => req'[q] = req[q]
  BY DEF ClaimCreate, Start, TypeOK
<1>2. /\ Idle.pc = "idle"
      /\ new.pc = "mint" /\ new.ns = n /\ new.id = JobID(e, creates[n][e])
  BY IdleType DEF Request
<1> HIDE DEF new
<1>3. CASE n # ns
  <2>1. creates'[ns] = creates[ns]
    BY <1>3 DEF ClaimCreate, TypeOK
  <2>2. req'[r].pc = "idle" \/ req'[r].ns # ns
    BY <1>1, <1>2, <1>3
  <2> QED
    BY <1>1, <2>1, <2>2, ElsewhereKept DEF ClaimCreate
<1>4. CASE n = ns
  <2>1. Moved(r, ns)
    BY <1>1, <1>2, <1>4 DEF Moved, Working
  <2>2. JobsLive(ns)' /\ PositionsOwned(ns)' /\ PollsTrail(ns)' /\ ReadingsOld(ns)' /\ HistoryStands(ns)'
    BY <1>1, <2>1, QuietStep DEF ClaimCreate
  <2>3. \A f \in Entries : creates[ns][f] \in Nat /\ creates'[ns][f] \in Nat
    BY DEF TypeOK
  <2>4. /\ creates'[ns][e] = creates[ns][e] + 1
        /\ \A f \in Entries : f # e => creates'[ns][f] = creates[ns][f]
        /\ jobs' = jobs
    BY <1>4 DEF ClaimCreate, TypeOK
  <2>5. IDsClaimed(ns)'
    <3> SUFFICES ASSUME NEW f \in Entries, NEW i \in 0..(MaxCalls - 1)
                 PROVE  /\ jobs'[ns][JobID(f, i)].live => i < creates'[ns][f]
                        /\ \A p \in Requests : Minting(p, ns, JobID(f, i))' =>
                              /\ i < creates'[ns][f]
                              /\ ~ jobs'[ns][JobID(f, i)].live
                              /\ \A q \in Requests : Minting(q, ns, JobID(f, i))' => q = p
      BY DEF IDsClaimed
    <3>1. i \in Nat /\ (i < creates[ns][f] => i < creates'[ns][f])
      BY <2>3, <2>4
    <3>2. Minting(r, ns, JobID(f, i))' => f = e /\ i = creates[ns][e]
      BY <1>1, <1>2, <1>4 DEF Minting, JobID
    <3>3. f = e /\ i = creates[ns][e] =>
             i < creates'[ns][f] /\ ~ (i < creates[ns][f])
      BY <2>3, <2>4
    <3>4. \A q \in Requests : q # r => (Minting(q, ns, JobID(f, i))' <=> Minting(q, ns, JobID(f, i)))
      BY <1>1 DEF Minting
    <3>5. /\ jobs[ns][JobID(f, i)].live => i < creates[ns][f]
          /\ \A p \in Requests : Minting(p, ns, JobID(f, i)) =>
                /\ i < creates[ns][f]
                /\ ~ jobs[ns][JobID(f, i)].live
                /\ \A q \in Requests : Minting(q, ns, JobID(f, i)) => q = p
      BY DEF InOrder, IDsClaimed
    <3>6. jobs'[ns][JobID(f, i)].live => i < creates'[ns][f]
      BY <2>4, <3>1, <3>5
    <3>7. ASSUME NEW p \in Requests, Minting(p, ns, JobID(f, i))'
          PROVE  /\ i < creates'[ns][f]
                 /\ ~ jobs'[ns][JobID(f, i)].live
                 /\ \A q \in Requests : Minting(q, ns, JobID(f, i))' => q = p
      <4>1. CASE p = r
        BY <2>4, <3>2, <3>3, <3>4, <3>5, <3>7, <4>1
      <4>2. CASE p # r
        BY <2>4, <3>1, <3>2, <3>3, <3>4, <3>5, <3>7, <4>2
      <4> QED
        BY <4>1, <4>2
    <3> QED
      BY <3>6, <3>7
  <2> QED
    BY <2>2, <2>5 DEF InOrder
<1> QED
  BY <1>3, <1>4

\* A job just recorded has no poll claimed: its lane is at zero.
LEMMA StoreCreateOrder ==
    ASSUME TypeOK, TypeOK', NEW ns \in Namespaces, InOrder(ns),
           NEW r \in Requests, StoreCreate(r), req[r].ns = ns
    PROVE  InOrder(ns)'
<1> DEFINE id == req[r].id
           fresh == [NoJob EXCEPT !.live = TRUE, !.entry = id[1]]
<1>1. id \in JobIDs /\ id[1] \in Entries /\ Minting(r, ns, id)
  BY JobIDFacts DEF TypeOK, Request, StoreCreate, Minting
<1>2. /\ jobs'[ns] = Create(jobs[ns], id, id[1])
      /\ req'[r] = Idle /\ \A q \in Requests : q # r => req'[q] = req[q]
      /\ creates' = creates /\ polled' = polled /\ served' = served /\ answered' = answered
  BY DEF StoreCreate, TypeOK
<1>3. Moved(r, ns)
  BY <1>2, IdleType DEF Moved, Working, StoreCreate
<1>4. \A q \in Requests, j \in JobIDs : Minting(q, ns, j)' => Minting(q, ns, j) /\ q # r
  BY <1>2, IdleType DEF Minting
<1>5. \A e \in Entries : creates'[ns][e] >= creates[ns][e]
  BY <1>2 DEF TypeOK
<1>6. CASE jobs'[ns] = jobs[ns]
  <2>1. JobsLive(ns)' /\ PositionsOwned(ns)' /\ PollsTrail(ns)' /\ ReadingsOld(ns)' /\ HistoryStands(ns)'
    BY <1>2, <1>3, <1>6, QuietStep
  <2>2. IDsClaimed(ns)'
    BY <1>4, <1>5, <1>6, IDsKept DEF InOrder
  <2> QED
    BY <2>1, <2>2 DEF InOrder
<1>7. CASE ~ jobs[ns][id].live /\ jobs'[ns] = [jobs[ns] EXCEPT ![id] = fresh]
  <2>1. /\ jobs'[ns][id] = fresh
        /\ \A j \in JobIDs : j # id => jobs'[ns][j] = jobs[ns][j]
    BY <1>1, <1>7 DEF TypeOK
  <2>2. fresh.live /\ fresh.polls = 0
    BY DEF NoJob
  <2>3. \A j \in JobIDs : jobs[ns][j].live => jobs'[ns][j] = jobs[ns][j]
    BY <1>7, <2>1
  <2> HIDE DEF id, fresh
  <2>4. JobsLive(ns)'
    <3>1. \A q \in Requests : req'[q].id \in JobIDs /\ (Working(q, ns)' => req'[q] = req[q] /\ Working(q, ns))
      BY <1>2, IdleType DEF Working, TypeOK, Request
    <3> QED
      BY <2>3, <3>1 DEF InOrder, JobsLive
  <2>5. \A q \in Requests, j \in JobIDs, i \in Nat : Holds(q, ns, j, i)' <=> Holds(q, ns, j, i)
    BY <1>2, IdleType DEF Holds, StoreCreate
  <2>6. PositionsOwned(ns)'
    BY <1>2, <2>5 DEF InOrder, PositionsOwned
  <2>7. PollsTrail(ns)'
    <3>1. polled[ns][id] = 0
      BY <1>1, <1>7 DEF InOrder, PollsTrail
    <3>2. \A j \in JobIDs : polled[ns][j] \in Nat
      BY DEF TypeOK
    <3> SUFFICES ASSUME NEW j \in JobIDs
                 PROVE  /\ jobs'[ns][j].polls <= polled[ns][j]
                        /\ ~ jobs'[ns][j].live => polled[ns][j] = 0
                        /\ \A i \in Nat : jobs'[ns][j].polls <= i /\ i < polled[ns][j] =>
                              \E q \in Requests : Holds(q, ns, j, i)
      BY <1>2, <2>5 DEF PollsTrail
    <3>3. CASE j = id
      BY <2>1, <2>2, <3>1, <3>3
    <3>4. CASE j # id
      BY <2>1, <3>4 DEF InOrder, PollsTrail
    <3> QED
      BY <3>3, <3>4
  <2>8. IDsClaimed(ns)'
    <3> SUFFICES ASSUME NEW f \in Entries, NEW i \in 0..(MaxCalls - 1)
                 PROVE  /\ jobs'[ns][JobID(f, i)].live => i < creates[ns][f]
                        /\ \A p \in Requests : Minting(p, ns, JobID(f, i))' =>
                              /\ i < creates[ns][f]
                              /\ ~ jobs'[ns][JobID(f, i)].live
                              /\ \A q \in Requests : Minting(q, ns, JobID(f, i))' => q = p
      BY <1>2 DEF IDsClaimed
    <3>1. JobID(f, i) \in JobIDs
      BY JobIDFacts
    <3>2. /\ jobs[ns][JobID(f, i)].live => i < creates[ns][f]
          /\ \A p \in Requests : Minting(p, ns, JobID(f, i)) =>
                /\ i < creates[ns][f]
                /\ ~ jobs[ns][JobID(f, i)].live
                /\ \A q \in Requests : Minting(q, ns, JobID(f, i)) => q = p
      BY DEF InOrder, IDsClaimed
    <3>3. CASE JobID(f, i) = id
      BY <1>1, <1>4, <3>1, <3>2, <3>3
    <3>4. CASE JobID(f, i) # id
      BY <1>4, <2>1, <3>1, <3>2, <3>4
    <3> QED
      BY <3>3, <3>4
  <2>9. ReadingsOld(ns)'
    <3>1. \A q \in Requests : req'[q].pc = "mark" /\ req'[q].ns = ns =>
             req'[q] = req[q] /\ req[q].id \in JobIDs /\ jobs[ns][req[q].id].live
      BY <1>2, IdleType DEF InOrder, JobsLive, Working, TypeOK, Request
    <3> QED
      BY <2>3, <3>1 DEF InOrder, ReadingsOld
  <2>10. HistoryStands(ns)'
    <3>1. \A s \in served[ns] : s.id \in JobIDs /\ jobs'[ns][s.id] = jobs[ns][s.id]
      BY <2>3 DEF InOrder, HistoryStands, ServedStands, TypeOK, Served
    <3>2. \A a \in answered[ns] : a.id \in JobIDs /\ jobs'[ns][a.id] = jobs[ns][a.id]
      BY <2>3 DEF InOrder, HistoryStands, AnswerStands, TypeOK, Served
    <3>3. \A s \in served[ns] : ServedStands(ns, s)'
      BY <3>1 DEF InOrder, HistoryStands, ServedStands, PollSnapshot
    <3>4. \A a \in answered[ns] : AnswerStands(ns, a)'
      BY <3>2 DEF InOrder, HistoryStands, AnswerStands, PollSnapshot, Terminal, TurnOf
    <3> QED
      BY <1>2, <3>3, <3>4 DEF HistoryStands
  <2> QED
    BY <2>4, <2>6, <2>7, <2>8, <2>9, <2>10 DEF InOrder
<1>8. jobs[ns] \in [JobIDs -> Job]
  BY DEF TypeOK
<1>9. \/ jobs'[ns] = jobs[ns]
      \/ ~ jobs[ns][id].live /\ jobs'[ns] = [jobs[ns] EXCEPT ![id] = fresh]
  <2>1. \/ Create(jobs[ns], id, id[1]) = jobs[ns]
        \/ /\ ~ jobs[ns][id].live
           /\ Create(jobs[ns], id, id[1]) = [jobs[ns] EXCEPT ![id] = fresh]
    BY DEF Create, CreateResult
  <2> QED
    BY <1>2, <2>1
<1> QED
  BY <1>6, <1>7, <1>9

\* A request starts on a job it found in the store.
LEMMA ResolveOrder ==
    ASSUME TypeOK, TypeOK', NEW ns \in Namespaces, InOrder(ns),
           NEW r \in Requests, NEW op \in {"poll", "cancel"}, NEW n \in Namespaces,
           NEW e \in Entries, NEW id \in JobIDs, Resolve(r, op, n, e, id)
    PROVE  InOrder(ns)'
<1> DEFINE new == [Idle EXCEPT !.pc = op, !.ns = n, !.id = id]
<1>1. /\ req[r].pc = "idle" /\ req'[r] = new
      /\ \A q \in Requests : q # r => req'[q] = req[q]
      /\ jobs' = jobs /\ creates' = creates /\ polled' = polled
      /\ served' = served /\ answered' = answered /\ jobs[n][id].live
  BY DEF Resolve, Start, TypeOK
<1>2. new.pc = op /\ new.ns = n /\ new.id = id
  BY IdleType DEF Request
<1> HIDE DEF new
<1>3. CASE n # ns
  BY <1>1, <1>2, <1>3, ElsewhereKept
<1>4. CASE n = ns
  <2>1. Moved(r, ns)
    BY <1>1, <1>2, <1>4 DEF Moved, Working
  <2>2. JobsLive(ns)' /\ PositionsOwned(ns)' /\ PollsTrail(ns)' /\ ReadingsOld(ns)' /\ HistoryStands(ns)'
    BY <1>1, <2>1, QuietStep
  <2>3. \A q \in Requests, j \in JobIDs : Minting(q, ns, j)' => Minting(q, ns, j)
    BY <1>1, <1>2 DEF Minting
  <2>4. \A f \in Entries : creates'[ns][f] >= creates[ns][f]
    BY <1>1 DEF TypeOK
  <2>5. IDsClaimed(ns)'
    BY <1>1, <2>3, <2>4, IDsKept DEF InOrder
  <2> QED
    BY <2>2, <2>5 DEF InOrder
<1> QED
  BY <1>3, <1>4

\* A poll that claims holds the lane's next position, which no poll had.
LEMMA ClaimPollOrder ==
    ASSUME TypeOK, TypeOK', NEW ns \in Namespaces, InOrder(ns),
           NEW r \in Requests, ClaimPoll(r), req[r].ns = ns
    PROVE  InOrder(ns)'
<1> DEFINE id == req[r].id
           next == polled[ns][id]
<1>1. id \in JobIDs /\ next \in Nat /\ jobs[ns][id].live /\ jobs[ns][id].polls \in Nat
  BY DEF TypeOK, Request, Job, InOrder, JobsLive, Working, ClaimPoll
<1>2. /\ req[r].pc = "poll"
      /\ req'[r].pc = "advance" /\ req'[r].ns = ns /\ req'[r].id = id /\ req'[r].index = next
      /\ \A q \in Requests : q # r => req'[q] = req[q]
      /\ jobs' = jobs /\ creates' = creates /\ served' = served /\ answered' = answered
  BY DEF ClaimPoll, TypeOK, Request
<1>3. /\ polled'[ns][id] = next + 1
      /\ \A j \in JobIDs : j # id => polled'[ns][j] = polled[ns][j]
  BY <1>1 DEF ClaimPoll, TypeOK
<1>4. \A j \in JobIDs : polled[ns][j] \in Nat /\ polled'[ns][j] \in Nat /\ polled'[ns][j] >= polled[ns][j]
  <2>1. \A j \in JobIDs : polled[ns][j] \in Nat /\ polled'[ns][j] \in Nat
    BY DEF TypeOK
  <2> HIDE DEF next
  <2>2. ASSUME NEW j \in JobIDs PROVE polled'[ns][j] >= polled[ns][j]
    <3>1. CASE j = id
      BY <1>1, <1>3, <3>1 DEF next
    <3>2. CASE j # id
      BY <1>3, <2>1, <3>2
    <3> QED
      BY <3>1, <3>2
  <2> QED
    BY <2>1, <2>2
<1> HIDE DEF id, next
<1>5. \A q \in Requests, j \in JobIDs, i \in Nat :
         Holds(q, ns, j, i)' <=> \/ Holds(q, ns, j, i)
                                 \/ q = r /\ j = id /\ i = next
  BY <1>1, <1>2 DEF Holds
<1>6. JobsLive(ns)'
  BY <1>1, <1>2 DEF InOrder, JobsLive, Working
<1>7. PositionsOwned(ns)'
  <2>1. \A q \in Requests, j \in JobIDs, i \in Nat : Holds(q, ns, j, i) => i < polled[ns][j]
    BY DEF InOrder, PositionsOwned
  <2>2. ~ \E q \in Requests : Holds(q, ns, id, next)
    BY <1>1, <2>1 DEF next
  <2>3. \A s \in served[ns] : s.id = id => s.index # next
    <3>1. \A s \in served[ns] : s.id = id => s.index \in Nat /\ s.index < jobs[ns][id].polls
      BY DEF InOrder, HistoryStands, ServedStands, TypeOK, Served
    <3>2. jobs[ns][id].polls <= next
      BY <1>1 DEF InOrder, PollsTrail, next
    <3> QED
      BY <1>1, <3>1, <3>2
  <2> SUFFICES ASSUME NEW j \in JobIDs, NEW p \in Requests, NEW i \in Nat, Holds(p, ns, j, i)'
               PROVE  /\ i < polled'[ns][j]
                      /\ \A q \in Requests : Holds(q, ns, j, i)' => q = p
                      /\ \A s \in served'[ns] : s.id = j => s.index # i
    BY DEF PositionsOwned
  <2>4. CASE p = r /\ j = id /\ i = next
    BY <1>1, <1>2, <1>3, <1>5, <2>2, <2>3, <2>4
  <2>5. CASE Holds(p, ns, j, i)
    <3>1. /\ i < polled[ns][j]
          /\ \A q \in Requests : Holds(q, ns, j, i) => q = p
          /\ \A s \in served[ns] : s.id = j => s.index # i
      BY <2>5 DEF InOrder, PositionsOwned
    <3>2. ~ (j = id /\ i = next)
      BY <2>2, <2>5
    <3>3. i < polled'[ns][j]
      BY <1>4, <3>1
    <3> QED
      BY <1>2, <1>5, <3>1, <3>2, <3>3
  <2> QED
    BY <1>5, <2>4, <2>5
<1>8. PollsTrail(ns)'
  <2> SUFFICES ASSUME NEW j \in JobIDs
               PROVE  /\ jobs[ns][j].polls <= polled'[ns][j]
                      /\ ~ jobs[ns][j].live => polled'[ns][j] = 0
                      /\ \A i \in Nat : jobs[ns][j].polls <= i /\ i < polled'[ns][j] =>
                            \E q \in Requests : Holds(q, ns, j, i)'
    BY <1>2 DEF PollsTrail
  <2>1. /\ jobs[ns][j].polls <= polled[ns][j]
        /\ ~ jobs[ns][j].live => polled[ns][j] = 0
        /\ \A i \in Nat : jobs[ns][j].polls <= i /\ i < polled[ns][j] =>
              \E q \in Requests : Holds(q, ns, j, i)
    BY DEF InOrder, PollsTrail
  <2>2. jobs[ns][j].polls \in Nat
    BY DEF TypeOK, Job
  <2>3. jobs[ns][j].polls <= polled'[ns][j]
    BY <1>4, <2>1, <2>2
  <2>4. ~ jobs[ns][j].live => polled'[ns][j] = 0
    BY <1>1, <1>3, <2>1
  <2>5. ASSUME NEW i \in Nat, jobs[ns][j].polls <= i, i < polled'[ns][j]
        PROVE  \E q \in Requests : Holds(q, ns, j, i)'
    <3>1. i < polled[ns][j] \/ (j = id /\ i = next)
      BY <1>1, <1>3, <1>4, <2>5 DEF next
    <3> QED
      BY <1>5, <2>1, <2>5, <3>1
  <2> QED
    BY <2>3, <2>4, <2>5
<1>9. IDsClaimed(ns)'
  <2>1. \A q \in Requests, j \in JobIDs : Minting(q, ns, j)' => Minting(q, ns, j)
    BY <1>2 DEF Minting
  <2>2. \A f \in Entries : creates'[ns][f] >= creates[ns][f]
    BY <1>2 DEF TypeOK
  <2> QED
    BY <1>2, <2>1, <2>2, IDsKept DEF InOrder
<1>10. ReadingsOld(ns)'
  BY <1>2 DEF InOrder, ReadingsOld
<1>11. HistoryStands(ns)'
  BY <1>2 DEF InOrder, HistoryStands, ServedStands, AnswerStands, PollSnapshot, Terminal, TurnOf
<1> QED
  BY <1>6, <1>7, <1>8, <1>9, <1>10, <1>11 DEF InOrder

\* What a poll is served depends on the record through its cancel alone.
LEMMA SameCancelSameSnapshot ==
    ASSUME NEW e, NEW job, NEW other, NEW index,
           other.cancelRequested = job.cancelRequested, other.cancelAtPoll = job.cancelAtPoll
    PROVE  PollSnapshot(e, other, index) = PollSnapshot(e, job, index)
BY DEF PollSnapshot

\* A poll that records hands its position over to the history.
LEMMA AdvancePollOrder ==
    ASSUME TypeOK, TypeOK', NEW ns \in Namespaces, InOrder(ns),
           NEW r \in Requests, AdvancePoll(r), req[r].ns = ns
    PROVE  InOrder(ns)'
<1> DEFINE id == req[r].id
           index == req[r].index
           after == Advance(jobs[ns], id, index)
           new == [id |-> id, index |-> index, snap |-> PollSnapshot(id[1], after[id], index)]
<1>1. /\ id \in JobIDs /\ index \in Nat /\ jobs[ns] \in [JobIDs -> Job]
      /\ Holds(r, ns, id, index) /\ jobs[ns][id].live /\ jobs[ns][id] \in Job
  BY DEF TypeOK, Request, InOrder, JobsLive, Working, AdvancePoll, Holds
<1>2. /\ jobs'[ns] = after /\ served'[ns] = served[ns] \cup {new}
      /\ req'[r] = Idle /\ \A q \in Requests : q # r => req'[q] = req[q]
      /\ creates' = creates /\ polled' = polled /\ answered' = answered
  BY DEF AdvancePoll, TypeOK
<1>3. \A j \in JobIDs : /\ after[j].live = jobs[ns][j].live
                        /\ after[j].cancelRequested = jobs[ns][j].cancelRequested
                        /\ after[j].cancelAtPoll = jobs[ns][j].cancelAtPoll
                        /\ after[j].polls >= jobs[ns][j].polls
                        /\ after[j].polls \in Nat /\ jobs[ns][j].polls \in Nat
  <2>1. after \in [JobIDs -> Job]
    BY <1>1, StoreTypes
  <2> HIDE DEF after
  <2>2. \A j \in JobIDs : after[j].polls \in Nat /\ jobs[ns][j].polls \in Nat
    BY <1>1, <2>1 DEF Job
  <2> QED
    BY <1>1, <2>2, AdvanceFacts DEF after
<1>4. /\ \A j \in JobIDs : j # id => after[j] = jobs[ns][j]
      /\ after[id].polls = IF jobs[ns][id].polls < index + 1 THEN index + 1 ELSE jobs[ns][id].polls
  BY <1>1 DEF Advance, Job
<1>5. index < after[id].polls
  BY <1>1, <1>3, <1>4
<1>6. new.id = id /\ new.index = index /\ new.snap = PollSnapshot(id[1], after[id], index)
  OBVIOUS
<1> HIDE DEF id, index, after, new
<1>7. \A q \in Requests, j \in JobIDs, i \in Nat :
         Holds(q, ns, j, i)' <=> Holds(q, ns, j, i) /\ q # r
  BY <1>2, IdleType DEF Holds
<1>8. \A q \in Requests, i \in Nat : Holds(q, ns, id, i) =>
         /\ i < polled[ns][id]
         /\ \A p \in Requests : Holds(p, ns, id, i) => p = q
         /\ \A s \in served[ns] : s.id = id => s.index # i
  BY <1>1 DEF InOrder, PositionsOwned
<1>9. JobsLive(ns)'
  <2>1. \A q \in Requests : Working(q, ns)' => Working(q, ns) /\ req'[q] = req[q] /\ req[q].id \in JobIDs
    BY <1>2, IdleType DEF Working, TypeOK, Request
  <2> QED
    BY <1>2, <1>3, <2>1 DEF InOrder, JobsLive
<1>10. PositionsOwned(ns)'
  <2> SUFFICES ASSUME NEW j \in JobIDs, NEW p \in Requests, NEW i \in Nat, Holds(p, ns, j, i)'
               PROVE  /\ i < polled[ns][j]
                      /\ \A q \in Requests : Holds(q, ns, j, i)' => q = p
                      /\ \A s \in served[ns] \cup {new} : s.id = j => s.index # i
    BY <1>2 DEF PositionsOwned
  <2>1. Holds(p, ns, j, i) /\ p # r
    BY <1>7
  <2>2. /\ i < polled[ns][j]
        /\ \A q \in Requests : Holds(q, ns, j, i) => q = p
        /\ \A s \in served[ns] : s.id = j => s.index # i
    BY <2>1 DEF InOrder, PositionsOwned
  <2>3. ~ (j = id /\ i = index)
    BY <1>1, <2>1, <2>2
  <2> QED
    BY <1>6, <1>7, <2>2, <2>3
<1>11. PollsTrail(ns)'
  <2> SUFFICES ASSUME NEW j \in JobIDs
               PROVE  /\ after[j].polls <= polled[ns][j]
                      /\ ~ after[j].live => polled[ns][j] = 0
                      /\ \A i \in Nat : after[j].polls <= i /\ i < polled[ns][j] =>
                            \E q \in Requests : Holds(q, ns, j, i)'
    BY <1>2 DEF PollsTrail
  <2>1. /\ jobs[ns][j].polls <= polled[ns][j]
        /\ ~ jobs[ns][j].live => polled[ns][j] = 0
        /\ \A i \in Nat : jobs[ns][j].polls <= i /\ i < polled[ns][j] =>
              \E q \in Requests : Holds(q, ns, j, i)
    BY DEF InOrder, PollsTrail
  <2>2. polled[ns][j] \in Nat
    BY DEF TypeOK
  <2>3. after[j].polls <= polled[ns][j]
    BY <1>1, <1>3, <1>4, <1>8, <2>1, <2>2
  <2>4. ~ after[j].live => polled[ns][j] = 0
    BY <1>3, <2>1
  <2>5. ASSUME NEW i \in Nat, after[j].polls <= i, i < polled[ns][j]
        PROVE  \E q \in Requests : Holds(q, ns, j, i)'
    <3>1. jobs[ns][j].polls <= i
      BY <1>3, <2>5
    <3>2. PICK q \in Requests : Holds(q, ns, j, i)
      BY <2>1, <2>5, <3>1
    <3>3. q # r
      <4>1. q = r => j = id /\ i = index
        BY <1>1, <3>2 DEF Holds
      <4> QED
        BY <1>1, <1>3, <1>5, <2>5, <4>1
    <3> QED
      BY <1>7, <3>2, <3>3
  <2> QED
    BY <2>3, <2>4, <2>5
<1>12. IDsClaimed(ns)'
  <2>1. \A q \in Requests, j \in JobIDs : Minting(q, ns, j)' => Minting(q, ns, j)
    BY <1>2, IdleType DEF Minting
  <2>2. \A f \in Entries : creates'[ns][f] >= creates[ns][f]
    BY <1>2 DEF TypeOK
  <2> QED
    BY <1>2, <1>3, <2>1, <2>2, IDsKept DEF InOrder
<1>13. ReadingsOld(ns)'
  <2> SUFFICES ASSUME NEW q \in Requests, req'[q].pc = "mark", req'[q].ns = ns
               PROVE  /\ req'[q].job.polls <= after[req'[q].id].polls
                      /\ req'[q].first + req'[q].tries <= req'[q].job.polls
    BY <1>2 DEF ReadingsOld
  <2>1. req'[q] = req[q] /\ req[q].id \in JobIDs /\ req[q].job.polls \in Nat
    BY <1>2, IdleType DEF TypeOK, Request, Job
  <2>2. /\ req[q].job.polls <= jobs[ns][req[q].id].polls
        /\ req[q].first + req[q].tries <= req[q].job.polls
    BY <2>1 DEF InOrder, ReadingsOld
  <2> QED
    BY <1>3, <2>1, <2>2
<1>14. HistoryStands(ns)'
  <2>1. \A s \in served[ns] \cup answered[ns] : s.id \in JobIDs /\ s.index \in Nat
    BY DEF TypeOK, Served
  <2>2. \A s \in served[ns] \cup answered[ns] :
           PollSnapshot(s.id[1], after[s.id], s.index) = PollSnapshot(s.id[1], jobs[ns][s.id], s.index)
    BY <1>3, <2>1, SameCancelSameSnapshot
  <2>3. \A s \in served[ns] : ServedStands(ns, s)'
    <3> TAKE s \in served[ns]
    <3>1. /\ jobs[ns][s.id].live
          /\ s.index < jobs[ns][s.id].polls
          /\ s.snap = PollSnapshot(s.id[1], jobs[ns][s.id], s.index)
      BY DEF InOrder, HistoryStands, ServedStands
    <3>2. s.index < after[s.id].polls
      BY <1>3, <2>1, <3>1
    <3>3. after[s.id].live /\ s.snap = PollSnapshot(s.id[1], after[s.id], s.index)
      BY <1>3, <2>1, <2>2, <3>1
    <3> QED
      BY <1>2, <3>2, <3>3 DEF ServedStands, PollSnapshot
  <2>4. \A a \in answered[ns] : AnswerStands(ns, a)'
    <3> TAKE a \in answered[ns]
    <3>1. /\ jobs[ns][a.id].live
          /\ a.index <= jobs[ns][a.id].polls
          /\ a.snap = PollSnapshot(a.id[1], jobs[ns][a.id], a.index)
          /\ ~ jobs[ns][a.id].cancelRequested => Terminal(a.id[1], a.snap)
      BY DEF InOrder, HistoryStands, AnswerStands
    <3>2. a.index <= after[a.id].polls
      BY <1>3, <2>1, <3>1
    <3>3. /\ after[a.id].live /\ a.snap = PollSnapshot(a.id[1], after[a.id], a.index)
          /\ ~ after[a.id].cancelRequested => Terminal(a.id[1], a.snap)
      BY <1>3, <2>1, <2>2, <3>1
    <3> QED
      BY <1>2, <3>2, <3>3 DEF AnswerStands, PollSnapshot, Terminal, TurnOf
  <2>5. ASSUME NEW s, s = new PROVE ServedStands(ns, s)'
    <3>1. after[s.id].live /\ s.index < after[s.id].polls
      BY <1>1, <1>3, <1>5, <1>6, <2>5
    <3>2. s.snap = PollSnapshot(s.id[1], after[s.id], s.index)
      BY <1>6, <2>5
    <3> QED
      BY <1>2, <3>1, <3>2 DEF ServedStands, PollSnapshot
  <2> QED
    BY <1>2, <2>3, <2>4, <2>5 DEF HistoryStands
<1> QED
  BY <1>9, <1>10, <1>11, <1>12, <1>13, <1>14 DEF InOrder

\* While identifiers, cursors and the lives of jobs stand, and no request
\* moves to or from minting, what a quiet step keeps is everything.
LEMMA MoveOrder ==
    ASSUME TypeOK, TypeOK', NEW ns \in Namespaces, InOrder(ns), NEW r \in Requests,
           \A q \in Requests : q # r => req'[q] = req[q],
           Moved(r, ns), req'[r].pc # "mint",
           jobs'[ns] = jobs[ns], polled' = polled, creates' = creates, served' = served,
           \A a \in answered'[ns] : a \in answered[ns] \/ AnswerStands(ns, a)
    PROVE  InOrder(ns)'
<1>1. JobsLive(ns)' /\ PositionsOwned(ns)' /\ PollsTrail(ns)' /\ ReadingsOld(ns)' /\ HistoryStands(ns)'
  BY QuietStep
<1>2. \A q \in Requests, j \in JobIDs : Minting(q, ns, j)' => Minting(q, ns, j)
  BY DEF Minting
<1>3. \A f \in Entries : creates'[ns][f] >= creates[ns][f]
  BY DEF TypeOK
<1>4. IDsClaimed(ns)'
  BY <1>2, <1>3, IDsKept DEF InOrder
<1> QED
  BY <1>1, <1>4 DEF InOrder

\* A cancel that claims has found its job already.
LEMMA ClaimCancelOrder ==
    ASSUME TypeOK, TypeOK', NEW ns \in Namespaces, InOrder(ns),
           NEW r \in Requests, ClaimCancel(r), req[r].ns = ns
    PROVE  InOrder(ns)'
<1>1. /\ req[r].pc = "cancel" /\ req'[r].pc = "lookup" /\ req'[r].id = req[r].id
      /\ \A q \in Requests : q # r => req'[q] = req[q]
      /\ UNCHANGED <<jobs, creates, polled, served, answered>>
  BY DEF ClaimCancel, TypeOK, Request
<1>2. jobs[ns][req[r].id].live
  BY <1>1 DEF InOrder, JobsLive, Working
<1>3. Moved(r, ns)
  BY <1>1, <1>2 DEF Moved
<1> QED
  BY <1>1, <1>3, MoveOrder

\* Which verdicts end a cancel with an answer, and what they say of the job.
LEMMA VerdictAnswers ==
    ASSUME NEW e, NEW job, NEW commit
    PROVE  LET verdict == CancelVerdict(e, job, commit)
           IN  /\ verdict # "recorded"
               /\ verdict \in {"already_cancelling", "terminal"} =>
                     job.cancelRequested \/ Terminal(e, PollSnapshot(e, job, job.polls))
BY DEF CancelVerdict

\* A cancel that ends keeps the namespace in order: what it answers is what
\* the record it read selects, and only a record that is cancelled, or about
\* to end, is answered from.
LEMMA ConcludeOrder ==
    ASSUME TypeOK, TypeOK', NEW ns \in Namespaces, InOrder(ns),
           NEW r \in Requests, req[r].ns = ns, req[r].pc \in {"lookup", "mark"},
           NEW verdict, Conclude(r, jobs[ns][req[r].id], verdict),
           verdict \in {"already_cancelling", "terminal", "recorded"} =>
               \/ jobs[ns][req[r].id].cancelRequested
               \/ Terminal(req[r].id[1], PollSnapshot(req[r].id[1], jobs[ns][req[r].id],
                                                      jobs[ns][req[r].id].polls)),
           jobs'[ns] = jobs[ns], polled' = polled, creates' = creates, served' = served
    PROVE  InOrder(ns)'
<1> DEFINE id == req[r].id
           job == jobs[ns][id]
           new == [id |-> id, index |-> job.polls, snap |-> PollSnapshot(id[1], job, job.polls)]
           answers == verdict \in {"already_cancelling", "terminal", "recorded"}
<1>1. id \in JobIDs /\ job.polls \in Nat /\ job.live
  BY DEF TypeOK, Request, Job, InOrder, JobsLive, Working
<1>2. req'[r] = Idle /\ \A q \in Requests : q # r => req'[q] = req[q]
  BY DEF Conclude, TypeOK
<1>3. Moved(r, ns)
  BY <1>2, IdleType DEF Moved, Working
<1>4. \/ answered'[ns] = answered[ns]
      \/ answered'[ns] = answered[ns] \cup {new} /\ answers
  BY DEF Conclude, TypeOK
<1>5. answers => AnswerStands(ns, new)
  BY <1>1 DEF AnswerStands
<1>6. \A a \in answered'[ns] : a \in answered[ns] \/ AnswerStands(ns, a)
  BY <1>4, <1>5
<1> QED
  BY <1>2, <1>3, <1>6, MoveOrder, IdleType

\* One pass of a cancel over the record as it stands keeps the namespace in
\* order: it answers from that record, or goes on with it.
LEMMA JudgeOrder ==
    ASSUME TypeOK, TypeOK', NEW ns \in Namespaces, InOrder(ns),
           NEW r \in Requests, req[r].ns = ns, req[r].pc \in {"lookup", "mark"},
           NEW tries \in Nat, NEW first \in Nat, first + tries <= jobs[ns][req[r].id].polls,
           Judge(r, jobs[ns][req[r].id], tries, first),
           jobs'[ns] = jobs[ns], polled' = polled, creates' = creates, served' = served
    PROVE  InOrder(ns)'
<1> DEFINE id == req[r].id
           job == jobs[ns][id]
           verdict == CancelVerdict(id[1], job, req[r].commit)
<1>1. id \in JobIDs /\ job.polls \in Nat /\ job.live
  BY DEF TypeOK, Request, Job, InOrder, JobsLive, Working
<1>2. CASE verdict = "mark"
  <2>1. /\ req' = [req EXCEPT ![r] = [@ EXCEPT !.pc = "mark", !.job = job, !.tries = tries, !.first = first]]
        /\ answered' = answered
    BY <1>2 DEF Judge
  <2>2. /\ req'[r].pc = "mark" /\ req'[r].id = id /\ req'[r].job = job
        /\ req'[r].tries = tries /\ req'[r].first = first
        /\ \A q \in Requests : q # r => req'[q] = req[q]
    BY <2>1 DEF TypeOK, Request
  <2>3. Moved(r, ns)
    BY <1>1, <2>2 DEF Moved
  <2> QED
    BY <2>1, <2>2, <2>3, MoveOrder
<1>3. CASE verdict # "mark"
  <2>1. Conclude(r, job, verdict)
    BY <1>3 DEF Judge
  <2>2. verdict \in {"already_cancelling", "terminal", "recorded"} =>
          job.cancelRequested \/ Terminal(id[1], PollSnapshot(id[1], job, job.polls))
    BY VerdictAnswers
  <2> HIDE DEF verdict
  <2> QED
    BY <1>1, <2>1, <2>2, ConcludeOrder
<1> QED
  BY <1>2, <1>3

\* A cancel's first reading of its job.
LEMMA LookupCancelOrder ==
    ASSUME TypeOK, TypeOK', NEW ns \in Namespaces, InOrder(ns),
           NEW r \in Requests, LookupCancel(r), req[r].ns = ns
    PROVE  InOrder(ns)'
<1>1. jobs[ns][req[r].id].live /\ jobs[ns][req[r].id].polls \in Nat
  BY DEF InOrder, JobsLive, Working, LookupCancel, TypeOK, Request, Job
<1>2. /\ req[r].pc = "lookup" /\ Judge(r, jobs[ns][req[r].id], 0, jobs[ns][req[r].id].polls)
      /\ UNCHANGED <<jobs, creates, polled, served>>
  BY <1>1 DEF LookupCancel
<1> QED
  BY <1>1, <1>2, JudgeOrder

\* A cancel that is recorded takes effect from the next poll on: what was
\* served stays served, and every answer given before spoke of earlier polls,
\* for the next poll would not have ended the job.
LEMMA MarkOrder ==
    ASSUME TypeOK, TypeOK', MarkJudged, NEW ns \in Namespaces, InOrder(ns),
           NEW r \in Requests, req[r].ns = ns, req[r].pc = "mark",
           jobs[ns][req[r].id].polls = req[r].job.polls,
           ~ jobs[ns][req[r].id].cancelRequested,
           jobs'[ns] = [jobs[ns] EXCEPT ![req[r].id].cancelRequested = TRUE,
                                        ![req[r].id].cancelAtPoll = req[r].job.polls],
           Conclude(r, jobs'[ns][req[r].id], "recorded"),
           polled' = polled, creates' = creates, served' = served
    PROVE  InOrder(ns)'
<1> DEFINE id == req[r].id
           p == req[r].job.polls
           old == jobs[ns]
           after == jobs'[ns]
           new == [id |-> id, index |-> after[id].polls,
                   snap |-> PollSnapshot(id[1], after[id], after[id].polls)]
<1>1. /\ id \in JobIDs /\ p \in Nat /\ old[id].live /\ old[id].polls = p
      /\ MayCancel(id, p)
  <2>1. req[r] \in Request
    BY DEF TypeOK
  <2>2. id \in JobIDs /\ p \in Nat /\ old[id].polls = p
    BY <2>1 DEF Request, Job
  <2>3. old[id].live
    BY DEF InOrder, JobsLive, Working
  <2>4. MayCancel(id, p)
    BY DEF MarkJudged
  <2> QED
    BY <2>2, <2>3, <2>4
<1>2. /\ after[id].cancelRequested /\ after[id].cancelAtPoll = p
      /\ \A j \in JobIDs : after[j].live = old[j].live /\ after[j].polls = old[j].polls
      /\ \A j \in JobIDs : j # id => after[j] = old[j]
  <2>1. old \in [JobIDs -> Job]
    BY DEF TypeOK
  <2>2. after = [old EXCEPT ![id].cancelRequested = TRUE, ![id].cancelAtPoll = p]
    OBVIOUS
  <2> HIDE DEF id, p, old, after
  <2> QED
    BY <1>1, <2>1, <2>2 DEF Job
<1>3. /\ req'[r] = Idle /\ \A q \in Requests : q # r => req'[q] = req[q]
      /\ answered'[ns] = answered[ns] \cup {new}
  BY DEF Conclude, TypeOK
<1>4. \A q \in Requests, j \in JobIDs, i \in Nat : Holds(q, ns, j, i)' <=> Holds(q, ns, j, i)
  BY <1>3, IdleType DEF Holds
<1>5. JobsLive(ns)'
  <2>1. \A q \in Requests : Working(q, ns)' => Working(q, ns) /\ req'[q] = req[q] /\ req[q].id \in JobIDs
    BY <1>3, IdleType DEF Working, TypeOK, Request
  <2> QED
    BY <1>2, <2>1 DEF InOrder, JobsLive
<1>6. PositionsOwned(ns)'
  BY <1>4 DEF InOrder, PositionsOwned
<1>7. PollsTrail(ns)'
  BY <1>2, <1>4 DEF InOrder, PollsTrail
<1>8. IDsClaimed(ns)'
  <2>1. \A q \in Requests, j \in JobIDs : Minting(q, ns, j)' => Minting(q, ns, j)
    BY <1>3, IdleType DEF Minting
  <2>2. \A f \in Entries : creates'[ns][f] >= creates[ns][f]
    BY DEF TypeOK
  <2> QED
    BY <1>2, <2>1, <2>2, IDsKept DEF InOrder
<1>9. ReadingsOld(ns)'
  <2> SUFFICES ASSUME NEW q \in Requests, req'[q].pc = "mark", req'[q].ns = ns
               PROVE  /\ req'[q].job.polls <= after[req'[q].id].polls
                      /\ req'[q].first + req'[q].tries <= req'[q].job.polls
    BY DEF ReadingsOld
  <2>1. req'[q] = req[q] /\ req[q].id \in JobIDs
    BY <1>3, IdleType DEF TypeOK, Request
  <2>2. /\ req[q].job.polls <= old[req[q].id].polls
        /\ req[q].first + req[q].tries <= req[q].job.polls
    BY <2>1 DEF InOrder, ReadingsOld
  <2>3. after[req'[q].id].polls = old[req[q].id].polls
    BY <1>2, <2>1
  <2> HIDE DEF id, p, old, after, new
  <2> QED
    BY <2>1, <2>2, <2>3
<1>10. HistoryStands(ns)'
  <2>1. \A s \in served[ns] \cup answered[ns] : s.id \in JobIDs /\ s.index \in Nat
    BY DEF TypeOK, Served
  <2>2. ASSUME NEW i \in Nat, i < p
        PROVE  PollSnapshot(id[1], after[id], i) = PollSnapshot(id[1], old[id], i)
    <3>1. ~ old[id].cancelRequested
      OBVIOUS
    <3> HIDE DEF id, p, old, after
    <3>2. ~ (i >= after[id].cancelAtPoll)
      BY <1>1, <1>2, <2>2
    <3>3. PollSnapshot(id[1], old[id], i) = [script |-> "turns", turn |-> selectTurn(Turns[id[1]], i)]
      BY <3>1 DEF PollSnapshot
    <3>4. PollSnapshot(id[1], after[id], i) = [script |-> "turns", turn |-> selectTurn(Turns[id[1]], i)]
      BY <3>2 DEF PollSnapshot
    <3> QED
      BY <3>3, <3>4
  <2>3. ASSUME NEW s \in served[ns] PROVE ServedStands(ns, s)'
    <3>1. ServedStands(ns, s) /\ s.id \in JobIDs /\ s.index \in Nat
      BY <2>1 DEF InOrder, HistoryStands
    <3>2. PollSnapshot(s.id[1], after[s.id], s.index) = PollSnapshot(s.id[1], old[s.id], s.index)
      <4>1. CASE s.id = id
        BY <1>1, <2>2, <3>1, <4>1 DEF ServedStands
      <4>2. CASE s.id # id
        BY <1>2, <3>1, <4>2
      <4> QED
        BY <4>1, <4>2
    <3>3. after[s.id].live /\ s.index < after[s.id].polls
      BY <1>2, <3>1 DEF ServedStands
    <3>4. s.snap = PollSnapshot(s.id[1], after[s.id], s.index)
      BY <3>1, <3>2 DEF ServedStands
    <3> QED
      BY <3>3, <3>4 DEF ServedStands, PollSnapshot
  <2>4. ASSUME NEW a \in answered[ns] PROVE AnswerStands(ns, a)'
    <3>1. AnswerStands(ns, a) /\ a.id \in JobIDs /\ a.index \in Nat
      BY <2>1 DEF InOrder, HistoryStands
    <3>2. CASE a.id = id
      <4>1. a.index # p
        <5> SUFFICES ASSUME a.index = p PROVE FALSE
          OBVIOUS
        <5>1. a.snap = PollSnapshot(id[1], old[id], p) /\ Terminal(id[1], a.snap)
          BY <3>1, <3>2 DEF AnswerStands
        <5>2. a.snap = [script |-> "turns", turn |-> selectTurn(Turns[id[1]], p)]
          BY <5>1 DEF PollSnapshot
        <5>3. MayCancel(id, p) /\ Terminal(id[1], a.snap)
          BY <1>1, <5>1
        <5> HIDE DEF id, p
        <5>4. a.snap.script = "turns" /\ a.snap.turn = selectTurn(Turns[id[1]], p)
          BY <5>2
        <5> QED
          BY <5>3, <5>4 DEF Terminal, TurnOf, MayCancel
      <4>2. a.index < p
        <5>1. a.index <= jobs[ns][a.id].polls /\ a.index \in Nat
          BY <3>1 DEF AnswerStands
        <5>2. jobs[ns][a.id].polls = p /\ p \in Nat
          BY <1>1, <3>2
        <5> HIDE DEF id, p, after, old
        <5> QED
          BY <4>1, <5>1, <5>2
      <4>3. a.snap = PollSnapshot(a.id[1], after[a.id], a.index)
        BY <2>2, <3>1, <3>2, <4>2 DEF AnswerStands
      <4>4. after[a.id].live /\ a.index <= after[a.id].polls /\ after[a.id].cancelRequested
        BY <1>2, <3>1, <3>2 DEF AnswerStands
      <4> QED
        BY <4>3, <4>4 DEF AnswerStands, PollSnapshot
    <3>3. CASE a.id # id
      <4>1. after[a.id] = old[a.id]
        BY <1>2, <3>1, <3>3
      <4> QED
        BY <3>1, <4>1 DEF AnswerStands, PollSnapshot, Terminal, TurnOf
    <3> QED
      BY <3>2, <3>3
  <2>5. ASSUME NEW a, a = new PROVE AnswerStands(ns, a)'
    <3>0. a.id = id /\ a.index = after[id].polls
      BY <2>5
    <3>1. after[a.id].live /\ a.index <= after[a.id].polls /\ after[a.id].cancelRequested
      <4> HIDE DEF id, after, p, old
      <4> QED
        BY <1>1, <1>2, <3>0
    <3>2. a.snap = PollSnapshot(a.id[1], after[a.id], a.index)
      BY <2>5
    <3> QED
      BY <3>1, <3>2 DEF AnswerStands, PollSnapshot
  <2> QED
    BY <1>3, <2>3, <2>4, <2>5 DEF HistoryStands
<1> QED
  BY <1>5, <1>6, <1>7, <1>8, <1>9, <1>10 DEF InOrder

\* The compare-and-set of a cancel, whatever became of the job since it was read.
LEMMA WriteCancelOrder ==
    ASSUME TypeOK, TypeOK', MarkJudged, NEW ns \in Namespaces, InOrder(ns),
           NEW r \in Requests, WriteCancel(r), req[r].ns = ns
    PROVE  InOrder(ns)'
<1> DEFINE id == req[r].id
           p == req[r].job.polls
           result == MarkResult(jobs[ns], id, p)
           after == MarkCancel(jobs[ns], id, p)
<1>1. /\ id \in JobIDs /\ p \in Nat /\ req[r].tries \in Nat /\ req[r].first \in Nat
      /\ jobs[ns] \in [JobIDs -> Job]
      /\ jobs[ns][id] \in Job
  BY DEF TypeOK, Request, Job
<1>2. /\ req[r].pc = "mark"
      /\ jobs'[ns] = after
      /\ UNCHANGED <<creates, polled, served>>
  BY DEF WriteCancel, TypeOK
<1>3. p <= jobs[ns][id].polls /\ req[r].first + req[r].tries <= p /\ jobs[ns][id].polls \in Nat
  BY <1>1, <1>2 DEF InOrder, ReadingsOld, Job
<1>4. result \in {"marked", "already_marked", "not_found", "position_moved"}
  BY DEF MarkResult
<1>5. CASE result = "marked"
  <2>1. /\ ~ jobs[ns][id].cancelRequested /\ jobs[ns][id].polls = p
        /\ after = [jobs[ns] EXCEPT ![id].cancelRequested = TRUE, ![id].cancelAtPoll = p]
    BY <1>1, <1>5, MarkFacts
  <2>2. Conclude(r, after[id], "recorded")
    BY <1>5 DEF WriteCancel
  <2> HIDE DEF after
  <2> QED
    BY <1>2, <2>1, <2>2, MarkOrder
<1>6. CASE result # "marked"
  <2>1. after = jobs[ns]
    BY <1>6 DEF MarkCancel
  <2> HIDE DEF after
  <2>2. jobs'[ns] = jobs[ns]
    BY <1>2, <2>1
  <2>3. CASE result = "already_marked"
    <3>1. jobs[ns][id].cancelRequested
      BY <2>3 DEF MarkResult
    <3>2. PICK verdict : Conclude(r, jobs[ns][id], verdict)
      BY <2>1, <2>3 DEF WriteCancel, after
    <3> QED
      BY <1>2, <2>2, <3>1, <3>2, ConcludeOrder
  <2>4. CASE result = "not_found"
    <3>1. Conclude(r, jobs[ns][id], "not_found")
      BY <2>1, <2>4 DEF WriteCancel, after
    <3> QED
      BY <1>2, <2>2, <3>1, ConcludeOrder
  <2>5. CASE result = "position_moved"
    <3>1. jobs[ns][id].polls # p
      BY <2>5 DEF MarkResult
    <3>2. req[r].tries + 1 \in Nat /\ req[r].first \in Nat /\ req[r].first + (req[r].tries + 1) <= jobs[ns][id].polls
      BY <1>1, <1>3, <3>1
    <3>3. \/ Conclude(r, jobs[ns][id], "contended")
          \/ Judge(r, jobs[ns][id], req[r].tries + 1, req[r].first)
      BY <2>1, <2>5 DEF WriteCancel, after
    <3>4. CASE Conclude(r, jobs[ns][id], "contended")
      BY <1>2, <2>2, <3>4, ConcludeOrder
    <3>5. CASE Judge(r, jobs[ns][id], req[r].tries + 1, req[r].first)
      <4> DEFINE tries == req[r].tries + 1
                 first == req[r].first
      <4>1. /\ tries \in Nat /\ first \in Nat /\ first + tries <= jobs[ns][id].polls
            /\ Judge(r, jobs[ns][id], tries, first)
        BY <3>2, <3>5
      <4> HIDE DEF tries, first
      <4> QED
        BY <1>2, <2>2, <4>1, JudgeOrder
    <3> QED
      BY <3>3, <3>4, <3>5
  <2> QED
    BY <1>4, <1>6, <2>3, <2>4, <2>5
<1> QED
  BY <1>5, <1>6

\* A step of any request in flight keeps every namespace in order.
LEMMA ContinueOrder ==
    ASSUME TypeOK, TypeOK', MarkJudged, NEW ns \in Namespaces, InOrder(ns),
           NEW r \in Requests, Continue(r)
    PROVE  InOrder(ns)'
<1>1. CASE req[r].ns = ns
  BY <1>1, StoreCreateOrder, ClaimPollOrder, AdvancePollOrder, ClaimCancelOrder,
     LookupCancelOrder, WriteCancelOrder DEF Continue
<1>2. CASE req[r].ns # ns
  <2>1. /\ \A q \in Requests : q # r => req'[q] = req[q]
        /\ req'[r].pc = "idle" \/ req'[r].ns # ns
        /\ jobs'[ns] = jobs[ns] /\ polled'[ns] = polled[ns] /\ creates'[ns] = creates[ns]
        /\ served'[ns] = served[ns] /\ answered'[ns] = answered[ns]
    BY <1>2, ContinueFrame, IdleType
  <2> QED
    BY <1>2, <2>1, ElsewhereKept
<1> QED
  BY <1>1, <1>2

-----------------------------------------------------------------------------
(* Resets *)

\* A namespace becomes settled only where a clean reset of it ends: its jobs
\* are gone, its cursors at zero, and no request is in it.
LEMMA ResetJobsOrder ==
    ASSUME TypeOK, NEW ns \in Namespaces, NEW a \in Admins, ResetJobs(a),
           ns \in admin[a], ResetStill(ns)
    PROVE  InOrder(ns)'
<1>1. /\ jobs'[ns] = EmptyStore /\ served'[ns] = {} /\ answered'[ns] = {}
      /\ UNCHANGED <<creates, polled, req>>
  BY DEF ResetJobs
<1>2. \A r \in Requests : req[r].pc # "idle" => req[r].ns # ns
  BY DEF ResetStill, InFlight
<1>3. \A j \in JobIDs : ~ EmptyStore[j].live /\ EmptyStore[j].polls = 0 /\ polled[ns][j] = 0
  BY NoJobType DEF EmptyStore, NoJob, ResetStill
<1>4. JobsLive(ns)'
  BY <1>1, <1>2 DEF JobsLive, Working
<1>5. PositionsOwned(ns)'
  BY <1>1, <1>2 DEF PositionsOwned, Holds
<1>6. PollsTrail(ns)'
  BY <1>1, <1>3 DEF PollsTrail
<1>7. IDsClaimed(ns)'
  BY <1>1, <1>2, <1>3, JobIDFacts DEF IDsClaimed, Minting
<1>8. ReadingsOld(ns)'
  BY <1>1, <1>2 DEF ReadingsOld
<1>9. HistoryStands(ns)'
  BY <1>1 DEF HistoryStands
<1> QED
  BY <1>4, <1>5, <1>6, <1>7, <1>8, <1>9 DEF InOrder

\* Nothing a step of a request does makes a namespace settled.
LEMMA RequestUnsettles ==
    ASSUME NEW ns, straddled \subseteq straddled', admin' = admin, Settled(ns)'
    PROVE  Settled(ns)
BY DEF Settled, HalfReset

\* The state between the two steps of a clean reset lasts until a request
\* starts in the namespace or another reset takes it, and both are noticed.
LEMMA StillStep ==
    ASSUME TypeOK, TypeOK', [Next]_vars, NEW ns \in Namespaces,
           ns \notin straddled /\ HalfReset(ns) => ResetStill(ns),
           ns \notin straddled', HalfReset(ns)'
    PROVE  ResetStill(ns)'
<1>1. ASSUME NEW r \in Requests, NEW n \in Namespaces, NEW new, Start(r, n, new),
             new.pc = "idle" \/ new.ns = n,
             admin' = admin, n # ns => creates'[ns] = creates[ns], polled' = polled
      PROVE  ResetStill(ns)'
  <2>1. /\ straddled \subseteq straddled'
        /\ HalfReset(n) => n \in straddled'
        /\ req'[r] = new /\ \A q \in Requests : q # r => req'[q] = req[q]
    BY <1>1, StartFrame
  <2>2. HalfReset(ns) /\ ns \notin straddled /\ n # ns /\ ResetStill(ns)
    BY <1>1, <2>1 DEF HalfReset
  <2>3. ~ InFlight(ns)'
    BY <1>1, <2>1, <2>2 DEF ResetStill, InFlight
  <2> QED
    BY <1>1, <2>2, <2>3 DEF ResetStill
<1>2. ASSUME NEW r \in Requests, NEW n \in Namespaces, NEW e \in Entries, ClaimCreate(r, n, e)
      PROVE  ResetStill(ns)'
  <2> DEFINE minting == [Idle EXCEPT !.pc = "mint", !.ns = n, !.id = JobID(e, creates[n][e]),
                                     !.commit = TRUE]
  <2>1. Start(r, n, minting) \/ Start(r, n, Idle)
    BY <1>2 DEF ClaimCreate
  <2>2. n # ns => creates'[ns] = creates[ns]
    BY <1>2 DEF ClaimCreate, TypeOK
  <2>3. admin' = admin /\ polled' = polled
    BY <1>2 DEF ClaimCreate
  <2>4. minting.ns = n /\ Idle.pc = "idle"
    BY IdleType DEF Request
  <2> HIDE DEF minting
  <2> QED
    BY <1>1, <2>1, <2>2, <2>3, <2>4
<1>3. ASSUME NEW r \in Requests, NEW op \in {"poll", "cancel"}, NEW n \in Namespaces,
             NEW e \in Entries, NEW id \in JobIDs, Resolve(r, op, n, e, id)
      PROVE  ResetStill(ns)'
  <2>1. [Idle EXCEPT !.pc = op, !.ns = n, !.id = id].ns = n
    BY IdleType DEF Request
  <2> QED
    BY <1>1, <1>3, <2>1 DEF Resolve
<1>4. ASSUME NEW r \in Requests, Continue(r) PROVE ResetStill(ns)'
  <2>1. /\ req[r].pc # "idle" /\ creates' = creates /\ admin' = admin /\ straddled' = straddled
        /\ req'[r].pc = "idle" \/ req'[r].ns = req[r].ns
        /\ \A q \in Requests : q # r => req'[q] = req[q]
        /\ ns # req[r].ns => polled'[ns] = polled[ns]
    BY <1>4, ContinueFrame, IdleType
  <2>2. ResetStill(ns)
    BY <2>1 DEF HalfReset
  <2>3. req[r].ns # ns
    BY <2>1, <2>2 DEF ResetStill, InFlight
  <2>4. ~ InFlight(ns)'
    BY <2>1, <2>2, <2>3 DEF ResetStill, InFlight
  <2> QED
    BY <2>1, <2>2, <2>3, <2>4 DEF ResetStill
<1>5. ASSUME NEW a \in Admins, NEW scope \in Scopes, ResetCursors(a, scope)
      PROVE  ResetStill(ns)'
  <2>1. /\ admin[a] = {} /\ admin'[a] = scope
        /\ \A b \in Admins : b # a => admin'[b] = admin[b]
        /\ straddled' = (straddled \ scope) \cup {n \in scope : InFlight(n) \/ HalfReset(n)}
        /\ UNCHANGED req
    BY <1>5 DEF ResetCursors, TypeOK
  <2>2. CASE ns \in scope
    <3>1. ~ InFlight(ns) /\ ~ HalfReset(ns)
      BY <2>1, <2>2
    <3>2. ~ InFlight(ns)'
      BY <2>1, <3>1 DEF InFlight
    <3>3. \A b, c \in Admins : ns \in admin'[b] /\ ns \in admin'[c] => b = c
      BY <2>1, <3>1 DEF HalfReset
    <3>4. (\A e \in Entries : creates'[ns][e] = 0) /\ (\A id \in JobIDs : polled'[ns][id] = 0)
      BY <1>5, <2>2 DEF ResetCursors
    <3> QED
      BY <3>2, <3>3, <3>4 DEF ResetStill
  <2>3. CASE ns \notin scope
    <3>1. HalfReset(ns) /\ ns \notin straddled
      BY <2>1, <2>3 DEF HalfReset
    <3>2. ResetStill(ns)
      BY <3>1
    <3>3. creates'[ns] = creates[ns] /\ polled'[ns] = polled[ns]
      BY <1>5, <2>3 DEF ResetCursors, TypeOK
    <3>4. \A b, c \in Admins : ns \in admin'[b] /\ ns \in admin'[c] => b = c
      BY <2>1, <2>3, <3>2 DEF ResetStill
    <3>5. ~ InFlight(ns)'
      BY <2>1, <3>2 DEF ResetStill, InFlight
    <3> QED
      BY <3>2, <3>3, <3>4, <3>5 DEF ResetStill
  <2> QED
    BY <2>2, <2>3
<1>6. ASSUME NEW a \in Admins, ResetJobs(a) PROVE ResetStill(ns)'
  <2>1. /\ admin'[a] = {} /\ \A b \in Admins : b # a => admin'[b] = admin[b]
        /\ straddled \subseteq straddled' /\ UNCHANGED <<creates, polled, req>>
    BY <1>6 DEF ResetJobs, TypeOK
  <2>2. HalfReset(ns) /\ ns \notin straddled
    BY <2>1 DEF HalfReset
  <2>3. ResetStill(ns)
    BY <2>2
  <2> QED
    BY <2>1, <2>3 DEF ResetStill, InFlight
<1>7. CASE UNCHANGED vars
  BY <1>7 DEF vars, ResetStill, InFlight, HalfReset
<1> QED
  BY <1>2, <1>3, <1>4, <1>5, <1>6, <1>7 DEF Next

\* Every step keeps every settled namespace in order.
LEMMA PositionsStep == PositionsInv /\ [Next]_vars => PositionsInv'
<1> SUFFICES ASSUME PositionsInv, [Next]_vars PROVE PositionsInv'
  OBVIOUS
<1>0. TypeOK /\ TypeOK' /\ MarkJudged /\ CancelInv'
  BY CancelStep DEF PositionsInv, CancelInv
<1>s. \A ns \in Namespaces : Settled(ns) => InOrder(ns)
  BY DEF PositionsInv
<1>t. \A ns \in Namespaces : ns \notin straddled /\ HalfReset(ns) => ResetStill(ns)
  BY DEF PositionsInv
<1>r. \A ns \in Namespaces : (ns \notin straddled /\ HalfReset(ns))' => ResetStill(ns)'
  BY <1>0, <1>t, StillStep
<1> SUFFICES ASSUME NEW ns \in Namespaces, Settled(ns)' PROVE InOrder(ns)'
  BY <1>0, <1>r DEF PositionsInv
<1>1. ASSUME NEW r \in Requests, NEW n \in Namespaces, NEW e \in Entries, ClaimCreate(r, n, e)
      PROVE  InOrder(ns)'
  <2>1. straddled \subseteq straddled' /\ admin' = admin
    BY <1>1 DEF ClaimCreate, Start
  <2> QED
    BY <1>0, <1>1, <1>s, <2>1, RequestUnsettles, ClaimCreateOrder
<1>2. ASSUME NEW r \in Requests, NEW op \in {"poll", "cancel"}, NEW n \in Namespaces,
             NEW e \in Entries, NEW id \in JobIDs, Resolve(r, op, n, e, id)
      PROVE  InOrder(ns)'
  <2>1. straddled \subseteq straddled' /\ admin' = admin
    BY <1>2 DEF Resolve, Start
  <2> QED
    BY <1>0, <1>2, <1>s, <2>1, RequestUnsettles, ResolveOrder
<1>3. ASSUME NEW r \in Requests, Continue(r) PROVE InOrder(ns)'
  <2>1. straddled \subseteq straddled' /\ admin' = admin
    BY <1>0, <1>3, ContinueFrame
  <2> QED
    BY <1>0, <1>3, <1>s, <2>1, RequestUnsettles, ContinueOrder
<1>4. ASSUME NEW a \in Admins, NEW scope \in Scopes, ResetCursors(a, scope)
      PROVE  InOrder(ns)'
  <2>1. /\ admin[a] = {} /\ admin'[a] = scope /\ \A b \in Admins : b # a => admin'[b] = admin[b]
        /\ straddled' = (straddled \ scope) \cup {n \in scope : InFlight(n) \/ HalfReset(n)}
    BY <1>0, <1>4 DEF ResetCursors, TypeOK
  <2>2. ns \notin scope /\ Settled(ns)
    BY <2>1 DEF Settled, HalfReset
  <2>3. /\ creates'[ns] = creates[ns] /\ polled'[ns] = polled[ns]
        /\ UNCHANGED <<jobs, req, served, answered>>
    BY <1>0, <1>4, <2>2 DEF ResetCursors, TypeOK
  <2>4. InOrder(ns)
    BY <1>s, <2>2
  <2> QED
    BY <2>3, <2>4 DEF InOrder, JobsLive, Working, PositionsOwned, Holds, PollsTrail, IDsClaimed,
                      Minting, ReadingsOld, HistoryStands, ServedStands, AnswerStands,
                      PollSnapshot, Terminal, TurnOf
<1>5. ASSUME NEW a \in Admins, ResetJobs(a) PROVE InOrder(ns)'
  <2>1. /\ admin'[a] = {} /\ \A b \in Admins : b # a => admin'[b] = admin[b]
        /\ straddled \subseteq straddled'
    BY <1>0, <1>5 DEF ResetJobs, TypeOK
  <2>2. CASE ns \in admin[a]
    <3>1. ResetStill(ns)
      BY <1>t, <2>1, <2>2 DEF Settled, HalfReset
    <3> QED
      BY <1>0, <1>5, <2>2, <3>1, ResetJobsOrder
  <2>3. CASE ns \notin admin[a]
    <3>1. InOrder(ns)
      BY <1>s, <2>1, <2>3 DEF Settled, HalfReset
    <3>2. /\ jobs'[ns] = jobs[ns] /\ served'[ns] = served[ns] /\ answered'[ns] = answered[ns]
          /\ UNCHANGED <<creates, polled, req>>
      BY <1>5, <2>3 DEF ResetJobs
    <3> QED
      BY <3>1, <3>2 DEF InOrder, JobsLive, Working, PositionsOwned, Holds, PollsTrail, IDsClaimed,
                        Minting, ReadingsOld, HistoryStands, ServedStands, AnswerStands,
                        PollSnapshot, Terminal, TurnOf
  <2> QED
    BY <2>2, <2>3
<1>6. CASE UNCHANGED vars
  <2>1. Settled(ns)
    BY <1>6 DEF vars, Settled, HalfReset
  <2>2. InOrder(ns)
    BY <1>s, <2>1
  <2> QED
    BY <1>6, <2>2 DEF vars, InOrder, JobsLive, Working, PositionsOwned, Holds, PollsTrail,
                      IDsClaimed, Minting, ReadingsOld, HistoryStands, ServedStands, AnswerStands,
                      PollSnapshot, Terminal, TurnOf
<1> QED
  BY <1>1, <1>2, <1>3, <1>4, <1>5, <1>6 DEF Next

\* Nothing is in flight, claimed or served at first.
LEMMA PositionsInit == Init => PositionsInv
<1> SUFFICES ASSUME Init PROVE PositionsInv
  OBVIOUS
<1>1. CancelInv
  BY CancelInit
<1>2. \A j \in JobIDs : ~ EmptyStore[j].live /\ EmptyStore[j].polls = 0
  BY NoJobType DEF EmptyStore, NoJob
<1>4. \A r \in Requests : req[r].pc = "idle"
  BY IdleType DEF Init
<1>5. \A a \in Admins : admin[a] = {}
  BY DEF Init
<1>6. ASSUME NEW ns \in Namespaces PROVE InOrder(ns)
  <2>1. /\ jobs[ns] = EmptyStore /\ served[ns] = {} /\ answered[ns] = {}
        /\ \A j \in JobIDs : polled[ns][j] = 0
    BY DEF Init
  <2>2. JobsLive(ns) /\ PositionsOwned(ns) /\ ReadingsOld(ns) /\ HistoryStands(ns)
    BY <1>4, <2>1 DEF JobsLive, Working, PositionsOwned, Holds, ReadingsOld, HistoryStands
  <2>3. PollsTrail(ns)
    BY <1>2, <2>1 DEF PollsTrail
  <2>4. IDsClaimed(ns)
    BY <1>2, <1>4, <2>1, JobIDFacts DEF IDsClaimed, Minting
  <2> QED
    BY <2>2, <2>3, <2>4 DEF InOrder
<1> QED
  BY <1>1, <1>5, <1>6 DEF PositionsInv, HalfReset

\* Every reachable state has the positions of its settled namespaces in order.
LEMMA PositionsInvariant == Spec => []PositionsInv
BY PositionsInit, PositionsStep, PTL DEF Spec

-----------------------------------------------------------------------------
(* What clients are promised *)

\* "The job's Polls must equal its poll lane's claimed count" (SelectPollTurn):
\* however many polls overlap, the record lags the lane only by indices that
\* polls still in flight hold.
THEOREM PollsAreCounted == Spec => []PollsMatchClaims
<1>1. PositionsInv => PollsMatchClaims
  <2> SUFFICES ASSUME PositionsInv, NEW ns \in Namespaces, NEW id \in JobIDs, Settled(ns),
                      jobs[ns][id].live
               PROVE  /\ jobs[ns][id].polls <= polled[ns][id]
                      /\ \A i \in jobs[ns][id].polls..(polled[ns][id] - 1) :
                            \E r \in Requests : /\ req[r].pc = "advance" /\ req[r].index = i
                                                /\ req[r].ns = ns /\ req[r].id = id
    BY DEF PollsMatchClaims
  <2>1. TypeOK /\ PollsTrail(ns)
    BY DEF PositionsInv, CancelInv, InOrder
  <2>2. jobs[ns][id].polls \in Nat /\ polled[ns][id] \in Nat
    BY <2>1 DEF TypeOK, Job
  <2>3. ASSUME NEW i \in jobs[ns][id].polls..(polled[ns][id] - 1)
        PROVE  i \in Nat /\ jobs[ns][id].polls <= i /\ i < polled[ns][id]
    BY <2>2
  <2> QED
    BY <2>1, <2>3 DEF PollsTrail, Holds
<1> QED
  BY <1>1, PositionsInvariant, PTL

\* No two polls of a job are ever at one position: a claimed index is held by
\* one poll, and once it was served no poll comes to hold it again.
THEOREM PositionsAreExclusive == Spec => []OnePollPerPosition
<1>1. PositionsInv => OnePollPerPosition
  <2> SUFFICES ASSUME PositionsInv, NEW ns \in Namespaces, Settled(ns),
                      NEW r \in Requests, req[r].pc = "advance", req[r].ns = ns
               PROVE  /\ \A s \in served[ns] : s.id = req[r].id => s.index # req[r].index
                      /\ \A q \in Requests \ {r} :
                            req[q].pc = "advance" /\ req[q].ns = ns /\ req[q].id = req[r].id
                              => req[q].index # req[r].index
    BY DEF OnePollPerPosition
  <2>1. TypeOK /\ PositionsOwned(ns)
    BY DEF PositionsInv, CancelInv, InOrder
  <2>2. req[r].id \in JobIDs /\ req[r].index \in Nat /\ Holds(r, ns, req[r].id, req[r].index)
    BY <2>1 DEF TypeOK, Request, Holds
  <2> QED
    BY <2>1, <2>2 DEF PositionsOwned, Holds
<1> QED
  BY <1>1, PositionsInvariant, PTL

\* job.id_collision needs a reset that overlapped a request: otherwise the
\* identifier a create is about to record is free.
THEOREM IdentifiersAreFresh == Spec => []NoCollision
<1>1. PositionsInv => NoCollision
  <2> SUFFICES ASSUME PositionsInv, NEW r \in Requests, req[r].pc = "mint", Settled(req[r].ns)
               PROVE  ~ jobs[req[r].ns][req[r].id].live
    BY DEF NoCollision
  <2>1. TypeOK /\ req[r].ns \in Namespaces /\ req[r].id \in JobIDs
    BY DEF PositionsInv, CancelInv, TypeOK, Request
  <2>2. PICK e \in Entries, i \in 0..(MaxCalls - 1) : req[r].id = JobID(e, i)
    BY <2>1 DEF JobIDs
  <2>3. IDsClaimed(req[r].ns)
    BY <2>1 DEF PositionsInv, InOrder
  <2>4. Minting(r, req[r].ns, JobID(e, i))
    BY <2>2 DEF Minting
  <2> QED
    BY <2>2, <2>3, <2>4 DEF IDsClaimed
<1> QED
  BY <1>1, PositionsInvariant, PTL

\* maxCancelTries counts what it says it counts: since its first reading of the
\* job a cancel has seen a poll land for each retry, and it is refused the write,
\* to try again or to give up, only after one more.
THEOREM RetriesCountPolls == Spec => []RetryMeansPollLanded
<1>1. PositionsInv => RetryMeansPollLanded
  <2> SUFFICES ASSUME PositionsInv, NEW r \in Requests, req[r].pc = "mark", Settled(req[r].ns)
               PROVE  /\ req[r].first + req[r].tries <= req[r].job.polls
                      /\ MarkResult(jobs[req[r].ns], req[r].id, req[r].job.polls) = "position_moved"
                           => req[r].first + req[r].tries < jobs[req[r].ns][req[r].id].polls
    BY DEF RetryMeansPollLanded
  <2>1. /\ req[r].ns \in Namespaces /\ req[r].id \in JobIDs
        /\ req[r].job.polls \in Nat /\ req[r].tries \in Nat /\ req[r].first \in Nat
        /\ jobs[req[r].ns][req[r].id].polls \in Nat
    BY DEF PositionsInv, CancelInv, TypeOK, Request, Job
  <2>2. /\ req[r].job.polls <= jobs[req[r].ns][req[r].id].polls
        /\ req[r].first + req[r].tries <= req[r].job.polls
    BY <2>1 DEF PositionsInv, InOrder, ReadingsOld
  <2>3. MarkResult(jobs[req[r].ns], req[r].id, req[r].job.polls) = "position_moved"
          => jobs[req[r].ns][req[r].id].polls # req[r].job.polls
    BY DEF MarkResult
  <2> QED
    BY <2>1, <2>2, <2>3
<1> QED
  BY <1>1, PositionsInvariant, PTL

\* CancelOutcome's promise: the turn a recorded, repeated or terminal cancel
\* answers is the very snapshot the job's next poll is served, whatever polls
\* and cancels were in flight when it answered.
THEOREM CancelsForetell == Spec => []CancelAnswersNextPoll
<1>1. PositionsInv => CancelAnswersNextPoll
  <2> SUFFICES ASSUME PositionsInv, NEW ns \in Namespaces, Settled(ns),
                      NEW a \in answered[ns], NEW s \in served[ns], a.id = s.id, a.index = s.index
               PROVE  a.snap = s.snap
    BY DEF CancelAnswersNextPoll
  <2>1. ServedStands(ns, s) /\ AnswerStands(ns, a)
    BY DEF PositionsInv, InOrder, HistoryStands
  <2> QED
    BY <2>1 DEF ServedStands, AnswerStands
<1> QED
  BY <1>1, PositionsInvariant, PTL

\* One script that loads, served in poll order, never takes a terminal back.
LEMMA ScriptAbsorbs ==
    ASSUME NEW turns, ScriptLoads(turns), NEW p \in Nat, NEW q \in Nat, p < q,
           selectTurn(turns, p) # 0, turns[selectTurn(turns, p)].status = "terminal",
           selectTurn(turns, q) # 0
    PROVE  turns[selectTurn(turns, q)].status = "terminal"
BY LoadedScriptAbsorbs DEF ServesAt

\* Why loading refuses a script with TerminalRegressions: whatever cancels race
\* its polls, in poll order a client never watches a job finish and then run,
\* be cancelled, or change its mind.
THEOREM CompletionAbsorbs == Spec => []TerminalAbsorbs
<1>1. PositionsInv => TerminalAbsorbs
  <2> SUFFICES ASSUME PositionsInv, NEW ns \in Namespaces, Settled(ns),
                      NEW x \in served[ns], NEW y \in served[ns],
                      x.id = y.id, x.index < y.index, x.snap.turn # 0, y.snap.turn # 0,
                      Terminal(x.id[1], x.snap)
               PROVE  Terminal(y.id[1], y.snap)
    BY DEF TerminalAbsorbs
  <2> DEFINE id == x.id
             e == id[1]
             job == jobs[ns][id]
             c == job.cancelAtPoll
  <2>1. TypeOK /\ id \in JobIDs /\ e \in Entries /\ x.index \in Nat /\ y.index \in Nat /\ c \in Nat
    BY JobIDFacts DEF PositionsInv, CancelInv, TypeOK, Served, Job
  <2>2. /\ x.snap = PollSnapshot(e, job, x.index)
        /\ y.snap = PollSnapshot(e, job, y.index)
        /\ job.live
    BY DEF PositionsInv, InOrder, HistoryStands, ServedStands
  <2>3. ScriptLoads(Turns[e]) /\ ScriptLoads(CancelTurns[e])
    BY <2>1, ScriptsAssumption
  <2>4. job.cancelRequested => MayCancel(id, c)
    BY <2>1, <2>2 DEF PositionsInv, CancelInv, CancelSound
  <2> HIDE DEF job, e, id, c
  <2>5. CASE job.cancelRequested /\ x.index >= c
    <3>1. x.snap = [script |-> "cancel", turn |-> selectTurn(CancelTurns[e], x.index - c)]
      BY <2>2, <2>5 DEF PollSnapshot, c
    <3>2. y.snap = [script |-> "cancel", turn |-> selectTurn(CancelTurns[e], y.index - c)]
      BY <2>1, <2>2, <2>5 DEF PollSnapshot, c
    <3>3. x.index - c \in Nat /\ y.index - c \in Nat /\ x.index - c < y.index - c
      BY <2>1, <2>5
    <3>4. CancelTurns[e][selectTurn(CancelTurns[e], x.index - c)].status = "terminal"
      BY <3>1 DEF Terminal, TurnOf, e, id
    <3>5. CancelTurns[e][selectTurn(CancelTurns[e], y.index - c)].status = "terminal"
      BY <2>3, <3>1, <3>2, <3>3, <3>4, ScriptAbsorbs
    <3> QED
      BY <3>2, <3>5 DEF Terminal, TurnOf, e, id
  <2>6. CASE ~ (job.cancelRequested /\ x.index >= c)
    <3>1. x.snap = [script |-> "turns", turn |-> selectTurn(Turns[e], x.index)]
      BY <2>2, <2>6 DEF PollSnapshot, c
    <3>2. Turns[e][selectTurn(Turns[e], x.index)].status = "terminal"
      BY <3>1 DEF Terminal, TurnOf, e, id
    <3>3. CASE ~ (job.cancelRequested /\ y.index >= c)
      <4>1. y.snap = [script |-> "turns", turn |-> selectTurn(Turns[e], y.index)]
        BY <2>2, <3>3 DEF PollSnapshot, c
      <4>2. Turns[e][selectTurn(Turns[e], y.index)].status = "terminal"
        BY <2>1, <2>3, <3>1, <3>2, <4>1, ScriptAbsorbs
      <4> QED
        BY <4>1, <4>2 DEF Terminal, TurnOf, e, id
    <3>4. CASE job.cancelRequested /\ y.index >= c
      <4>1. x.index < c
        BY <2>1, <2>6, <3>4
      <4>2. selectTurn(Turns[e], c) # 0 /\ Turns[e][selectTurn(Turns[e], c)].status # "terminal"
        BY <2>4, <3>4 DEF MayCancel, e
      <4> QED
        BY <2>1, <2>3, <3>1, <3>2, <4>1, <4>2, ScriptAbsorbs
    <3> QED
      BY <3>3, <3>4
  <2> QED
    BY <2>5, <2>6
<1> QED
  BY <1>1, PositionsInvariant, PTL
=============================================================================
