----------------------------- MODULE AsyncJobs -----------------------------
(***************************************************************************)
(* Concurrent creates, polls and cancels of asynchronous jobs, and the     *)
(* admin resets that run beside them: provider/jobs.go (MintJob,           *)
(* ResolveJob), provider/cancel.go (SelectPollTurn, CancelJob) and the     *)
(* fault-cursor and job-store steps of internal/admin's reset.             *)
(*                                                                         *)
(* Every request is a goroutine.  It interleaves with the others between   *)
(* two accesses to shared state: the claim of a call index in the fault    *)
(* engine (an atomic add) and each method of the job store (one critical   *)
(* section).  What it computes between two accesses is local.              *)
(*                                                                         *)
(* Every namespace here is one the engine admitted.  A request it refused  *)
(* and a demotion let through claims nothing and reads index -1: that case *)
(* is in Surfaces.                                                         *)
(*                                                                         *)
(* A fault attempt matters here only in whether it commits (the client     *)
(* receives the response, or the attempt is marked accepted), so a claim   *)
(* chooses that freely: the model stands for every fault plan.             *)
(***************************************************************************)
EXTENDS TurnSelection, JobRegistry

CONSTANTS
    Namespaces, Requests, Admins,
    maxCancelTries,    \* how often a cancel retries its compare-and-set
    Turns,             \* the poll script of each entry
    CancelTurns        \* the cancel.turns script of each entry, <<>> for none

ASSUME JobsAssumption ==
    /\ maxCancelTries \in Nat \ {0}
    /\ Namespaces # {}
    /\ \A e \in Entries : Len(Turns[e]) \in Nat /\ Len(CancelTurns[e]) \in Nat

\* The scripts come from a scenario that loaded, so each profile's validator
\* accepted them.
ASSUME ScriptsAssumption ==
    \A e \in Entries : ScriptLoads(Turns[e]) /\ ScriptLoads(CancelTurns[e])

VARIABLES
    jobs,       \* the job store, per namespace
    creates,    \* indices claimed on each entry's create lane, per namespace
    polled,     \* indices claimed on each job's poll lane, per namespace
    req,        \* the requests in flight
    admin,      \* namespaces whose cursors an admin has reset but not yet their jobs
    \* History, read by no action's guard:
    served,     \* what each completed poll was served
    answered,   \* what each decided cancel said the next poll will be served
    straddled   \* namespaces in which a request overlapped a reset

vars == <<jobs, creates, polled, req, admin, served, answered, straddled>>

Snapshot == [script : {"turns", "cancel"}, turn : Nat]

\* `first` is history too: the polls on the record at a cancel's first reading.
Idle == [pc |-> "idle", ns |-> CHOOSE n \in Namespaces : TRUE,
         id |-> CHOOSE id \in JobIDs : TRUE, index |-> 0,
         commit |-> FALSE, job |-> NoJob, tries |-> 0, first |-> 0]

PCs == {"idle", "mint", "poll", "advance", "cancel", "lookup", "mark"}

Request == [pc : PCs, ns : Namespaces, id : JobIDs, index : Nat,
            commit : BOOLEAN, job : Job, tries : Nat, first : Nat]

InFlight(ns) == \E r \in Requests : req[r].pc # "idle" /\ req[r].ns = ns
HalfReset(ns) == \E a \in Admins : ns \in admin[a]

\* The namespaces in which no request overlaps, or has overlapped since the
\* last clean reset, a reset of that namespace: where the promises apply.
Settled(ns) == ns \notin straddled /\ ~ HalfReset(ns)

-----------------------------------------------------------------------------
(* Scripts *)

\* pollScript and selectTurn: the snapshot a poll at `index` of job is served.
PollSnapshot(entry, job, index) ==
    IF job.cancelRequested /\ index >= job.cancelAtPoll
    THEN [script |-> "cancel",
          turn |-> selectTurn(CancelTurns[entry], index - job.cancelAtPoll)]
    ELSE [script |-> "turns", turn |-> selectTurn(Turns[entry], index)]

TurnOf(entry, snap) ==
    IF snap.script = "cancel" THEN CancelTurns[entry][snap.turn] ELSE Turns[entry][snap.turn]

Terminal(entry, snap) == TurnOf(entry, snap).status = "terminal"

\* Mutants of CancelVerdict: the cancel script is not looked at before the write,
\* and a job about to end is cancelled all the same.
BugCancelVerdictTerminal(entry, job, commit) ==
    LET next == PollSnapshot(entry, job, job.polls)
    IN  IF next.turn = 0 THEN "unscripted"
        ELSE IF job.cancelRequested THEN "already_cancelling"
        ELSE IF ~ commit THEN "uncommitted"
        ELSE IF selectTurn(CancelTurns[entry], 0) = 0 THEN "unscripted"
        ELSE "mark"
BugCancelVerdict(entry, job, commit) ==
    LET next == PollSnapshot(entry, job, job.polls)
    IN  IF job.cancelRequested
        THEN IF next.turn = 0 THEN "unscripted" ELSE "already_cancelling"
        ELSE IF next.turn = 0 THEN "unscripted"
        ELSE IF Terminal(entry, next) THEN "terminal"
        ELSE IF ~ commit THEN "uncommitted" ELSE "mark"

\* What CancelJob concludes from one reading of the job, before it writes:
\* an outcome that ends the request, or "mark" to go on to MarkCancel.
CancelVerdict(entry, job, commit) ==
    LET next == PollSnapshot(entry, job, job.polls)
    IN  IF job.cancelRequested
        THEN IF next.turn = 0 THEN "unscripted" ELSE "already_cancelling"
        ELSE IF next.turn = 0 THEN "unscripted"
        ELSE IF Terminal(entry, next) THEN "terminal"
        ELSE IF ~ commit THEN "uncommitted"
        ELSE IF selectTurn(CancelTurns[entry], 0) = 0 THEN "unscripted"
        ELSE "mark"

-----------------------------------------------------------------------------
(* Requests *)

Start(r, ns, new) ==
    /\ req[r].pc = "idle"
    /\ req' = [req EXCEPT ![r] = new]
    /\ straddled' = IF HalfReset(ns) THEN straddled \cup {ns} ELSE straddled

\* MintJob, up to its claim.  The index is spent whatever follows; a create
\* whose attempt does not commit renders a body and records nothing.
ClaimCreate(r, ns, e) ==
    /\ creates[ns][e] < MaxCalls
    /\ creates' = [creates EXCEPT ![ns][e] = @ + 1]
    /\ \E commit \in BOOLEAN :
          Start(r, ns, IF commit
                       THEN [Idle EXCEPT !.pc = "mint", !.ns = ns,
                                         !.id = JobID(e, creates[ns][e]), !.commit = commit]
                       ELSE Idle)
    /\ UNCHANGED <<jobs, polled, admin, served, answered>>

\* MintJob's write.  A duplicate or a full namespace refuses the create.
StoreCreate(r) ==
    /\ req[r].pc = "mint"
    /\ jobs' = [jobs EXCEPT ![req[r].ns] = Create(@, req[r].id, req[r].id[1])]
    /\ req' = [req EXCEPT ![r] = Idle]
    /\ UNCHANGED <<creates, polled, admin, served, answered, straddled>>

\* Model bound: no poll starts that could claim an index past MaxCalls.
PollBudget(ns, id) ==
    polled[ns][id] + Cardinality({r \in Requests :
        req[r].pc = "poll" /\ req[r].ns = ns /\ req[r].id = id}) < MaxCalls

\* ResolveJob for a poll or a cancel sent to entry e.  It claims nothing.  A
\* miss, or a job minted by another entry, is a 404 that changes no state.
Resolve(r, op, ns, e, id) ==
    /\ jobs[ns][id].live
    /\ jobs[ns][id].entry = e
    /\ op = "poll" => PollBudget(ns, id)
    /\ Start(r, ns, [Idle EXCEPT !.pc = op, !.ns = ns, !.id = id])
    /\ UNCHANGED <<jobs, creates, polled, admin, served, answered>>

\* Mutant of ClaimPoll: the position is read off the job, not claimed.
BugClaimPoll(r) ==
    LET ns == req[r].ns  id == req[r].id
    IN  /\ req[r].pc = "poll"
        /\ polled' = [polled EXCEPT ![ns][id] = @ + 1]
        /\ req' = [req EXCEPT ![r] = [@ EXCEPT !.pc = "advance", !.index = jobs[ns][id].polls]]
        /\ UNCHANGED <<jobs, creates, admin, served, answered, straddled>>

\* SelectPollTurn, step 1: claim the poll lane's next index.
ClaimPoll(r) ==
    LET ns == req[r].ns  id == req[r].id
    IN  /\ req[r].pc = "poll"
        /\ polled' = [polled EXCEPT ![ns][id] = @ + 1]
        /\ req' = [req EXCEPT ![r] = [@ EXCEPT !.pc = "advance", !.index = polled[ns][id]]]
        /\ UNCHANGED <<jobs, creates, admin, served, answered, straddled>>

\* SelectPollTurn, steps 2 and 3: record the index on the job and serve the
\* snapshot selected from the record Advance returned (the zero Job when a
\* reset dropped it).
AdvancePoll(r) ==
    LET ns == req[r].ns  id == req[r].id  e == id[1]
        after == Advance(jobs[ns], id, req[r].index)
        snap == PollSnapshot(e, after[id], req[r].index)
    IN  /\ req[r].pc = "advance"
        /\ jobs' = [jobs EXCEPT ![ns] = after]
        /\ served' = [served EXCEPT ![ns] =
                        @ \cup {[id |-> id, index |-> req[r].index, snap |-> snap]}]
        /\ req' = [req EXCEPT ![r] = Idle]
        /\ UNCHANGED <<creates, polled, admin, answered, straddled>>

\* CancelJob's claim, first and only one: it fixes whether the cancel commits.
ClaimCancel(r) ==
    /\ req[r].pc = "cancel"
    /\ \E commit \in BOOLEAN :
          req' = [req EXCEPT ![r] = [@ EXCEPT !.pc = "lookup", !.commit = commit]]
    /\ UNCHANGED <<jobs, creates, polled, admin, served, answered, straddled>>

\* The cancel ends with `verdict` on the record job; the outcomes that carry
\* a turn tell the client what the poll at position job.polls will be served.
Conclude(r, job, verdict) ==
    LET ns == req[r].ns  id == req[r].id
    IN  /\ req' = [req EXCEPT ![r] = Idle]
        /\ answered' =
             IF verdict \in {"already_cancelling", "terminal", "recorded"}
             THEN [answered EXCEPT ![ns] = @ \cup
                     {[id |-> id, index |-> job.polls,
                       snap |-> PollSnapshot(id[1], job, job.polls)]}]
             ELSE answered

\* Mutant of Judge: every reading starts the count of tries afresh.
BugJudge(r, job, tries, first) ==
    LET verdict == CancelVerdict(req[r].id[1], job, req[r].commit)
    IN  IF verdict = "mark"
        THEN /\ req' = [req EXCEPT ![r] = [@ EXCEPT !.pc = "mark", !.job = job, !.tries = 0,
                                                    !.first = first]]
             /\ UNCHANGED answered
        ELSE Conclude(r, job, verdict)

\* One pass of CancelJob's loop over a reading of the job: conclude, or keep
\* the reading for the compare-and-set.
Judge(r, job, tries, first) ==
    LET verdict == CancelVerdict(req[r].id[1], job, req[r].commit)
    IN  IF verdict = "mark"
        THEN /\ req' = [req EXCEPT ![r] = [@ EXCEPT !.pc = "mark", !.job = job, !.tries = tries,
                                                    !.first = first]]
             /\ UNCHANGED answered
        ELSE Conclude(r, job, verdict)

\* CancelJob's Lookup and its first pass.
LookupCancel(r) ==
    LET job == jobs[req[r].ns][req[r].id]
    IN  /\ req[r].pc = "lookup"
        /\ IF job.live THEN Judge(r, job, 0, job.polls) ELSE Conclude(r, job, "not_found")
        /\ UNCHANGED <<jobs, creates, polled, admin, served, straddled>>

\* CancelJob's compare-and-set on the position it judged.
WriteCancel(r) ==
    LET ns == req[r].ns  id == req[r].id
        result == MarkResult(jobs[ns], id, req[r].job.polls)
        after == MarkCancel(jobs[ns], id, req[r].job.polls)
    IN  /\ req[r].pc = "mark"
        /\ jobs' = [jobs EXCEPT ![ns] = after]
        /\ CASE result = "marked" -> Conclude(r, after[id], "recorded")
             [] result = "already_marked" ->
                  Conclude(r, after[id], CancelVerdict(id[1], after[id], TRUE))
             [] result = "not_found" -> Conclude(r, after[id], "not_found")
             [] result = "position_moved" ->
                  IF req[r].tries + 1 = maxCancelTries
                  THEN Conclude(r, after[id], "contended")
                  ELSE Judge(r, after[id], req[r].tries + 1, req[r].first)
        /\ UNCHANGED <<creates, polled, admin, served, straddled>>

-----------------------------------------------------------------------------
(* Admin resets: the fault cursors first, then the job records, as two steps. *)

Scopes == {{ns} : ns \in Namespaces} \cup {Namespaces}

ResetCursors(a, scope) ==
    /\ admin[a] = {}
    /\ admin' = [admin EXCEPT ![a] = scope]
    /\ creates' = [ns \in Namespaces |->
                     IF ns \in scope THEN [e \in Entries |-> 0] ELSE creates[ns]]
    /\ polled' = [ns \in Namespaces |->
                    IF ns \in scope THEN [id \in JobIDs |-> 0] ELSE polled[ns]]
    /\ straddled' = (straddled \ scope)
                      \cup {ns \in scope : InFlight(ns) \/ HalfReset(ns)}
    /\ UNCHANGED <<jobs, req, served, answered>>

\* Mutant of ResetJobs: the cursors are reset and the job records survive.
BugResetJobs(a) ==
    /\ admin[a] # {}
    /\ admin' = [admin EXCEPT ![a] = {}]
    /\ straddled' = straddled \cup {ns \in admin[a] : InFlight(ns)}
    /\ UNCHANGED <<jobs, creates, polled, req, served, answered>>

ResetJobs(a) ==
    /\ admin[a] # {}
    /\ jobs' = [ns \in Namespaces |-> IF ns \in admin[a] THEN EmptyStore ELSE jobs[ns]]
    /\ served' = [ns \in Namespaces |-> IF ns \in admin[a] THEN {} ELSE served[ns]]
    /\ answered' = [ns \in Namespaces |-> IF ns \in admin[a] THEN {} ELSE answered[ns]]
    /\ straddled' = straddled \cup {ns \in admin[a] : InFlight(ns)}
    /\ admin' = [admin EXCEPT ![a] = {}]
    /\ UNCHANGED <<creates, polled, req>>

-----------------------------------------------------------------------------
Init ==
    /\ jobs = [ns \in Namespaces |-> EmptyStore]
    /\ creates = [ns \in Namespaces |-> [e \in Entries |-> 0]]
    /\ polled = [ns \in Namespaces |-> [id \in JobIDs |-> 0]]
    /\ req = [r \in Requests |-> Idle]
    /\ admin = [a \in Admins |-> {}]
    /\ served = [ns \in Namespaces |-> {}]
    /\ answered = [ns \in Namespaces |-> {}]
    /\ straddled = {}

Continue(r) == StoreCreate(r) \/ ClaimPoll(r) \/ AdvancePoll(r) \/ ClaimCancel(r)
                 \/ LookupCancel(r) \/ WriteCancel(r)

Next ==
    \/ \E r \in Requests, ns \in Namespaces, e \in Entries : ClaimCreate(r, ns, e)
    \/ \E r \in Requests, op \in {"poll", "cancel"}, ns \in Namespaces,
          e \in Entries, id \in JobIDs : Resolve(r, op, ns, e, id)
    \/ \E r \in Requests : Continue(r)
    \/ \E a \in Admins, scope \in Scopes : ResetCursors(a, scope)
    \/ \E a \in Admins : ResetJobs(a)

Spec == Init /\ [][Next]_vars

\* Goroutines are scheduled fairly and no step of a request waits for another.
FairSpec == Spec /\ \A r \in Requests : WF_vars(Continue(r))

-----------------------------------------------------------------------------
(* Properties *)

Served == [id : JobIDs, index : Nat, snap : Snapshot]

\* The types of the store, the cursors, the requests and the history.
TypeOK ==
    /\ jobs \in [Namespaces -> [JobIDs -> Job]]
    /\ creates \in [Namespaces -> [Entries -> 0..MaxCalls]]
    /\ polled \in [Namespaces -> [JobIDs -> Nat]]
    /\ req \in [Requests -> Request]
    /\ admin \in [Admins -> SUBSET Namespaces]
    /\ served \in [Namespaces -> SUBSET Served]
    /\ answered \in [Namespaces -> SUBSET Served]
    /\ straddled \subseteq Namespaces

\* jobs.Registry refuses at its bound and never exceeds it, however creates
\* and resets interleave.
BoundHeld == \A ns \in Namespaces : Cardinality(Live(jobs[ns])) <= MaxJobs

\* "The job's Polls must equal its poll lane's claimed count" (SelectPollTurn):
\* the count on the record lags the lane only by polls that have claimed an
\* index and not yet recorded it.
PollsMatchClaims ==
    \A ns \in Namespaces, id \in JobIDs :
        Settled(ns) /\ jobs[ns][id].live =>
            /\ jobs[ns][id].polls <= polled[ns][id]
            /\ \A i \in jobs[ns][id].polls..(polled[ns][id] - 1) :
                  \E r \in Requests : /\ req[r].pc = "advance" /\ req[r].index = i
                                      /\ req[r].ns = ns /\ req[r].id = id

\* One poll position of a job belongs to one poll: no two polls hold or were
\* served the same index.
OnePollPerPosition ==
    \A ns \in Namespaces : Settled(ns) =>
        \A r \in Requests : req[r].pc = "advance" /\ req[r].ns = ns =>
            /\ \A s \in served[ns] : s.id = req[r].id => s.index # req[r].index
            /\ \A q \in Requests \ {r} :
                  req[q].pc = "advance" /\ req[q].ns = ns /\ req[q].id = req[r].id
                    => req[q].index # req[r].index

\* The reason TerminalRegressions exists: in poll order a client never watches
\* a job finish and then run, be cancelled, or change its mind, whatever
\* cancels race its polls.
TerminalAbsorbs ==
    \A ns \in Namespaces : Settled(ns) =>
        \A x, y \in served[ns] :
            /\ x.id = y.id /\ x.index < y.index
            /\ x.snap.turn # 0 /\ y.snap.turn # 0
            /\ Terminal(x.id[1], x.snap)
            => Terminal(y.id[1], y.snap)

\* CancelOutcome's invariant: the turn a recorded, repeated or terminal cancel
\* answers is exactly the snapshot the job's next poll is served.
CancelAnswersNextPoll ==
    \A ns \in Namespaces : Settled(ns) =>
        \A a \in answered[ns], s \in served[ns] :
            a.id = s.id /\ a.index = s.index => a.snap = s.snap

\* The job may be cancelled away before its poll at this position: its own
\* snapshot there is scripted and not terminal, and a cancel script exists.
MayCancel(id, position) ==
    LET own == selectTurn(Turns[id[1]], position)
    IN  /\ own # 0 /\ Turns[id[1]][own].status # "terminal"
        /\ selectTurn(CancelTurns[id[1]], 0) # 0

\* A cancel is recorded only where it was judged: at a position the job has
\* reached, whose own snapshot is scripted and not terminal, with a cancel
\* script to serve from there on.  It holds across resets too.
CancelSound ==
    \A ns \in Namespaces, id \in JobIDs :
        jobs[ns][id].live /\ jobs[ns][id].cancelRequested =>
            /\ jobs[ns][id].cancelAtPoll <= jobs[ns][id].polls
            /\ MayCancel(id, jobs[ns][id].cancelAtPoll)

\* The identifier a create is about to record is free: job.id_collision needs
\* a reset that overlapped a request.
NoCollision ==
    \A r \in Requests : req[r].pc = "mint" /\ Settled(req[r].ns)
        => ~ jobs[req[r].ns][req[r].id].live

\* maxCancelTries: "each retry means a poll landed".  A cancel about to write has
\* seen one more poll of the job for each retry since its first reading, and a
\* write that would be refused now, to be retried or given up as contended, has
\* yet another poll behind it.
RetryMeansPollLanded ==
    \A r \in Requests : req[r].pc = "mark" /\ Settled(req[r].ns) =>
        LET store == jobs[req[r].ns]  id == req[r].id
        IN  /\ req[r].first + req[r].tries <= req[r].job.polls
            /\ MarkResult(store, id, req[r].job.polls) = "position_moved"
                 => req[r].first + req[r].tries < store[id].polls

\* The store as JobLifecycle sees it.
LifecycleRecord ==
    [ns \in Namespaces |-> [id \in JobIDs |->
        IF jobs[ns][id].live
        THEN {[polls |-> jobs[ns][id].polls,
               cancelled |-> IF jobs[ns][id].cancelRequested
                             THEN {jobs[ns][id].cancelAtPoll} ELSE {}]}
        ELSE {}]]

Lifecycle == INSTANCE JobLifecycle WITH record <- LifecycleRecord, Cancellable <- MayCancel

\* CancelJob's read, judge and compare-and-set, interleaved with polls, other
\* cancels and resets, amount to one atomic cancel at one position; creates
\* and polls are atomic, and only a reset takes anything back.
ImplementsLifecycle == Lifecycle!Spec

\* Every request ends: a cancel's retries are bounded however fast polls,
\* resets and re-created jobs move the position under it.
RequestsFinish == \A r \in Requests : (req[r].pc # "idle") ~> (req[r].pc = "idle")
=============================================================================
