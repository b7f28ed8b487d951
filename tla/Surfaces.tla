------------------------------ MODULE Surfaces ------------------------------
(***************************************************************************)
(* The routes the four profiles serve, as a machine: one route is called   *)
(* again and again, each handler reads the request, refuses or claims the  *)
(* lane's next attempt, mints, polls or cancels a job, and Handle then     *)
(* records the entry.  Composes the handlers of Perplexity, Exa, Tavily    *)
(* and Mcp with the claim rules of provider/handle.go.                     *)
(*                                                                         *)
(* The job store is kept to what the handlers tell apart; its concurrency  *)
(* is AsyncJobs.  Faults and streaming are RequestLifecycle.  A request    *)
(* whose namespace has no seat is refused, unless its entry demotes        *)
(* namespace.limit_exceeded: then it is served at call index -1.           *)
(***************************************************************************)
EXTENDS Exchange, FiniteSetsExt

CONSTANTS
    MaxCalls,       \* bound on the claims of creates, of polls and of cancels
    MaxJobs,        \* --max-jobs
    MaxResets,      \* bound on the resets of the cursors alone
    Entries,        \* the scenario entries a route may be served from
    Requests(_),    \* the requests sent to the create route of a surface
    JobRequests     \* the requests sent to a job's routes

\* The statuses loading accepts in a poll turn, of the three profiles together.
JobStatuses == {"queued", "pending", "running", "in_progress",
                "completed", "failed", "cancelled", "incomplete"}

ASSUME SurfacesAssumption == MaxCalls \in Nat \ {0} /\ MaxJobs \in Nat /\ MaxResets \in Nat

ASSUME EntriesAssumption ==
    \A e \in Entries :
        \A script \in {e.script, e.cancelScript} :
            \A index \in DOMAIN script : index \in Int /\ script[index] \in JobStatuses

P == INSTANCE Perplexity
E == INSTANCE Exa
T == INSTANCE Tavily
M == INSTANCE Mcp

PerplexitySurfaces == {"sonar", "agent"}
ExaSurfaces == {"search", "answer", "findSimilar", "contents", "run"}
TavilySurfaces == {"tavily", "extract", "research"}
JobSurfaces == {"agent", "run", "research"}
AllSurfaces == PerplexitySurfaces \cup ExaSurfaces \cup TavilySurfaces \cup {"mcp"}

VARIABLES
    surface,   \* the route called
    entry,     \* the entry it is served from
    calls,     \* the lanes' counters
    jobs,      \* the namespace's job records, by the call index that minted them
    answer,    \* what the handler answered, until Handle has recorded it
    entries,   \* claims the journal accounts for, by lane
    resets     \* how often the cursors alone were reset

vars == <<surface, entry, calls, jobs, answer, entries, resets>>

\* A job's identifier is derived from the call index of its create, which is -1
\* for a create that claimed nothing; Foreign stands for a record of another
\* entry in the same namespace.
Foreign == MaxCalls
JobIDs == -1..MaxCalls

\* The create route has one lane; polls and cancels have one for each job.
CreateLane == <<"create", 0>>
PollLane(id) == <<"poll", id>>
CancelLane(id) == <<"cancel", id>>
Lanes == {CreateLane} \cup {PollLane(id) : id \in JobIDs} \cup {CancelLane(id) : id \in JobIDs}

Idle == [pending |-> FALSE]
NoJob == [live |-> FALSE, polls |-> 0, cancelled |-> FALSE, cancelAt |-> 0]

Init ==
    /\ surface \in AllSurfaces
    /\ entry \in Entries
    /\ calls = [l \in Lanes |-> 0]
    /\ jobs = [id \in JobIDs |-> NoJob]
    /\ answer = Idle
    /\ entries = [l \in Lanes |-> 0]
    /\ resets = 0

-----------------------------------------------------------------------------
(* What the handlers ask the stores *)

Live == {id \in JobIDs : jobs[id].live}

\* Mutant of Resolves: a record is found by namespace and identifier alone.
BugResolves(id) == IF jobs[id].live THEN "resolved" ELSE IF Live # {} THEN "foreign" ELSE "unknown"

\* ResolveJob: only a record minted through this entry resolves.
Resolves(id) ==
    IF ~ jobs[id].live THEN (IF Live # {} THEN "foreign" ELSE "unknown")
    ELSE IF id = Foreign THEN "wrong_entry"
    ELSE "resolved"

\* CallIndex: the index the request claims, when it claims.  A request without a
\* seat gets none, from a lane that has no counter.
CallIndex(x, lane) == IF x.admitted THEN calls[lane] ELSE -1

\* MintJob and Store.Create: the identifier of the index about to be taken.
Mint(x) ==
    IF jobs[CallIndex(x, CreateLane)].live THEN "collision"
    ELSE IF Cardinality(Live) >= MaxJobs THEN "limit"
    ELSE "ok"

\* pollScript: what a poll at this index of the job is served, or "miss".
Snapshot(id, index) ==
    IF jobs[id].cancelled /\ index >= jobs[id].cancelAt
    THEN SnapshotAt(entry.cancelScript, index - jobs[id].cancelAt)
    ELSE SnapshotAt(entry.script, index)

\* SelectPollTurn, at the index this poll claims, and CancelJob's peek, at the
\* position on record.
PollTurn(x, id) == Snapshot(id, CallIndex(x, PollLane(id)))
NextTurn(id) == Snapshot(id, jobs[id].polls)

\* The statuses that end a job: terminalStatuses and backgroundTerminal, which
\* alone knows "incomplete".
Terminal(status) == status \in {"completed", "failed", "cancelled", "incomplete"}

\* CancelJob, when no poll races it (AsyncJobs has the races) and its attempt
\* commits, as it does when there is none.
CancelOutcome(id) ==
    IF NextTurn(id) = "miss" THEN "failed"
    ELSE IF jobs[id].cancelled THEN "already"
    ELSE IF Terminal(NextTurn(id)) THEN "terminal"
    ELSE IF SnapshotAt(entry.cancelScript, 0) = "miss" THEN "failed"
    ELSE "recorded"

-----------------------------------------------------------------------------
(* Handle *)

\* An eligible answer that no finding failed carries its attempt.
Stands(resp) == resp.eligible /\ ~ Failed(entry.validation, resp.findings)

\* Whether the request took an index: its handler claimed, or Handle did for an
\* answer that stands.
Claims(x, resp) == x.admitted /\ (resp.claims \/ Stands(resp))

\* A claim the answer cannot carry is stripped from it.
Stripped(x, resp) == Claims(x, resp) /\ ~ Stands(resp)

\* What Handle reports of the claim: one that was stripped, or one that found no
\* counter and so no fault plan.
ClaimFindings(x, resp) ==
    When(Stripped(x, resp), Warn("fault.attempt_on_rejection"))
        \cup When(Stands(resp) /\ ~ x.admitted, Warn("fault.unknown_key"))

\* Mutant of Finish: a stripped claim is not reported.
BugFinish(x, lane, resp) ==
    /\ calls' = IF Claims(x, resp) THEN [calls EXCEPT ![lane] = @ + 1] ELSE calls
    /\ answer' = [pending |-> TRUE, x |-> x, lane |-> lane, resp |-> resp]

\* What Handle makes of the handler's answer.
Finish(x, lane, resp) ==
    /\ calls' = IF Claims(x, resp) THEN [calls EXCEPT ![lane] = @ + 1] ELSE calls
    /\ answer' = [pending |-> TRUE, x |-> x, lane |-> lane,
                  resp |-> [resp EXCEPT !.findings = @ \cup ClaimFindings(x, resp)]]

\* A create's effect on the store is Store.Create's, under the claimed index.
Create(x, resp) ==
    /\ Finish(x, CreateLane, resp)
    /\ jobs' = IF resp.job = "mint" THEN [jobs EXCEPT ![CallIndex(x, CreateLane)].live = TRUE] ELSE jobs
    /\ UNCHANGED <<surface, entry, entries, resets>>

\* A poll's is Advance's: the position on record never goes back, though after a
\* reset of the cursors the lane's index does.
Poll(x, id, resp) ==
    LET index == CallIndex(x, PollLane(id))
    IN  /\ Finish(x, PollLane(id), resp)
        /\ jobs' = IF resp.job = "poll" /\ jobs[id].polls <= index
                   THEN [jobs EXCEPT ![id].polls = index + 1] ELSE jobs
        /\ UNCHANGED <<surface, entry, entries, resets>>

\* A cancel's is MarkCancel's, at the position it was judged at.
Cancel(x, id, resp) ==
    /\ Finish(x, CancelLane(id), resp)
    /\ jobs' = IF resp.job = "cancel"
               THEN [jobs EXCEPT ![id].cancelled = TRUE, ![id].cancelAt = jobs[id].polls] ELSE jobs
    /\ UNCHANGED <<surface, entry, entries, resets>>

\* A namespace whose lanes have counted has its seat until they are dropped.
Arrives(x) == ~ answer.pending /\ (x.admitted \/ \A l \in Lanes : calls[l] = 0)

Claimed(kind) == MapThenSumSet(LAMBDA l : calls[l], {l \in Lanes : l[1] = kind})

Room(kind) == Claimed(kind) < MaxCalls

-----------------------------------------------------------------------------
(* One action per route *)

Called(s, x) == surface = s /\ Arrives(x) /\ calls[CreateLane] < MaxCalls
Claim(x) == CallIndex(x, CreateLane)

ServeSonar ==
    \E x \in Requests("sonar") : Called("sonar", x) /\ Create(x, P!handleSonar(x, entry, Claim(x)))
ServeAgent ==
    \E x \in Requests("agent") : Called("agent", x) /\ Create(x, P!handleAgent(x, entry, Claim(x), Mint(x)))
ServeSearch ==
    \E x \in Requests("search") : Called("search", x) /\ Create(x, E!handleSearch(x, entry, Claim(x)))
ServeAnswer ==
    \E x \in Requests("answer") : Called("answer", x) /\ Create(x, E!handleAnswer(x, entry, Claim(x)))
ServeFindSimilar ==
    \E x \in Requests("findSimilar") : Called("findSimilar", x) /\ Create(x, E!handleFindSimilar(x, entry, Claim(x)))
ServeContents ==
    \E x \in Requests("contents") : Called("contents", x) /\ Create(x, E!handleContents(x, entry, Claim(x)))
ServeRun ==
    \E x \in Requests("run") : Called("run", x) /\ Create(x, E!handleAgentRunCreate(x, entry, Mint(x)))
ServeTavily ==
    \E x \in Requests("tavily") : Called("tavily", x) /\ Create(x, T!handleSearch(x, entry, Claim(x)))
ServeExtract ==
    \E x \in Requests("extract") : Called("extract", x) /\ Create(x, T!handleExtract(x, entry, Claim(x)))
ServeResearch ==
    \E x \in Requests("research") : Called("research", x) /\ Create(x, T!handleResearchCreate(x, entry, Mint(x)))
ServeMCP ==
    \E x \in Requests("mcp") : Called("mcp", x) /\ Create(x, M!handleMCP(x, entry, Claim(x)))

PollJob ==
    /\ surface \in JobSurfaces /\ Room("poll")
    /\ \E x \in JobRequests, id \in JobIDs :
           /\ Arrives(x)
           /\ Poll(x, id,
                   CASE surface = "agent" -> P!handleAgentRetrieve(x, entry, Resolves(id), PollTurn(x, id))
                     [] surface = "run" /\ x.method = "GET" ->
                            E!handleAgentRunPoll(x, entry, Resolves(id), PollTurn(x, id))
                     [] surface = "run" -> E!handleAgentRunHead(x, entry, Resolves(id))
                     [] surface = "research" /\ x.method = "GET" ->
                            T!handleResearchPoll(x, entry, Resolves(id), CallIndex(x, PollLane(id)))
                     [] OTHER -> T!handleResearchHead(x, entry, Resolves(id)))

\* Tavily serves no cancel.
CancelJob ==
    /\ surface \in {"agent", "run"} /\ Room("cancel")
    /\ \E x \in JobRequests, id \in JobIDs :
           /\ Arrives(x)
           /\ Cancel(x, id, IF surface = "agent"
                            THEN P!handleAgentCancel(x, entry, Resolves(id), CancelOutcome(id),
                                     IF Terminal(NextTurn(id)) THEN "terminal" ELSE "live")
                            ELSE E!handleAgentRunCancel(x, entry, Resolves(id), CancelOutcome(id)))

\* An entry accounts for a claim by its attempt, or by the finding that the
\* attempt was stripped.
Shows(x, resp) == \/ x.admitted /\ Stands(resp)
                  \/ HasFinding(resp.findings, {"fault.attempt_on_rejection"})

\* The entry is journaled.
Record ==
    /\ answer.pending
    /\ entries' = IF Shows(answer.x, answer.resp) THEN [entries EXCEPT ![answer.lane] = @ + 1] ELSE entries
    /\ answer' = Idle
    /\ UNCHANGED <<surface, entry, calls, jobs, resets>>

-----------------------------------------------------------------------------
(* The rest of the namespace *)

\* A create through another entry of the namespace.
CreateElsewhere ==
    /\ surface \in JobSurfaces /\ ~ answer.pending
    /\ ~ jobs[Foreign].live /\ Cardinality(Live) < MaxJobs
    /\ jobs' = [jobs EXCEPT ![Foreign].live = TRUE]
    /\ UNCHANGED <<surface, entry, calls, answer, entries, resets>>

\* FaultEngine.Reset alone: the lanes start over, the records stay.
ResetCursors ==
    /\ ~ answer.pending /\ calls[CreateLane] > 0 /\ resets < MaxResets
    /\ resets' = resets + 1
    /\ calls' = [l \in Lanes |-> 0]
    /\ entries' = [l \in Lanes |-> 0]
    /\ UNCHANGED <<surface, entry, jobs, answer>>

Next ==
    \/ ServeSonar \/ ServeAgent \/ ServeSearch \/ ServeAnswer \/ ServeFindSimilar
    \/ ServeContents \/ ServeRun \/ ServeTavily \/ ServeExtract \/ ServeResearch \/ ServeMCP
    \/ PollJob \/ CancelJob \/ Record \/ CreateElsewhere \/ ResetCursors

Spec == Init /\ [][Next]_vars

-----------------------------------------------------------------------------
(* Properties *)

Errs == ErrorCodes(entry.validation, answer.resp.findings)

\* The codes only a claimed request can meet.
AfterClaim == {"scenario.no_matching_turn", "job.limit_reached", "job.id_collision",
               "job.cancel_unscripted"}

\* A request refused for what it is (its body, its credentials, a field, its
\* namespace, an unknown job) consumes no attempt of any lane and leaves the
\* job store alone, on every route of every profile.
RefusalSpendsNothing ==
    [][(/\ ~ answer.pending /\ answer'.pending /\ answer'.resp.label = "error"
        /\ ~ HasFinding(answer'.resp.findings, AfterClaim)) => UNCHANGED <<calls, jobs>>]_vars

\* Every claim of a lane is accounted for by exactly one journal entry: served
\* with its attempt, or refused with fault.attempt_on_rejection.  A request served
\* without a seat takes none, and its entry shows none.
ClaimsAccounted ==
    \A l \in Lanes :
        calls[l] = entries[l] + (IF answer.pending /\ answer.lane = l /\ Shows(answer.x, answer.resp) THEN 1 ELSE 0)

AuthCodes == {"auth.missing", "auth.mismatch", "auth.rejected"}

\* Exa reports a wrong key at the name of the header it came in, which sorts
\* after the findings that name no field, so another error may decide there.
AuthDecides == IF surface \in ExaSurfaces THEN "auth.missing" \in Errs ELSE Errs \cap AuthCodes # {}

\* On the research profiles a 401 means a credential problem, and a missing
\* credential is a 401 whatever else is wrong with the request; a namespace over the
\* bound, with nothing else wrong, is a 503.
StatusNamesTheCause ==
    answer.pending /\ surface # "mcp" /\ answer.resp.status # 405 =>
        /\ AuthDecides => answer.resp.status = 401
        /\ answer.resp.status = 401 => Errs \cap AuthCodes # {}
        /\ Errs = {"namespace.limit_exceeded"} => answer.resp.status = 503

\* A request none of whose findings the entry leaves at error severity is refused
\* for nothing but a turn or a job that cannot be had: an explicit demotion
\* outranks validation.strict.
DemotionHolds ==
    (/\ answer.pending /\ answer.lane = CreateLane
     /\ ~ HasFinding(answer.resp.findings, AfterClaim)
     /\ surface \in ExaSurfaces \cup TavilySurfaces \cup {"sonar"} /\ entry.stream # "reject"
     /\ \A f \in answer.resp.findings : f.code \in entry.validation.demote)
        => answer.resp.label # "error"

\* A route polls and cancels live jobs of its own entry only: the record another
\* entry minted is never changed through it, and a poll or a cancel of a job that
\* does not resolve takes nothing from that job's lanes.
OwnJobsOnly ==
    \A id \in JobIDs :
        (jobs[id].polls > 0 \/ jobs[id].cancelled \/ calls[PollLane(id)] > 0 \/ calls[CancelLane(id)] > 0)
            => jobs[id].live /\ id # Foreign

\* An Agent request that is served names the model it ran on: validation
\* leaves no accepted combination of model, models, preset and profile from
\* which the response's model field comes out empty.
ServedModelNamed ==
    (answer.pending /\ surface = "agent" /\ answer.lane = CreateLane /\ answer.resp.eligible
        /\ entry.validation.demote = {}) => P!EchoedModel(answer.x) # ""
=============================================================================
