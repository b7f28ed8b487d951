---------------------------- MODULE MCAlgorithms ----------------------------
(***************************************************************************)
(* The program's pure algorithms against what they are for, over bounded   *)
(* inputs.  A behaviour picks one algorithm and its input, and then takes  *)
(* the steps a client or an operator would: it polls a scripted job, sends *)
(* requests to lanes and resets namespaces, or plays a faulted stream call *)
(* after call.  An answer to a batch of targets is judged where it starts. *)
(***************************************************************************)
EXTENDS TurnSelection, Lanes

CONSTANTS
    Cases,      \* which of the algorithms below
    Streams,    \* the surfaces whose streams are played
    Indices,    \* call_index values a script may name; -1 is one authored negative
    MaxTurns,   \* longest script
    LastPoll,   \* how far the walk goes; beyond the highest call_index plus one
    MaxLanes,   \* lanes held at a time
    MaxDeltas,  \* longest stream script
    LastCall    \* calls of a stream's lane; beyond the longest plan

ASSUME BoundsAssumption ==
    /\ {MaxTurns, LastPoll, MaxLanes, MaxDeltas, LastCall} \subseteq Nat
    /\ Indices \subseteq Int
    /\ \A n \in Indices : n >= -1 /\ n + 1 < LastPoll

VARIABLES
    given,   \* the algorithm and its input
    at,      \* how many steps were taken
    seen     \* what the steps showed

vars == <<given, at, seen>>

\* The configured call_index values: a negative one, adjacent ones and a gap.
MCIndices == {-1, 0, 1, 3}

SeqsUpTo(S, n) == UNION {[1..k -> S] : k \in 0..n}

-----------------------------------------------------------------------------
(* Poll scripts (TurnSelection) *)

ModelWhens == {NoWhen, [NoWhen EXCEPT !.set = TRUE, !.body = TRUE]}
                \cup {w \in Whens(Indices) : w.set /\ ~ w.body /\ w.route # "this"
                                              /\ (w.route = "other" => w.callIndex = {})}

ScriptCases == {[what |-> "script", turns |-> s] :
                    s \in SeqsUpTo([when : ModelWhens, status : Statuses], MaxTurns)}

\* One poll of the job at position `at`: what a client that walks every poll
\* knows of the first terminal snapshot and of the regressions after it.
Poll ==
    LET turns  == given.turns
        turn   == selectTurn(turns, at)
        status == IF turn = 0 THEN "unknown" ELSE turns[turn].status
    IN  /\ given.what = "script" /\ at <= LastPoll
        /\ at' = at + 1
        /\ seen' = [first |-> IF status = "terminal" /\ seen.first.poll < 0
                              THEN [poll |-> at, turn |-> turn] ELSE seen.first,
                    found |-> IF /\ status = "pending" /\ seen.first.poll >= 0
                                 /\ \A r \in seen.found : r.turn # turn
                              THEN seen.found \cup {[poll |-> at, turn |-> turn,
                                                     terminalPoll |-> seen.first.poll,
                                                     terminalTurn |-> seen.first.turn]}
                              ELSE seen.found]
        /\ UNCHANGED given

\* The sampled positions of TerminalRegressions (turn.go: poll 0, every
\* call_index and its successor) report exactly what walking every poll
\* reports, the poll of each regression included, and never a regression the
\* walk has not met by its end.
CheckEqualsWalk ==
    given.what = "script" =>
        /\ seen.found \subseteq TerminalRegressions(given.turns)
        /\ at > LastPoll => seen.found = TerminalRegressions(given.turns)

-----------------------------------------------------------------------------
(* Lane keys (Lanes) *)

\* Tokens: values that hold a separator, a key of another route, a namespace,
\* what looks like a credential, and more than a lane value may hold.
Slashed == <<"ns1", "/", "exa">>
Piped   == <<"a", "|", "tavily">>
Plain   == <<"tenant">>
Secret  == <<"sk-live">>
Pin     == <<"1234">>
Long    == <<"long">>
JobId   == <<"job1">>

LaneValues == {Slashed, Piped, Plain, Secret, Pin, Long, JobId}

\* What must never be read off a key.
Hidden == {Secret[1], Pin[1]}

MCValidNames  == {"default", "ns1", "ns2"}
MCCredentials == {Secret}
MCTooLong     == {Long}
MCDigest      == [v \in LaneValues |-> IF v = Secret THEN "digest1" ELSE "digest2"]

\* The secret looks like one, and a fingerprint gives nothing away; the PIN is
\* a credential by the name of its extractor alone.
ASSUME LanesAssumption ==
    /\ Secret \in Credentials
    /\ \A v \in LaneValues : Digest[v] \notin Hidden

Plans == {<<"exa">>, <<"tavily">>}

Extractor(form, name, credential) == [form |-> form, name |-> name, credential |-> credential]
Route     == Extractor("route", "route", FALSE)
BodyUser  == Extractor("body_json", "user", FALSE)
BodyPin   == Extractor("body_json", "pin", TRUE)
HeaderTag == Extractor("header", "x-tag", FALSE)
PathJob   == Extractor("path", "id", FALSE)

\* The turn_key an entry declares, or the path extractor of a job's route.
TurnKeys == {<<>>, <<Route>>, <<Route, BodyUser>>, <<BodyUser, HeaderTag>>, <<HeaderTag, BodyPin>>}

\* The body's, the header's and the path's values.
Holds(user, tag) ==
    [form \in {"body_json", "header", "path"} |->
        [name \in {"user", "pin", "x-tag", "id"} |->
            IF name = "user" THEN user ELSE IF name = "pin" THEN Pin
            ELSE IF name = "x-tag" THEN tag ELSE JobId]]

LanePaths  == {<<"search">>, <<"n", "ns1", "search">>, <<"n", "ns2", "search">>}
LaneRoutes == {[key |-> k, laneFrom |-> f] : k \in Plans, f \in {<<>>, <<PathJob>>}}
Users      == {Slashed, Piped, Plain, Secret, Long, <<>>}
Tags       == {Slashed, Secret}

LaneRequest(path, route, turnKey, user, tag) ==
    [path |-> path, namespace |-> "", route |-> route, turnKey |-> turnKey, holds |-> Holds(user, tag)]

LaneRequests == {LaneRequest(p, r, k, u, h) :
                    p \in LanePaths, r \in LaneRoutes, k \in TurnKeys, u \in Users, h \in Tags}

LaneOf(req) == resolveLane(req, req.route, req.turnKey, "scenario").lane

LaneCases == {[what |-> "lane"]}

\* A request is claimed under the key of its lane.
Claim(req) ==
    /\ given.what = "lane" /\ Cardinality(seen.truth) < MaxLanes
    /\ LET lane == LaneOf(req)
       IN  seen' = [truth |-> seen.truth \cup {[lane |-> lane, plan |-> req.route.key]},
                    keys  |-> seen.keys \cup {CursorKey(lane)}]
    /\ UNCHANGED <<given, at>>

\* An admin resets one namespace: the engine finds its lanes by their keys.
Reset(namespace) ==
    /\ given.what = "lane"
    /\ seen' = [truth |-> {t \in seen.truth : t.lane.namespace # namespace},
                keys  |-> ResetIn(seen.keys, namespace)]
    /\ UNCHANGED <<given, at>>

\* A lane's string key gives back the route whose plan it claims and the
\* namespace it belongs to, whatever the request put into it, separators
\* included; a reset therefore drops the counters of its namespace and of no
\* other; and no credential is in a key.
LaneRecovered ==
    given.what = "lane" =>
        /\ seen.keys = {CursorKey(t.lane) : t \in seen.truth}
        /\ \A t \in seen.truth : resolve(Plans, CursorKey(t.lane)) =
                                     [namespace |-> t.lane.namespace, plan |-> t.plan]
        /\ \A k \in seen.keys : \A i \in 1..Len(k) : k[i] \notin Hidden

-----------------------------------------------------------------------------
(* Faulted streams (FaultAttempts, Perplexity, Mcp) *)

F == INSTANCE FaultAttempts WITH BodyLen <- 1, ErrorLen <- 1, ChunkLen <- 1
P == INSTANCE Perplexity
M == INSTANCE Mcp

\* A turn of a streaming entry; only the Agent's has a status.
StreamTurns(surface) ==
    [status : IF surface = "agent" THEN P!statuses ELSE {""}, error : {TRUE}, source : {"ok"},
     deltas : 1..MaxDeltas, first : {0}, last : {1}, answer : {1}]

\* The frames a call plays; MCP's progress frames need a token in the request.
Frames(surface, turn, token) ==
    IF surface = "agent" THEN P!renderAgentStream(turn.status, turn.deltas, TRUE)
    ELSE IF surface = "mcp" THEN M!renderProgressStream(turn.deltas, token)
    ELSE P!renderSonarStream(turn.deltas)

StreamScript(surface, turn) ==
    [policy |-> "stream", deltas |-> turn.deltas,
     chunks |-> IF surface = "agent" THEN P!agentChunkCount(turn.deltas, turn.status) ELSE 0]

StreamFault(kind, after, repeat) == [F!Bare EXCEPT !.kind = kind, !.after = after, !.repeat = repeat]

StreamAttempts == {StreamFault(k, n, r) :
                       k \in {"stream_disconnect", "stream_stall"}, n \in 0..(MaxDeltas + 5), r \in {0, 2}}

\* A fault at once, or after a first call that is left alone.
Plannable == {<<a>> : a \in StreamAttempts} \cup {<<F!Bare, a>> : a \in StreamAttempts}

\* Entries of one or two turns and a plan that scenario loading accepts.
StreamCases ==
    UNION {[what : {"stream"}, surface : {s}, turns : UNION {[1..k -> StreamTurns(s)] : k \in 1..2},
            plan : Plannable, after : {"success", "repeat_last"}] : s \in Streams}

Loads(c) ==
    LET scripts == [i \in 1..Len(c.turns) |-> StreamScript(c.surface, c.turns[i])]
    IN  /\ \A i \in 1..Len(c.plan) : F!LoadsWith(c.plan[i], scripts)
        /\ \A i \in 1..Len(c.turns) : P!validateAgentProjection(c.turns[i]) = {}

\* Call number `at` of the lane, answered by one of the turns.
PlayCall(turn, token) ==
    LET attempt == F!at(given.plan, given.after, at)
        plan    == F!planStream(attempt)
        hits    == {plan.disconnectAt, plan.truncateAt, plan.stallAt}
        frames  == Frames(given.surface, given.turns[turn], token)
    IN  /\ given.what = "stream" /\ at < LastCall
        /\ at' = at + 1
        /\ seen' = [faults |-> seen.faults + (IF F!IsStream(attempt.kind) THEN 1 ELSE 0),
                    landed |-> seen.landed + (IF hits \cap 0..(Len(frames) - 1) # {} THEN 1 ELSE 0)]
        /\ UNCHANGED given

\* The calls a plan faults, counted from the plan as it is written.
Planned(plan, after, calls) ==
    LET lengths == [i \in 1..Len(plan) |-> F!Repeats(plan[i])]
        before  == IF Len(plan) = 1 THEN 0 ELSE lengths[1]
        reach   == calls - before
        last    == lengths[Len(plan)]
    IN  IF reach <= 0 THEN 0 ELSE IF after = "repeat_last" \/ reach <= last THEN reach ELSE last

\* A stream fault that loading accepted lands on every call the plan scripts it
\* for, whichever turn answers: the chunk it names is one the stream has.  The
\* counts the load check and the renderers keep apart agree.
StreamFaultLands ==
    given.what = "stream" =>
        /\ seen.faults = Planned(given.plan, given.after, at)
        /\ seen.landed = seen.faults

-----------------------------------------------------------------------------
(* Batches of targets (Exa /contents, Tavily /extract) *)

E == INSTANCE Exa
T == INSTANCE Tavily

Targets == {"a", "b"}

Contents(ids, index, corpus, overrides) ==
    [what |-> "contents", ids |-> ids, index |-> index, corpus |-> corpus, overrides |-> overrides]

Extract(urls, failures, results, corpus) ==
    [what |-> "extract", urls |-> urls, failures |-> failures, results |-> results, corpus |-> corpus]

Batches  == SeqsUpTo(Targets, 3) \ {<<>>}
Listings == SUBSET Targets

Overrides == SeqsUpTo([id : Targets, status : {"", "success", "error"}], 2)
Failures  == SeqsUpTo(Targets \cup {"z"}, 2)
Results   == SUBSET [url : Targets, id : {"", "a"}]

ContentsCases == {Contents(b, i, c, o) : b \in Batches, i \in Listings, c \in Listings, o \in Overrides}

ExtractCases == {Extract(b, f, r, c) : b \in Batches, f \in Failures, r \in Results, c \in Listings}

TargetCases == ContentsCases \cup ExtractCases

\* Each identifier or URL of a batch is answered once, in order, and one way:
\* /contents has a status per position, a result only with a success, an error
\* tag with every failure, and the same answer for a repeated identifier;
\* /extract puts each URL in results or in failed_results and never in both.
EveryTargetAnswered ==
    /\ given.what = "contents" =>
           LET body == E!renderContentsBody(given.ids, given.index, given.corpus, given.overrides)
           IN  body # <<>> =>
                   /\ [i \in DOMAIN body |-> body[i].id] = given.ids
                   /\ \A i \in DOMAIN body : /\ body[i].result => body[i].status = "success"
                                             /\ body[i].status # "success" => body[i].tag
                   /\ \A i, j \in DOMAIN body : given.ids[i] = given.ids[j] => body[i] = body[j]
    /\ given.what = "extract" =>
           LET body == T!renderExtract(given.urls, given.failures, given.results, given.corpus)
           IN  \A u \in Targets :
                   /\ Times(u, given.urls) = Times(u, body.results) + Times(u, body.failed)
                   /\ Times(u, body.results) = 0 \/ Times(u, body.failed) = 0

-----------------------------------------------------------------------------
Init ==
    /\ at = 0
    /\ \/ /\ "script" \in Cases /\ given \in ScriptCases
          /\ seen = [first |-> [poll |-> -1, turn |-> 0], found |-> {}]
       \/ /\ "lane" \in Cases /\ given \in LaneCases /\ seen = [truth |-> {}, keys |-> {}]
       \/ /\ "stream" \in Cases /\ given \in StreamCases /\ Loads(given)
          /\ seen = [faults |-> 0, landed |-> 0]
       \/ /\ "targets" \in Cases /\ given \in TargetCases /\ seen = <<>>

Next ==
    \/ Poll
    \/ \E req \in LaneRequests : Claim(req)
    \/ \E ns \in {"default", "ns1"} : Reset(ns)
    \/ \E turn \in 1..2, token \in BOOLEAN :
           given.what = "stream" /\ turn <= Len(given.turns) /\ PlayCall(turn, token)

Spec == Init /\ [][Next]_vars
=============================================================================
