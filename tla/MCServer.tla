------------------------------ MODULE MCServer ------------------------------
(***************************************************************************)
(* Server on a build of two listeners, acme and its instance acme2, over   *)
(* sound and broken registrations, configurations and scenario             *)
(* directories.                                                            *)
(***************************************************************************)
EXTENDS Server

MCValidNames == {"default", "alpha", "beta", "t1", "search"}
MCProfileNames == {"acme", "acme2"}
MCBuiltins == {"builtin:default"}
MCDigest == [v \in {<<"sk">>, <<"v">>, <<>>} |-> "digest"]
MCCredentials == {<<"sk">>}
MCTooLong == {<<"long">>}

NoWhen == [set |-> FALSE, callIndex |-> {}, route |-> "", blankKey |-> FALSE]
Turn == [mapping |-> TRUE, when |-> NoWhen, fault |-> Absent]
Faulted == [Turn EXCEPT !.fault = [present |-> TRUE, attempts |-> <<[Bare EXCEPT !.status = 429]>>,
                                   after |-> ""]]
Entry(name, kind) ==
    [name |-> name, kind |-> kind, stray |-> FALSE, faultWithTurns |-> FALSE, auth |-> "",
     turnKey |-> <<>>, create |-> Absent, cancel |-> Absent, background |-> Absent,
     turns |-> <<Turn>>, body |-> {}]
Source == [id |-> "s1", url |-> "reserved", title |-> TRUE, claimIds |-> TRUE]
Scenario(name, entries) ==
    [version |-> 1, syntax |-> "ok", name |-> name, sources |-> <<Source>>, refs |-> {"s1"},
     entries |-> entries]

HeaderKey == [form |-> "header", name |-> "x-role", credential |-> FALSE]
PlanAcme == [Entry("acme", "acme") EXCEPT !.turns = <<Faulted>>]
PlanAcme2 == [Entry("acme2", "acme") EXCEPT !.turns = <<Faulted>>, !.turnKey = <<HeaderKey>>]

Both == Scenario("both", <<PlanAcme, PlanAcme2>>)
Primary == Scenario("primary", <<PlanAcme>>)
Cancels == Scenario("cancels", <<[PlanAcme EXCEPT !.cancel =
                       [present |-> TRUE, fault |-> Absent, turns |-> <<Turn>>]]>>)
Odd == Scenario("no good", <<PlanAcme2>>)

Broken ==
    {[Both EXCEPT !.version = 2], [Both EXCEPT !.syntax = "yaml"], [Both EXCEPT !.syntax = "fields"],
     [Both EXCEPT !.name = ""], [Both EXCEPT !.refs = {"s9"}],
     [Both EXCEPT !.sources = <<Source, Source>>],
     [Both EXCEPT !.sources = <<[Source EXCEPT !.id = "", !.url = "missing", !.title = FALSE,
                                               !.claimIds = FALSE]>>, !.refs = {}],
     Scenario("x", <<[PlanAcme EXCEPT !.turns = <<>>]>>),
     Scenario("x", <<[PlanAcme EXCEPT !.turns = <<Turn, Turn>>]>>),
     Scenario("x", <<[PlanAcme EXCEPT !.kind = "", !.stray = TRUE, !.faultWithTurns = TRUE,
                                      !.auth = "maybe", !.turnKey = <<[HeaderKey EXCEPT !.name = ""]>>]>>),
     Scenario("x", <<[PlanAcme EXCEPT !.create = [present |-> TRUE, fault |->
                        [present |-> TRUE, attempts |-> <<>>, after |-> "later"]]]>>),
     Scenario("x", <<[PlanAcme EXCEPT !.background =
                        [present |-> TRUE, turns |-> <<>>, cancel |-> Absent]]>>),
     Scenario("x", <<[PlanAcme EXCEPT !.turns =
                        <<[Turn EXCEPT !.when = [NoWhen EXCEPT !.set = TRUE, !.route = "nope"]]>>]>>),
     Scenario("x", <<[PlanAcme EXCEPT !.turns = <<[Turn EXCEPT !.mapping = FALSE,
                        !.when = [NoWhen EXCEPT !.set = TRUE, !.callIndex = {-1}]]>>]>>)}

\* Accepted, with warnings: an entry nobody serves, a host that is real.
Warned == Scenario("warned", <<PlanAcme, Entry("other", "other")>>)

Route(method, path, key, laneFrom, entry, name) ==
    [method |-> method, path |-> path, key |-> key, laneFrom |-> laneFrom, entry |-> entry,
     name |-> name]
AcmeRoutes ==
    {Route("POST", <<"search">>, <<"acme", ":", "search">>, <<>>, "acme", "search"),
     Route("GET", <<"runs", "j1">>, <<"acme", ":", "run">>,
           <<[form |-> "path", name |-> "id", credential |-> FALSE]>>, "acme_run", "run")}
Acme == [name |-> "acme", kind |-> "", routes |-> AcmeRoutes,
         handlers |-> {Pattern(rt) : rt \in AcmeRoutes}, validators |-> {"acme", "acme_run"},
         cancellable |-> {"acme"}, backgroundable |-> {}, backgroundCancellable |-> {},
         errorBody |-> TRUE, auth |-> "", port |-> 8081]
Acme2 == [Acme EXCEPT !.name = "acme2", !.kind = "acme", !.validators = {"acme"}, !.port = 8082]

BadSets ==
    {<<Acme, [Acme2 EXCEPT !.port = 8081]>>, <<Acme, Acme>>, <<Acme, [Acme2 EXCEPT !.kind = ""]>>,
     <<[Acme EXCEPT !.handlers = {}]>>, <<[Acme2 EXCEPT !.validators = {"acme", "acme_run"}]>>,
     <<[Acme EXCEPT !.backgroundCancellable = {"acme"}]>>, <<[Acme EXCEPT !.name = "Acme!"]>>}

None == [s \in Settings |-> {}]
Args(flag, env, mode) == [flag |-> flag, env |-> env, mode |-> mode, parses |-> TRUE]
Plain == Args(None, None, "serve")
Dir(given) == [given EXCEPT !.flag["scenario-dir"] = {"dir"}]
File(stem, s) == [stem |-> stem, hidden |-> FALSE, yaml |-> TRUE, readable |-> TRUE,
                  regular |-> TRUE, scenario |-> s]
Ports == [n \in {"acme", "acme2"} |-> IF n = "acme" THEN 8081 ELSE 8082]

Holds(role) == [header |-> [n \in {"x-role", ""} |-> role], path |-> [n \in {"id"} |-> <<"j1">>]]
Call(method, path, ns, role) ==
    [method |-> method, path |-> path, namespace |-> ns, holds |-> Holds(role),
     outcome |-> "answers"]
MCCalls ==
    {Call("POST", <<"search">>, "", <<"v">>), Call("POST", <<"search">>, "t1", <<"sk">>),
     Call("POST", <<"x", "alpha", "search">>, "", <<"v">>),
     Call("POST", <<"x", "nope", "search">>, "", <<"v">>),
     Call("GET", <<"x", "alpha", "n", "t1", "runs", "j1">>, "", <<>>),
     Call("POST", <<"n", "", "search">>, "", <<>>), Call("POST", <<"n", "!", "search">>, "", <<>>),
     Call("GET", <<"search">>, "!", <<>>), Call("POST", <<"x", "no good", "search">>, "", <<>>),
     Call("POST", <<"x", "beta">>, "", <<>>),
     [Call("POST", <<"search">>, "", <<>>) EXCEPT !.outcome = "panic"],
     [Call("POST", <<"search">>, "", <<>>) EXCEPT !.outcome = "abort"]}

Machine == [profiles |-> <<Acme, Acme2>>, given |-> Plain, ports |-> Ports, files |-> <<>>,
            scenario |-> Both, taken |-> {}, calls |-> {Call("POST", <<"search">>, "", <<"v">>)},
            embedder |-> FALSE, failing |-> {}]

\* Starts that end before a port is opened.
Refused ==
    {[Machine EXCEPT !.profiles = ps] : ps \in BadSets}
      \cup {[Machine EXCEPT !.scenario = s] : s \in Broken}
      \cup {[Machine EXCEPT !.given = g] :
              g \in {[Plain EXCEPT !.flag["providers"] = {{"nope"}}],
                     [Plain EXCEPT !.env["max-jobs"] = {0}],
                     [Plain EXCEPT !.parses = FALSE, !.mode = "healthcheck"],
                     [Plain EXCEPT !.mode = "healthcheck"], [Plain EXCEPT !.mode = "print"],
                     [Dir(Plain) EXCEPT !.env["scenario"] = {"file"}],
                     [Plain EXCEPT !.flag["admin-port"] = {8082}]}}
      \cup {[Machine EXCEPT !.given = Dir(Plain), !.files = fs] :
              fs \in {<<>>, <<File("a", Both), File("a", Primary)>>,
                      <<File("a", CHOOSE s \in Broken : s.version = 2), File("b", Odd)>>,
                      <<File("a", Odd), [File("b", Odd) EXCEPT !.readable = FALSE]>>}}

\* Starts that listen: what is asked of each of them, then how one ends.
TwoScenarios == <<File("alpha", Both), File("beta", Primary), [File("c", Odd) EXCEPT !.hidden = TRUE]>>
WithDefault == <<File("alpha", Primary), File("default", Both)>>
Asked ==
    {[Machine EXCEPT !.given = Dir(Plain), !.files = fs, !.calls = MCCalls] :
        fs \in {TwoScenarios, WithDefault}}
      \cup {[Machine EXCEPT !.scenario = s, !.calls = MCCalls] : s \in {Odd, Cancels}}
Ended ==
    {[Machine EXCEPT !.scenario = Warned, !.embedder = TRUE, !.failing = {1, 2}],
     [Machine EXCEPT !.given.flag["shutdown-grace"] = {0}, !.given.env["providers"] = {{"acme2"}},
                     !.embedder = TRUE, !.failing = {1, 2}],
     [Machine EXCEPT !.given.env["providers"] = {{}}, !.embedder = TRUE, !.failing = {1, 2}],
     [Machine EXCEPT !.taken = {8082}, !.embedder = TRUE, !.failing = {1, 2}]}

MCInputs == Refused \cup Asked \cup Ended
=============================================================================
