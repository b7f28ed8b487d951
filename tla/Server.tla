------------------------------- MODULE Server -------------------------------
(***************************************************************************)
(* One process from its command line to its exit: profiles are registered, *)
(* configuration is read, every scenario is loaded and validated, the      *)
(* listeners bind (the admin one first), requests are routed to the stack  *)
(* of the scenario they name, and a signal, a failing listener or a call   *)
(* of Shutdown from elsewhere drains the listeners (the admin one last).   *)
(* Models servicesim.go, internal/server/server.go and                     *)
(* internal/server/listeners.go over Config, Profiles, Validation, Lanes.  *)
(*                                                                         *)
(* A listener is an http.Server: external, kept to what the code relies    *)
(* on.  Serve on one that is shutting down closes its socket and returns;  *)
(* Shutdown closes the socket, then waits for the connections; Close cuts  *)
(* them.                                                                   *)
(***************************************************************************)
EXTENDS Lanes, Validation, Config

CONSTANTS
    Inputs,         \* what a process may be started with
    Builtins        \* the built-in scenarios

ASSUME InputsAssumption == \A x \in Inputs : IsSeq(x.profiles) /\ IsSeq(x.files)

\* The scenarios an input may have loaded, and the lists of extractors its
\* requests are read with: a route's own, or the turn_key of an entry.
Scenarios(x) == {x.scenario} \cup {x.files[i].scenario : i \in 1..Len(x.files)}
ExtractorLists(x) ==
    (UNION {{rt.laneFrom : rt \in x.profiles[i].routes} : i \in 1..Len(x.profiles)})
      \cup (UNION {{s.entries[i].turnKey : i \in 1..Len(s.entries)} : s \in Scenarios(x)})

\* A path is a sequence, and so is whatever an extractor finds in a request.
ASSUME RequestsAssumption ==
    \A x \in Inputs : \A req \in x.calls :
        /\ IsSeq(req.path)
        /\ \A l \in ExtractorLists(x) :
             IsSeq(l) /\ \A i \in 1..Len(l) : l[i].form # "route" => IsSeq(lookup(req, l[i]))

\* What NewSet leaves to the profiles: a fault key is its kind, a colon and a
\* name ("exa:search"), and routes that share a key share the entry it scripts.
ASSUME KeysAssumption ==
    /\ "|" \notin ProfileNames
    /\ \A x \in Inputs : NewSet(x.profiles) =>
         \A i \in 1..Len(x.profiles) : \A rt \in x.profiles[i].routes :
            /\ {"method", "path", "key", "laneFrom", "entry"} \subseteq DOMAIN rt
            /\ IsSeq(rt.key) /\ Len(rt.key) >= 2
            /\ rt.key[1] = effectiveKind(x.profiles[i]) /\ rt.key[2] = ":"
            /\ \A n \in 1..Len(rt.key) : rt.key[n] # "|"
            /\ \A other \in x.profiles[i].routes : other.key = rt.key => other.entry = rt.entry

VARIABLES
    input,      \* what the process was started with
    phase,      \* where main is
    registry,   \* the scenarios read so far
    bound,      \* how many listeners Run has bound
    socket,     \* each listener's socket
    serve,      \* each listener's Serve goroutine
    closing,    \* listeners whose http.Server is shutting down
    inflight,   \* requests each listener is serving
    cut,        \* listeners that had a request cut
    failed,     \* listeners whose Serve returned an error
    ready,      \* what GET /readyz answers
    started,    \* the Started channel is closed
    done,       \* Run's context is done
    drain,      \* each caller of Shutdown: where it is and whether it reports errors
    expired,    \* callers whose shutdown context has expired
    served,     \* how the last provider request was routed
    exit        \* the exit status, -1 before

loadVars == <<input, registry>>
netVars == <<bound, socket, serve, closing, inflight, cut, failed>>
runVars == <<ready, started, done, drain, expired>>
vars == <<input, phase, registry, bound, socket, serve, closing, inflight, cut, failed,
          ready, started, done, drain, expired, served, exit>>

Callers == {"run", "elsewhere"}

\* An input is the build (profiles), the command line and environment (given,
\* ports), the directory or file named (files, scenario), the ports other
\* processes hold (taken), the requests clients send (calls: [method, path,
\* namespace, holds, outcome]), whether an embedding program calls Shutdown itself
\* (embedder), and the listeners that may fail of themselves (failing).
Profs == input.profiles
Given == input.given
Setting(s) == setting(Given, Names(Profs), s)
Enabled == Setting("providers")
HasGrace == Setting("shutdown-grace") > 0

\* newSurfaces: the admin listener, then the enabled ones in registration order.
newSurfaces(x) ==
    LET enabled == setting(x.given, Names(x.profiles), "providers")
        on      == {i \in 1..Len(x.profiles) : x.profiles[i].name \in enabled}
    IN  <<"admin">> \o [i \in 1..Cardinality(on) |-> x.profiles[Ascending(on)[i]].name]
Surfaces == newSurfaces(input)
N == Len(Surfaces)
All == 1..N
PortOf(i) == IF i = 1 THEN Setting("admin-port") ELSE input.ports[Surfaces[i]]

Unrouted == [status |-> 0]

Init ==
    /\ input \in Inputs
    /\ phase = "register"
    /\ registry = [next |-> 1, loaded |-> <<>>, def |-> 0, failures |-> {}]
    /\ bound = 0
    /\ socket = [i \in All |-> "none"]
    /\ serve = [i \in All |-> "none"]
    /\ closing = {} /\ cut = {} /\ failed = {}
    /\ inflight = [i \in All |-> 0]
    /\ ready = FALSE /\ started = FALSE /\ done = FALSE
    /\ drain = [c \in Callers |-> [at |-> -1, errs |-> FALSE]]
    /\ expired = {}
    /\ served = Unrouted
    /\ exit = -1

Exit(code) == phase' = "exited" /\ exit' = code

-----------------------------------------------------------------------------
(* Before anything binds *)

\* MustSet: a set that does not register panics.
Register ==
    /\ phase = "register"
    /\ IF NewSet(Profs) THEN phase' = "config" /\ UNCHANGED exit ELSE Exit(2)
    /\ UNCHANGED <<loadVars, netVars, runVars, served>>

\* Run: a configuration error is a usage error, the printing modes end here,
\* and --healthcheck only asks another process.
Configure ==
    /\ phase = "config"
    /\ IF ~ Load(Given, Names(Profs), input.ports, Builtins) THEN Exit(usageExitCode(Given))
       ELSE CASE Given.mode = "print" -> Exit(0)
              [] Given.mode = "healthcheck" -> \E code \in {0, 1} : Exit(code)
              [] OTHER -> phase' = "load" /\ UNCHANGED exit
    /\ UNCHANGED <<loadVars, netVars, runVars, served>>

\* scenarioSources: the directory's entries, or the one scenario, which is the
\* default and takes its name from its own file.
dirMode == provided(Given, "scenario-dir")
scenarioSources ==
    IF dirMode
    THEN LET entries == ScenarioEntries(input.files)
         IN  [i \in 1..Len(entries) |->
                [name |-> entries[i].stem, default |-> DefaultScenarioEntry(entries, i),
                 scenario |-> entries[i].scenario]]
    ELSE <<[name |-> "", default |-> TRUE, scenario |-> input.scenario]>>

\* The report of one source: its own, then the profiles' and the warnings.
reportOf(s) ==
    IF ~ Accepted(Parse(s)) THEN Parse(s)
    ELSE Parse(s) \cup ValidateScenario(s, Validators(Profs, Enabled))
           \cup unscriptedProfileFindings(s, Profs, Enabled)

nameOf(src) == IF src.name # "" THEN src.name ELSE src.scenario.name

loads(src, loaded) ==
    /\ Accepted(reportOf(src.scenario))
    /\ \A i \in 1..Len(loaded) : loaded[i].name # nameOf(src)

\* One turn of loadRegistry's loop: a source that fails is noted and the next
\* one is read all the same; add builds its fault engine.
LoadSource ==
    /\ phase = "load"
    /\ ~ (dirMode /\ entriesFail(input.files))
    /\ registry.next <= Len(scenarioSources)
    /\ LET src == scenarioSources[registry.next]
       IN  registry' =
             IF loads(src, registry.loaded)
             THEN [registry EXCEPT !.next = @ + 1,
                                   !.loaded = Append(@, [name |-> nameOf(src), scenario |-> src.scenario]),
                                   !.def = IF src.default THEN Len(registry.loaded) + 1 ELSE @]
             ELSE [registry EXCEPT !.next = @ + 1, !.failures = @ \cup {registry.next}]
    /\ UNCHANGED <<input, phase, netVars, runVars, served, exit>>

\* New returns: one failure among the sources, or a listing that failed, ends
\* the process before a port is opened.
New ==
    /\ phase = "load"
    /\ IF dirMode /\ entriesFail(input.files) THEN Exit(1)
       ELSE /\ registry.next > Len(scenarioSources)
            /\ IF registry.failures # {} THEN Exit(1) ELSE phase' = "bind" /\ UNCHANGED exit
    /\ UNCHANGED <<loadVars, netVars, runVars, served>>

-----------------------------------------------------------------------------
(* Listening *)

\* A port is taken by another process or by a listener of this one.
PortTaken(i) ==
    /\ PortOf(i) # 0
    /\ \/ PortOf(i) \in input.taken
       \/ \E j \in All : j # i /\ PortOf(j) = PortOf(i) /\ socket[j] = "open"

\* forceClose: every http.Server closed, what is in flight cut.
forceClose ==
    /\ ready' = FALSE
    /\ closing' = All
    /\ socket' = [i \in All |-> IF serve[i] = "accepting" THEN "closed" ELSE socket[i]]
    /\ cut' = cut \cup {i \in All : inflight[i] > 0}
    /\ inflight' = [i \in All |-> 0]

\* Run binds the next listener and starts its Serve goroutine, or gives up.
Bind ==
    /\ phase = "bind" /\ bound < N
    /\ IF PortTaken(bound + 1)
       THEN /\ forceClose
            /\ phase' = "abort"
            /\ UNCHANGED <<bound, serve>>
       ELSE /\ bound' = bound + 1
            /\ socket' = [socket EXCEPT ![bound + 1] = "open"]
            /\ serve' = [serve EXCEPT ![bound + 1] = "spawned"]
            /\ UNCHANGED <<phase, ready, closing, cut, inflight>>
    /\ UNCHANGED <<loadVars, failed, started, done, drain, expired, served, exit>>

\* Serve on a server that is shutting down closes its socket and returns.
ServeStarts(i) ==
    /\ serve[i] = "spawned"
    /\ IF i \in closing
       THEN serve' = [serve EXCEPT ![i] = "returned"] /\ socket' = [socket EXCEPT ![i] = "closed"]
       ELSE serve' = [serve EXCEPT ![i] = "accepting"] /\ UNCHANGED socket
    /\ UNCHANGED <<loadVars, runVars, phase, bound, closing, inflight, cut, failed, served, exit>>

ServeReturns(i) ==
    /\ serve[i] = "accepting" /\ i \in closing
    /\ serve' = [serve EXCEPT ![i] = "returned"]
    /\ UNCHANGED <<loadVars, runVars, phase, bound, socket, closing, inflight, cut, failed, served, exit>>

\* The listener itself fails: its error is queued for Run.
ServeFails(i) ==
    /\ serve[i] = "accepting" /\ i \notin closing /\ i \in input.failing
    /\ serve' = [serve EXCEPT ![i] = "returned"]
    /\ socket' = [socket EXCEPT ![i] = "closed"]
    /\ failed' = failed \cup {i}
    /\ UNCHANGED <<loadVars, runVars, phase, bound, closing, inflight, cut, served, exit>>

\* After a failed bind Run waits for the goroutines it started.
Abort ==
    /\ phase = "abort"
    /\ \A i \in All : serve[i] \in {"none", "returned"}
    /\ Exit(1)
    /\ UNCHANGED <<loadVars, netVars, runVars, served>>

\* The last listener is bound: readiness is stored, then Started closes.
BecomeReady ==
    /\ phase = "bind" /\ bound = N
    /\ ready' = TRUE
    /\ phase' = "starting"
    /\ UNCHANGED <<loadVars, netVars, started, done, drain, expired, served, exit>>

Start ==
    /\ phase = "starting"
    /\ started' = TRUE
    /\ phase' = "select"
    /\ UNCHANGED <<loadVars, netVars, ready, done, drain, expired, served, exit>>

-----------------------------------------------------------------------------
(* Requests *)

Accept(i) ==
    /\ serve[i] = "accepting" /\ i \notin closing
    /\ inflight[i] = 0
    /\ inflight' = [inflight EXCEPT ![i] = 1]
    /\ UNCHANGED <<loadVars, runVars, phase, bound, socket, serve, closing, cut, failed, served, exit>>

\* The router's own reading of the prefixes, which does not tell an absent
\* scenario from an empty one.
lanePrefixes(path) == cutLaneSegment(path, "x").value

\* scenarioRouter: the stack of the scenario named, the default's when none is,
\* and 0 when the request is refused.
stackFor(path) ==
    LET named == {i \in 1..Len(registry.loaded) : registry.loaded[i].name = lanePrefixes(path)}
    IN  IF lanePrefixes(path) = "" THEN registry.def
        ELSE IF named = {} THEN 0
        ELSE CHOOSE i \in named : TRUE

\* The entry of the listener's own name scripts its turns.
turnKeyOf(s, name) ==
    LET own == {i \in 1..Len(s.entries) : s.entries[i].name = name}
    IN  IF own = {} THEN <<>> ELSE s.entries[CHOOSE i \in own : TRUE].turnKey

\* The blocks that declare a fault plan.
Declares(s) ==
    {s.entries[i].name : i \in {j \in 1..Len(s.entries) :
        \E t \in 1..Len(s.entries[j].turns) : s.entries[j].turns[t].fault.present
                                                  /\ s.entries[j].turns[t].fault.attempts # <<>>}}

\* What one request to the listener of profile p comes to: the stack that
\* answered (0 for none), the scenario and namespace its lane records, its
\* route, the plan its engine found, the status.
answerOf(p, req) ==
    LET stack  == stackFor(req.path)
        prefix == splitLanePath(req.path)
        Of(status, lane, route, plan) ==
            [surface |-> p.name, path |-> req.path, stack |-> stack, status |-> status,
             scenario |-> lane.scenario, namespace |-> lane.namespace, route |-> route, plan |-> plan]
        refused == [scenario |-> prefix.scenario,
                    namespace |-> requestNamespace(prefix, req.namespace).namespace]
        ls    == registry.loaded[stack]
        mux   == NewMux(p, req.method, prefix.route)
        lane  == resolveLane(req, mux.route, turnKeyOf(ls.scenario, p.name), ls.scenario.name)
        plans == enginePlans(Profs, Declares(ls.scenario))
        found == resolve(DOMAIN plans, CursorKey(lane.lane))
    IN  IF stack = 0 THEN Of(Refuse(p, "scenario_unknown", 0).status, refused, "", "")
        ELSE IF NeedsCleaning(req.path)
        THEN Of(301, [scenario |-> "", namespace |-> ""], "", "")
        ELSE IF mux.refusal.status # 0 THEN Of(mux.refusal.status, lane.lane, "", "")
        ELSE IF lane.findings # {} THEN Of(400, lane.lane, mux.route.entry, "")
        ELSE Of(recoverPanic(p, req.outcome).status, lane.lane, mux.route.entry,
                IF found.plan = <<>> THEN "unknown_key" ELSE plans[found.plan])

Answer(i) ==
    /\ inflight[i] > 0
    /\ inflight' = [inflight EXCEPT ![i] = 0]
    /\ IF i = 1 THEN UNCHANGED served
       ELSE \E req \in input.calls : served' = answerOf(Lookup(Profs, Surfaces[i]), req)
    /\ UNCHANGED <<loadVars, runVars, phase, bound, socket, serve, closing, cut, failed, exit>>

-----------------------------------------------------------------------------
(* Stopping *)

Signal ==
    /\ phase \in {"bind", "starting", "select"} /\ ~ done
    /\ done' = TRUE
    /\ UNCHANGED <<loadVars, netVars, phase, ready, started, drain, expired, served, exit>>

Stopped == \A i \in All : serve[i] = "returned"

\* Run's select; what follows is its own Shutdown.
Select ==
    /\ phase = "select"
    /\ done \/ failed # {} \/ Stopped
    /\ ready' = FALSE
    /\ drain' = [drain EXCEPT !["run"].at = N]
    /\ phase' = "shutdown"
    /\ UNCHANGED <<loadVars, netVars, started, done, expired, served, exit>>

ShutdownElsewhere ==
    /\ input.embedder /\ drain["elsewhere"].at = -1
    /\ phase \in {"bind", "starting", "select", "shutdown"}
    /\ ready' = FALSE
    /\ drain' = [drain EXCEPT !["elsewhere"].at = N]
    /\ UNCHANGED <<loadVars, netVars, phase, started, done, expired, served, exit>>

Expire(c) ==
    /\ drain[c].at > 0 /\ c \notin expired
    /\ c = "run" => HasGrace
    /\ expired' = expired \cup {c}
    /\ UNCHANGED <<loadVars, netVars, phase, ready, started, done, drain, served, exit>>

\* Mutant of NextToStop: the listeners stop in the order they bound.
BugNextToStop(c) == N + 1 - drain[c].at

\* Shutdown goes backward over the listeners.
NextToStop(c) == drain[c].at

\* http.Shutdown: the socket closes at once, then the connections are waited for.
StopAccepting(c) ==
    /\ drain[c].at > 0 /\ NextToStop(c) \notin closing
    /\ LET i == NextToStop(c)
       IN  /\ closing' = closing \cup {i}
           /\ socket' = [socket EXCEPT ![i] = IF serve[i] = "accepting" THEN "closed" ELSE @]
    /\ UNCHANGED <<loadVars, runVars, phase, bound, serve, inflight, cut, failed, served, exit>>

Drained(c) ==
    /\ drain[c].at > 0 /\ NextToStop(c) \in closing
    /\ inflight[NextToStop(c)] = 0
    /\ drain' = [drain EXCEPT ![c].at = @ - 1]
    /\ UNCHANGED <<loadVars, netVars, phase, ready, started, done, expired, served, exit>>

\* Mutant of GiveUp: a listener that did not drain is left as it is.
BugGiveUp(c) ==
    /\ drain[c].at > 0 /\ NextToStop(c) \in closing /\ c \in expired
    /\ FALSE
    /\ UNCHANGED vars

\* The shutdown context expired first: the listener is closed outright.
GiveUp(c) ==
    /\ drain[c].at > 0 /\ NextToStop(c) \in closing /\ c \in expired
    /\ inflight[NextToStop(c)] > 0
    /\ inflight' = [inflight EXCEPT ![NextToStop(c)] = 0]
    /\ cut' = cut \cup {NextToStop(c)}
    /\ drain' = [drain EXCEPT ![c] = [at |-> @.at - 1, errs |-> TRUE]]
    /\ UNCHANGED <<loadVars, phase, bound, socket, serve, closing, failed, ready, started, done,
                   expired, served, exit>>

\* Mutant of RunReturns: Run does not wait for the Serve goroutines.
BugRunReturns ==
    /\ phase = "shutdown" /\ drain["run"].at = 0
    /\ Exit(IF failed # {} \/ drain["run"].errs THEN 1 ELSE 0)
    /\ UNCHANGED <<loadVars, netVars, runVars, served>>

\* Run waits for every Serve, and main turns its error into the exit status.
RunReturns ==
    /\ phase = "shutdown" /\ drain["run"].at = 0 /\ Stopped
    /\ Exit(IF failed # {} \/ drain["run"].errs THEN 1 ELSE 0)
    /\ UNCHANGED <<loadVars, netVars, runVars, served>>

-----------------------------------------------------------------------------
Code ==
    \/ Register \/ Configure \/ LoadSource \/ New
    \/ Bind \/ Abort \/ BecomeReady \/ Start \/ Select \/ RunReturns
    \/ \E i \in All : ServeStarts(i) \/ ServeReturns(i)
    \/ \E c \in Callers : StopAccepting(c) \/ Drained(c) \/ GiveUp(c)

Next ==
    \/ Code
    \/ Signal \/ ShutdownElsewhere
    \/ \E c \in Callers : Expire(c)
    \/ \E i \in All : ServeFails(i) \/ Accept(i) \/ Answer(i)

\* The goroutines run and a timer that is set fires.  Nothing makes a client
\* finish its request, and nothing makes a signal come.
Spec == Init /\ [][Next]_vars /\ WF_vars(Code) /\ WF_vars(Expire("run"))

-----------------------------------------------------------------------------
(* Properties *)

\* What main leaves behind (Run, Shutdown, forceClose): no socket, no readiness,
\* no request, whichever of a failed bind, a signal, a failing listener and a
\* racing Shutdown ended it; and a request that was cut shows in a caller's
\* error, so an exit status of 0 means everything drained.
ReturnSettles ==
    exit # -1 =>
        /\ ~ ready
        /\ \A i \in All : socket[i] # "open" /\ inflight[i] = 0
        /\ cut # {} => exit = 1 \/ drain["elsewhere"].errs

\* Shutdown's promise to a health probe: while a provider listener still has a
\* request to finish, the admin listener accepts, unless it failed by itself.
ProbeOutlivesDrain ==
    \A i \in All \ {1} : inflight[i] > 0 => socket[1] = "open" \/ 1 \in failed

\* New's and config's promise: a port is opened only once every scenario of the
\* directory was read and accepted, each under a name of its own; a start that
\* fails has read them all; and a bind fails only on another process's port.
StartsOnlyWhole ==
    /\ bound > 0 =>
         /\ registry.failures = {}
         /\ Len(registry.loaded) = Len(scenarioSources)
         /\ \A i, j \in 1..Len(registry.loaded) :
              i # j => registry.loaded[i].name # registry.loaded[j].name
    /\ phase = "exited" /\ registry.next > 1 => registry.next > Len(scenarioSources)
    /\ phase = "abort" => PortOf(bound + 1) \in input.taken

\* Routing and lane resolution agree about what the client asked for: the stack
\* that answered is the one the lane records, a request that names a scenario
\* nobody loaded is refused, and the plan a route draws on is the instance's own
\* (then the one of the route's entry), never another instance's and never
\* unknown to the engine.
RoutedToItsScript ==
    served.status \in {200, 404, 405} =>
        LET named == Len(served.path) > 1 /\ served.path[1] = "x" /\ served.path[2] # ""
            s == registry.loaded[served.stack].scenario
            p == Lookup(Profs, served.surface)
        IN  /\ named => IF served.stack = 0 THEN served.status = 404
                        ELSE registry.loaded[served.stack].name = served.path[2]
            /\ named /\ ValidNamespace(served.path[2]) => served.scenario = served.path[2]
            /\ ~ named /\ served.stack # 0 => served.scenario = s.name
            /\ served.status = 200 =>
                 served.plan = IF instanced(p) /\ p.name \in Declares(s) THEN p.name
                               ELSE IF served.route \in Declares(s) THEN served.route ELSE ""

\* A signal ends the process within the grace period whatever the clients do.
ShutdownIsBounded == (done /\ HasGrace) ~> (exit # -1)
=============================================================================
