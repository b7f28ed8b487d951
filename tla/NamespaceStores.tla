-------------------------- MODULE NamespaceStores --------------------------
(***************************************************************************)
(* The two stores that hold a namespace's state while requests are served: *)
(* the process's one journal (JournalRing) and the fault engine of each    *)
(* loaded scenario, both bounded by --max-namespaces and refusing on their *)
(* own.  Models the order in which provider.Handle uses them, the router's *)
(* refusal of an unknown scenario, and the journal and fault-engine steps  *)
(* of internal/admin's reset.                                              *)
(*                                                                         *)
(* A client is one sequential user of the process: it sends a request or   *)
(* resets, and waits for the answer.  One client is a sequential test run; *)
(* several are the shared container the namespaces exist for.              *)
(***************************************************************************)
EXTENDS JournalRing

CONSTANTS
    Clients,
    NumScenarios,   \* loaded scenarios, in registry order
    Misrouted,      \* whether requests may name a scenario that is not loaded
    ResetScopes,    \* sets of namespaces a reset drops: one, or all of them
    MaxRequests     \* model bound: requests sent in all

ASSUME StoresAssumption ==
    /\ NumScenarios \in Nat \ {0}
    /\ Misrouted \in BOOLEAN
    /\ ResetScopes \subseteq ({{ns} : ns \in Namespaces} \cup {Namespaces})
    /\ MaxRequests \in Nat

VARIABLES
    lanes,      \* the journal's lanes, by namespace
    refused,    \* Ring.refusedAppends
    live,       \* the namespaces each scenario's engine has admitted
    client,     \* what each client is waiting for
    calls,      \* requests sent so far; a request is known by its number
    \* History, read by no action's guard:
    torn,       \* requests whose journal lane a reset dropped under them
    cut,        \* requests whose namespace a reset dropped from their engine
    stale,      \* lanes that stored an entry numbered by another lane, or by none
    apart       \* something has happened that sets the two stores apart

vars == <<lanes, refused, live, client, calls, torn, cut, stale, apart>>

Scenarios == 1..NumScenarios
NoScenario == 0

PCs == {"idle", "admit", "handle", "record", "close", "reset"}

ClientState ==
    [pc : PCs, ns : Namespaces, scenario : 0..NumScenarios, request : Nat, seq : Nat,
     stream : {"none", "open"}, admitted : BOOLEAN, unknown : BOOLEAN,
     scope : SUBSET Namespaces, engine : Nat]

Idle == [pc |-> "idle", ns |-> DefaultNamespace, scenario |-> NoScenario, request |-> 0,
         seq |-> 0, stream |-> "none", admitted |-> FALSE, unknown |-> FALSE,
         scope |-> {}, engine |-> 0]

Requesting(c) == client[c].pc \notin {"idle", "reset"}
RequestsIn(scope) == {client[c].request : c \in {d \in Clients :
                                                  Requesting(d) /\ client[d].ns \in scope}}
AllIdle == \A c \in Clients : client[c].pc = "idle"

-----------------------------------------------------------------------------
(* The fault engine's admissions *)

\* Mutant of Seats: the namespace is looked up after the bound is checked.
BugSeats(admitted, ns) == ns = DefaultNamespace \/ Cardinality(admitted) < MaxNamespaces

\* AdmitNamespace and createLocked: an admitted namespace stays so, a new one
\* needs room, the default one needs none.
Seats(admitted, ns) ==
    ns = DefaultNamespace \/ ns \in admitted \/ Cardinality(admitted) < MaxNamespaces

\* Mutant of Seat: the default namespace takes a slot.
BugSeat(admitted, ns) == IF Seats(admitted, ns) THEN admitted \cup {ns} ELSE admitted

Seat(admitted, ns) ==
    IF Seats(admitted, ns) /\ ns # DefaultNamespace THEN admitted \cup {ns} ELSE admitted

-----------------------------------------------------------------------------
(* Requests *)

\* The router picks a scenario's handler, or the refusal when none is loaded
\* under that name, and Handle claims the sequence number.  The refusal's Deps
\* hold the process journal and no engine, so nothing else is asked.
Arrive(c, ns, s) ==
    /\ client[c].pc = "idle"
    /\ calls < MaxRequests
    /\ s = NoScenario => Misrouted
    /\ calls' = calls + 1
    /\ client' = [client EXCEPT ![c] =
         [Idle EXCEPT !.pc = IF s = NoScenario THEN "record" ELSE "admit",
                      !.ns = ns, !.scenario = s, !.request = calls + 1,
                      !.seq = NextSeq(lanes, ns)]]
    /\ lanes' = NextIn(lanes, ns)
    /\ apart' = (apart \/ ~ AllIdle \/ s = NoScenario)
    /\ UNCHANGED <<refused, live, torn, cut, stale>>

\* Handle asks the engine.  A refused request is failed with
\* namespace.limit_exceeded and its handler runs all the same: every profile's
\* checks Failed before it claims, so it changes no store, unless the entry's
\* validation policy demotes that code, which nothing forbids.
AdmitNamespace(c, demoted) ==
    LET ns == client[c].ns  s == client[c].scenario
    IN  /\ client[c].pc = "admit"
        /\ live' = [live EXCEPT ![s] = Seat(@, ns)]
        /\ client' = [client EXCEPT ![c] =
             [@ EXCEPT !.pc = IF Seats(live[s], ns) \/ demoted THEN "handle" ELSE "record",
                       !.admitted = Seats(live[s], ns)]]
        /\ UNCHANGED <<lanes, refused, calls, torn, cut, stale, apart>>

\* The handler runs.  Unless it rejects the request it claims an attempt, for
\* which the engine seats the namespace again if it must: one that does not
\* fit is an unknown key, served without its fault plan.
Serve(c, claims, stream) ==
    LET ns == client[c].ns  s == client[c].scenario
    IN  /\ client[c].pc = "handle"
        /\ stream = "open" => claims
        /\ live' = IF claims THEN [live EXCEPT ![s] = Seat(@, ns)] ELSE live
        /\ client' = [client EXCEPT ![c] =
             [@ EXCEPT !.pc = "record", !.stream = stream,
                       !.unknown = claims /\ ~ Seats(live[s], ns)]]
        /\ UNCHANGED <<lanes, refused, calls, torn, cut, stale, apart>>

\* record(): the entry is appended, in a lane found anew by its name.  A
\* stream's is appended open, before its first byte.
Record(c) ==
    LET r == client[c]
        e == [seq |-> r.seq, request |-> r.request, stream |-> r.stream, closedBy |-> 0]
    IN  /\ r.pc = "record"
        /\ lanes' = AppendIn(lanes, r.ns, e)
        /\ refused' = IF Admits(lanes, r.ns) THEN refused ELSE refused + 1
        /\ client' = [client EXCEPT ![c] =
             IF r.stream = "open" THEN [@ EXCEPT !.pc = "close"] ELSE Idle]
        /\ stale' = IF Admits(lanes, r.ns) /\ (r.seq = 0 \/ r.request \in torn)
                     THEN stale \cup {r.ns} ELSE stale
        /\ UNCHANGED <<live, calls, torn, cut, apart>>

\* The stream ended, however it ended, and its entry is completed.
Close(c) ==
    LET r == client[c]
    IN  /\ r.pc = "close"
        /\ lanes' = CloseStream(lanes, r.ns, r.seq, r.request)
        /\ client' = [client EXCEPT ![c] = Idle]
        /\ UNCHANGED <<refused, live, calls, torn, cut, stale, apart>>

-----------------------------------------------------------------------------
(* Resets: the journal, then the engines one after another. *)

\* Journal.Reset also zeroes the count of refused appends; ResetIn does not.
ResetJournal(c, scope) ==
    /\ client[c].pc = "idle"
    /\ lanes' = Drop(lanes, scope)
    /\ refused' = IF scope = Namespaces THEN 0 ELSE refused
    /\ client' = [client EXCEPT ![c] = [Idle EXCEPT !.pc = "reset", !.scope = scope, !.engine = 1]]
    /\ torn' = torn \cup RequestsIn(scope)
    /\ stale' = stale \ scope
    /\ apart' = (apart \/ ~ AllIdle \/ scope = Namespaces)
    /\ UNCHANGED <<live, calls, cut>>

\* Mutant of ResetEngine: a scoped reset keeps the namespace's slot.
BugResetEngine(c) ==
    LET s == client[c].engine
    IN  /\ client[c].pc = "reset"
        /\ client' = [client EXCEPT ![c] =
             IF s = NumScenarios THEN Idle ELSE [@ EXCEPT !.engine = s + 1]]
        /\ UNCHANGED <<lanes, refused, live, calls, torn, cut, stale, apart>>

\* ResetIn frees the namespace's slot.  Reset zeroes the counters and keeps
\* every admission.
ResetEngine(c) ==
    LET s == client[c].engine  scope == client[c].scope
    IN  /\ client[c].pc = "reset"
        /\ live' = IF scope = Namespaces THEN live ELSE [live EXCEPT ![s] = @ \ scope]
        /\ cut' = IF scope = Namespaces THEN cut ELSE cut \cup RequestsIn(scope)
        /\ client' = [client EXCEPT ![c] =
             IF s = NumScenarios THEN Idle ELSE [@ EXCEPT !.engine = s + 1]]
        /\ UNCHANGED <<lanes, refused, calls, torn, stale, apart>>

-----------------------------------------------------------------------------
Init ==
    /\ lanes = [ns \in Namespaces |-> NoLane]
    /\ refused = 0
    /\ live = [s \in Scenarios |-> {}]
    /\ client = [c \in Clients |-> Idle]
    /\ calls = 0
    /\ torn = {}
    /\ cut = {}
    /\ stale = {}
    /\ apart = FALSE

Next ==
    \E c \in Clients :
        \/ \E ns \in Namespaces, s \in Scenarios \cup {NoScenario} : Arrive(c, ns, s)
        \/ \E demoted \in BOOLEAN : AdmitNamespace(c, demoted)
        \/ \E claims \in BOOLEAN, stream \in {"none", "open"} : Serve(c, claims, stream)
        \/ Record(c)
        \/ Close(c)
        \/ \E scope \in ResetScopes : ResetJournal(c, scope)
        \/ ResetEngine(c)

Spec == Init /\ [][Next]_vars

-----------------------------------------------------------------------------
(* Properties *)

\* The types of the two stores, the clients and the history.
TypeOK ==
    /\ lanes \in [Namespaces -> Lane]
    /\ refused \in Nat
    /\ live \in [Scenarios -> SUBSET (Namespaces \ {DefaultNamespace})]
    /\ client \in [Clients -> ClientState]
    /\ calls \in 0..MaxRequests
    /\ torn \subseteq Nat /\ cut \subseteq Nat
    /\ stale \subseteq Namespaces
    /\ apart \in BOOLEAN

\* Neither store ever holds more than --max-namespaces named namespaces,
\* however arrivals, claims and resets interleave.
NamespacesBounded ==
    /\ Cardinality(namedLanes(lanes)) <= MaxNamespaces
    /\ \A s \in Scenarios : Cardinality(live[s]) <= MaxNamespaces

\* Every lane's retention counters are honest, whatever evictions, closes and
\* resets it went through.
RetentionHonest == \A ns \in Namespaces : Honest(lanes[ns])

\* One scenario, used sequentially and reset one namespace at a time: the two
\* stores admit exactly the same namespaces (Ring.ResetIn, namedLanesLocked).
StoresAgree ==
    AllIdle /\ ~ apart /\ NumScenarios = 1 => live[1] = namedLanes(lanes)

\* fault.unknown_key, a request served without its fault plan, takes a reset of
\* the request's own namespace while it was being served, once the engine has
\* admitted it; one let through by a demotion never had a plan to lose.
PlanLostOnlyToReset ==
    \A c \in Clients : client[c].admitted /\ client[c].unknown => client[c].request \in cut

\* A stream's entry is completed once its request ends, by that request and no
\* other, as long as no entry of its lane carries a foreign number: an entry
\* left open belongs to a request still streaming.
StreamsClosed ==
    \A ns \in Namespaces \ stale :
        \A i \in 1..Len(lanes[ns].entries) :
            LET e == lanes[ns].entries[i]
            IN  /\ e.stream = "open" =>
                     \E c \in Clients : client[c].pc = "close" /\ client[c].request = e.request
                /\ e.closedBy \in {0, e.request} \cup torn

Queue == INSTANCE JournalQueue WITH
    next <- [ns \in Namespaces |-> lanes[ns].seq],
    held <- [ns \in Namespaces |-> snapshot(lanes[ns])],
    count <- [ns \in Namespaces |-> lanes[ns].appended]

\* Each lane is a queue of its newest entries, whatever happens in the others:
\* the ring's head arithmetic, the bound and the resets of other namespaces
\* never reorder, skip or take back what a namespace recorded.
ImplementsQueue == Queue!Spec

\* Doc: a journal that refused alone "would drop a live test's entries with no
\* log line anywhere" (ring.go), so a request the engine admitted has a lane.
ServedIsJournaled ==
    \A c \in Clients : client[c].admitted /\ client[c].pc = "record" => client[c].seq # 0

\* Doc: "a zero Entry.Seq unambiguously means never journaled" (entry.go).
ZeroMeansNeverJournaled ==
    \A ns \in Namespaces : \A i \in 1..Len(lanes[ns].entries) : lanes[ns].entries[i].seq # 0
=============================================================================
