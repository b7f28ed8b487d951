------------------------------ MODULE Profiles ------------------------------
(***************************************************************************)
(* Registration: what makes a profile acceptable alone and beside others,  *)
(* the routes, validators and refusals a set of profiles derives, and the  *)
(* mux one listener serves.  Models provider/profile.go and                *)
(* provider/mux.go.                                                        *)
(*                                                                         *)
(* A profile is a record:                                                  *)
(*   name, kind      its listener's name, and the vocabulary it instances  *)
(*                   ("" when it is its own)                               *)
(*   routes          the set of [method, path, key, laneFrom, entry]       *)
(*   handlers        the [method, path] pairs it has a handler for         *)
(*   validators      entry kinds it validates                              *)
(*   cancellable, backgroundable, backgroundCancellable                    *)
(*   errorBody       whether it declares an ErrorBody                      *)
(*   auth, port                                                            *)
(***************************************************************************)
EXTENDS Integers, Sequences, FiniteSets

CONSTANT ProfileNames   \* strings validProfileName accepts

validProfileName(name) == name \in ProfileNames

effectiveKind(p) == IF p.kind # "" THEN p.kind ELSE p.name

\* A profile without validators has a no-op one for its own kind.
entryValidators(p) == IF p.validators # {} THEN p.validators ELSE {effectiveKind(p)}

Pattern(rt) == [method |-> rt.method, path |-> rt.path]

instanced(p) == effectiveKind(p) # p.name

Validate(p) ==
    /\ p.errorBody
    /\ p.handlers # {} /\ p.routes # {}
    /\ \A rt \in p.routes : rt.key # <<>>
    /\ p.handlers = {Pattern(rt) : rt \in p.routes}
    /\ validProfileName(p.name)
    /\ p.auth \in {"", "required", "optional"}
    /\ p.cancellable \cup p.backgroundable \cup p.backgroundCancellable \subseteq entryValidators(p)
    /\ p.backgroundCancellable \subseteq p.backgroundable
    /\ instanced(p) => Cardinality(p.validators) <= 1

\* NewSet accepts a list: every profile valid, no two with one name or one
\* fixed port, no entry kind claimed under two kinds.
NewSet(ps) ==
    /\ \A i \in 1..Len(ps) : Validate(ps[i])
    /\ \A i, j \in 1..Len(ps) :
         i # j =>
           /\ ps[i].name # ps[j].name
           /\ ps[i].port # 0 => ps[i].port # ps[j].port
           /\ effectiveKind(ps[i]) # effectiveKind(ps[j])
                => entryValidators(ps[i]) \cap entryValidators(ps[j]) = {}

Names(ps) == {ps[i].name : i \in 1..Len(ps)}
Lookup(ps, name) == ps[CHOOSE i \in 1..Len(ps) : ps[i].name = name]

\* An instance's key carries its own name in front: two instances of one kind
\* never share a counter.
namespacedFaultKey(p, key) == IF instanced(p) THEN <<p.name, ":">> \o key ELSE key

\* instanceFault: the instance's own block first, then the kind's.  A plan is
\* named by the block it is read from; declares is the set of blocks with one.
planOf(p, rt, declares) ==
    IF instanced(p) /\ p.name \in declares THEN p.name
    ELSE IF rt.entry \in declares THEN rt.entry
    ELSE ""

\* Mutant of namespacedRoutes: an instance keeps the keys its kind declares.
BugNamespacedRoutes(p) == p.routes

\* The routes of a profile as both the mux and the fault engine see them.
namespacedRoutes(p) == {[rt EXCEPT !.key = namespacedFaultKey(p, rt.key)] : rt \in p.routes}

Routes(ps) == UNION {namespacedRoutes(ps[i]) : i \in 1..Len(ps)}

\* The plans newSetFaultEngine registers for a scenario: each key's is the one
\* of the first route that declares it.
enginePlans(ps, declares) ==
    LET Owner(k) == ps[CHOOSE i \in 1..Len(ps) :
                         /\ \E rt \in namespacedRoutes(ps[i]) : rt.key = k
                         /\ \A j \in 1..(i - 1) : \A rt \in namespacedRoutes(ps[j]) : rt.key # k]
        First(k) == CHOOSE rt \in namespacedRoutes(Owner(k)) : rt.key = k
    IN  [k \in {rt.key : rt \in Routes(ps)} |-> planOf(Owner(k), First(k), declares)]

\* Validators: for each entry kind of the enabled profiles, what it may declare.
\* Naming no profile selects them all.
Validators(ps, enabled) ==
    LET live == {i \in 1..Len(ps) : ps[i].name \in enabled \/ enabled = {}}
        Kinds == UNION {entryValidators(ps[i]) : i \in live}
    IN  [k \in Kinds |->
            [cancel           |-> \E i \in live : k \in ps[i].cancellable,
             background       |-> \E i \in live : k \in ps[i].backgroundable,
             backgroundCancel |-> \E i \in live : k \in ps[i].backgroundCancellable,
             routes           |-> UNION {ps[i].routes : i \in {j \in live : k \in entryValidators(ps[j])}}]]

-----------------------------------------------------------------------------
(* One listener *)

defaultRefusalStatus(kind) ==
    CASE kind \in {"not_found", "scenario_unknown"} -> 404
      [] kind = "method_not_allowed" -> 405
      [] kind = "internal" -> 500
      [] OTHER -> 0

\* Refuse fills the status in and lets the profile shape the body.
Refuse(p, kind, status) ==
    [status |-> IF status # 0 THEN status ELSE defaultRefusalStatus(kind),
     body   |-> IF p.errorBody THEN p.name ELSE ""]

notFound(p) == Refuse(p, "not_found", 404)
methodNotAllowed(p) == Refuse(p, "method_not_allowed", 405)

\* What net/http's mux does first: a path with an empty segment before its last
\* is redirected to the clean one and reaches no handler.
NeedsCleaning(path) == \E i \in 1..(Len(path) - 1) : path[i] = ""

\* NewMux: the registered patterns, a 405 for their other methods, a 404 for
\* the rest.  The result is the route served, or the refusal.
NewMux(p, method, path) ==
    LET hits  == {rt \in namespacedRoutes(p) : rt.path = path}
        exact == {rt \in hits : rt.method = method}
    IN  IF exact # {} THEN [route |-> CHOOSE rt \in exact : TRUE, refusal |-> [status |-> 0]]
        ELSE [route   |-> [key |-> <<>>, laneFrom |-> <<>>],
              refusal |-> IF hits # {} THEN methodNotAllowed(p) ELSE notFound(p)]

\* recoverPanic: a handler that panics is answered in the provider's shape, an
\* abort goes through.
recoverPanic(p, outcome) ==
    CASE outcome = "panic" -> Refuse(p, "internal", 500)
      [] outcome = "abort" -> [status |-> 0, body |-> ""]
      [] OTHER -> [status |-> 200, body |-> p.name]
=============================================================================
