------------------------------- MODULE Lanes -------------------------------
(***************************************************************************)
(* Which lane a request is served in: the /x/<scenario> and /n/<namespace> *)
(* prefixes, the namespace header, the turn_key extractors, and the string *)
(* key the fault engine and its reset parse back.  Models provider/lane.go *)
(* and the key side of provider/fault_engine.go.                           *)
(*                                                                         *)
(* A path is the sequence of its segments ("/x/s/" is <<"x", "s", "">>).   *)
(* A key is a sequence of tokens, the separators "/" and "|" among them,   *)
(* so that joining and splitting lose what they lose in the code.          *)
(***************************************************************************)
EXTENDS Ordered

CONSTANTS
    ValidNames,    \* strings ValidNamespace accepts
    Credentials,   \* lane values that look like a credential
    TooLong,       \* lane values above maxLaneValueLen
    Digest         \* the fingerprint of each value

DefaultNamespace == "default"

ValidNamespace(name) == name \in ValidNames

cutLaneSegment(path, segment) ==
    IF Len(path) >= 2 /\ path[1] = segment
    THEN [ok |-> TRUE, value |-> path[2], rest |-> SubSeq(path, 3, Len(path))]
    ELSE [ok |-> FALSE, value |-> "", rest |-> path]

\* Both prefixes stripped, x before n, an invalid value too: the route that is
\* left shapes the error.
splitLanePath(path) ==
    LET x == cutLaneSegment(path, "x")
        n == cutLaneSegment(x.rest, "n")
        Named(cut) == IF cut.ok /\ ValidNamespace(cut.value) THEN cut.value ELSE ""
    IN  [scenario     |-> Named(x), scenarioBad  |-> x.ok /\ Named(x) = "",
         namespace    |-> Named(n), namespaceBad |-> n.ok /\ Named(n) = "",
         route        |-> IF n.rest = <<>> THEN <<"">> ELSE n.rest]

\* The namespace served in, and which selector carried a rejected name.
requestNamespace(prefix, header) ==
    IF prefix.namespaceBad THEN [namespace |-> DefaultNamespace, rejected |-> "path"]
    ELSE IF prefix.namespace # "" THEN [namespace |-> prefix.namespace, rejected |-> ""]
    ELSE IF header = "" THEN [namespace |-> DefaultNamespace, rejected |-> ""]
    ELSE IF ValidNamespace(header) THEN [namespace |-> header, rejected |-> ""]
    ELSE [namespace |-> DefaultNamespace, rejected |-> "header"]

-----------------------------------------------------------------------------
(* The key of a lane *)

\* An extractor is [form, name, credential]: where it reads, what it is called,
\* and whether the name itself marks a credential (or one of the path's
\* segments does).  A lane value is a sequence of tokens.
Fingerprint(value) == <<Digest[value]>>

laneValueLooksLikeCredential(value) == value \in Credentials

\* fingerprintLaneValue and fingerprintHeaderLaneValue: a credential never
\* reaches the key, whichever of its name and its value gives it away.
fingerprintLaneValue(value, byName) ==
    IF byName \/ laneValueLooksLikeCredential(value) THEN Fingerprint(value) ELSE value

\* lookupLaneJSON, Header.Get and PathValue: what the request holds at the
\* extractor, <<>> standing for nothing usable (absent, an object, an empty
\* header, a path value that is no job identifier).
lookup(req, extractor) == req.holds[extractor.form][extractor.name]

\* What one extractor appends to the key, behind the separator: nothing when it
\* resolves nothing, or a value that is too long after fingerprinting.
appendLanePart(req, key, extractor) ==
    LET found == lookup(req, extractor)
        value == IF extractor.form = "path" THEN found
                 ELSE fingerprintLaneValue(found, extractor.credential)
    IN  IF extractor.form = "route" \/ found = <<>> \/ value \in TooLong THEN key
        ELSE key \o (<<"|", extractor.form, extractor.name, "=">> \o value)

hasDiscriminator(extractors) ==
    \E i \in 1..Len(extractors) : extractors[i].form # "route"

\* The key after the first so many extractors: the loop and the join that follows it.
laneKeys(req, key, extractors) ==
    LET upTo[n \in 0..Len(extractors)] ==
            IF n = 0 THEN key ELSE appendLanePart(req, upTo[n - 1], extractors[n])
    IN  upTo

\* The route's own extractors when it declares any, else the entry's turn_key;
\* the fault key verbatim when none of them tells two requests apart.
turnLaneKey(req, route, turnKey) ==
    LET extractors == IF route.laneFrom # <<>> THEN route.laneFrom ELSE turnKey
    IN  IF hasDiscriminator(extractors)
        THEN laneKeys(req, route.key, extractors)[Len(extractors)]
        ELSE route.key

CursorKey(lane) ==
    IF lane.namespace = DefaultNamespace THEN lane.key
    ELSE <<lane.namespace, "/">> \o lane.key

\* resolveLane: the lane and the error findings it raises.  own is the name in
\* the scenario's own file.
resolveLane(req, route, turnKey, own) ==
    LET prefix == splitLanePath(req.path)
        ns     == requestNamespace(prefix, req.namespace)
    IN  [lane     |-> [namespace |-> ns.namespace,
                       scenario  |-> IF prefix.scenario # "" THEN prefix.scenario ELSE own,
                       key       |-> turnLaneKey(req, route, turnKey)],
         findings |-> (IF ns.rejected # "" THEN {"namespace.invalid"} ELSE {})
                        \cup (IF prefix.scenarioBad THEN {"scenario.invalid_name"} ELSE {})]

-----------------------------------------------------------------------------
(* Reading a key back *)

Occurrences(s, token) == {i \in 1..Len(s) : s[i] = token}

\* strings.Split on the lane separator.
SplitParts(key) ==
    LET cuts == Ascending({0, Len(key) + 1} \cup Occurrences(key, "|"))
    IN  [i \in 1..(Len(cuts) - 1) |-> SubSeq(key, cuts[i] + 1, cuts[i + 1] - 1)]

\* Mutant of SplitCursorKey: everything up to the first "/" is the namespace.
BugSplitCursorKey(key) ==
    IF Occurrences(key, "/") = {} THEN [namespace |-> DefaultNamespace, parts |-> SplitParts(key)]
    ELSE LET at == CHOOSE i \in Occurrences(key, "/") : \A j \in Occurrences(key, "/") : i <= j
         IN  [namespace |-> key[1], parts |-> SplitParts(SubSeq(key, at + 1, Len(key)))]

\* The namespace is what precedes the first "/", if that is a name one may have.
SplitCursorKey(key) ==
    IF Len(key) >= 2 /\ key[2] = "/" /\ ValidNamespace(key[1])
    THEN [namespace |-> key[1], parts |-> SplitParts(SubSeq(key, 3, Len(key)))]
    ELSE [namespace |-> DefaultNamespace, parts |-> SplitParts(key)]

\* planFor: the first part that is a registered fault key.
planFor(plans, parts) ==
    LET hits == {i \in 1..Len(parts) : parts[i] \in plans}
    IN  IF hits = {} THEN <<>> ELSE parts[CHOOSE i \in hits : \A j \in hits : i <= j]

\* resolve: a registered key is its own counter, in the default namespace; any
\* other is taken apart.  <<>> is the plan of fault.unknown_key.
resolve(plans, key) ==
    IF key \in plans THEN [namespace |-> DefaultNamespace, plan |-> key]
    ELSE LET split == SplitCursorKey(key)
         IN  [namespace |-> split.namespace, plan |-> planFor(plans, split.parts)]

\* ResetIn: of the lanes met so far, the ones whose key names another namespace
\* keep their counter.
ResetIn(lanes, namespace) == {k \in lanes : SplitCursorKey(k).namespace # namespace}
=============================================================================
