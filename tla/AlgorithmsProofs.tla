-------------------------- MODULE AlgorithmsProofs --------------------------
(***************************************************************************)
(* Proofs about the pure algorithms, step by step as a behaviour takes     *)
(* them: what the lane keys of any sequence of claims and resets give      *)
(* back, what a walk over the polls of a script finds, how each target of  *)
(* a batch is answered, and where the faults of a stream land.             *)
(***************************************************************************)
EXTENDS MCAlgorithms, LaneLemmas

-----------------------------------------------------------------------------
(* Lane keys *)

\* The extractors a request's lane may be read with.
Extractors == {Route, BodyUser, BodyPin, HeaderTag, PathJob}

\* What a request holds at each of them.
LEMMA HeldValues ==
    ASSUME NEW user, NEW tag
    PROVE  /\ Holds(user, tag)[BodyUser.form][BodyUser.name] = user
           /\ Holds(user, tag)[BodyPin.form][BodyPin.name] = Pin
           /\ Holds(user, tag)[HeaderTag.form][HeaderTag.name] = tag
           /\ Holds(user, tag)[PathJob.form][PathJob.name] = JobId
BY DEF Holds, BodyUser, BodyPin, HeaderTag, PathJob, Extractor

\* The values are sequences, and only the secret and the PIN are hidden.
LEMMA ValuesClean ==
    /\ \A v \in LaneValues : IsSeq(v) /\ Clean(Fingerprint(v), Hidden)
    /\ \A v \in LaneValues \ {Secret, Pin} : Clean(v, Hidden)
<1>1. ASSUME NEW v \in LaneValues PROVE IsSeq(v)
  <2>1. ASSUME NEW S, NEW a \in S, NEW b \in S, NEW c \in S
        PROVE  <<a>> \in Seq(S) /\ <<a, b, c>> \in Seq(S)
    OBVIOUS
  <2> DEFINE Tokens == {"ns1", "/", "exa", "a", "|", "tavily", "tenant", "sk-live", "1234", "long", "job1"}
  <2>2. v \in Seq(Tokens)
    <3>1. /\ <<"ns1", "/", "exa">> \in Seq(Tokens) /\ <<"a", "|", "tavily">> \in Seq(Tokens)
          /\ <<"tenant">> \in Seq(Tokens) /\ <<"sk-live">> \in Seq(Tokens)
          /\ <<"1234">> \in Seq(Tokens) /\ <<"long">> \in Seq(Tokens) /\ <<"job1">> \in Seq(Tokens)
      BY <2>1, Zenon
    <3> QED
      BY <3>1, Zenon DEF LaneValues, Slashed, Piped, Plain, Secret, Pin, Long, JobId
  <2> QED
    BY <2>2, OfSetIsSeq
<1>2. ASSUME NEW v \in LaneValues PROVE Clean(Fingerprint(v), Hidden)
  BY OneIsSeq, LanesAssumption DEF Fingerprint, Clean
<1>3. ASSUME NEW v \in LaneValues \ {Secret, Pin} PROVE Clean(v, Hidden)
  <2>1. \A i \in 1..Len(v) : v[i] \notin Hidden
    BY DEF LaneValues, Slashed, Piped, Plain, Secret, Pin, Long, JobId, Hidden
  <2> QED
    BY <1>1, <2>1 DEF Clean
<1> QED
  BY <1>1, <1>2, <1>3

\* Every list of extractors is one of these.
LEMMA ExtractorLists ==
    ASSUME NEW list \in TurnKeys \cup {<<PathJob>>}
    PROVE  IsSeq(list) /\ \A i \in 1..Len(list) : list[i] \in Extractors
<1>1. /\ Route \in Extractors /\ BodyUser \in Extractors /\ BodyPin \in Extractors
      /\ HeaderTag \in Extractors /\ PathJob \in Extractors
  BY DEF Extractors
<1> HIDE DEF Extractors
<1>2. \A a, b \in Extractors : <<>> \in Seq(Extractors) /\ <<a>> \in Seq(Extractors)
                               /\ <<a, b>> \in Seq(Extractors)
  OBVIOUS
<1>3. list \in Seq(Extractors)
  BY <1>1, <1>2 DEF TurnKeys
<1>4. \A i \in 1..Len(list) : list[i] \in Extractors
  BY <1>3
<1> QED
  BY <1>3, <1>4, OfSetIsSeq

\* What the values of a request are.
LEMMA RequestParts ==
    ASSUME NEW req \in LaneRequests
    PROVE  /\ req.route.key \in Plans
           /\ req.route.laneFrom \in {<<>>, <<PathJob>>}
           /\ req.turnKey \in TurnKeys
           /\ \E user \in (LaneValues \ {Pin}) \cup {<<>>}, tag \in LaneValues \ {Pin} :
                req.holds = Holds(user, tag)
           /\ req.path \in LanePaths
<1>1. PICK p \in LanePaths, r \in LaneRoutes, k \in TurnKeys, u \in Users, h \in Tags :
        req = LaneRequest(p, r, k, u, h)
  BY DEF LaneRequests
<1>2. /\ req.path = p /\ req.route = r /\ req.turnKey = k /\ req.holds = Holds(u, h)
  <2>1. ASSUME NEW a, NEW b, NEW c, NEW d, NEW e, NEW x,
               x = [path |-> a, namespace |-> b, route |-> c, turnKey |-> d, holds |-> e]
        PROVE  x.path = a /\ x.route = c /\ x.turnKey = d /\ x.holds = e
    BY <2>1
  <2> QED
    BY <1>1, <2>1, Zenon DEF LaneRequest
<1>3. r.key \in Plans /\ r.laneFrom \in {<<>>, <<PathJob>>}
  BY DEF LaneRoutes
<1>4. \A v \in {Slashed, Piped, Plain, Secret, Long} : v \in LaneValues \ {Pin}
  BY DEF LaneValues, Slashed, Piped, Plain, Secret, Pin, Long
<1>5. u \in (LaneValues \ {Pin}) \cup {<<>>} /\ h \in LaneValues \ {Pin}
  BY <1>4 DEF Users, Tags
<1> QED
  BY <1>2, <1>3, <1>5

\* Every extractor that reads a request finds a sequence and leaves nothing
\* hidden of it.
LEMMA RequestDiscreet ==
    ASSUME NEW req \in LaneRequests, NEW e \in Extractors
    PROVE  /\ e.form # "route" => IsSeq(lookup(req, e))
           /\ Discreet(req, e, Hidden)
<1>1. PICK user \in (LaneValues \ {Pin}) \cup {<<>>}, tag \in LaneValues \ {Pin} :
        req.holds = Holds(user, tag)
  BY RequestParts
<1>2. Words(e) \cap Hidden = {}
  BY DEF Words, Hidden, Secret, Pin, Extractors, Route, BodyUser, BodyPin, HeaderTag, PathJob, Extractor
<1>3. IsSeq(<<>>)
  <2>1. <<>> \in Seq(STRING)
    OBVIOUS
  <2> QED
    BY <2>1, OfSetIsSeq
<1>4. ASSUME NEW v \in LaneValues \ {Pin} PROVE Clean(fingerprintLaneValue(v, FALSE), Hidden)
  BY ValuesClean, LanesAssumption DEF fingerprintLaneValue, laneValueLooksLikeCredential
<1>5. CASE e = Route
  BY <1>2, <1>5 DEF Discreet, Route, Extractor
<1>6. CASE e = BodyUser
  <2>1. lookup(req, e) = user
    BY <1>1, <1>6, HeldValues DEF lookup
  <2>2. e.form # "path" /\ e.credential = FALSE
    BY <1>6 DEF BodyUser, Extractor
  <2>3. Kind(req, e) = fingerprintLaneValue(user, FALSE)
    BY <2>1, <2>2 DEF Kind
  <2> QED
    BY <1>2, <1>3, <1>4, <2>1, <2>3, ValuesClean DEF Discreet
<1>7. CASE e = HeaderTag
  <2>1. lookup(req, e) = tag
    BY <1>1, <1>7, HeldValues DEF lookup
  <2>2. e.form # "path" /\ e.credential = FALSE
    BY <1>7 DEF HeaderTag, Extractor
  <2>3. Kind(req, e) = fingerprintLaneValue(tag, FALSE)
    BY <2>1, <2>2 DEF Kind
  <2> QED
    BY <1>2, <1>4, <2>1, <2>3, ValuesClean DEF Discreet
<1>8. CASE e = BodyPin
  <2>0. Pin \in LaneValues
    BY DEF LaneValues
  <2>1. lookup(req, e) = Pin
    BY <1>1, <1>8, HeldValues DEF lookup
  <2>2. e.form # "path" /\ e.credential = TRUE
    BY <1>8 DEF BodyPin, Extractor
  <2>3. Kind(req, e) = Fingerprint(Pin)
    BY <2>1, <2>2 DEF Kind, fingerprintLaneValue
  <2> QED
    BY <1>2, <2>0, <2>1, <2>3, ValuesClean DEF Discreet
<1>9. CASE e = PathJob
  <2>0. JobId \in LaneValues \ {Secret, Pin}
    BY DEF LaneValues, JobId, Secret, Pin
  <2>1. lookup(req, e) = JobId
    BY <1>1, <1>9, HeldValues DEF lookup
  <2>2. e.form = "path"
    BY <1>9 DEF PathJob, Extractor
  <2>3. Kind(req, e) = JobId
    BY <2>1, <2>2 DEF Kind
  <2> QED
    BY <1>2, <2>0, <2>1, <2>3, ValuesClean DEF Discreet
<1> QED
  BY <1>5, <1>6, <1>7, <1>8, <1>9 DEF Extractors

\* A request is served in the default namespace or in the one its path names.
LEMMA NamespaceOfPath ==
    ASSUME NEW path \in LanePaths
    PROVE  LET ns == requestNamespace(splitLanePath(path), "").namespace
           IN  ns = DefaultNamespace \/ (Len(path) >= 2 /\ ns = path[2])
<1> DEFINE x == cutLaneSegment(path, "x")
           n == cutLaneSegment(x.rest, "n")
           prefix == splitLanePath(path)
<1>0. ASSUME NEW ok, NEW value, NEW rest, NEW c, c = [ok |-> ok, value |-> value, rest |-> rest]
      PROVE  c.value = value /\ c.rest = rest
  BY <1>0
<1>1. x.rest = path
  <2>1. path[1] # "x"
    BY DEF LanePaths
  <2>2. x = [ok |-> FALSE, value |-> "", rest |-> path]
    BY <2>1, Zenon DEF cutLaneSegment
  <2> HIDE DEF x
  <2> QED
    BY <1>0, <2>2, Zenon
<1>2. (Len(path) >= 2 /\ n.value = path[2]) \/ n.value = ""
  <2>1. \/ Len(path) >= 2 /\ n = [ok |-> TRUE, value |-> path[2], rest |-> SubSeq(path, 3, Len(path))]
        \/ n = [ok |-> FALSE, value |-> "", rest |-> path]
    BY <1>1, Zenon DEF cutLaneSegment
  <2> HIDE DEF x, n
  <2>2. CASE n = [ok |-> FALSE, value |-> "", rest |-> path]
    BY <1>0, <2>2, Zenon
  <2>3. CASE Len(path) >= 2 /\ n = [ok |-> TRUE, value |-> path[2], rest |-> SubSeq(path, 3, Len(path))]
    BY <1>0, <2>3, Zenon
  <2> QED
    BY <2>1, <2>2, <2>3, Zenon
<1>3. prefix.namespace = n.value \/ prefix.namespace = ""
  BY Zenon DEF splitLanePath
<1> HIDE DEF x, n, prefix
<1>4. \/ requestNamespace(prefix, "").namespace = DefaultNamespace
      \/ /\ prefix.namespace # ""
         /\ requestNamespace(prefix, "").namespace = prefix.namespace
  BY Zenon DEF requestNamespace
<1> QED
  BY <1>2, <1>3, <1>4, Zenon DEF prefix

\* What a request's lane is: a key that opens with its route's, and a namespace
\* one may have; neither holds anything hidden.
LEMMA LaneSound ==
    ASSUME NEW req \in LaneRequests
    PROVE  /\ Opens(LaneOf(req).key, req.route.key)
           /\ LaneOf(req).namespace = DefaultNamespace \/ ValidNamespace(LaneOf(req).namespace)
           /\ Clean(CursorKey(LaneOf(req)), Hidden)
<1> DEFINE lane == LaneOf(req)
           route == req.route
           list == IF route.laneFrom # <<>> THEN route.laneFrom ELSE req.turnKey
<1>1. /\ lane.key = turnLaneKey(req, route, req.turnKey)
      /\ lane.namespace = requestNamespace(splitLanePath(req.path), req.namespace).namespace
  BY Zenon DEF LaneOf, resolveLane
<1>2. /\ route.key \in Plans /\ route.laneFrom \in {<<>>, <<PathJob>>} /\ req.turnKey \in TurnKeys
      /\ req.path \in LanePaths
  BY RequestParts
<1>3. IsSeq(route.key) /\ Clean(route.key, Hidden)
  <2>1. /\ route.key \in Seq({"exa", "tavily"})
        /\ \A i \in 1..Len(route.key) : route.key[i] \in {"exa", "tavily"}
    <3>1. ASSUME NEW S, NEW a \in S PROVE <<a>> \in Seq(S) /\ Len(<<a>>) = 1 /\ <<a>>[1] = a
      OBVIOUS
    <3> DEFINE Tokens == {"exa", "tavily"}
    <3>2. "exa" \in Tokens /\ "tavily" \in Tokens
      OBVIOUS
    <3> HIDE DEF Tokens
    <3>3. route.key \in Seq(Tokens) /\ Len(route.key) = 1 /\ route.key[1] \in Tokens
      BY <1>2, <3>1, <3>2, Zenon DEF Plans
    <3>4. \A i \in 1..Len(route.key) : route.key[i] \in Tokens
      BY <3>3
    <3> QED
      BY <3>3, <3>4 DEF Tokens
  <2>2. {"exa", "tavily"} \cap Hidden = {}
    BY DEF Hidden, Secret, Pin
  <2> QED
    BY <2>1, <2>2, OfSetIsSeq DEF Clean
<1> HIDE DEF lane, route
<1>4. /\ list \in TurnKeys \cup {<<PathJob>>}
      /\ route.laneFrom # <<>> => route.laneFrom \in TurnKeys \cup {<<PathJob>>}
  BY <1>2
<1>5. ASSUME NEW l \in TurnKeys \cup {<<PathJob>>}
      PROVE  Readable(req, l) /\ IsSeq(l) /\ \A i \in 1..Len(l) : Discreet(req, l[i], Hidden)
  BY ExtractorLists, RequestDiscreet DEF Readable
<1>6. Opens(lane.key, route.key)
  <2>1. /\ route.laneFrom # <<>> => Readable(req, route.laneFrom)
        /\ route.laneFrom = <<>> => Readable(req, req.turnKey)
    BY <1>2, <1>4, <1>5
  <2> QED
    BY <1>1, <1>3, <2>1, TurnLaneKeyOpens
<1>7. Clean(lane.key, Hidden)
  <2>1. IsSeq(list) /\ \A i \in 1..Len(list) : Discreet(req, list[i], Hidden)
    BY <1>4, <1>5
  <2>2. Clean(turnLaneKey(req, route, req.turnKey), Hidden)
    BY <1>3, <2>1, LaneKeysClean
  <2> QED
    BY <1>1, <2>2
<1>8. lane.namespace = DefaultNamespace \/ ValidNamespace(lane.namespace)
  BY <1>1, LaneNamespaces
<1>9. Clean(CursorKey(lane), Hidden)
  <2>1. CASE lane.namespace = DefaultNamespace
    BY <1>7, <2>1 DEF CursorKey
  <2>2. CASE lane.namespace # DefaultNamespace
    <3>1. Len(req.path) >= 2 /\ lane.namespace = req.path[2]
      <4>1. req.namespace = ""
        <5>1. PICK p \in LanePaths, r \in LaneRoutes, k \in TurnKeys, u \in Users, h \in Tags :
                req = LaneRequest(p, r, k, u, h)
          BY DEF LaneRequests
        <5> QED
          BY <5>1, Zenon DEF LaneRequest
      <4> QED
        BY <1>1, <1>2, <2>2, <4>1, NamespaceOfPath, Zenon
    <3>2. Len(req.path) >= 2 => req.path[2] \notin Hidden
      BY <1>2 DEF LanePaths, Hidden, Secret, Pin
    <3>3. "/" \notin Hidden
      BY DEF Hidden, Secret, Pin
    <3> QED
      BY <1>7, <3>1, <3>2, <3>3, CursorKeyClean
  <2> QED
    BY <2>1, <2>2
<1> QED
  BY <1>6, <1>8, <1>9 DEF lane, route

\* The keys are those of the lanes that were claimed and not reset, and each of
\* those is the lane of a request, with the plan of its route.
LanesInv ==
    given.what = "lane" =>
        /\ seen.keys = {CursorKey(t.lane) : t \in seen.truth}
        /\ \A t \in seen.truth : \E req \in LaneRequests :
             t.lane = LaneOf(req) /\ t.plan = req.route.key

\* The plans are keys the engine can tell apart.
LEMMA PlansRegistrable == Registrable(Plans)
<1>1. ASSUME NEW a, a # "|"
      PROVE  IsSeq(<<a>>) /\ Len(<<a>>) = 1 /\ \A i \in 1..Len(<<a>>) : <<a>>[i] # "|"
  BY OneIsSeq, <1>1
<1>2. "exa" # "|" /\ "tavily" # "|"
  OBVIOUS
<1>3. ASSUME NEW k \in Plans PROVE IsSeq(k) /\ Len(k) = 1 /\ \A i \in 1..Len(k) : k[i] # "|"
  BY <1>1, <1>2, Zenon DEF Plans
<1> QED
  BY <1>3 DEF Registrable

\* What one claim adds.
LEMMA ClaimKeeps ==
    ASSUME LanesInv, NEW req \in LaneRequests, Claim(req)
    PROVE  LanesInv'
<1> DEFINE lane == LaneOf(req)
           mark == [lane |-> lane, plan |-> req.route.key]
<1>1. /\ given.what = "lane" /\ given' = given
      /\ seen'.truth = seen.truth \cup {mark}
      /\ seen'.keys = seen.keys \cup {CursorKey(lane)}
  BY DEF Claim
<1>2. mark.lane = lane /\ mark.plan = req.route.key
  OBVIOUS
<1> HIDE DEF mark
<1>3. /\ seen.keys = {CursorKey(t.lane) : t \in seen.truth}
      /\ \A t \in seen.truth : \E r \in LaneRequests : t.lane = LaneOf(r) /\ t.plan = r.route.key
  BY <1>1 DEF LanesInv
<1>4. seen'.keys = {CursorKey(t.lane) : t \in seen'.truth}
  BY <1>1, <1>2, <1>3
<1>5. ASSUME NEW t \in seen'.truth
      PROVE  \E r \in LaneRequests : t.lane = LaneOf(r) /\ t.plan = r.route.key
  BY <1>1, <1>2, <1>3
<1> QED
  BY <1>4, <1>5 DEF LanesInv

\* What a reset leaves: it drops the lanes of its namespace and no other.
LEMMA ResetKeeps ==
    ASSUME LanesInv, NEW namespace, Reset(namespace)
    PROVE  LanesInv'
<1> DEFINE lanes == {t.lane : t \in seen.truth}
<1>1. /\ given.what = "lane" /\ given' = given
      /\ seen'.truth = {t \in seen.truth : t.lane.namespace # namespace}
      /\ seen'.keys = ResetIn(seen.keys, namespace)
  BY DEF Reset
<1>2. /\ seen.keys = {CursorKey(t.lane) : t \in seen.truth}
      /\ \A t \in seen.truth : \E r \in LaneRequests : t.lane = LaneOf(r) /\ t.plan = r.route.key
  BY <1>1 DEF LanesInv
<1>3. ASSUME NEW lane \in lanes
      PROVE  /\ \E key \in Plans : Opens(lane.key, key)
             /\ lane.namespace = DefaultNamespace \/ ValidNamespace(lane.namespace)
  <2>1. PICK req \in LaneRequests : lane = LaneOf(req)
    BY <1>2
  <2>2. req.route.key \in Plans
    BY RequestParts
  <2> QED
    BY <2>1, <2>2, LaneSound
<1>4. seen.keys = {CursorKey(lane) : lane \in lanes}
  BY <1>2
<1>5. {lane \in lanes : lane.namespace # namespace} = {t.lane : t \in seen'.truth}
  BY <1>1
<1> HIDE DEF lanes
<1>6. ResetIn({CursorKey(lane) : lane \in lanes}, namespace)
        = {CursorKey(lane) : lane \in {l \in lanes : l.namespace # namespace}}
  BY <1>3, PlansRegistrable, ResetIsExact
<1>7. seen'.keys = {CursorKey(lane) : lane \in {l \in lanes : l.namespace # namespace}}
  BY <1>1, <1>4, <1>6
<1>8. seen'.keys = {CursorKey(t.lane) : t \in seen'.truth}
  BY <1>5, <1>7
<1> QED
  BY <1>1, <1>2, <1>8 DEF LanesInv

\* The other algorithms leave the lanes alone.
LEMMA LanesStep ==
    ASSUME LanesInv, [Next]_vars
    PROVE  LanesInv'
<1>1. CASE \E req \in LaneRequests : Claim(req)
  BY <1>1, ClaimKeeps
<1>2. CASE \E ns \in {"default", "ns1"} : Reset(ns)
  BY <1>2, ResetKeeps
<1>3. CASE Poll
  BY <1>3 DEF Poll, LanesInv
<1>4. CASE \E turn \in 1..2, token \in BOOLEAN :
             given.what = "stream" /\ turn <= Len(given.turns) /\ PlayCall(turn, token)
  <2>1. given.what = "stream" /\ given' = given
    BY <1>4 DEF PlayCall
  <2> QED
    BY <2>1 DEF LanesInv
<1>5. CASE UNCHANGED vars
  BY <1>5 DEF vars, LanesInv
<1> QED
  BY <1>1, <1>2, <1>3, <1>4, <1>5 DEF Next

\* The batches of targets are of two kinds.
LEMMA TargetsSay ==
    ASSUME NEW c \in TargetCases
    PROVE  \/ /\ c \in ContentsCases /\ c.what = "contents"
              /\ \E b \in Batches, i \in Listings, l \in Listings, o \in Overrides : c = Contents(b, i, l, o)
           \/ /\ c \in ExtractCases /\ c.what = "extract"
              /\ \E b \in Batches, f \in Failures, r \in Results, l \in Listings : c = Extract(b, f, r, l)
<1>1. CASE c \in ContentsCases
  <2>1. PICK b \in Batches, i \in Listings, l \in Listings, o \in Overrides : c = Contents(b, i, l, o)
    BY <1>1 DEF ContentsCases
  <2>2. c.what = "contents"
    BY <2>1 DEF Contents
  <2> QED
    BY <1>1, <2>1, <2>2
<1>2. CASE c \in ExtractCases
  <2>1. PICK b \in Batches, f \in Failures, r \in Results, l \in Listings : c = Extract(b, f, r, l)
    BY <1>2 DEF ExtractCases
  <2>2. c.what = "extract"
    BY <2>1 DEF Extract
  <2> QED
    BY <1>2, <2>1, <2>2
<1> QED
  BY <1>1, <1>2 DEF TargetCases

\* A behaviour about lanes starts with none.
LEMMA LanesInit == Init => LanesInv
<1> SUFFICES ASSUME Init, given.what = "lane" PROVE seen.truth = {} /\ seen.keys = {}
  BY DEF LanesInv
<1>1. CASE given \in ScriptCases
  BY <1>1 DEF ScriptCases
<1>2. CASE given \in StreamCases
  BY <1>2 DEF StreamCases
<1>3. CASE given \in TargetCases
  BY <1>3, TargetsSay
<1>4. CASE seen = [truth |-> {}, keys |-> {}]
  BY <1>4
<1> QED
  BY <1>1, <1>2, <1>3, <1>4 DEF Init

\* Whatever is claimed and reset, in any order and any number: a lane's key
\* gives back its namespace and the plan of its route, a reset drops the
\* counters of its namespace alone, and no credential is in a key.
THEOREM LanesAreRecovered == Spec => []LaneRecovered
<1>1. LanesInv => LaneRecovered
  <2> SUFFICES ASSUME LanesInv, given.what = "lane"
               PROVE  /\ seen.keys = {CursorKey(t.lane) : t \in seen.truth}
                      /\ \A t \in seen.truth : resolve(Plans, CursorKey(t.lane)) =
                                                 [namespace |-> t.lane.namespace, plan |-> t.plan]
                      /\ \A k \in seen.keys : \A i \in 1..Len(k) : k[i] \notin Hidden
    BY DEF LaneRecovered
  <2>1. /\ seen.keys = {CursorKey(t.lane) : t \in seen.truth}
        /\ \A t \in seen.truth : \E r \in LaneRequests : t.lane = LaneOf(r) /\ t.plan = r.route.key
    BY DEF LanesInv
  <2>2. ASSUME NEW t \in seen.truth
        PROVE  /\ resolve(Plans, CursorKey(t.lane)) = [namespace |-> t.lane.namespace, plan |-> t.plan]
               /\ Clean(CursorKey(t.lane), Hidden)
    <3>1. PICK req \in LaneRequests : t.lane = LaneOf(req) /\ t.plan = req.route.key
      BY <2>1
    <3>2. t.plan \in Plans
      BY <3>1, RequestParts
    <3>3. /\ Opens(t.lane.key, t.plan)
          /\ t.lane.namespace = DefaultNamespace \/ ValidNamespace(t.lane.namespace)
          /\ Clean(CursorKey(t.lane), Hidden)
      BY <3>1, LaneSound
    <3> QED
      BY <3>2, <3>3, PlansRegistrable, LaneResolves
  <2> QED
    BY <2>1, <2>2 DEF Clean
<1>2. LanesInv /\ [Next]_vars => LanesInv'
  BY LanesStep
<1> QED
  BY <1>1, <1>2, LanesInit, PTL DEF Spec

-----------------------------------------------------------------------------
(* Poll scripts *)

\* What is reported of a turn among the positions ps, and of which turns.
Report(turns, ps, t) ==
    [poll |-> Min({p \in LateAt(turns, ps) : selectTurn(turns, p) = t}),
     turn |-> t,
     terminalPoll |-> Min(EndedAt(turns, ps)),
     terminalTurn |-> selectTurn(turns, Min(EndedAt(turns, ps)))]

Reported(turns, ps) == {selectTurn(turns, p) : p \in LateAt(turns, ps)}

\* TerminalRegressions at the positions ps is one report per such turn.
LEMMA ReportsAre ==
    ASSUME NEW turns, NEW ps
    PROVE  RegressionsAt(turns, ps) = {Report(turns, ps, t) : t \in Reported(turns, ps)}
BY RegressionsUnfolded DEF Report, Reported

\* The polls of a walk before one of them are those of any longer walk: what
\* happened at them, and what is reported of it, stays.
LEMMA LongerWalk ==
    ASSUME NEW turns, NEW ps, ps \subseteq Nat, NEW qs, qs \subseteq ps,
           \A q \in qs, p \in ps : p <= q => p \in qs,
           NEW t \in Reported(turns, qs)
    PROVE  t \in Reported(turns, ps) /\ Report(turns, qs, t) = Report(turns, ps, t)
<1> DEFINE L == LateAt(turns, ps)
           K == LateAt(turns, qs)
           D == EndedAt(turns, ps)
           C == EndedAt(turns, qs)
<1>1. \A p \in Nat : p \in C <=> p \in D /\ p \in qs
  BY DEF EndedAt
<1>2. C \subseteq Nat /\ D \subseteq Nat /\ K \subseteq qs /\ L \subseteq ps
  BY DEF EndedAt, LateAt
<1>3. ASSUME NEW p \in qs PROVE p \in K <=> p \in L
  <2>1. p \in K <=> ServesAt(turns, p, "pending") /\ \E q \in C : q < p
    BY DEF LateAt
  <2>2. p \in L <=> ServesAt(turns, p, "pending") /\ \E q \in D : q < p
    BY DEF LateAt
  <2>3. ASSUME NEW q \in D, q < p PROVE q \in C
    <3>1. q \in ps /\ q \in Nat /\ p \in Nat
      BY DEF EndedAt
    <3> QED
      BY <1>1, <2>3, <3>1
  <2> QED
    BY <1>1, <1>2, <2>1, <2>2, <2>3
<1>4. PICK p \in K : selectTurn(turns, p) = t
  BY DEF Reported
<1>5. p \in qs /\ p \in L /\ p \in Nat
  BY <1>2, <1>3, <1>4
<1>6. PICK c \in C : c < p
  BY <1>4 DEF LateAt
<1> HIDE DEF L, K, D, C
<1>7. Min(C) = Min(D)
  <2>1. c \in D /\ c \in qs /\ c \in Nat
    BY <1>1, <1>2, <1>6
  <2>2. \A y \in Nat : y <= c => (y \in C <=> y \in D)
    <3> SUFFICES ASSUME NEW y \in Nat, y <= c, y \in D PROVE y \in C
      BY <1>1
    <3>1. y \in ps
      BY DEF D, EndedAt
    <3> QED
      BY <1>1, <2>1, <3>1
  <2> QED
    BY <1>2, <1>6, <2>1, <2>2, MinAgrees
<1>8. Min({x \in K : selectTurn(turns, x) = t}) = Min({x \in L : selectTurn(turns, x) = t})
  <2> DEFINE U == {x \in K : selectTurn(turns, x) = t}
             V == {x \in L : selectTurn(turns, x) = t}
  <2>1. U \subseteq Nat /\ V \subseteq Nat /\ p \in U /\ p \in V
    BY <1>2, <1>4, <1>5
  <2>2. \A y \in Nat : y <= p => (y \in U <=> y \in V)
    <3> SUFFICES ASSUME NEW y \in Nat, y <= p PROVE y \in K <=> y \in L
      OBVIOUS
    <3>1. y \in ps => y \in qs
      BY <1>5
    <3> QED
      BY <1>2, <1>3, <3>1
  <2> HIDE DEF U, V
  <2>3. Min(U) = Min(V)
    BY <2>1, <2>2, MinAgrees
  <2> QED
    BY <2>3 DEF U, V
<1>9. t \in Reported(turns, ps)
  BY <1>4, <1>5 DEF Reported, L
<1> QED
  BY <1>7, <1>8, <1>9 DEF Report, L, K, D, C

\* The polls a walk has made when it made n of them.
Walked(n) == 0..(n - 1)

\* The script names configured indices, and the walk knows exactly what its
\* polls showed: the first that was terminal, and each turn it saw regress.
WalkInv ==
    given.what = "script" =>
        LET turns == given.turns
            ended == EndedAt(turns, Walked(at))
        IN  /\ at \in Nat
            /\ PollScript(turns)
            /\ \A i \in 1..Len(turns) : turns[i].when.callIndex \subseteq Indices
            /\ seen.found = RegressionsAt(turns, Walked(at))
            /\ IF ended = {} THEN seen.first.poll = -1
               ELSE /\ seen.first.poll = Min(ended)
                    /\ seen.first.turn = selectTurn(turns, Min(ended))

\* A script's indices are the configured ones.
LEMMA ScriptsName ==
    ASSUME NEW c \in ScriptCases
    PROVE  /\ c.what = "script" /\ PollScript(c.turns)
           /\ \A i \in 1..Len(c.turns) : c.turns[i].when.callIndex \subseteq Indices
<1> DEFINE Turns == [when : ModelWhens, status : Statuses]
<1>1. ASSUME NEW w \in ModelWhens PROVE w.callIndex \subseteq Indices
  <2>1. CASE w = NoWhen \/ w = [NoWhen EXCEPT !.set = TRUE, !.body = TRUE]
    <3>1. NoWhen.callIndex = {} /\ [NoWhen EXCEPT !.set = TRUE, !.body = TRUE].callIndex = {}
      BY DEF NoWhen
    <3>2. w.callIndex = {}
      BY <2>1, <3>1
    <3> QED
      BY <3>2
  <2>2. CASE w \in Whens(Indices)
    BY <2>2 DEF Whens
  <2> QED
    BY <2>1, <2>2 DEF ModelWhens
<1>2. \A t \in Turns : t.when.callIndex \subseteq Indices
  BY <1>1
<1> HIDE DEF Turns
<1>3. PICK s \in SeqsUpTo(Turns, MaxTurns) : c = [what |-> "script", turns |-> s]
  BY DEF ScriptCases, Turns
<1>4. c.what = "script" /\ c.turns = s
  BY <1>3
<1>5. PICK k \in 0..MaxTurns : s \in [1..k -> Turns]
  BY <1>3 DEF SeqsUpTo
<1>6. Len(s) = k /\ k \in Nat
  BY <1>5, BoundsAssumption
<1>7. \A i \in 1..Len(s) : s[i] \in Turns
  BY <1>5, <1>6
<1>8. \A i \in 1..Len(s) : s[i].when.callIndex \subseteq Indices
  BY <1>2, <1>7
<1> QED
  BY <1>4, <1>6, <1>8, BoundsAssumption DEF PollScript

\* A walk starts knowing nothing.
LEMMA WalkInit == Init => WalkInv
<1> SUFFICES ASSUME Init, given.what = "script" PROVE WalkInv
  BY DEF WalkInv
<1>1. given \in ScriptCases /\ seen = [first |-> [poll |-> -1, turn |-> 0], found |-> {}]
  <2>1. CASE given \in LaneCases
    BY <2>1 DEF LaneCases
  <2>2. CASE given \in StreamCases
    BY <2>2 DEF StreamCases
  <2>3. CASE given \in TargetCases
    BY <2>3, TargetsSay
  <2> QED
    BY <2>1, <2>2, <2>3 DEF Init
<1>2. at = 0
  BY DEF Init
<1>3. Walked(at) = {}
  BY <1>2 DEF Walked
<1>4. EndedAt(given.turns, {}) = {} /\ LateAt(given.turns, {}) = {}
  BY DEF EndedAt, LateAt
<1>5. RegressionsAt(given.turns, {}) = {}
  BY <1>4, ReportsAre DEF Reported
<1>6. seen.first.poll = -1 /\ seen.found = {}
  BY <1>1
<1> QED
  BY <1>1, <1>2, <1>3, <1>4, <1>5, <1>6, ScriptsName DEF WalkInv

\* One more poll: the first terminal one is kept or met, and a turn served
\* pending after it is reported unless it was.
LEMMA PollKeeps ==
    ASSUME WalkInv, Poll
    PROVE  WalkInv'
<1> DEFINE turns == given.turns
           W == Walked(at)
           X == Walked(at + 1)
           ended == EndedAt(turns, W)
           late == LateAt(turns, W)
           turn == selectTurn(turns, at)
           status == IF turn = 0 THEN "unknown" ELSE turns[turn].status
           terminal == status = "terminal"
           pending == status = "pending"
<1>1. /\ given.what = "script" /\ given' = given /\ at' = at + 1
      /\ at \in Nat /\ PollScript(turns)
      /\ \A i \in 1..Len(turns) : turns[i].when.callIndex \subseteq Indices
      /\ seen.found = RegressionsAt(turns, W)
  BY DEF Poll, WalkInv
<1>2. IF ended = {} THEN seen.first.poll = -1
      ELSE /\ seen.first.poll = Min(ended)
           /\ seen.first.turn = selectTurn(turns, Min(ended))
  BY <1>1 DEF WalkInv
<1>3. /\ seen'.first = IF terminal /\ seen.first.poll < 0
                       THEN [poll |-> at, turn |-> turn] ELSE seen.first
      /\ seen'.found = IF /\ pending /\ seen.first.poll >= 0
                          /\ \A r \in seen.found : r.turn # turn
                       THEN seen.found \cup {[poll |-> at, turn |-> turn,
                                              terminalPoll |-> seen.first.poll,
                                              terminalTurn |-> seen.first.turn]}
                       ELSE seen.found
  BY DEF Poll
<1>4. /\ terminal <=> ServesAt(turns, at, "terminal")
      /\ pending <=> ServesAt(turns, at, "pending")
  BY DEF ServesAt
<1> HIDE DEF turns, turn, status, terminal, pending
<1>5. /\ X = W \cup {at} /\ W \subseteq Nat /\ X \subseteq Nat /\ at \notin W
      /\ \A p \in W : p < at
  BY <1>1 DEF Walked
<1> HIDE DEF W, X
<1>6. EndedAt(turns, X) = ended \cup (IF terminal THEN {at} ELSE {})
  BY <1>4, <1>5 DEF EndedAt
<1>7. ended \subseteq W
  BY DEF EndedAt
<1>8. LateAt(turns, X) = late \cup (IF pending /\ ended # {} THEN {at} ELSE {})
  <2>1. ASSUME NEW p \in W
        PROVE  (\E q \in EndedAt(turns, X) : q < p) <=> \E q \in ended : q < p
    BY <1>1, <1>5, <1>6, SMTT(30)
  <2>2. (\E q \in EndedAt(turns, X) : q < at) <=> ended # {}
    <3>1. \A q \in ended : q \in W /\ q < at /\ q \in EndedAt(turns, X)
      BY <1>5, <1>6, <1>7
    <3>2. \A q \in EndedAt(turns, X) : q \in ended \/ q = at
      BY <1>6
    <3>3. ~ (at < at)
      BY <1>1
    <3> QED
      BY <3>1, <3>2, <3>3
  <2>3. ASSUME NEW p \in W PROVE p \in LateAt(turns, X) <=> p \in late
    BY <1>5, <2>1 DEF LateAt
  <2>4. at \in LateAt(turns, X) <=> pending /\ ended # {}
    BY <1>4, <1>5, <2>2 DEF LateAt
  <2>5. LateAt(turns, X) \subseteq X /\ late \subseteq W
    BY DEF LateAt
  <2> QED
    BY <1>5, <2>3, <2>4, <2>5
<1>9. ended # {} => Min(ended) \in ended /\ Min(ended) \in Nat /\ Min(ended) >= 0
  BY <1>5, <1>7, MinInSet
<1> HIDE DEF ended, late
<1>10. IF EndedAt(turns, X) = {} THEN seen'.first.poll = -1
       ELSE /\ seen'.first.poll = Min(EndedAt(turns, X))
            /\ seen'.first.turn = selectTurn(turns, Min(EndedAt(turns, X)))
  <2>1. CASE ended = {} /\ ~ terminal
    BY <1>2, <1>3, <1>6, <2>1
  <2>2. CASE ended = {} /\ terminal
    <3>1. EndedAt(turns, X) = {at} /\ Min({at}) = at
      BY <1>1, <1>6, <2>2, MinUnique
    <3>2. seen'.first.poll = at /\ seen'.first.turn = turn
      BY <1>2, <1>3, <2>2
    <3> QED
      BY <3>1, <3>2 DEF turn
  <2>3. CASE ended # {}
    <3>1. Min(EndedAt(turns, X)) = Min(ended)
      <4>1. \A y \in Nat : y <= Min(ended) => (y \in EndedAt(turns, X) <=> y \in ended)
        <5>1. Min(ended) \in Nat /\ Min(ended) < at
          BY <1>5, <1>7, <1>9, <2>3
        <5>2. ~ (at <= Min(ended))
          BY <1>1, <5>1
        <5>3. \A y : y \in EndedAt(turns, X) => y \in ended \/ y = at
          BY <1>6
        <5>4. ended \subseteq EndedAt(turns, X)
          BY <1>6
        <5> QED
          BY <5>2, <5>3, <5>4
      <4>2. Min(ended) \in EndedAt(turns, X) /\ EndedAt(turns, X) \subseteq Nat /\ ended \subseteq Nat
        BY <1>1, <1>5, <1>6, <1>7, <1>9, <2>3
      <4> QED
        BY <1>9, <2>3, <4>1, <4>2, MinAgrees
    <3>2. seen'.first = seen.first
      BY <1>2, <1>3, <1>9, <2>3
    <3> QED
      BY <1>2, <1>6, <2>3, <3>1, <3>2
  <2> QED
    BY <2>1, <2>2, <2>3
<1>11. seen'.found = RegressionsAt(turns, X)
  <2>1. ASSUME NEW t \in Reported(turns, W)
        PROVE  t \in Reported(turns, X) /\ Report(turns, W, t) = Report(turns, X, t)
    BY <1>5, LongerWalk
  <2>2. Reported(turns, X) = Reported(turns, W) \cup (IF pending /\ ended # {} THEN {turn} ELSE {})
    BY <1>8 DEF Reported, late, turn
  <2>3. RegressionsAt(turns, X) = {Report(turns, X, t) : t \in Reported(turns, X)}
    BY ReportsAre
  <2>4. seen.found = {Report(turns, W, t) : t \in Reported(turns, W)}
    BY <1>1, ReportsAre
  <2>5. \A t : Report(turns, W, t).turn = t
    BY DEF Report
  <2>6. (\A r \in seen.found : r.turn # turn) <=> turn \notin Reported(turns, W)
    BY <2>4, <2>5
  <2>7. seen.first.poll >= 0 <=> ended # {}
    BY <1>2, <1>9
  <2>8. CASE pending /\ ended # {} /\ turn \notin Reported(turns, W)
    <3> DEFINE new == [poll |-> at, turn |-> turn, terminalPoll |-> seen.first.poll,
                       terminalTurn |-> seen.first.turn]
    <3>1. Report(turns, X, turn) = new
      <4>1. {p \in LateAt(turns, X) : selectTurn(turns, p) = turn} = {at}
        <5>1. \A p \in late : selectTurn(turns, p) # turn
          BY <2>8 DEF Reported, late
        <5>2. LateAt(turns, X) = late \cup {at}
          BY <1>8, <2>8
        <5> QED
          BY <5>1, <5>2 DEF turn
      <4>2. Min({at}) = at
        BY <1>1, MinUnique
      <4>3. EndedAt(turns, X) # {}
        BY <1>6, <2>8
      <4>4. seen'.first = seen.first
        BY <1>2, <1>3, <1>9, <2>8
      <4>5. /\ Min(EndedAt(turns, X)) = seen.first.poll
            /\ selectTurn(turns, Min(EndedAt(turns, X))) = seen.first.turn
        BY <1>10, <4>3, <4>4
      <4> QED
        BY <4>1, <4>2, <4>5 DEF Report
    <3> HIDE DEF new
    <3>2. seen'.found = seen.found \cup {new}
      BY <1>3, <2>6, <2>7, <2>8 DEF new
    <3> QED
      BY <2>1, <2>2, <2>3, <2>4, <2>8, <3>1, <3>2
  <2>9. CASE ~ (pending /\ ended # {} /\ turn \notin Reported(turns, W))
    <3>1. seen'.found = seen.found
      BY <1>3, <2>6, <2>7, <2>9
    <3>2. Reported(turns, X) = Reported(turns, W)
      BY <2>2, <2>9
    <3> QED
      BY <2>1, <2>3, <2>4, <3>1, <3>2
  <2> QED
    BY <2>8, <2>9
<1> QED
  BY <1>1, <1>10, <1>11 DEF WalkInv, turns, X

\* The other algorithms leave a walk alone.
LEMMA WalkStep ==
    ASSUME WalkInv, [Next]_vars
    PROVE  WalkInv'
<1>1. CASE Poll
  BY <1>1, PollKeeps
<1>2. CASE \E req \in LaneRequests : Claim(req)
  BY <1>2 DEF Claim, WalkInv
<1>3. CASE \E ns \in {"default", "ns1"} : Reset(ns)
  BY <1>3 DEF Reset, WalkInv
<1>4. CASE \E turn \in 1..2, token \in BOOLEAN :
             given.what = "stream" /\ turn <= Len(given.turns) /\ PlayCall(turn, token)
  <2>1. given.what = "stream" /\ given' = given
    BY <1>4 DEF PlayCall
  <2> QED
    BY <2>1 DEF WalkInv
<1>5. CASE UNCHANGED vars
  BY <1>5 DEF vars, WalkInv
<1> QED
  BY <1>1, <1>2, <1>3, <1>4, <1>5 DEF Next

\* A client that walks every poll of any script and the load-time check agree:
\* the walk never meets a regression the check does not report, and when it is
\* past the highest index it has met them all.
THEOREM WalksAgree == Spec => []CheckEqualsWalk
<1>1. WalkInv => CheckEqualsWalk
  <2> DEFINE turns == given.turns
             W == Walked(at)
  <2> SUFFICES ASSUME WalkInv, given.what = "script"
               PROVE  /\ seen.found \subseteq TerminalRegressions(turns)
                      /\ at > LastPoll => seen.found = TerminalRegressions(turns)
    BY DEF CheckEqualsWalk
  <2>1. /\ at \in Nat /\ PollScript(turns)
        /\ \A i \in 1..Len(turns) : turns[i].when.callIndex \subseteq Indices
        /\ seen.found = RegressionsAt(turns, W)
    BY DEF WalkInv
  <2>2. W \subseteq Nat /\ (\A p \in Nat : p < at => p \in W)
        /\ (\A q \in W, p \in Nat : p <= q => p \in W)
    BY <2>1 DEF Walked
  <2> HIDE DEF turns, W
  <2>3. TerminalRegressions(turns) = RegressionsAt(turns, Nat)
    BY <2>1, SamplingIsExact
  <2>4. /\ seen.found = {Report(turns, W, t) : t \in Reported(turns, W)}
        /\ TerminalRegressions(turns) = {Report(turns, Nat, t) : t \in Reported(turns, Nat)}
        /\ TerminalRegressions(turns)
             = {Report(turns, Positions(turns), t) : t \in Reported(turns, Positions(turns))}
    BY <2>1, <2>3, ReportsAre DEF TerminalRegressions
  <2>5. ASSUME NEW t \in Reported(turns, W)
        PROVE  t \in Reported(turns, Nat) /\ Report(turns, W, t) = Report(turns, Nat, t)
    BY <2>2, LongerWalk
  <2>6. seen.found \subseteq TerminalRegressions(turns)
    BY <2>4, <2>5
  <2>7. ASSUME at > LastPoll, NEW r \in TerminalRegressions(turns)
        PROVE  r \in seen.found
    <3>1. Positions(turns) \subseteq W
      <4>1. \A n \in Named(turns) : n \in Nat /\ n \in Indices
        <5>1. \A n \in Named(turns) : n >= 0 /\ n \in Indices
          BY <2>1 DEF Named
        <5>2. \A n \in Indices : n \in Int
          BY BoundsAssumption
        <5> QED
          BY <5>1, <5>2
      <4>2. \A n \in Named(turns) : n < at /\ n + 1 < at
        BY <2>1, <2>7, <4>1, BoundsAssumption
      <4>3. 0 < at
        BY <2>1, <2>7, BoundsAssumption
      <4>4. Positions(turns) = {0} \cup Named(turns) \cup {n + 1 : n \in Named(turns)}
        BY DEF Positions, Named
      <4> HIDE DEF Named
      <4>5. \A n \in Named(turns) : n \in W /\ n + 1 \in W
        BY <2>2, <4>1, <4>2
      <4>6. 0 \in W
        BY <2>2, <4>3
      <4> QED
        BY <4>4, <4>5, <4>6
    <3>2. PICK t \in Reported(turns, Nat) : r = Report(turns, Nat, t)
      BY <2>4, <2>7
    <3>3. PICK u \in Reported(turns, Positions(turns)) : r = Report(turns, Positions(turns), u)
      BY <2>4, <2>7
    <3>4. t = u
      BY <3>2, <3>3 DEF Report
    <3>5. LateAt(turns, Positions(turns)) \subseteq LateAt(turns, W)
      BY <3>1 DEF LateAt, EndedAt
    <3>6. t \in Reported(turns, W)
      BY <3>3, <3>4, <3>5 DEF Reported
    <3> QED
      BY <2>4, <2>5, <3>2, <3>6
  <2> QED
    BY <2>6, <2>7
<1>2. WalkInv /\ [Next]_vars => WalkInv'
  BY WalkStep
<1> QED
  BY <1>1, <1>2, WalkInit, PTL DEF Spec

-----------------------------------------------------------------------------
(* Batches of targets *)

\* An answer for an identifier: a result only with a success, an error tag with
\* every failure.
Sound(r, id) ==
    /\ r = [id |-> id, result |-> r.result, status |-> r.status, tag |-> r.tag]
    /\ r.result => r.status = "success"
    /\ r.status # "success" => r.tag

\* An override of a sound answer leaves one.
LEMMA OverrideKeeps ==
    ASSUME NEW id, NEW r, Sound(r, id), NEW o
    PROVE  Sound(E!applyOneContentsOverride(r, o), id)
<1> DEFINE status == E!overrideStatus(r, o)
           x == [id |-> r.id, result |-> r.result /\ status = "success", status |-> status,
                 tag |-> r.tag \/ status # "success"]
<1>1. E!applyOneContentsOverride(r, o) = x
  BY DEF E!applyOneContentsOverride
<1>2. r.id = id
  BY DEF Sound
<1> HIDE DEF status
<1>3. /\ x.id = id /\ x.status = status
      /\ x.result = (r.result /\ status = "success") /\ x.tag = (r.tag \/ status # "success")
      /\ x = [id |-> x.id, result |-> x.result, status |-> x.status, tag |-> x.tag]
  BY <1>2
<1> HIDE DEF x
<1>4. Sound(x, id)
  <2>1. x = [id |-> id, result |-> x.result, status |-> x.status, tag |-> x.tag]
    BY <1>3
  <2>2. x.result => x.status = "success"
    BY <1>3
  <2>3. x.status # "success" => x.tag
    BY <1>3
  <2> QED
    BY <2>1, <2>2, <2>3, Zenon DEF Sound
<1> QED
  BY <1>1, <1>4

\* The answers of the loop over an identifier's overrides: the resolution, then
\* each from the one before.
LEMMA OverriddenUnfolds ==
    ASSUME NEW r, NEW mine, Len(mine) \in Nat
    PROVE  /\ E!overridden(r, mine)[0] = r
           /\ \A n \in 1..Len(mine) :
                E!overridden(r, mine)[n] = E!applyOneContentsOverride(E!overridden(r, mine)[n - 1], mine[n])
<1> DEFINE L == Len(mine)
           Loop(k, f) == f = [n \in 0..k |-> IF n = 0 THEN r
                                             ELSE E!applyOneContentsOverride(f[n - 1], mine[n])]
           Missing == {k \in 0..L : ~ \E f : Loop(k, f)}
<1>1. L \in Nat
  OBVIOUS
<1> HIDE DEF L
<1>2. Missing = {}
  <2>1. SUFFICES ASSUME Missing # {} PROVE FALSE
    OBVIOUS
  <2>2. PICK k \in Missing : \A m \in Missing : k <= m
    <3>1. Missing \subseteq Nat
      BY <1>1
    <3> QED
      BY <2>1, <3>1, MinInSet
  <2>3. k \in 0..L
    BY <2>2
  <2>4. CASE k = 0
    <3>1. Loop(0, [n \in 0..0 |-> r])
      OBVIOUS
    <3> QED
      BY <2>2, <2>4, <3>1
  <2>5. CASE k # 0
    <3>1. k - 1 \in 0..L /\ k - 1 \notin Missing
      BY <1>1, <2>2, <2>3, <2>5
    <3>2. PICK f : Loop(k - 1, f)
      BY <3>1
    <3> DEFINE g == [n \in 0..k |-> IF n = k THEN E!applyOneContentsOverride(f[k - 1], mine[k]) ELSE f[n]]
    <3>3. ASSUME NEW n \in 0..k
          PROVE  g[n] = IF n = 0 THEN r ELSE E!applyOneContentsOverride(g[n - 1], mine[n])
      <4>1. CASE n = 0
        BY <1>1, <2>3, <2>5, <3>2, <4>1
      <4>2. CASE n # 0 /\ n = k
        <5>1. g[n - 1] = f[n - 1]
          BY <1>1, <2>3, <4>2
        <5> QED
          BY <4>2, <5>1
      <4>3. CASE n # 0 /\ n # k
        <5>1. n \in 0..(k - 1) /\ n - 1 \in 0..(k - 1) /\ n - 1 # k /\ n - 1 \in 0..k
          BY <1>1, <2>3, <4>3
        <5>2. g[n] = f[n] /\ g[n - 1] = f[n - 1]
          BY <4>3, <5>1
        <5>3. f[n] = E!applyOneContentsOverride(f[n - 1], mine[n])
          BY <3>2, <4>3, <5>1
        <5> QED
          BY <4>3, <5>2, <5>3
      <4> QED
        BY <4>1, <4>2, <4>3
    <3>4. Loop(k, g)
      <4> DEFINE h == [n \in 0..k |-> IF n = 0 THEN r ELSE E!applyOneContentsOverride(g[n - 1], mine[n])]
      <4>1. \A n \in 0..k : g[n] = h[n]
        BY <3>3
      <4>2. g = h
        BY <4>1
      <4> QED
        BY <4>2
    <3> QED
      BY <2>2, <3>4
  <2> QED
    BY <2>4, <2>5
<1>3. \E f : Loop(L, f)
  BY <1>1, <1>2
<1>4. E!overridden(r, mine) = CHOOSE f : Loop(L, f)
  BY DEF E!overridden, L
<1>5. Loop(L, E!overridden(r, mine))
  BY <1>3, <1>4
<1> HIDE DEF Missing
<1>6. \A n \in 0..L : E!overridden(r, mine)[n] = IF n = 0 THEN r
           ELSE E!applyOneContentsOverride(E!overridden(r, mine)[n - 1], mine[n])
  BY <1>5
<1> QED
  BY <1>1, <1>6 DEF L

\* Any number of overrides of a sound answer leave one.
LEMMA OverriddenSound ==
    ASSUME NEW id, NEW r, Sound(r, id), NEW mine, Len(mine) \in Nat
    PROVE  Sound(E!overridden(r, mine)[Len(mine)], id)
<1> DEFINE f == E!overridden(r, mine)
           Bad == {n \in 0..Len(mine) : ~ Sound(f[n], id)}
<1>1. f[0] = r /\ \A n \in 1..Len(mine) : f[n] = E!applyOneContentsOverride(f[n - 1], mine[n])
  BY OverriddenUnfolds
<1> HIDE DEF f
<1>2. Bad = {}
  <2>1. SUFFICES ASSUME Bad # {} PROVE FALSE
    OBVIOUS
  <2>2. PICK n \in Bad : \A m \in Bad : n <= m
    <3>1. Bad \subseteq Nat
      OBVIOUS
    <3> QED
      BY <2>1, <3>1, MinInSet
  <2>3. n \in 1..Len(mine) /\ n - 1 \in 0..Len(mine) /\ n - 1 \notin Bad
    BY <1>1, <2>2
  <2>4. Sound(f[n], id)
    BY <1>1, <2>3, OverrideKeeps
  <2> QED
    BY <2>2, <2>4
<1>3. Sound(f[Len(mine)], id)
  BY <1>2
<1> QED
  BY <1>3 DEF f

\* The instances keep the positions that the lemmas speak of.
LEMMA SameKept ==
    ASSUME NEW s, NEW positions
    PROVE  E!Kept(s, positions) = Kept(s, positions) /\ T!Kept(s, positions) = Kept(s, positions)
<1>1. ASSUME NEW S PROVE E!Cardinality(S) = Cardinality(S) /\ T!Cardinality(S) = Cardinality(S)
  BY DEF E!Cardinality, T!Cardinality, Cardinality
<1>2. E!Ascending(positions) = Ascending(positions) /\ T!Ascending(positions) = Ascending(positions)
  <2> DEFINE N == 1..Cardinality(positions)
             Rank(i) == CHOOSE n \in positions : Cardinality({m \in positions : m <= n}) = i
             RankE(i) == CHOOSE n \in positions : E!Cardinality({m \in positions : m <= n}) = i
             RankT(i) == CHOOSE n \in positions : T!Cardinality({m \in positions : m <= n}) = i
  <2>1. ASSUME NEW i PROVE RankE(i) = Rank(i) /\ RankT(i) = Rank(i)
    BY <1>1
  <2>2. /\ E!Ascending(positions) = [i \in 1..E!Cardinality(positions) |-> RankE(i)]
        /\ T!Ascending(positions) = [i \in 1..T!Cardinality(positions) |-> RankT(i)]
        /\ Ascending(positions) = [i \in N |-> Rank(i)]
    BY Zenon DEF E!Ascending, T!Ascending, Ascending
  <2>3. 1..E!Cardinality(positions) = N /\ 1..T!Cardinality(positions) = N
    BY <1>1, Zenon
  <2> HIDE DEF N, Rank, RankE, RankT
  <2> QED
    BY <2>1, <2>2, <2>3
<1>3. E!Kept(s, positions) = Kept(s, positions)
  BY <1>1, <1>2 DEF E!Kept, Kept
<1>4. T!Kept(s, positions) = Kept(s, positions)
  BY <1>1, <1>2 DEF T!Kept, Kept
<1> QED
  BY <1>3, <1>4

\* /contents, for any batch, corpus, turn and overrides: either nothing
\* resolved and the answer is the one tag for that, or each position is
\* answered in order, soundly, and the same for a repeated identifier.
THEOREM ContentsAnswered ==
    ASSUME NEW ids, IsSeq(ids), NEW index, NEW corpus, NEW overrides, IsSeq(overrides),
           NEW body, body = E!renderContentsBody(ids, index, corpus, overrides), body # <<>>
    PROVE  /\ DOMAIN body = 1..Len(ids)
           /\ \A i \in DOMAIN body : Sound(body[i], ids[i]) /\ body[i].id = ids[i]
           /\ \A i, j \in DOMAIN body : ids[i] = ids[j] => body[i] = body[j]
<1> DEFINE res == [i \in DOMAIN ids |-> E!resolveOneContentsIdentifier(ids[i], index, corpus)]
           mine(r) == E!Kept(overrides, {k \in DOMAIN overrides : overrides[k].id = r.id})
           answer(r) == E!overridden(r, mine(r))[Len(mine(r))]
<1>1. body = [i \in DOMAIN res |-> answer(res[i])]
  BY DEF E!renderContentsBody, E!applyContentsOverrides
<1>2. DOMAIN ids = 1..Len(ids) /\ DOMAIN overrides = 1..Len(overrides) /\ Len(ids) \in Nat
  BY SeqIsRow
<1>3. ASSUME NEW r PROVE Len(mine(r)) \in Nat
  <2> DEFINE named == {k \in DOMAIN overrides : overrides[k].id = r.id}
  <2>1. named \subseteq 1..Len(overrides)
    BY <1>2
  <2> HIDE DEF named
  <2>2. Len(Kept(overrides, named)) \in Nat
    BY <2>1, KeptIsSeq
  <2> QED
    BY <2>2, SameKept DEF named
<1>4. ASSUME NEW id
      PROVE  Sound(E!resolveOneContentsIdentifier(id, index, corpus), id)
  BY DEF E!resolveOneContentsIdentifier, Sound
<1>5. ASSUME NEW r, NEW id, Sound(r, id) PROVE Sound(answer(r), id)
  BY <1>3, <1>5, OverriddenSound
<1> HIDE DEF answer
<1>6. ASSUME NEW i \in 1..Len(ids)
      PROVE  body[i] = answer(E!resolveOneContentsIdentifier(ids[i], index, corpus))
  BY <1>1, <1>2
<1>7. DOMAIN body = 1..Len(ids)
  BY <1>1, <1>2
<1>8. ASSUME NEW i \in DOMAIN body PROVE Sound(body[i], ids[i]) /\ body[i].id = ids[i]
  <2>1. Sound(body[i], ids[i])
    BY <1>4, <1>5, <1>6, <1>7
  <2> QED
    BY <2>1 DEF Sound
<1>9. ASSUME NEW i \in DOMAIN body, NEW j \in DOMAIN body, ids[i] = ids[j] PROVE body[i] = body[j]
  BY <1>6, <1>7, <1>9
<1> QED
  BY <1>7, <1>8, <1>9

\* /extract, for any batch, overrides, results and corpus: each requested URL
\* is in one of the two lists, as often as it was requested, and no URL is in
\* both.
THEOREM ExtractPartitions ==
    ASSUME NEW urls, IsSeq(urls), NEW failures, NEW results, NEW corpus, NEW u,
           NEW body, body = T!renderExtract(urls, failures, results, corpus)
    PROVE  /\ Times(u, urls) = Times(u, body.results) + Times(u, body.failed)
           /\ Times(u, body.results) = 0 \/ Times(u, body.failed) = 0
<1> DEFINE Fails(v) == \/ v \in T!extractFailureOverrides(urls, failures)
                       \/ ~ T!resolveExtractTarget(v, results, corpus)
           good == {i \in DOMAIN urls : ~ Fails(urls[i])}
           bad == {i \in DOMAIN urls : Fails(urls[i])}
<1>1. body.results = Kept(urls, good) /\ body.failed = Kept(urls, bad)
  BY SameKept DEF T!renderExtract
<1>2. DOMAIN urls = 1..Len(urls) /\ Len(urls) \in Nat
  BY SeqIsRow
<1>3. good \subseteq 1..Len(urls) /\ bad \subseteq 1..Len(urls)
  BY <1>2
<1>4. /\ Times(u, Kept(urls, good)) = Cardinality(PlacesOf(u, urls, good))
      /\ Times(u, Kept(urls, bad)) = Cardinality(PlacesOf(u, urls, bad))
  BY <1>3, KeptCounts
<1>5. /\ Times(u, urls) = Cardinality(PlacesOf(u, urls, 1..Len(urls)))
      /\ Times(u, urls) \in Nat
  <2> DEFINE A == PlacesOf(u, urls, 1..Len(urls))
  <2>1. Times(u, urls) = Cardinality(A)
    BY Zenon DEF Times, PlacesOf
  <2>2. A \subseteq 1..Len(urls) /\ IsFiniteSet(1..Len(urls))
    BY <1>2, FS_Interval DEF PlacesOf
  <2> HIDE DEF A
  <2>3. Cardinality(A) \in Nat
    BY <2>2, FS_Subset, FS_CardinalityType
  <2> QED
    BY <2>1, <2>3 DEF A
<1>6. Cardinality({}) = 0
  BY FS_EmptySet
<1>7. CASE Fails(u)
  <2>1. PlacesOf(u, urls, good) = {} /\ PlacesOf(u, urls, bad) = PlacesOf(u, urls, 1..Len(urls))
    BY <1>2, <1>7 DEF PlacesOf
  <2>2. Times(u, body.results) = 0 /\ Times(u, body.failed) = Times(u, urls)
    BY <1>1, <1>4, <1>5, <1>6, <2>1
  <2> QED
    BY <1>5, <2>2
<1>8. CASE ~ Fails(u)
  <2>1. PlacesOf(u, urls, bad) = {} /\ PlacesOf(u, urls, good) = PlacesOf(u, urls, 1..Len(urls))
    BY <1>2, <1>8 DEF PlacesOf
  <2>2. Times(u, body.failed) = 0 /\ Times(u, body.results) = Times(u, urls)
    BY <1>1, <1>4, <1>5, <1>6, <2>1
  <2> QED
    BY <1>5, <2>2
<1> QED
  BY <1>7, <1>8

\* The input of a batch never changes.
TargetsInv == given.what \in {"contents", "extract"} => given \in TargetCases

\* Every batch of the configuration is answered so.
THEOREM TargetsAreAnswered == Spec => []EveryTargetAnswered
<1>1. ASSUME NEW S, NEW n \in Nat, NEW s \in SeqsUpTo(S, n) PROVE IsSeq(s)
  <2>1. PICK k \in 0..n : s \in [1..k -> S]
    BY DEF SeqsUpTo
  <2>2. s \in Seq(S)
    BY <2>1
  <2> QED
    BY <2>2, OfSetIsSeq
<1>2. TargetsInv => EveryTargetAnswered
  <2> SUFFICES ASSUME TargetsInv PROVE EveryTargetAnswered
    OBVIOUS
  <2>1. CASE given.what = "contents"
    <3>1. PICK b \in Batches, i \in Listings, l \in Listings, o \in Overrides : given = Contents(b, i, l, o)
      BY <2>1, TargetsSay DEF TargetsInv
    <3>2. given.ids = b /\ given.index = i /\ given.corpus = l /\ given.overrides = o
      BY <3>1 DEF Contents
    <3>3. IsSeq(b) /\ IsSeq(o)
      BY <1>1 DEF Batches, Overrides
    <3> DEFINE body == E!renderContentsBody(given.ids, given.index, given.corpus, given.overrides)
    <3>4. ASSUME body # <<>>
          PROVE  /\ DOMAIN body = 1..Len(given.ids)
                 /\ \A k \in DOMAIN body : Sound(body[k], given.ids[k]) /\ body[k].id = given.ids[k]
                 /\ \A k, m \in DOMAIN body : given.ids[k] = given.ids[m] => body[k] = body[m]
      BY <3>2, <3>3, <3>4, ContentsAnswered
    <3>5. given.ids = [k \in 1..Len(given.ids) |-> given.ids[k]]
      BY <3>2, <3>3, SeqIsRow
    <3> HIDE DEF body
    <3>6. ASSUME body # <<>>
          PROVE  /\ [k \in DOMAIN body |-> body[k].id] = given.ids
                 /\ \A k \in DOMAIN body : /\ body[k].result => body[k].status = "success"
                                           /\ body[k].status # "success" => body[k].tag
                 /\ \A k, m \in DOMAIN body : given.ids[k] = given.ids[m] => body[k] = body[m]
      BY <3>4, <3>5, <3>6 DEF Sound
    <3> QED
      BY <2>1, <3>6 DEF EveryTargetAnswered, body
  <2>2. CASE given.what = "extract"
    <3>1. PICK b \in Batches, f \in Failures, r \in Results, l \in Listings : given = Extract(b, f, r, l)
      BY <2>2, TargetsSay DEF TargetsInv
    <3>2. given.urls = b /\ given.failures = f /\ given.results = r /\ given.corpus = l
      BY <3>1 DEF Extract
    <3>3. IsSeq(b)
      BY <1>1 DEF Batches
    <3> QED
      BY <2>2, <3>2, <3>3, ExtractPartitions DEF EveryTargetAnswered
  <2>3. CASE given.what \notin {"contents", "extract"}
    BY <2>3 DEF EveryTargetAnswered
  <2> QED
    BY <2>1, <2>2, <2>3
<1>3. Init => TargetsInv
  <2> SUFFICES ASSUME Init, given.what \in {"contents", "extract"} PROVE given \in TargetCases
    BY DEF TargetsInv
  <2>1. CASE given \in ScriptCases
    BY <2>1, ScriptsName
  <2>2. CASE given \in LaneCases
    BY <2>2 DEF LaneCases
  <2>3. CASE given \in StreamCases
    BY <2>3 DEF StreamCases
  <2> QED
    BY <2>1, <2>2, <2>3 DEF Init
<1>4. TargetsInv /\ [Next]_vars => TargetsInv'
  BY DEF Next, vars, TargetsInv, Poll, Claim, Reset, PlayCall
<1> QED
  BY <1>2, <1>3, <1>4, PTL DEF Spec
-----------------------------------------------------------------------------
(* Faulted streams *)

\* The calls one attempt of a plan answers.
Run(a) == [i \in 1..F!Repeats(a) |-> a]

\* The fold of expandFault over the positions S of a plan.
Expanded(plan, S) ==
    LET it == CHOOSE it : it = [s \in SUBSET S |->
                                   IF s = {} THEN <<>> ELSE it[s \ {Max(s)}] \o Run(plan[Max(s)])]
    IN  it[S]

\* expandFault is that fold over all positions.
LEMMA ExpandUnfolds ==
    ASSUME NEW plan
    PROVE  F!expandFault(plan) = Expanded(plan, DOMAIN plan)
BY DEF F!expandFault, F!FoldLeft, F!MapThenFoldSet, F!Max, Max, Run, Expanded

\* The last of one and of two positions.
LEMMA LastOfTwo == Max({1}) = 1 /\ Max({2}) = 2 /\ Max({1, 2}) = 2
BY DEF Max

\* A plan of one attempt is its run.
LEMMA ExpandOne ==
    ASSUME NEW plan
    PROVE  Expanded(plan, {1}) = <<>> \o Run(plan[1])
<1> DEFINE Eq(it) == it = [s \in SUBSET {1} |->
                              IF s = {} THEN <<>> ELSE it[s \ {Max(s)}] \o Run(plan[Max(s)])]
           w == [s \in SUBSET {1} |-> IF s = {} THEN <<>> ELSE <<>> \o Run(plan[1])]
           c == CHOOSE it : Eq(it)
<1>1. {1} \ {1} = {} /\ {1} # {}
  OBVIOUS
<1>2. Eq(w)
  <2>1. \A s \in SUBSET {1} : s # {} => s = {1}
    BY Zenon
  <2>2. w[{}] = <<>> /\ w[{1}] = <<>> \o Run(plan[1])
    BY <1>1
  <2>3. w = [s \in SUBSET {1} |-> w[s]]
    OBVIOUS
  <2> HIDE DEF w
  <2>4. ASSUME NEW s \in SUBSET {1}, s # {}
        PROVE  w[s] = w[s \ {Max(s)}] \o Run(plan[Max(s)])
    <3>1. s = {1}
      BY <2>1, <2>4, Zenon
    <3> QED
      BY <3>1, <1>1, <2>2, LastOfTwo, Zenon
  <2> QED
    BY <2>2, <2>3, <2>4
<1>3. Eq(c)
  BY <1>2
<1>4. Expanded(plan, {1}) = c[{1}]
  BY DEF Expanded
<1> HIDE DEF c
<1>5. c[{}] = <<>>
  BY <1>3
<1>6. c[{1}] = c[{1} \ {Max({1})}] \o Run(plan[Max({1})])
  BY <1>3
<1> QED
  BY <1>1, <1>4, <1>5, <1>6, LastOfTwo, Zenon

\* A plan of two attempts is the run of the first and then that of the second.
LEMMA ExpandTwo ==
    ASSUME NEW plan
    PROVE  Expanded(plan, {1, 2}) = (<<>> \o Run(plan[1])) \o Run(plan[2])
<1> DEFINE Eq(it) == it = [s \in SUBSET {1, 2} |->
                              IF s = {} THEN <<>> ELSE it[s \ {Max(s)}] \o Run(plan[Max(s)])]
           one == <<>> \o Run(plan[1])
           two == <<>> \o Run(plan[2])
           w == [s \in SUBSET {1, 2} |-> IF s = {} THEN <<>> ELSE IF s = {1} THEN one
                                         ELSE IF s = {2} THEN two ELSE one \o Run(plan[2])]
           c == CHOOSE it : Eq(it)
<1>1. /\ {1, 2} \ {2} = {1} /\ {1} \ {1} = {} /\ {2} \ {2} = {}
      /\ {1} # {2} /\ {1} # {1, 2} /\ {2} # {1, 2} /\ {1} # {} /\ {2} # {} /\ {1, 2} # {}
  OBVIOUS
<1>2. Eq(w)
  <2>1. \A s \in SUBSET {1, 2} : s \in {{}, {1}, {2}, {1, 2}}
    OBVIOUS
  <2>2. w[{}] = <<>> /\ w[{1}] = one /\ w[{2}] = two /\ w[{1, 2}] = one \o Run(plan[2])
    BY <1>1
  <2>3. w = [s \in SUBSET {1, 2} |-> w[s]]
    OBVIOUS
  <2> HIDE DEF w
  <2>4. ASSUME NEW s \in SUBSET {1, 2}, s # {}
        PROVE  w[s] = w[s \ {Max(s)}] \o Run(plan[Max(s)])
    <3>1. CASE s = {1}
      BY <3>1, <1>1, <2>2, LastOfTwo, Zenon
    <3>2. CASE s = {2}
      BY <3>2, <1>1, <2>2, LastOfTwo, Zenon
    <3>3. CASE s = {1, 2}
      BY <3>3, <1>1, <2>2, LastOfTwo, Zenon
    <3> QED
      BY <2>1, <2>4, <3>1, <3>2, <3>3
  <2> QED
    BY <2>2, <2>3, <2>4
<1>3. Eq(c)
  BY <1>2
<1>4. Expanded(plan, {1, 2}) = c[{1, 2}]
  BY DEF Expanded
<1> HIDE DEF c
<1>5. c[{}] = <<>>
  BY <1>3
<1>6. /\ c[{1}] = c[{1} \ {Max({1})}] \o Run(plan[Max({1})])
      /\ c[{1, 2}] = c[{1, 2} \ {Max({1, 2})}] \o Run(plan[Max({1, 2})])
  BY <1>3
<1> QED
  BY <1>1, <1>4, <1>5, <1>6, LastOfTwo, Zenon

\* The attempt of call n of a plan of one attempt.
LEMMA AtOne ==
    ASSUME NEW a, NEW r \in Nat \ {0}, F!Repeats(a) = r, NEW after, NEW n \in Nat
    PROVE  F!at(<<a>>, after, n) = IF n < r \/ after = "repeat_last" THEN a ELSE F!NoAttempt
<1>1. DOMAIN <<a>> = {1} /\ <<a>>[1] = a
  OBVIOUS
<1>2. F!expandFault(<<a>>) = <<>> \o Run(a)
  BY <1>1, ExpandUnfolds, ExpandOne
<1> DEFINE list == F!expandFault(<<a>>)
<1>3. Len(list) = r /\ list # <<>> /\ \A i \in 1..r : list[i] = a
  <2>1. Run(a) = [i \in 1..r |-> a]
    BY DEF Run
  <2>2. Run(a) \in Seq({a}) /\ Len(Run(a)) = r /\ \A i \in 1..r : Run(a)[i] = a
    BY <2>1
  <2>3. <<>> \o Run(a) = Run(a)
    BY <2>2
  <2> QED
    BY <1>2, <2>2, <2>3
<1> HIDE DEF list
<1> QED
  BY <1>3 DEF F!at, list

\* The attempt of call n of a plan of two.
LEMMA AtTwo ==
    ASSUME NEW a, NEW r \in Nat \ {0}, F!Repeats(a) = r,
           NEW b, NEW t \in Nat \ {0}, F!Repeats(b) = t, NEW after, NEW n \in Nat
    PROVE  F!at(<<a, b>>, after, n) =
               IF n < r THEN a
               ELSE IF n < r + t \/ after = "repeat_last" THEN b ELSE F!NoAttempt
<1>1. DOMAIN <<a, b>> = {1, 2} /\ <<a, b>>[1] = a /\ <<a, b>>[2] = b
  OBVIOUS
<1>2. F!expandFault(<<a, b>>) = (<<>> \o Run(a)) \o Run(b)
  BY <1>1, ExpandUnfolds, ExpandTwo
<1> DEFINE list == F!expandFault(<<a, b>>)
<1>3. /\ Len(list) = r + t /\ list # <<>>
      /\ \A i \in 1..r : list[i] = a
      /\ \A i \in (r + 1)..(r + t) : list[i] = b
  <2>1. Run(a) = [i \in 1..r |-> a] /\ Run(b) = [i \in 1..t |-> b]
    BY DEF Run
  <2>2. /\ Run(a) \in Seq({a, b}) /\ Len(Run(a)) = r /\ \A i \in 1..r : Run(a)[i] = a
        /\ Run(b) \in Seq({a, b}) /\ Len(Run(b)) = t /\ \A i \in 1..t : Run(b)[i] = b
    BY <2>1
  <2>3. <<>> \o Run(a) = Run(a)
    BY <2>2
  <2>4. ASSUME NEW S, NEW p \in Seq(S), NEW q \in Seq(S), Len(p) = r, Len(q) = t
        PROVE  /\ Len(p \o q) = r + t
               /\ \A i \in 1..r : (p \o q)[i] = p[i]
               /\ \A i \in (r + 1)..(r + t) : (p \o q)[i] = q[i - r]
    BY <2>4
  <2>5. \A i \in (r + 1)..(r + t) : i - r \in 1..t
    OBVIOUS
  <2>6. list = Run(a) \o Run(b)
    BY <1>2, <2>3
  <2> HIDE DEF list
  <2>7. /\ Len(list) = r + t
        /\ \A i \in 1..r : list[i] = a
        /\ \A i \in (r + 1)..(r + t) : list[i] = Run(b)[i - r]
    BY <2>2, <2>4, <2>6
  <2>8. list # <<>>
    BY <2>7
  <2> QED
    BY <2>2, <2>5, <2>7, <2>8
<1> HIDE DEF list
<1> QED
  BY <1>3 DEF F!at, list

\* What a stream attempt of the configuration says.
LEMMA StreamAttemptFields ==
    ASSUME NEW a \in StreamAttempts
    PROVE  /\ a.kind \in {"stream_disconnect", "stream_stall"} /\ a.repeat \in {0, 2}
           /\ a.after \in 0..(MaxDeltas + 5)
<1>1. ASSUME NEW k, NEW n, NEW r, NEW b, b = StreamFault(k, n, r)
      PROVE  b.kind = k /\ b.after = n /\ b.repeat = r
  BY <1>1 DEF StreamFault, F!Bare
<1>2. PICK k \in {"stream_disconnect", "stream_stall"}, n \in 0..(MaxDeltas + 5), r \in {0, 2} :
        a = StreamFault(k, n, r)
  BY DEF StreamAttempts
<1> QED
  BY <1>1, <1>2

\* Planned counts the calls that meet the stream attempt: one more call is
\* planned to be faulted exactly when its attempt is a stream fault.
LEMMA PlannedCounts ==
    ASSUME NEW plan \in Plannable, NEW after \in {"success", "repeat_last"}, NEW n \in Nat
    PROVE  LET attempt == F!at(plan, after, n)
           IN  /\ Planned(plan, after, 0) = 0
               /\ Planned(plan, after, n) \in Nat
               /\ Planned(plan, after, n + 1)
                     = Planned(plan, after, n) + (IF F!IsStream(attempt.kind) THEN 1 ELSE 0)
               /\ F!IsStream(attempt.kind) =>
                     attempt \in StreamAttempts /\ \E i \in DOMAIN plan : plan[i] = attempt
               /\ ~ F!IsStream(attempt.kind) => attempt \in {F!Bare, F!NoAttempt}
<1>1. /\ ~ F!IsStream(F!Bare.kind) /\ ~ F!IsStream(F!NoAttempt.kind)
      /\ F!Repeats(F!Bare) = 1
  BY DEF F!Bare, F!NoAttempt, F!IsStream, F!StreamKinds, F!Repeats
<1>2. ASSUME NEW a \in StreamAttempts
      PROVE  F!IsStream(a.kind) /\ F!Repeats(a) \in Nat \ {0}
  BY StreamAttemptFields DEF F!IsStream, F!StreamKinds, F!Repeats
<1>3. CASE \E a \in StreamAttempts : plan = <<a>>
  <2>1. PICK a \in StreamAttempts : plan = <<a>>
    BY <1>3
  <2>2. DOMAIN plan = {1} /\ plan[1] = a /\ Len(plan) = 1
    BY <2>1
  <2> DEFINE r == F!Repeats(a)
  <2>3. r \in Nat \ {0}
    BY <1>2
  <2>4. F!at(plan, after, n) = IF n < r \/ after = "repeat_last" THEN a ELSE F!NoAttempt
    BY <2>1, <2>3, AtOne
  <2>5. ASSUME NEW m \in Nat
        PROVE  Planned(plan, after, m)
                 = IF m <= 0 THEN 0 ELSE IF after = "repeat_last" \/ m <= r THEN m ELSE r
    BY <2>2 DEF Planned
  <2> HIDE DEF r
  <2> QED
    BY <1>1, <1>2, <2>2, <2>3, <2>4, <2>5
<1>4. CASE \E a \in StreamAttempts : plan = <<F!Bare, a>>
  <2>1. PICK a \in StreamAttempts : plan = <<F!Bare, a>>
    BY <1>4
  <2>2. DOMAIN plan = {1, 2} /\ plan[1] = F!Bare /\ plan[2] = a /\ Len(plan) = 2
    BY <2>1
  <2> DEFINE r == F!Repeats(a)
  <2>3. r \in Nat \ {0}
    BY <1>2
  <2>4. F!at(plan, after, n) =
            IF n < 1 THEN F!Bare ELSE IF n < 1 + r \/ after = "repeat_last" THEN a ELSE F!NoAttempt
    BY <1>1, <2>1, <2>3, AtTwo
  <2>5. ASSUME NEW m \in Nat
        PROVE  Planned(plan, after, m)
                 = IF m <= 1 THEN 0
                   ELSE IF after = "repeat_last" \/ m - 1 <= r THEN m - 1 ELSE r
    BY <1>1, <2>2, <2>3 DEF Planned
  <2> HIDE DEF r
  <2> QED
    BY <1>1, <1>2, <2>2, <2>3, <2>4, <2>5
<1> QED
  BY <1>3, <1>4 DEF Plannable

\* A sequence of n elements.
OfLen(s, n) == IsSeq(s) /\ Len(s) = n

\* How long what is written out is.
LEMMA WrittenLong ==
    /\ OfLen(<<>>, 0)
    /\ \A x : OfLen(<<x>>, 1)
    /\ \A x, y : OfLen(<<x, y>>, 2)
    /\ \A x : \A n \in Nat : OfLen([i \in 1..n |-> x], n)
<1>1. ASSUME NEW x, NEW y PROVE OfLen(<<x, y>>, 2)
  <2>1. <<x, y>> \in Seq({x, y}) /\ Len(<<x, y>>) = 2
    OBVIOUS
  <2> QED
    BY <2>1, OfSetIsSeq DEF OfLen
<1>2. ASSUME NEW x, NEW n \in Nat PROVE OfLen([i \in 1..n |-> x], n)
  BY RowIsSeq DEF OfLen
<1>3. OfLen(<<>>, 0)
  <2>1. <<>> \in Seq({}) /\ Len(<<>>) = 0
    OBVIOUS
  <2> QED
    BY <2>1, OfSetIsSeq DEF OfLen
<1>4. \A x : OfLen(<<x>>, 1)
  BY OneIsSeq DEF OfLen
<1> QED
  BY <1>1, <1>2, <1>3, <1>4

\* Lengths add up.
LEMMA JoinLong ==
    ASSUME NEW m \in Nat, NEW n \in Nat, NEW s, OfLen(s, m), NEW t, OfLen(t, n)
    PROVE  OfLen(s \o t, m + n)
BY JoinIsSeq DEF OfLen

\* The frames a stream plays are as many as loading takes it to have, whichever
\* the turn's status and however many its deltas.
THEOREM FramesAreCounted ==
    ASSUME NEW deltas \in Nat, NEW status
    PROVE  /\ Len(P!renderSonarStream(deltas)) = deltas + 1
           /\ Len(P!renderAgentStream(status, deltas, TRUE)) = P!agentChunkCount(deltas, status)
<1> DEFINE row == [i \in 1..deltas |-> "delta"]
<1>1. OfLen(row, deltas)
  BY WrittenLong, Zenon
<1>2. Len(P!renderSonarStream(deltas)) = deltas + 1
  <2> DEFINE last == <<"terminal">>
  <2>1. OfLen(last, 1)
    BY WrittenLong, Zenon
  <2>2. P!renderSonarStream(deltas) = row \o last
    BY Zenon DEF P!renderSonarStream
  <2> HIDE DEF row, last
  <2>3. OfLen(row \o last, deltas + 1)
    BY <1>1, <2>1, JoinLong
  <2> QED
    BY <2>2, <2>3 DEF OfLen
<1>3. Len(P!renderAgentStream(status, deltas, TRUE)) = P!agentChunkCount(deltas, status)
  <2> DEFINE s == P!effectiveStatus(status)
             output == P!renderAgentOutput(s, TRUE)
             message == \E i \in 1..Len(output) : output[i] = "message"
             Short == s = "failed" \/ s = "cancelled"
             created == <<"created">>
             failed == <<"failed">>
             completed == <<"completed">>
             added == <<"item_added">>
             done == <<"text_done", "item_done">>
             none == <<>>
             item == (added \o row) \o done
             tail == IF s = "failed" THEN failed ELSE (IF message THEN item ELSE none) \o completed
  <2>1. (s = "failed" <=> status = "failed") /\ (s = "cancelled" <=> status = "cancelled")
    BY Zenon DEF P!effectiveStatus
  <2>2. P!renderAgentStream(status, deltas, TRUE) = created \o tail
    BY Zenon DEF P!renderAgentStream
  <2> HIDE DEF s
  <2>3. P!agentChunkCount(deltas, status) = IF Short THEN 2 ELSE deltas + 5
    BY <2>1 DEF P!agentChunkCount
  <2>4. message <=> ~ Short
    <3> DEFINE u == <<"search_results">>
               v == <<"message">>
    <3>1. output = u \o (IF Short THEN none ELSE v)
      BY DEF P!renderAgentOutput
    <3>2. /\ OfLen(u, 1) /\ OfLen(v, 1) /\ OfLen(none, 0)
          /\ u[1] = "search_results" /\ v[1] = "message"
      BY WrittenLong, OneIsSeq, Zenon
    <3> HIDE DEF u, v, output, none, Short
    <3>3. CASE Short
      <4>1. output = u \o none
        BY <3>1, <3>3
      <4>2. Len(output) = 1 /\ output[1] = "search_results"
        BY <3>2, <4>1, JoinIsSeq DEF OfLen
      <4> QED
        BY <3>3, <4>2
    <3>4. CASE ~ Short
      <4>1. output = u \o v
        BY <3>1, <3>4
      <4>2. /\ Len(u \o v) = Len(u) + Len(v)
            /\ \A i \in 1..Len(v) : (u \o v)[Len(u) + i] = v[i]
        <5>1. IsSeq(u) /\ IsSeq(v)
          BY <3>2 DEF OfLen
        <5> QED
          BY <5>1, JoinIsSeq
      <4>3. Len(u) = 1 /\ Len(v) = 1 /\ 1 \in 1..Len(v)
        BY <3>2 DEF OfLen
      <4>4. Len(output) = 2 /\ output[2] = "message"
        BY <3>2, <4>1, <4>2, <4>3
      <4> QED
        BY <3>4, <4>4
    <3> QED
      BY <3>3, <3>4
  <2>5. /\ OfLen(created, 1) /\ OfLen(failed, 1) /\ OfLen(completed, 1) /\ OfLen(added, 1)
        /\ OfLen(done, 2) /\ OfLen(none, 0)
    BY WrittenLong, Zenon
  <2>6. (s = "failed" => Short) /\ (~ Short => s # "failed")
    OBVIOUS
  <2> HIDE DEF row, created, failed, completed, added, done, none, message, Short
  <2>7. OfLen(item, deltas + 3)
    <3>1. OfLen(added \o row, 1 + deltas)
      BY <1>1, <2>5, JoinLong
    <3>2. OfLen(item, (1 + deltas) + 2)
      BY <2>5, <3>1, JoinLong
    <3> QED
      BY <3>2 DEF OfLen
  <2> HIDE DEF item
  <2>8. /\ Short => OfLen(tail, 1)
        /\ ~ Short => OfLen(tail, deltas + 4)
    <3>1. OfLen(none \o completed, 1)
      <4>1. OfLen(none \o completed, 0 + 1)
        BY <2>5, JoinLong
      <4> QED
        BY <4>1
    <3>2. OfLen(item \o completed, deltas + 4)
      <4>1. deltas + 3 \in Nat /\ (deltas + 3) + 1 = deltas + 4
        OBVIOUS
      <4>2. OfLen(item \o completed, (deltas + 3) + 1)
        BY <2>5, <2>7, <4>1, JoinLong
      <4> QED
        BY <4>1, <4>2
    <3>3. CASE Short
      <4>1. tail = failed \/ tail = none \o completed
        BY <2>4, <3>3
      <4> QED
        BY <2>5, <3>1, <3>3, <4>1
    <3>4. CASE ~ Short
      <4>1. tail = item \o completed
        BY <2>4, <2>6, <3>4
      <4> QED
        BY <3>2, <3>4, <4>1
    <3> QED
      BY <3>3, <3>4
  <2> HIDE DEF tail
  <2>9. CASE Short
    <3>1. OfLen(created \o tail, 2)
      <4>1. 1 + 1 = 2
        OBVIOUS
      <4>2. OfLen(created \o tail, 1 + 1)
        BY <2>5, <2>8, <2>9, JoinLong
      <4> QED
        BY <4>1, <4>2, Zenon
    <3> QED
      BY <2>2, <2>3, <2>9, <3>1 DEF OfLen
  <2>10. CASE ~ Short
    <3>1. deltas + 4 \in Nat /\ 1 + (deltas + 4) = deltas + 5
      OBVIOUS
    <3>2. OfLen(created \o tail, 1 + (deltas + 4))
      BY <2>5, <2>8, <2>10, <3>1, JoinLong
    <3> QED
      BY <2>2, <2>3, <2>10, <3>1, <3>2 DEF OfLen
  <2> QED
    BY <2>9, <2>10
<1> QED
  BY <1>2, <1>3

\* An accepted stream fault names a chunk of every turn that may answer the
\* call which claims it.
THEOREM AcceptedFaultHasChunk ==
    ASSUME NEW a, F!IsStream(F!EffectiveKind(a)), NEW scripts, Len(scripts) \in Nat,
           \A i \in 1..Len(scripts) : F!chunkCount(scripts[i]) \in Nat,
           F!entryPolicy(scripts) = "stream", F!ValidateStreamFaultMismatch(a, scripts),
           NEW i \in 1..Len(scripts)
    PROVE  a.after \in 0..(F!chunkCount(scripts[i]) - 1)
<1> DEFINE counts == {F!chunkCount(scripts[j]) : j \in 1..Len(scripts)}
<1>1. counts \subseteq Nat /\ F!chunkCount(scripts[i]) \in counts
  OBVIOUS
<1>2. Min(counts) \in Nat /\ Min(counts) <= F!chunkCount(scripts[i])
  BY <1>1, MinInSet
<1>3. F!minChunks(scripts) = Min(counts)
  BY DEF F!minChunks, F!Min, Min
<1> HIDE DEF counts
<1>4. a.after \in 0..(Min(counts) - 1)
  BY <1>3 DEF F!ValidateStreamFaultMismatch
<1> QED
  BY <1>1, <1>2, <1>4

\* Loading takes a stream of these surfaces to have the frames it plays, with a
\* progress token or without.
LEMMA ScriptCounts ==
    ASSUME NEW surface \in {"sonar", "agent"}, NEW turn, turn.deltas \in Nat, NEW token
    PROVE  /\ F!chunkCount(StreamScript(surface, turn)) = Len(Frames(surface, turn, token))
           /\ F!chunkCount(StreamScript(surface, turn)) \in Nat
           /\ F!EffectivePolicy(StreamScript(surface, turn)) = "stream"
<1> DEFINE script == StreamScript(surface, turn)
           count == P!agentChunkCount(turn.deltas, turn.status)
<1>1. /\ script.policy = "stream" /\ script.deltas = turn.deltas
      /\ script.chunks = IF surface = "agent" THEN count ELSE 0
  BY DEF StreamScript
<1>2. count \in Nat \ {0}
  BY DEF P!agentChunkCount
<1>3. Len(Frames(surface, turn, token)) = IF surface = "agent" THEN count ELSE turn.deltas + 1
  <2>1. CASE surface = "agent"
    <3>1. Frames(surface, turn, token) = P!renderAgentStream(turn.status, turn.deltas, TRUE)
      BY <2>1, Zenon DEF Frames
    <3> QED
      BY <2>1, <3>1, FramesAreCounted
  <2>2. CASE surface = "sonar"
    <3>1. Frames(surface, turn, token) = P!renderSonarStream(turn.deltas)
      BY <2>2 DEF Frames
    <3> QED
      BY <2>2, <3>1, FramesAreCounted
  <2> QED
    BY <2>1, <2>2
<1> HIDE DEF script, count
<1>4. F!EffectivePolicy(script) = "stream"
  BY <1>1, Zenon DEF F!EffectivePolicy
<1>5. F!chunkCount(script) = Len(Frames(surface, turn, token)) /\ F!chunkCount(script) \in Nat
  BY <1>1, <1>2, <1>3 DEF F!chunkCount
<1> QED
  BY <1>4, <1>5 DEF script

\* What a stream case says: one or two turns, each with deltas, and a plan.
LEMMA StreamCaseFields ==
    ASSUME NEW c \in StreamCases
    PROVE  /\ c.what = "stream" /\ c.surface \in Streams
           /\ Len(c.turns) \in 1..2 /\ \A i \in 1..Len(c.turns) : c.turns[i].deltas \in Nat
           /\ c.plan \in Plannable /\ c.after \in {"success", "repeat_last"}
<1>1. ASSUME NEW W, NEW S, NEW T1, NEW Q, NEW A,
             NEW d \in [what : W, surface : S, turns : T1, plan : Q, after : A]
      PROVE  d.what \in W /\ d.surface \in S /\ d.turns \in T1 /\ d.plan \in Q /\ d.after \in A
  OBVIOUS
<1>2. ASSUME NEW A1, NEW A2, NEW A3, NEW A4, NEW A5, NEW A6, NEW A7,
             NEW t \in [status : A1, error : A2, source : A3, deltas : A4, first : A5, last : A6, answer : A7]
      PROVE  t.deltas \in A4
  OBVIOUS
<1>3. ASSUME NEW s, NEW t \in StreamTurns(s) PROVE t.deltas \in Nat
  <2>1. t.deltas \in 1..MaxDeltas
    BY <1>2, Zenon DEF StreamTurns
  <2> QED
    BY <2>1, BoundsAssumption
<1>4. PICK s \in Streams :
        c \in [what : {"stream"}, surface : {s}, turns : UNION {[1..k -> StreamTurns(s)] : k \in 1..2},
               plan : Plannable, after : {"success", "repeat_last"}]
  BY Zenon DEF StreamCases
<1>5. /\ c.what \in {"stream"} /\ c.surface \in {s}
      /\ c.turns \in UNION {[1..k -> StreamTurns(s)] : k \in 1..2}
      /\ c.plan \in Plannable /\ c.after \in {"success", "repeat_last"}
  BY <1>1, <1>4, Zenon
<1>6. PICK k \in 1..2 : c.turns \in [1..k -> StreamTurns(s)]
  BY <1>5
<1>7. Len(c.turns) = k /\ \A i \in 1..k : c.turns[i] \in StreamTurns(s)
  BY <1>6
<1> QED
  BY <1>3, <1>5, <1>7

\* A faulted call of an accepted case lands, whichever turn answers.
LEMMA CallLands ==
    ASSUME Streams \subseteq {"sonar", "agent"}, NEW c \in StreamCases, Loads(c),
           NEW i \in DOMAIN c.plan, c.plan[i] \in StreamAttempts,
           NEW turn \in 1..Len(c.turns), NEW token
    PROVE  c.plan[i].after \in 0..(Len(Frames(c.surface, c.turns[turn], token)) - 1)
<1> DEFINE a == c.plan[i]
           turns == c.turns
           scripts == [j \in 1..Len(turns) |-> StreamScript(c.surface, turns[j])]
<1>1. /\ c.surface \in {"sonar", "agent"} /\ Len(turns) \in 1..2
      /\ \A j \in 1..Len(turns) : turns[j].deltas \in Nat
      /\ c.plan \in Plannable
  BY StreamCaseFields
<1>2. Len(scripts) = Len(turns) /\ \A j \in 1..Len(turns) : scripts[j] = StreamScript(c.surface, turns[j])
  BY <1>1
<1>3. DOMAIN c.plan = 1..Len(c.plan)
  BY <1>1 DEF Plannable
<1>4. F!LoadsWith(a, scripts)
  BY <1>3 DEF Loads
<1> HIDE DEF scripts
<1>5. /\ \A j \in 1..Len(scripts) : F!chunkCount(scripts[j]) \in Nat
      /\ F!chunkCount(scripts[turn]) = Len(Frames(c.surface, turns[turn], token))
      /\ F!EffectivePolicy(scripts[1]) = "stream"
  BY <1>1, <1>2, ScriptCounts, SMTT(30)
<1>6. F!entryPolicy(scripts) = "stream"
  BY <1>5 DEF F!entryPolicy
<1>7. F!IsStream(F!EffectiveKind(a))
  BY StreamAttemptFields DEF F!IsStream, F!StreamKinds, F!EffectiveKind
<1>8. F!ValidateStreamFaultMismatch(a, scripts)
  BY <1>4 DEF F!LoadsWith
<1> HIDE DEF a
<1>9. a.after \in 0..(F!chunkCount(scripts[turn]) - 1)
  BY <1>1, <1>2, <1>5, <1>6, <1>7, <1>8, AcceptedFaultHasChunk
<1> QED
  BY <1>5, <1>9 DEF a

\* Where the plan of an attempt acts: at the chunk it names, or nowhere.
LEMMA HitsAre ==
    ASSUME NEW a, NEW n \in Nat,
           \/ a \in StreamAttempts /\ a.after \in 0..(n - 1)
           \/ a \in {F!Bare, F!NoAttempt}
    PROVE  LET p == F!planStream(a)
           IN  {p.disconnectAt, p.truncateAt, p.stallAt} \cap 0..(n - 1) # {} <=> F!IsStream(a.kind)
<1>1. CASE a \in StreamAttempts /\ a.after \in 0..(n - 1)
  <2>1. /\ a.kind \in {"stream_disconnect", "stream_stall"} /\ a # F!NoAttempt
        /\ F!EffectiveKind(a) = a.kind
    BY <1>1, StreamAttemptFields DEF F!EffectiveKind, F!NoAttempt, F!Bare
  <2>2. F!IsStream(a.kind)
    BY <2>1 DEF F!IsStream, F!StreamKinds
  <2>3. \/ F!planStream(a).disconnectAt = a.after
        \/ F!planStream(a).stallAt = a.after
    BY <2>1 DEF F!planStream
  <2> QED
    BY <1>1, <2>2, <2>3
<1>2. CASE a \in {F!Bare, F!NoAttempt}
  <2>1. ~ F!IsStream(a.kind) /\ F!EffectiveKind(a) = "none"
    BY <1>2 DEF F!Bare, F!NoAttempt, F!IsStream, F!StreamKinds, F!EffectiveKind
  <2>2. /\ F!planStream(a).disconnectAt = -1 /\ F!planStream(a).truncateAt = -1
        /\ F!planStream(a).stallAt = -1
    BY <2>1 DEF F!planStream
  <2> QED
    BY <2>1, <2>2
<1> QED
  BY <1>1, <1>2

\* The case is one that loads, and the calls made so far were faulted as often
\* as the plan says, each time where the stream has a chunk.
StreamInv ==
    given.what = "stream" =>
        /\ given \in StreamCases /\ Loads(given)
        /\ at \in Nat
        /\ seen.faults = Planned(given.plan, given.after, at)
        /\ seen.landed = seen.faults

\* A stream starts unplayed.
LEMMA StreamInit == Init => StreamInv
<1> SUFFICES ASSUME Init, given.what = "stream" PROVE StreamInv
  BY DEF StreamInv
<1>1. given \in StreamCases /\ Loads(given) /\ seen = [faults |-> 0, landed |-> 0]
  <2>1. CASE given \in ScriptCases
    BY <2>1, ScriptsName
  <2>2. CASE given \in LaneCases
    BY <2>2 DEF LaneCases
  <2>3. CASE given \in TargetCases
    BY <2>3, TargetsSay
  <2> QED
    BY <2>1, <2>2, <2>3 DEF Init
<1>2. at = 0
  BY DEF Init
<1>3. Planned(given.plan, given.after, 0) = 0
  BY <1>1, StreamCaseFields, PlannedCounts
<1> QED
  BY <1>1, <1>2, <1>3 DEF StreamInv

\* One more call: it is faulted when the plan says so, and then it lands.
LEMMA CallKeeps ==
    ASSUME Streams \subseteq {"sonar", "agent"}, StreamInv,
           NEW turn \in 1..2, turn <= Len(given.turns), NEW token \in BOOLEAN, PlayCall(turn, token)
    PROVE  StreamInv'
<1> DEFINE attempt == F!at(given.plan, given.after, at)
           plan    == F!planStream(attempt)
           hits    == {plan.disconnectAt, plan.truncateAt, plan.stallAt}
           n       == Len(Frames(given.surface, given.turns[turn], token))
<1>1. /\ given \in StreamCases /\ Loads(given) /\ given.what = "stream" /\ at \in Nat
      /\ seen.faults = Planned(given.plan, given.after, at) /\ seen.landed = seen.faults
  BY DEF StreamInv, PlayCall
<1>2. /\ at' = at + 1 /\ given' = given
      /\ seen' = [faults |-> seen.faults + (IF F!IsStream(attempt.kind) THEN 1 ELSE 0),
                  landed |-> seen.landed + (IF hits \cap 0..(n - 1) # {} THEN 1 ELSE 0)]
  BY Zenon DEF PlayCall
<1>3. /\ given.surface \in {"sonar", "agent"} /\ turn \in 1..Len(given.turns)
      /\ given.turns[turn].deltas \in Nat
      /\ given.plan \in Plannable /\ given.after \in {"success", "repeat_last"}
  <2>1. /\ given.surface \in Streams /\ Len(given.turns) \in 1..2
        /\ \A i \in 1..Len(given.turns) : given.turns[i].deltas \in Nat
        /\ given.plan \in Plannable /\ given.after \in {"success", "repeat_last"}
    BY <1>1, StreamCaseFields
  <2>2. turn \in 1..Len(given.turns)
    BY <2>1
  <2> QED
    BY <2>1, <2>2
<1>4. n \in Nat
  BY <1>3, ScriptCounts
<1>5. /\ Planned(given.plan, given.after, at) \in Nat
      /\ Planned(given.plan, given.after, at + 1)
            = Planned(given.plan, given.after, at) + (IF F!IsStream(attempt.kind) THEN 1 ELSE 0)
      /\ F!IsStream(attempt.kind) =>
            attempt \in StreamAttempts /\ \E i \in DOMAIN given.plan : given.plan[i] = attempt
      /\ ~ F!IsStream(attempt.kind) => attempt \in {F!Bare, F!NoAttempt}
  BY <1>1, <1>3, PlannedCounts
<1>6. F!IsStream(attempt.kind) => attempt.after \in 0..(n - 1)
  BY <1>1, <1>3, <1>5, CallLands
<1> HIDE DEF attempt, n
<1>7. hits \cap 0..(n - 1) # {} <=> F!IsStream(attempt.kind)
  BY <1>4, <1>5, <1>6, HitsAre
<1> HIDE DEF hits
<1>8. seen'.faults = Planned(given.plan, given.after, at + 1) /\ seen'.landed = seen'.faults
  BY <1>1, <1>2, <1>5, <1>7
<1> QED
  BY <1>1, <1>2, <1>8 DEF StreamInv

\* Every step keeps the account.
LEMMA StreamStep ==
    ASSUME Streams \subseteq {"sonar", "agent"}, StreamInv, [Next]_vars
    PROVE  StreamInv'
<1>1. CASE Poll
  BY <1>1 DEF Poll, StreamInv
<1>2. CASE \E req \in LaneRequests : Claim(req)
  BY <1>2 DEF Claim, StreamInv
<1>3. CASE \E ns \in {"default", "ns1"} : Reset(ns)
  BY <1>3 DEF Reset, StreamInv
<1>4. CASE \E turn \in 1..2, token \in BOOLEAN :
             given.what = "stream" /\ turn <= Len(given.turns) /\ PlayCall(turn, token)
  BY <1>4, CallKeeps
<1>5. CASE UNCHANGED vars
  BY <1>5 DEF vars, StreamInv
<1> QED
  BY <1>1, <1>2, <1>3, <1>4, <1>5 DEF Next

\* On Perplexity's two surfaces every stream fault that loading accepted lands
\* on each call the plan scripts it for, whichever turn answers it.  MCP's
\* streams, which play fewer frames without a token, are not among them.
THEOREM FaultsLand == Streams \subseteq {"sonar", "agent"} => (Spec => []StreamFaultLands)
<1> SUFFICES ASSUME Streams \subseteq {"sonar", "agent"} PROVE Spec => []StreamFaultLands
  OBVIOUS
<1>1. StreamInv => StreamFaultLands
  BY DEF StreamInv, StreamFaultLands
<1>2. StreamInv /\ [Next]_vars => StreamInv'
  BY StreamStep
<1> QED
  BY <1>1, <1>2, StreamInit, PTL DEF Spec
=============================================================================
