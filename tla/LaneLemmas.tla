----------------------------- MODULE LaneLemmas -----------------------------
(***************************************************************************)
(* What the key of a lane is made of, and what reading it back returns,    *)
(* for every request, every list of extractors and every value they find:  *)
(* the fault engine and its reset rest on it.                              *)
(***************************************************************************)
EXTENDS Lanes, OperatorLemmas

\* A lane of a route: the route's key, then nothing or a separator and more.
Opens(lane, key) ==
    /\ IsSeq(lane) /\ Len(lane) >= Len(key)
    /\ \A i \in 1..Len(key) : lane[i] = key[i]
    /\ Len(lane) > Len(key) => lane[Len(key) + 1] = "|"

\* The extractors of a list that read the request find sequences.
Readable(req, extractors) ==
    /\ IsSeq(extractors)
    /\ \A i \in 1..Len(extractors) :
         extractors[i].form # "route" => IsSeq(lookup(req, extractors[i]))

\* Keys the engine can tell from what is put before and behind them.
Registrable(plans) ==
    \A k \in plans : /\ IsSeq(k) /\ Len(k) >= 1
                     /\ \A i \in 1..Len(k) : k[i] # "|"
                     /\ Len(k) >= 2 => k[2] # "/"

-----------------------------------------------------------------------------
(* Composing a key *)

\* The keys of the loop: the route's, then each from the one before.
LEMMA LaneKeysUnfold ==
    ASSUME NEW req, NEW key, NEW extractors, IsSeq(extractors)
    PROVE  /\ laneKeys(req, key, extractors)[0] = key
           /\ \A n \in 1..Len(extractors) :
                laneKeys(req, key, extractors)[n]
                    = appendLanePart(req, laneKeys(req, key, extractors)[n - 1], extractors[n])
<1> DEFINE L == Len(extractors)
           Loop(k, f) == f = [n \in 0..k |-> IF n = 0 THEN key
                                             ELSE appendLanePart(req, f[n - 1], extractors[n])]
           Missing == {k \in 0..L : ~ \E f : Loop(k, f)}
<1>1. L \in Nat
  BY SeqIsRow
<1> HIDE DEF L
<1>2. Missing = {}
  <2>1. SUFFICES ASSUME Missing # {} PROVE FALSE
    OBVIOUS
  <2>2. PICK k \in Missing : \A m \in Missing : k <= m
    <3>1. Missing \subseteq Nat
      BY <1>1
    <3> QED
      BY <2>1, <3>1, MinInSet
  <2>3. k \in 0..L
    BY <2>2
  <2>4. CASE k = 0
    <3>1. Loop(0, [n \in 0..0 |-> key])
      OBVIOUS
    <3> QED
      BY <2>2, <2>4, <3>1
  <2>5. CASE k # 0
    <3>1. k - 1 \in 0..L /\ k - 1 \notin Missing
      BY <1>1, <2>2, <2>3, <2>5
    <3>2. PICK f : Loop(k - 1, f)
      BY <3>1
    <3> DEFINE g == [n \in 0..k |-> IF n = k THEN appendLanePart(req, f[k - 1], extractors[k]) ELSE f[n]]
    <3>3. ASSUME NEW n \in 0..k
          PROVE  g[n] = IF n = 0 THEN key ELSE appendLanePart(req, g[n - 1], extractors[n])
      <4>1. CASE n = 0
        BY <1>1, <2>3, <2>5, <3>2, <4>1
      <4>2. CASE n # 0 /\ n = k
        <5>1. g[n - 1] = f[k - 1]
          BY <1>1, <2>3, <4>2
        <5> QED
          BY <4>2, <5>1
      <4>3. CASE n # 0 /\ n # k
        <5>1. n \in 0..(k - 1) /\ n - 1 \in 0..(k - 1) /\ n - 1 # k /\ n - 1 \in 0..k
          BY <1>1, <2>3, <4>3
        <5>2. g[n] = f[n] /\ g[n - 1] = f[n - 1]
          BY <4>3, <5>1
        <5>3. f[n] = appendLanePart(req, f[n - 1], extractors[n])
          BY <3>2, <4>3, <5>1
        <5> QED
          BY <4>3, <5>2, <5>3
      <4> QED
        BY <4>1, <4>2, <4>3
    <3>4. Loop(k, g)
      <4> DEFINE h == [n \in 0..k |-> IF n = 0 THEN key ELSE appendLanePart(req, g[n - 1], extractors[n])]
      <4>1. \A n \in 0..k : g[n] = h[n]
        BY <3>3
      <4>2. g = h
        BY <4>1
      <4> QED
        BY <4>2
    <3> QED
      BY <2>2, <3>4
  <2> QED
    BY <2>4, <2>5
<1>3. \E f : Loop(L, f)
  BY <1>1, <1>2
<1>4. laneKeys(req, key, extractors) = CHOOSE f : Loop(L, f)
  BY DEF laneKeys, L
<1>5. Loop(L, laneKeys(req, key, extractors))
  BY <1>3, <1>4
<1> HIDE DEF Missing
<1>6. \A n \in 0..L : laneKeys(req, key, extractors)[n] = IF n = 0 THEN key
           ELSE appendLanePart(req, laneKeys(req, key, extractors)[n - 1], extractors[n])
  BY <1>5
<1> QED
  BY <1>1, <1>6 DEF L

\* What an extractor appends is a sequence that starts with the separator, or
\* nothing at all.
LEMMA AppendedPart ==
    ASSUME NEW req, NEW key, IsSeq(key), NEW e, e.form # "route" => IsSeq(lookup(req, e))
    PROVE  \/ appendLanePart(req, key, e) = key
           \/ LET value == IF e.form = "path" THEN lookup(req, e)
                           ELSE fingerprintLaneValue(lookup(req, e), e.credential)
              IN  /\ IsSeq(value)
                  /\ appendLanePart(req, key, e) = key \o (<<"|", e.form, e.name, "=">> \o value)
<1> DEFINE value == IF e.form = "path" THEN lookup(req, e)
                    ELSE fingerprintLaneValue(lookup(req, e), e.credential)
<1>1. CASE e.form = "route" \/ lookup(req, e) = <<>> \/ value \in TooLong
  BY <1>1 DEF appendLanePart
<1>2. CASE ~ (e.form = "route" \/ lookup(req, e) = <<>> \/ value \in TooLong)
  <2>1. appendLanePart(req, key, e) = key \o (<<"|", e.form, e.name, "=">> \o value)
    BY <1>2 DEF appendLanePart
  <2>2. IsSeq(value)
    <3>1. IsSeq(lookup(req, e)) /\ IsSeq(Fingerprint(lookup(req, e)))
      BY <1>2, OneIsSeq DEF Fingerprint
    <3> QED
      BY <3>1 DEF fingerprintLaneValue
  <2> QED
    BY <2>1, <2>2
<1> QED
  BY <1>1, <1>2

\* More behind a separator keeps the opening.
LEMMA JoinOpens ==
    ASSUME NEW key, IsSeq(key), NEW lane, Opens(lane, key),
           NEW part, IsSeq(part), Len(part) >= 1, part[1] = "|"
    PROVE  Opens(lane \o part, key)
<1> DEFINE longer == lane \o part
<1>0. IsSeq(lane)
  BY DEF Opens
<1>1. /\ IsSeq(lane) /\ Len(lane) \in Nat /\ Len(key) \in Nat /\ Len(part) \in Nat
      /\ Len(lane) >= Len(key)
      /\ \A i \in 1..Len(key) : lane[i] = key[i]
      /\ Len(lane) > Len(key) => lane[Len(key) + 1] = "|"
  BY SeqIsRow DEF Opens
<1>2. /\ IsSeq(longer) /\ Len(longer) = Len(lane) + Len(part)
      /\ \A i \in 1..Len(lane) : longer[i] = lane[i]
      /\ \A i \in 1..Len(part) : longer[Len(lane) + i] = part[i]
  BY <1>0, JoinIsSeq
<1> HIDE DEF longer
<1>3. longer[Len(key) + 1] = "|"
  <2>1. CASE Len(lane) > Len(key)
    <3>1. Len(key) + 1 \in 1..Len(lane)
      BY <1>1, <2>1
    <3> QED
      BY <1>1, <1>2, <2>1, <3>1
  <2>2. CASE Len(lane) = Len(key)
    <3>1. 1 \in 1..Len(part)
      BY <1>1
    <3>2. longer[Len(lane) + 1] = part[1]
      BY <1>2, <3>1
    <3> QED
      BY <2>2, <3>2
  <2> QED
    BY <1>1, <2>1, <2>2
<1> QED
  BY <1>1, <1>2, <1>3 DEF Opens, longer

\* One more part keeps the opening.
LEMMA PartOpens ==
    ASSUME NEW req, NEW key, IsSeq(key), NEW lane, Opens(lane, key),
           NEW e, e.form # "route" => IsSeq(lookup(req, e))
    PROVE  Opens(appendLanePart(req, lane, e), key)
<1>0. IsSeq(lane)
  BY DEF Opens
<1>1. CASE appendLanePart(req, lane, e) = lane
  BY <1>1
<1>2. ASSUME NEW value, IsSeq(value),
             appendLanePart(req, lane, e) = lane \o (<<"|", e.form, e.name, "=">> \o value)
      PROVE  Opens(appendLanePart(req, lane, e), key)
  <2> DEFINE head == <<"|", e.form, e.name, "=">>
             part == head \o value
  <2>1. IsSeq(head) /\ Len(head) = 4 /\ head[1] = "|"
    <3>1. head \in Seq({"|", e.form, e.name, "="}) /\ Len(head) = 4 /\ head[1] = "|"
      OBVIOUS
    <3> QED
      BY <3>1, OfSetIsSeq
  <2> HIDE DEF head
  <2>2. /\ IsSeq(part) /\ Len(part) = 4 + Len(value) /\ part[1] = "|" /\ Len(value) \in Nat
    <3>1. /\ IsSeq(part) /\ Len(part) = Len(head) + Len(value)
          /\ \A i \in 1..Len(head) : part[i] = head[i]
      BY <1>2, <2>1, JoinIsSeq, ZenonT(40)
    <3>2. Len(value) \in Nat
      BY <1>2, SeqIsRow
    <3> HIDE DEF part
    <3>3. part[1] = head[1]
      BY <2>1, <3>1
    <3> QED
      BY <2>1, <3>1, <3>2, <3>3
  <2>3. appendLanePart(req, lane, e) = lane \o part
    BY <1>2 DEF head
  <2> HIDE DEF part
  <2>4. Opens(lane \o part, key)
    BY <1>0, <2>2, JoinOpens
  <2> QED
    BY <2>3, <2>4
<1> DEFINE value == IF e.form = "path" THEN lookup(req, e)
                    ELSE fingerprintLaneValue(lookup(req, e), e.credential)
<1>3. \/ appendLanePart(req, lane, e) = lane
      \/ /\ IsSeq(value)
         /\ appendLanePart(req, lane, e) = lane \o (<<"|", e.form, e.name, "=">> \o value)
  BY <1>0, AppendedPart, Zenon
<1> HIDE DEF value
<1> QED
  BY <1>1, <1>2, <1>3, Zenon

\* Every key of the loop opens with the route's key.
LEMMA LaneKeysOpen ==
    ASSUME NEW req, NEW key, IsSeq(key), NEW extractors, Readable(req, extractors)
    PROVE  \A n \in 0..Len(extractors) : Opens(laneKeys(req, key, extractors)[n], key)
<1> DEFINE f == laneKeys(req, key, extractors)
           Bad == {n \in 0..Len(extractors) : ~ Opens(f[n], key)}
<1>1. /\ Len(extractors) \in Nat /\ Len(key) \in Nat /\ f[0] = key
      /\ \A n \in 1..Len(extractors) : f[n] = appendLanePart(req, f[n - 1], extractors[n])
  BY SeqIsRow, LaneKeysUnfold DEF Readable
<1> HIDE DEF f
<1>2. Bad = {}
  <2>1. SUFFICES ASSUME Bad # {} PROVE FALSE
    OBVIOUS
  <2>2. PICK n \in Bad : \A m \in Bad : n <= m
    <3>1. Bad \subseteq Nat
      BY <1>1
    <3> QED
      BY <2>1, <3>1, MinInSet
  <2>3. Opens(key, key)
    BY <1>1 DEF Opens
  <2>4. n \in 1..Len(extractors) /\ n - 1 \in 0..Len(extractors) /\ n - 1 \notin Bad
    BY <1>1, <2>2, <2>3
  <2>5. Opens(f[n - 1], key)
    BY <2>4
  <2>6. Opens(f[n], key)
    BY <1>1, <2>4, <2>5, PartOpens DEF Readable
  <2> QED
    BY <2>2, <2>6
<1> QED
  BY <1>2 DEF f

\* The key of a request's lane opens with the key of its route.
LEMMA TurnLaneKeyOpens ==
    ASSUME NEW req, NEW route, IsSeq(route.key), NEW turnKey,
           route.laneFrom # <<>> => Readable(req, route.laneFrom),
           route.laneFrom = <<>> => Readable(req, turnKey)
    PROVE  Opens(turnLaneKey(req, route, turnKey), route.key)
<1> DEFINE extractors == IF route.laneFrom # <<>> THEN route.laneFrom ELSE turnKey
<1>1. Readable(req, extractors)
  OBVIOUS
<1>2. Len(extractors) \in Nat /\ Len(route.key) \in Nat
  BY <1>1, SeqIsRow DEF Readable
<1>3. \/ turnLaneKey(req, route, turnKey) = laneKeys(req, route.key, extractors)[Len(extractors)]
      \/ turnLaneKey(req, route, turnKey) = route.key
  BY DEF turnLaneKey
<1> HIDE DEF extractors
<1>4. Opens(route.key, route.key)
  BY <1>2 DEF Opens
<1>5. Opens(laneKeys(req, route.key, extractors)[Len(extractors)], route.key)
  BY <1>1, <1>2, LaneKeysOpen
<1> QED
  BY <1>3, <1>4, <1>5

-----------------------------------------------------------------------------
(* Taking a key apart *)

\* The first part of a lane is the key of its route.
LEMMA FirstPart ==
    ASSUME NEW key, IsSeq(key), \A i \in 1..Len(key) : key[i] # "|", NEW lane, Opens(lane, key)
    PROVE  Len(SplitParts(lane)) \in Nat /\ Len(SplitParts(lane)) >= 1 /\ SplitParts(lane)[1] = key
<1> DEFINE S == {0, Len(lane) + 1} \cup Occurrences(lane, "|")
           cuts == Ascending(S)
           k == Len(key) + 1
<1>1. /\ IsSeq(lane) /\ Len(lane) \in Nat /\ Len(key) \in Nat /\ Len(lane) >= Len(key)
      /\ \A i \in 1..Len(key) : lane[i] = key[i]
      /\ Len(lane) > Len(key) => lane[Len(key) + 1] = "|"
      /\ key = [i \in 1..Len(key) |-> key[i]]
  BY SeqIsRow DEF Opens
<1>2. S \subseteq 0..(Len(lane) + 1) /\ S \subseteq Int
  BY <1>1 DEF Occurrences
<1>3. IsFiniteSet(S)
  <2>1. IsFiniteSet(0..(Len(lane) + 1))
    BY <1>1, FS_Interval
  <2> QED
    BY <1>2, <2>1, FS_Subset
<1>4. 0 \in S /\ k \in S /\ (\A n \in S : n >= 0 /\ (n = 0 \/ n >= k))
  <2>1. k \in S
    BY <1>1 DEF Occurrences
  <2>2. ASSUME NEW n \in S, n # 0 PROVE n >= k
    <3>1. CASE n = Len(lane) + 1
      BY <1>1, <3>1
    <3>2. CASE n \in 1..Len(lane) /\ lane[n] = "|"
      <4>1. n \notin 1..Len(key)
        BY <1>1, <3>2
      <4> QED
        BY <1>1, <3>2, <4>1
    <3> QED
      BY <2>2, <3>1, <3>2 DEF Occurrences
  <2> QED
    BY <1>2, <2>1, <2>2
<1> HIDE DEF S
<1> DEFINE c == Cardinality(S)
<1>5. /\ c \in Nat /\ cuts \in [1..c -> S]
      /\ \A i, j \in 1..c : i < j => cuts[i] < cuts[j]
      /\ \A n \in S : \E i \in 1..c : cuts[i] = n
  BY <1>2, <1>3, AscendingSorts
<1>6. Len(cuts) = c
  BY <1>5
<1> HIDE DEF c, cuts
<1>7. PICK a \in 1..c : cuts[a] = 0
  BY <1>4, <1>5
<1>8. PICK b \in 1..c : cuts[b] = k
  BY <1>4, <1>5
<1>9. \A i \in 1..c : cuts[i] \in S /\ cuts[i] \in Int
  BY <1>2, <1>5
<1>10. a = 1
  <2>1. 1 \in 1..c /\ (a # 1 => 1 < a)
    BY <1>5, <1>7
  <2>2. a # 1 => cuts[1] < 0
    BY <1>5, <1>7, <2>1
  <2> QED
    BY <1>4, <1>9, <2>1, <2>2
<1>11. b = 2 /\ c >= 2
  <2>1. b # 1
    BY <1>1, <1>7, <1>8, <1>10
  <2>2. 2 \in 1..c /\ (b # 2 => 2 < b)
    BY <1>5, <1>8, <2>1
  <2>3. b # 2 => cuts[2] < k /\ 0 < cuts[2]
    BY <1>5, <1>7, <1>8, <1>10, <2>2
  <2>4. cuts[2] >= 0 /\ (cuts[2] = 0 \/ cuts[2] >= k) /\ cuts[2] \in Int
    BY <1>4, <1>9, <2>2
  <2> QED
    BY <1>1, <1>5, <2>2, <2>3, <2>4
<1>12. /\ cuts[1] = 0 /\ cuts[2] = k
  BY <1>7, <1>8, <1>10, <1>11
<1> DEFINE row == [i \in 1..(c - 1) |-> SubSeq(lane, cuts[i] + 1, cuts[i + 1] - 1)]
<1>13. SplitParts(lane) = row
  BY <1>6 DEF SplitParts, cuts, S
<1>14. Len(row) = c - 1 /\ row[1] = SubSeq(lane, 1, Len(key)) /\ c - 1 \in Nat
  <2>1. c - 1 \in Nat /\ 1 \in 1..(c - 1)
    BY <1>5, <1>11
  <2>2. row[1] = SubSeq(lane, cuts[1] + 1, cuts[1 + 1] - 1)
    BY <2>1
  <2>3. cuts[1] + 1 = 1 /\ cuts[1 + 1] - 1 = Len(key)
    BY <1>1, <1>12
  <2> QED
    BY <2>1, <2>2, <2>3, RowIsSeq
<1>15. SubSeq(lane, 1, Len(key)) = key
  <2>1. /\ IsSeq(SubSeq(lane, 1, Len(key))) /\ Len(SubSeq(lane, 1, Len(key))) = Len(key)
        /\ \A i \in 1..Len(key) : SubSeq(lane, 1, Len(key))[i] = lane[i]
    BY <1>1, SubIsSeq
  <2>2. SubSeq(lane, 1, Len(key)) = [i \in 1..Len(key) |-> SubSeq(lane, 1, Len(key))[i]]
    BY <2>1, SeqIsRow
  <2> QED
    BY <1>1, <2>1, <2>2
<1> HIDE DEF row
<1> QED
  BY <1>5, <1>11, <1>13, <1>14, <1>15

\* planFor finds a key that comes first.
LEMMA FirstPlan ==
    ASSUME NEW plans, NEW parts, Len(parts) \in Nat, Len(parts) >= 1, parts[1] \in plans
    PROVE  planFor(plans, parts) = parts[1]
<1> DEFINE hits == {i \in 1..Len(parts) : parts[i] \in plans}
<1>1. 1 \in hits /\ \A j \in hits : 1 <= j
  OBVIOUS
<1>2. \A i \in hits : (\A j \in hits : i <= j) => i = 1
  BY <1>1
<1>3. (CHOOSE i \in hits : \A j \in hits : i <= j) = 1
  BY <1>1, <1>2
<1> QED
  BY <1>1, <1>3 DEF planFor

\* The namespaces a lane may have.
LEMMA LaneNamespaces ==
    ASSUME NEW path, NEW header
    PROVE  LET ns == requestNamespace(splitLanePath(path), header).namespace
           IN  ns = DefaultNamespace \/ ValidNamespace(ns)
<1> DEFINE prefix == splitLanePath(path)
<1>1. prefix.namespace # "" => ValidNamespace(prefix.namespace)
  BY DEF splitLanePath
<1> HIDE DEF prefix
<1>2. CASE prefix.namespaceBad
  BY <1>2 DEF requestNamespace, prefix
<1>3. CASE ~ prefix.namespaceBad /\ prefix.namespace # ""
  BY <1>1, <1>3 DEF requestNamespace, prefix
<1>4. CASE ~ prefix.namespaceBad /\ prefix.namespace = "" /\ ValidNamespace(header)
  BY <1>4 DEF requestNamespace, prefix
<1>5. CASE ~ prefix.namespaceBad /\ prefix.namespace = "" /\ ~ ValidNamespace(header)
  BY <1>5 DEF requestNamespace, prefix
<1> QED
  BY <1>2, <1>3, <1>4, <1>5

\* What a lane's cursor key is split into: its namespace, and parts that start
\* with the key of its route.
LEMMA CursorKeySplits ==
    ASSUME NEW plans, Registrable(plans), NEW key \in plans, NEW lane, Opens(lane.key, key),
           lane.namespace = DefaultNamespace \/ ValidNamespace(lane.namespace)
    PROVE  /\ SplitCursorKey(CursorKey(lane)).namespace = lane.namespace
           /\ planFor(plans, SplitCursorKey(CursorKey(lane)).parts) = key
           /\ CursorKey(lane) \in plans => CursorKey(lane) = key /\ lane.namespace = DefaultNamespace
<1> DEFINE cursor == CursorKey(lane)
<1>1. /\ IsSeq(key) /\ Len(key) \in Nat /\ Len(key) >= 1
      /\ \A i \in 1..Len(key) : key[i] # "|"
      /\ Len(key) >= 2 => key[2] # "/"
      /\ key = [i \in 1..Len(key) |-> key[i]]
  BY SeqIsRow DEF Registrable
<1>2. /\ IsSeq(lane.key) /\ Len(lane.key) \in Nat /\ Len(lane.key) >= Len(key)
      /\ \A i \in 1..Len(key) : lane.key[i] = key[i]
      /\ Len(lane.key) > Len(key) => lane.key[Len(key) + 1] = "|"
      /\ lane.key = [i \in 1..Len(lane.key) |-> lane.key[i]]
  BY SeqIsRow DEF Opens
<1>3. planFor(plans, SplitParts(lane.key)) = key
  BY <1>1, FirstPart, FirstPlan
<1>4. CASE lane.namespace = DefaultNamespace
  <2>1. cursor = lane.key
    BY <1>4 DEF CursorKey
  <2>2. Len(lane.key) >= 2 => lane.key[2] # "/"
    BY <1>1, <1>2
  <2>3. lane.key \in plans => lane.key = key
    <3>1. SUFFICES ASSUME lane.key \in plans PROVE lane.key = key
      OBVIOUS
    <3>2. \A i \in 1..Len(lane.key) : lane.key[i] # "|"
      BY <3>1 DEF Registrable
    <3>3. Len(lane.key) = Len(key)
      BY <1>1, <1>2, <3>2
    <3> QED
      BY <1>1, <1>2, <3>3
  <2>4. SplitCursorKey(lane.key) = [namespace |-> DefaultNamespace, parts |-> SplitParts(lane.key)]
    BY <2>2 DEF SplitCursorKey
  <2> QED
    BY <1>3, <1>4, <2>1, <2>3, <2>4
<1>5. CASE lane.namespace # DefaultNamespace
  <2> DEFINE head == <<lane.namespace, "/">>
  <2>1. cursor = head \o lane.key
    BY <1>5 DEF CursorKey
  <2>2. IsSeq(head) /\ Len(head) = 2 /\ head[1] = lane.namespace /\ head[2] = "/"
    <3>1. head \in Seq({lane.namespace, "/"}) /\ Len(head) = 2
          /\ head[1] = lane.namespace /\ head[2] = "/"
      OBVIOUS
    <3> QED
      BY <3>1, OfSetIsSeq
  <2> HIDE DEF head
  <2> DEFINE whole == head \o lane.key
  <2>3. /\ IsSeq(whole) /\ Len(whole) = 2 + Len(lane.key)
        /\ whole[1] = lane.namespace /\ whole[2] = "/"
        /\ \A i \in 1..Len(lane.key) : whole[2 + i] = lane.key[i]
    <3>1. IsSeq(lane.key) /\ IsSeq(head)
      BY <1>2, <2>2
    <3>2. /\ IsSeq(whole) /\ Len(whole) = Len(head) + Len(lane.key)
          /\ \A i \in 1..Len(head) : whole[i] = head[i]
          /\ \A i \in 1..Len(lane.key) : whole[Len(head) + i] = lane.key[i]
      BY <3>1, JoinIsSeq
    <3> HIDE DEF whole
    <3> QED
      BY <2>2, <3>2
  <2> HIDE DEF whole
  <2>4. cursor = whole
    BY <2>1 DEF whole
  <2>5. whole \notin plans
    BY <1>2, <2>3 DEF Registrable
  <2>6. SubSeq(whole, 3, Len(whole)) = lane.key
    <3>1. 3 \in 1..Len(whole) + 1 /\ Len(whole) \in 0..Len(whole) /\ 3 <= Len(whole) + 1
      BY <1>2, <2>3
    <3> DEFINE sub == SubSeq(whole, 3, Len(whole))
    <3>2. /\ IsSeq(sub) /\ Len(sub) = Len(whole) - 3 + 1
          /\ \A i \in 1..(Len(whole) - 3 + 1) : sub[i] = whole[3 + i - 1]
      BY <2>3, <3>1, SubIsSeq
    <3> HIDE DEF sub
    <3>3. Len(whole) - 3 + 1 = Len(lane.key) /\ \A i \in 1..Len(lane.key) : 3 + i - 1 = 2 + i
      BY <1>2, <2>3
    <3>4. Len(sub) = Len(lane.key) /\ \A i \in 1..Len(lane.key) : sub[i] = lane.key[i]
      BY <2>3, <3>2, <3>3
    <3>5. sub = [i \in 1..Len(sub) |-> sub[i]]
      BY <3>2, SeqIsRow
    <3> QED
      BY <1>2, <3>4, <3>5 DEF sub
  <2>7. SplitCursorKey(whole) = [namespace |-> lane.namespace, parts |-> SplitParts(lane.key)]
    <3>1. Len(whole) >= 2 /\ whole[2] = "/" /\ ValidNamespace(whole[1]) /\ whole[1] = lane.namespace
      BY <1>2, <1>5, <2>3
    <3> QED
      BY <2>6, <3>1 DEF SplitCursorKey
  <2> QED
    BY <1>3, <2>4, <2>5, <2>7
<1> QED
  BY <1>4, <1>5

\* The engine finds the plan of a lane's route by its key, and the lane's
\* namespace with it, whatever the request put into the key.
THEOREM LaneResolves ==
    ASSUME NEW plans, Registrable(plans), NEW key \in plans, NEW lane, Opens(lane.key, key),
           lane.namespace = DefaultNamespace \/ ValidNamespace(lane.namespace)
    PROVE  resolve(plans, CursorKey(lane)) = [namespace |-> lane.namespace, plan |-> key]
<1>1. CASE CursorKey(lane) \in plans
  BY <1>1, CursorKeySplits DEF resolve
<1>2. CASE CursorKey(lane) \notin plans
  BY <1>2, CursorKeySplits DEF resolve
<1> QED
  BY <1>1, <1>2

\* A reset of one namespace drops the counters of its lanes and of no other.
THEOREM ResetIsExact ==
    ASSUME NEW plans, Registrable(plans), NEW lanes, NEW namespace,
           \A lane \in lanes :
             /\ \E key \in plans : Opens(lane.key, key)
             /\ lane.namespace = DefaultNamespace \/ ValidNamespace(lane.namespace)
    PROVE  ResetIn({CursorKey(lane) : lane \in lanes}, namespace)
             = {CursorKey(lane) : lane \in {l \in lanes : l.namespace # namespace}}
<1>1. ASSUME NEW lane \in lanes PROVE SplitCursorKey(CursorKey(lane)).namespace = lane.namespace
  BY CursorKeySplits
<1> QED
  BY <1>1 DEF ResetIn

-----------------------------------------------------------------------------
(* What a key may never hold *)

\* No element of s is hidden.
Clean(s, hidden) == IsSeq(s) /\ \A i \in 1..Len(s) : s[i] \notin hidden

\* What an extractor's own words and the separators are.
Words(e) == {"|", e.form, e.name, "="}

\* What an extractor leaves of the value it found.
Kind(req, e) == IF e.form = "path" THEN lookup(req, e)
                ELSE fingerprintLaneValue(lookup(req, e), e.credential)

\* An extractor that cannot put anything hidden into a key.
Discreet(req, e, hidden) ==
    /\ e.form = "route" \/ lookup(req, e) = <<>> \/ Clean(Kind(req, e), hidden)
    /\ Words(e) \cap hidden = {}

\* Two clean sequences joined are clean.
LEMMA JoinClean ==
    ASSUME NEW hidden, NEW s, Clean(s, hidden), NEW t, Clean(t, hidden)
    PROVE  Clean(s \o t, hidden)
<1> DEFINE whole == s \o t
<1>1. /\ IsSeq(s) /\ IsSeq(t) /\ Len(s) \in Nat /\ Len(t) \in Nat
      /\ \A i \in 1..Len(s) : s[i] \notin hidden
      /\ \A i \in 1..Len(t) : t[i] \notin hidden
  BY SeqIsRow DEF Clean
<1>2. /\ IsSeq(whole) /\ Len(whole) = Len(s) + Len(t)
      /\ \A i \in 1..Len(s) : whole[i] = s[i]
      /\ \A i \in 1..Len(t) : whole[Len(s) + i] = t[i]
  BY <1>1, JoinIsSeq
<1> HIDE DEF whole
<1>3. ASSUME NEW i \in 1..Len(whole) PROVE whole[i] \notin hidden
  <2>1. CASE i \in 1..Len(s)
    BY <1>1, <1>2, <2>1
  <2>2. CASE i \notin 1..Len(s)
    <3> DEFINE j == i - Len(s)
    <3>1. j \in 1..Len(t) /\ i = Len(s) + j
      BY <1>1, <1>2, <2>2
    <3> HIDE DEF j
    <3> QED
      BY <1>1, <1>2, <3>1
  <2> QED
    BY <2>1, <2>2
<1>4. Clean(whole, hidden)
  BY <1>2, <1>3 DEF Clean
<1> QED
  BY <1>4 DEF whole

\* A clean key stays clean behind a discreet extractor.
LEMMA PartClean ==
    ASSUME NEW hidden, NEW req, NEW key, Clean(key, hidden),
           NEW e, Discreet(req, e, hidden)
    PROVE  Clean(appendLanePart(req, key, e), hidden)
<1>1. CASE appendLanePart(req, key, e) = key
  BY <1>1
<1>2. CASE appendLanePart(req, key, e) # key
  <2> DEFINE head == <<"|", e.form, e.name, "=">>
             value == Kind(req, e)
  <2>1. /\ ~ (e.form = "route" \/ lookup(req, e) = <<>>)
        /\ appendLanePart(req, key, e) = key \o (head \o value)
    BY <1>2 DEF appendLanePart, Kind
  <2>2. Clean(value, hidden)
    BY <2>1 DEF Discreet
  <2>3. Clean(head, hidden)
    <3>1. head \in Seq(Words(e)) /\ Len(head) = 4 /\ \A i \in 1..4 : head[i] \in Words(e)
      BY DEF Words
    <3>2. IsSeq(head)
      BY <3>1, OfSetIsSeq
    <3> QED
      BY <3>1, <3>2 DEF Clean, Discreet
  <2> HIDE DEF head, value
  <2>4. Clean(key \o (head \o value), hidden)
    BY <2>2, <2>3, JoinClean
  <2> QED
    BY <2>1, <2>4
<1> QED
  BY <1>1, <1>2

\* Whatever the request holds, the key of its lane is clean when the route's is
\* and every extractor that reads it is discreet.
THEOREM LaneKeysClean ==
    ASSUME NEW hidden, NEW req, NEW route, Clean(route.key, hidden), NEW turnKey,
           NEW extractors, extractors = (IF route.laneFrom # <<>> THEN route.laneFrom ELSE turnKey),
           IsSeq(extractors), \A i \in 1..Len(extractors) : Discreet(req, extractors[i], hidden)
    PROVE  Clean(turnLaneKey(req, route, turnKey), hidden)
<1> DEFINE f == laneKeys(req, route.key, extractors)
           Bad == {n \in 0..Len(extractors) : ~ Clean(f[n], hidden)}
<1>1. /\ Len(extractors) \in Nat /\ f[0] = route.key
      /\ \A n \in 1..Len(extractors) : f[n] = appendLanePart(req, f[n - 1], extractors[n])
  BY SeqIsRow, LaneKeysUnfold
<1>2. turnLaneKey(req, route, turnKey) = f[Len(extractors)]
      \/ turnLaneKey(req, route, turnKey) = route.key
  BY DEF turnLaneKey
<1> HIDE DEF f
<1>3. Bad = {}
  <2>1. SUFFICES ASSUME Bad # {} PROVE FALSE
    OBVIOUS
  <2>2. PICK n \in Bad : \A m \in Bad : n <= m
    <3>1. Bad \subseteq Nat
      BY <1>1
    <3> QED
      BY <2>1, <3>1, MinInSet
  <2>3. n \in 1..Len(extractors) /\ n - 1 \in 0..Len(extractors) /\ n - 1 \notin Bad
    BY <1>1, <2>2
  <2>4. Clean(f[n - 1], hidden)
    BY <2>3
  <2>5. Clean(f[n], hidden)
    BY <1>1, <2>3, <2>4, PartClean
  <2> QED
    BY <2>2, <2>5
<1> QED
  BY <1>1, <1>2, <1>3

\* The key of the default namespace is the lane's own; another's is clean with
\* its name.
LEMMA CursorKeyClean ==
    ASSUME NEW hidden, NEW lane, Clean(lane.key, hidden), {lane.namespace, "/"} \cap hidden = {}
    PROVE  Clean(CursorKey(lane), hidden)
<1> DEFINE head == <<lane.namespace, "/">>
<1>1. Clean(head, hidden)
  <2>1. head \in Seq({lane.namespace, "/"}) /\ Len(head) = 2
        /\ \A i \in 1..2 : head[i] \in {lane.namespace, "/"}
    OBVIOUS
  <2>2. IsSeq(head)
    BY <2>1, OfSetIsSeq
  <2> QED
    BY <2>1, <2>2 DEF Clean
<1>2. CursorKey(lane) = lane.key \/ CursorKey(lane) = head \o lane.key
  BY DEF CursorKey
<1> HIDE DEF head
<1> QED
  BY <1>1, <1>2, JoinClean
=============================================================================
