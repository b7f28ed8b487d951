----------------------- MODULE NamespaceStoresProofs -----------------------
(***************************************************************************)
(* Proofs about the journal and the engines for every set of namespaces    *)
(* and clients, every capacity, bound and number of scenarios: the lanes   *)
(* and the admissions, then the requests that use them (a fault plan is    *)
(* lost to a reset only, a stream's entry is completed by its own request, *)
(* and the two stores admit the same namespaces).                          *)
(***************************************************************************)
EXTENDS NamespaceStores, OperatorLemmas


-----------------------------------------------------------------------------
(* The journal's lanes *)

\* A lane that is typed and whose counters are honest.
GoodLane(lane) == lane \in Lane /\ Honest(lane)
GoodLanes(ls) == ls \in [Namespaces -> Lane] /\ \A ns \in Namespaces : Honest(ls[ns])

\* A missing lane and a fresh one are good.
LEMMA FreshLanes == GoodLane(NoLane) /\ GoodLane(NewLane) /\ NewLane.live /\ ~ NoLane.live
<1>1. <<>> \in Seq(Entry) /\ Len(<<>>) = 0
  OBVIOUS
<1>2. NoLane \in Lane /\ NewLane \in Lane
  BY <1>1 DEF NoLane, NewLane, EmptyLane, Lane
<1>3. Honest(NoLane) /\ Honest(NewLane)
  BY <1>1, RingAssumption DEF Honest, NoLane, NewLane, EmptyLane
<1> QED
  BY <1>2, <1>3 DEF GoodLane, NoLane, NewLane, EmptyLane

\* Ring.Append's store keeps a lane good: below capacity, at it, and with
\* retention switched off.
LEMMA StoreGood ==
    ASSUME NEW lane, GoodLane(lane), NEW e \in Entry
    PROVE  GoodLane(Store(lane, e)) /\ Store(lane, e).live = lane.live
<1> USE RingAssumption
<1>0. lane \in Lane /\ Honest(lane) /\ lane.entries \in Seq(Entry) /\ Len(lane.entries) \in Nat
  BY DEF GoodLane, Lane
<1> DEFINE s == Store(lane, e)
           x == lane.appended + 1
           y == lane.dropped + 1
           h == (lane.head + 1) % Capacity
<1>a. x \in Nat /\ y \in Nat
  BY <1>0 DEF Lane
<1> SUFFICES s \in Lane /\ Honest(s) /\ s.live = lane.live
  BY DEF GoodLane
<1>1. CASE Capacity = 0
  <2>1. s = [lane EXCEPT !.appended = x, !.dropped = y]
    BY <1>1 DEF Store
  <2> HIDE DEF s, x, y
  <2>2. s \in Lane
    BY <1>0, <1>a, <2>1 DEF Lane
  <2>3. s.live = lane.live
    BY <1>0, <2>1 DEF Lane
  <2>4. s.appended = x /\ s.dropped = y /\ s.entries = lane.entries /\ s.head = lane.head
    BY <1>0, <2>1 DEF Lane
  <2>5. Honest(s)
    BY <1>0, <2>4 DEF Honest, Lane, x, y
  <2> QED
    BY <2>2, <2>3, <2>5
<1>2. CASE Capacity > 0 /\ Len(lane.entries) < Capacity
  <2> DEFINE more == Append(lane.entries, e)
  <2>1. s = [lane EXCEPT !.appended = x, !.entries = more]
    BY <1>2, <1>0 DEF Store
  <2>2. more \in Seq(Entry) /\ Len(more) = Len(lane.entries) + 1
    BY <1>0
  <2> HIDE DEF s, x, y, more
  <2>3. s \in Lane
    BY <1>0, <1>a, <2>1, <2>2 DEF Lane
  <2>4. s.live = lane.live
    BY <1>0, <2>1 DEF Lane
  <2>5. s.appended = x /\ s.dropped = lane.dropped /\ s.entries = more /\ s.head = lane.head
    BY <1>0, <2>1 DEF Lane
  <2>6. Honest(s)
    BY <1>0, <1>2, <2>2, <2>5 DEF Honest, Lane, x
  <2> QED
    BY <2>3, <2>4, <2>6
<1>3. CASE Capacity > 0 /\ Len(lane.entries) >= Capacity
  <2>1. Len(lane.entries) = Capacity /\ lane.head \in 0..(Capacity - 1)
    BY <1>0, <1>3 DEF Honest, Lane
  <2> DEFINE over == [lane.entries EXCEPT ![lane.head + 1] = e]
  <2>2. over \in Seq(Entry) /\ Len(over) = Len(lane.entries)
    BY <1>0, <2>1
  <2>3. h \in Nat /\ h < Capacity
    BY <2>1, <1>3
  <2>4. s = [lane EXCEPT !.appended = x, !.dropped = y, !.entries = over, !.head = h]
    BY <1>3, <1>0, <2>1 DEF Store
  <2> HIDE DEF s, x, y, h, over
  <2>5. s \in Lane
    BY <1>0, <1>a, <2>2, <2>3, <2>4 DEF Lane
  <2>6. s.live = lane.live
    BY <1>0, <2>4 DEF Lane
  <2>7. s.appended = x /\ s.dropped = y /\ s.entries = over /\ s.head = h
    BY <1>0, <2>4 DEF Lane
  <2>8. Honest(s)
    BY <1>0, <1>3, <2>1, <2>2, <2>3, <2>7 DEF Honest, Lane, x, y
  <2> QED
    BY <2>5, <2>6, <2>8
<1> QED
  BY <1>0, <1>1, <1>2, <1>3

\* CloseStream's amendment keeps a lane good and rewrites no counter.
LEMMA AmendGood ==
    ASSUME NEW lane, GoodLane(lane), NEW i \in 1..Len(lane.entries), NEW by \in Nat
    PROVE  GoodLane(Amend(lane, i, by)) /\ Amend(lane, i, by).live = lane.live
<1>0. lane \in Lane /\ Honest(lane) /\ lane.entries \in Seq(Entry) /\ Len(lane.entries) \in Nat
  BY DEF GoodLane, Lane
<1>1. lane.entries[i] \in Entry
  BY <1>0
<1> DEFINE e == Closed(lane.entries[i], by)
           over == [lane.entries EXCEPT ![i] = e]
<1>2. e \in Entry
  BY <1>1 DEF Entry, Closed
<1>3. over \in Seq(Entry) /\ Len(over) = Len(lane.entries)
  <2> HIDE DEF e
  <2> QED
    BY <1>0, <1>2
<1> DEFINE a == Amend(lane, i, by)
<1>4. a = [lane EXCEPT !.entries = over]
  BY DEF Amend
<1> HIDE DEF over, a
<1>5. a \in Lane /\ a.live = lane.live
  BY <1>0, <1>3, <1>4 DEF Lane
<1>6. /\ a.appended = lane.appended /\ a.dropped = lane.dropped
      /\ a.entries = over /\ a.head = lane.head
  BY <1>0, <1>4 DEF Lane
<1>7. Honest(a)
  BY <1>0, <1>3, <1>6 DEF Honest
<1> QED
  BY <1>5, <1>7 DEF GoodLane, a

\* Replacing one lane by a good one keeps the map good.
LEMMA PutGood ==
    ASSUME NEW ls, GoodLanes(ls), NEW ns \in Namespaces, NEW lane, GoodLane(lane)
    PROVE  GoodLanes([ls EXCEPT ![ns] = lane])
  BY DEF GoodLanes, GoodLane

\* laneFor keeps the map good; the lane it is asked for exists afterwards when
\* the namespace is admitted.
LEMMA LaneForGood ==
    ASSUME NEW ls, GoodLanes(ls), NEW ns \in Namespaces
    PROVE  /\ GoodLanes(laneFor(ls, ns))
           /\ GoodLane(laneFor(ls, ns)[ns])
           /\ Admits(ls, ns) => laneFor(ls, ns)[ns].live
<1>1. GoodLanes(laneFor(ls, ns))
  BY PutGood, FreshLanes DEF laneFor
<1>2. GoodLane(laneFor(ls, ns)[ns])
  BY <1>1 DEF GoodLanes, GoodLane
<1>3. ASSUME Admits(ls, ns) PROVE laneFor(ls, ns)[ns].live
  BY <1>3, FreshLanes DEF laneFor, GoodLanes
<1> QED
  BY <1>1, <1>2, <1>3

\* NextIn keeps the map good and numbers from the naturals.
LEMMA NextInGood ==
    ASSUME NEW ls, GoodLanes(ls), NEW ns \in Namespaces
    PROVE  /\ GoodLanes(NextIn(ls, ns))
           /\ NextSeq(ls, ns) \in Nat
<1> DEFINE found == laneFor(ls, ns)
           lane == Numbered(found[ns])
<1>1. GoodLanes(found) /\ GoodLane(found[ns])
  BY LaneForGood
<1> HIDE DEF found
<1>2. GoodLane(lane)
  <2>1. found[ns].seq + 1 \in Nat
    BY <1>1 DEF GoodLane, Lane
  <2>2. lane \in Lane
    BY <1>1, <2>1 DEF GoodLane, Lane, Numbered
  <2>3. /\ lane.appended = found[ns].appended /\ lane.dropped = found[ns].dropped
        /\ lane.entries = found[ns].entries /\ lane.head = found[ns].head
    BY <1>1 DEF GoodLane, Lane, Numbered
  <2> QED
    BY <1>1, <2>2, <2>3 DEF GoodLane, Honest
<1>3. NextIn(ls, ns) = IF Admits(ls, ns) THEN [found EXCEPT ![ns] = lane] ELSE ls
  BY DEF NextIn, found
<1> HIDE DEF lane
<1>4. GoodLanes(NextIn(ls, ns))
  BY <1>1, <1>2, <1>3, PutGood
<1>5. NextIn(ls, ns)[ns].seq \in Nat
  BY <1>4 DEF GoodLanes, Lane
<1> QED
  BY <1>4, <1>5 DEF NextSeq

\* Append keeps the map good.
LEMMA AppendGood ==
    ASSUME NEW ls, GoodLanes(ls), NEW ns \in Namespaces, NEW e \in Entry
    PROVE  GoodLanes(AppendIn(ls, ns, e))
<1> DEFINE found == laneFor(ls, ns)
           lane == Store(found[ns], e)
<1>1. GoodLanes(found) /\ GoodLane(found[ns])
  BY LaneForGood
<1> HIDE DEF found
<1>2. GoodLane(lane)
  BY <1>1, StoreGood
<1>3. AppendIn(ls, ns, e) = IF Admits(ls, ns) THEN [found EXCEPT ![ns] = lane] ELSE ls
  BY <1>1 DEF AppendIn, found
<1> HIDE DEF lane
<1> QED
  BY <1>1, <1>2, <1>3, PutGood

\* CloseStream amends an entry the lane holds and keeps the map good.
LEMMA CloseGood ==
    ASSUME NEW ls, GoodLanes(ls), NEW ns \in Namespaces, NEW seq \in Nat, NEW by \in Nat
    PROVE  GoodLanes(CloseStream(ls, ns, seq, by))
<1> DEFINE held == ls[ns].entries
           found == {i \in 1..Len(held) : held[i].seq = seq}
           lane == Amend(ls[ns], Min(found), by)
<1>1. GoodLane(ls[ns]) /\ held \in Seq(Entry)
  BY DEF GoodLanes, GoodLane, Lane
<1>2. ASSUME found # {} PROVE GoodLane(lane)
  <2>1. found \subseteq Nat /\ found \subseteq 1..Len(held)
    BY <1>1
  <2>2. Min(found) \in 1..Len(held)
    BY <1>2, <2>1, MinInSet
  <2> QED
    BY <1>1, <2>2, AmendGood
<1>3. CloseStream(ls, ns, seq, by) =
        IF ls[ns].live /\ found # {} /\ held[Min(found)].stream # "none"
        THEN [ls EXCEPT ![ns] = lane] ELSE ls
  BY DEF CloseStream
<1> HIDE DEF lane, found, held
<1> QED
  BY <1>2, <1>3, PutGood

\* A reset keeps the map good.
LEMMA DropGood ==
    ASSUME NEW ls, GoodLanes(ls), NEW scope
    PROVE  GoodLanes(Drop(ls, scope))
  BY FreshLanes DEF GoodLanes, GoodLane, Drop

-----------------------------------------------------------------------------
(* Types and retention counters *)

\* Types and honest counters are preserved together: a lane's counters are
\* only known to be honest of a lane that is one.
Inv == TypeOK /\ RetentionHonest

\* The invariant in the form the lemmas on lanes take.
LEMMA InvLanes == Inv => GoodLanes(lanes)
  BY DEF Inv, TypeOK, RetentionHonest, GoodLanes

\* A client with nothing under way is a client.
LEMMA IdleType == Idle \in ClientState
  BY RingAssumption, StoresAssumption DEF Idle, ClientState, PCs, NoScenario

\* The requests in flight in a scope are numbers.
LEMMA RequestsType == ASSUME TypeOK, NEW scope PROVE RequestsIn(scope) \subseteq Nat
  BY DEF TypeOK, ClientState, RequestsIn

\* Seating a namespace never seats the default one.
LEMMA SeatType ==
    ASSUME NEW admitted \in SUBSET (Namespaces \ {DefaultNamespace}), NEW ns \in Namespaces
    PROVE  Seat(admitted, ns) \in SUBSET (Namespaces \ {DefaultNamespace})
  BY DEF Seat

\* The initial state satisfies the invariant.
LEMMA InvInit == Init => Inv
<1> SUFFICES ASSUME Init PROVE Inv
  OBVIOUS
<1>1. lanes \in [Namespaces -> Lane] /\ RetentionHonest
  BY FreshLanes DEF Init, GoodLane, RetentionHonest
<1>2. calls \in 0..MaxRequests
  BY StoresAssumption DEF Init
<1> QED
  BY <1>1, <1>2, IdleType DEF Init, Inv, TypeOK

\* Every action preserves the invariant.
LEMMA InvStep == Inv /\ [Next]_vars => Inv'
<1> SUFFICES ASSUME Inv, [Next]_vars PROVE Inv'
  OBVIOUS
<1> USE StoresAssumption
<1>0. TypeOK /\ GoodLanes(lanes)
  BY InvLanes DEF Inv
<1>a. ASSUME GoodLanes(lanes') PROVE lanes' \in [Namespaces -> Lane] /\ RetentionHonest'
  BY <1>a DEF GoodLanes, RetentionHonest
<1>1. ASSUME NEW c \in Clients, NEW ns \in Namespaces, NEW s \in Scenarios \cup {NoScenario},
             Arrive(c, ns, s)
      PROVE  Inv'
  <2> DEFINE new == [Idle EXCEPT !.pc = IF s = NoScenario THEN "record" ELSE "admit",
                                 !.ns = ns, !.scenario = s, !.request = calls + 1,
                                 !.seq = NextSeq(lanes, ns)]
  <2>1. GoodLanes(lanes') /\ NextSeq(lanes, ns) \in Nat
    BY <1>0, <1>1, NextInGood DEF Arrive
  <2>2. calls + 1 \in Nat /\ calls + 1 \in 0..MaxRequests
    BY <1>0, <1>1 DEF Arrive, TypeOK
  <2>3. s \in 0..NumScenarios
    BY DEF Scenarios, NoScenario
  <2>4. new \in ClientState
    BY <2>1, <2>2, <2>3, IdleType DEF ClientState, PCs
  <2>5. client' = [client EXCEPT ![c] = new] /\ calls' = calls + 1
    BY <1>1 DEF Arrive
  <2> HIDE DEF new
  <2>6. client' \in [Clients -> ClientState]
    BY <1>0, <2>4, <2>5 DEF TypeOK
  <2>7. apart' \in BOOLEAN
    BY <1>1 DEF Arrive
  <2> QED
    BY <1>0, <1>1, <1>a, <2>1, <2>2, <2>5, <2>6, <2>7 DEF Arrive, Inv, TypeOK
<1>2. ASSUME NEW c \in Clients, NEW demoted \in BOOLEAN, AdmitNamespace(c, demoted) PROVE Inv'
  <2>1. client[c] \in ClientState /\ client[c].ns \in Namespaces
    BY <1>0 DEF TypeOK, ClientState
  <2> DEFINE new == [client[c] EXCEPT
                !.pc = IF Seats(live[client[c].scenario], client[c].ns) \/ demoted
                       THEN "handle" ELSE "record",
                !.admitted = Seats(live[client[c].scenario], client[c].ns)]
  <2>2. Seats(live[client[c].scenario], client[c].ns) \in BOOLEAN
    BY DEF Seats
  <2>3. new \in ClientState
    BY <2>1, <2>2 DEF ClientState, PCs
  <2>4. client' = [client EXCEPT ![c] = new]
    BY <1>2 DEF AdmitNamespace
  <2> HIDE DEF new
  <2>5. client' \in [Clients -> ClientState]
    BY <1>0, <2>3, <2>4 DEF TypeOK
  <2>6. live' \in [Scenarios -> SUBSET (Namespaces \ {DefaultNamespace})]
    BY <1>0, <1>2, <2>1, SeatType DEF AdmitNamespace, TypeOK
  <2> QED
    BY <1>0, <1>2, <2>5, <2>6 DEF AdmitNamespace, Inv, TypeOK, RetentionHonest
<1>3. ASSUME NEW c \in Clients, NEW claims \in BOOLEAN, NEW stream \in {"none", "open"},
             Serve(c, claims, stream)
      PROVE  Inv'
  <2>1. client[c] \in ClientState /\ client[c].ns \in Namespaces
    BY <1>0 DEF TypeOK, ClientState
  <2> DEFINE unknown == claims /\ ~ Seats(live[client[c].scenario], client[c].ns)
             new == [client[c] EXCEPT !.pc = "record", !.stream = stream, !.unknown = unknown]
  <2>2. unknown \in BOOLEAN
    OBVIOUS
  <2>3. client' = [client EXCEPT ![c] = new]
    BY <1>3 DEF Serve
  <2> HIDE DEF unknown
  <2>4. new \in ClientState
    BY <2>1, <2>2 DEF ClientState, PCs
  <2> HIDE DEF new
  <2>5. client' \in [Clients -> ClientState]
    BY <1>0, <2>3, <2>4 DEF TypeOK
  <2>6. live' \in [Scenarios -> SUBSET (Namespaces \ {DefaultNamespace})]
    BY <1>0, <1>3, <2>1, SeatType DEF Serve, TypeOK
  <2> QED
    BY <1>0, <1>3, <2>5, <2>6 DEF Serve, Inv, TypeOK, RetentionHonest
<1>4. ASSUME NEW c \in Clients, Record(c) PROVE Inv'
  <2> DEFINE r == client[c]
             e == [seq |-> r.seq, request |-> r.request, stream |-> r.stream, closedBy |-> 0]
             next == [r EXCEPT !.pc = "close"]
  <2>1. r \in ClientState /\ r.ns \in Namespaces
    BY <1>0 DEF TypeOK, ClientState
  <2>2. e \in Entry
    BY <2>1 DEF ClientState, Entry
  <2>3. lanes' = AppendIn(lanes, r.ns, e)
    BY <1>4 DEF Record
  <2>4. GoodLanes(lanes')
    <3> HIDE DEF e, r
    <3> QED
      BY <1>0, <2>1, <2>2, <2>3, AppendGood
  <2>5. next \in ClientState
    BY <2>1 DEF ClientState, PCs
  <2>6. client' = [client EXCEPT ![c] = IF r.stream = "open" THEN next ELSE Idle]
    BY <1>4 DEF Record
  <2> HIDE DEF e, next
  <2>7. client' \in [Clients -> ClientState]
    BY <1>0, <2>5, <2>6, IdleType DEF TypeOK
  <2>8. refused' \in Nat
    BY <1>0, <1>4 DEF Record, TypeOK
  <2>9. stale' \subseteq Namespaces
    BY <1>0, <1>4, <2>1 DEF Record, TypeOK
  <2> QED
    BY <1>0, <1>4, <1>a, <2>4, <2>7, <2>8, <2>9 DEF Record, Inv, TypeOK
<1>5. ASSUME NEW c \in Clients, Close(c) PROVE Inv'
  <2>1. client[c].ns \in Namespaces /\ client[c].seq \in Nat /\ client[c].request \in Nat
    BY <1>0 DEF TypeOK, ClientState
  <2>2. GoodLanes(lanes')
    BY <1>0, <1>5, <2>1, CloseGood DEF Close
  <2>3. client' \in [Clients -> ClientState]
    BY <1>0, <1>5, IdleType DEF Close, TypeOK
  <2> QED
    BY <1>0, <1>5, <1>a, <2>2, <2>3 DEF Close, Inv, TypeOK
<1>6. ASSUME NEW c \in Clients, NEW scope \in ResetScopes, ResetJournal(c, scope) PROVE Inv'
  <2> DEFINE new == [Idle EXCEPT !.pc = "reset", !.scope = scope, !.engine = 1]
  <2>1. scope \subseteq Namespaces
    OBVIOUS
  <2>2. new \in ClientState
    BY <2>1, IdleType DEF ClientState, PCs
  <2>3. client' = [client EXCEPT ![c] = new]
    BY <1>6 DEF ResetJournal
  <2> HIDE DEF new
  <2>4. client' \in [Clients -> ClientState]
    BY <1>0, <2>2, <2>3 DEF TypeOK
  <2>5. GoodLanes(lanes')
    BY <1>0, <1>6, DropGood DEF ResetJournal
  <2>6. torn' \subseteq Nat /\ stale' \subseteq Namespaces /\ refused' \in Nat
    BY <1>0, <1>6, RequestsType DEF ResetJournal, TypeOK
  <2>7. apart' \in BOOLEAN
    BY <1>6 DEF ResetJournal
  <2> QED
    BY <1>0, <1>6, <1>a, <2>4, <2>5, <2>6, <2>7 DEF ResetJournal, Inv, TypeOK
<1>7. ASSUME NEW c \in Clients, ResetEngine(c) PROVE Inv'
  <2> DEFINE next == [client[c] EXCEPT !.engine = client[c].engine + 1]
  <2>1. client[c] \in ClientState /\ client[c].engine \in Nat
    BY <1>0 DEF TypeOK, ClientState
  <2>2. client[c].engine + 1 \in Nat
    BY <2>1
  <2>3. next \in ClientState
    BY <2>1, <2>2 DEF ClientState
  <2>4. client' = [client EXCEPT ![c] = IF client[c].engine = NumScenarios THEN Idle ELSE next]
    BY <1>7 DEF ResetEngine
  <2> HIDE DEF next
  <2>5. client' \in [Clients -> ClientState]
    BY <1>0, <2>3, <2>4, IdleType DEF TypeOK
  <2>6. live' \in [Scenarios -> SUBSET (Namespaces \ {DefaultNamespace})]
    BY <1>0, <1>7 DEF ResetEngine, TypeOK
  <2>7. cut' \subseteq Nat
    BY <1>0, <1>7, RequestsType DEF ResetEngine, TypeOK
  <2> QED
    BY <1>0, <1>7, <2>5, <2>6, <2>7 DEF ResetEngine, Inv, TypeOK, RetentionHonest
<1>8. CASE UNCHANGED vars
  BY <1>8 DEF Inv, TypeOK, RetentionHonest, vars
<1> QED
  BY <1>1, <1>2, <1>3, <1>4, <1>5, <1>6, <1>7, <1>8 DEF Next

\* The stores, the clients and the history keep their types.
THEOREM StoresTyped == Spec => []TypeOK
<1>1. Inv => TypeOK
  BY DEF Inv
<1> QED
  BY <1>1, InvInit, InvStep, PTL DEF Spec

\* Ring's retention counters stay honest for every capacity: appended is held
\* plus dropped, no lane outgrows its capacity and the head is in range.
THEOREM RetentionIsHonest == Spec => []RetentionHonest
<1>1. Inv => RetentionHonest
  BY DEF Inv
<1> QED
  BY <1>1, InvInit, InvStep, PTL DEF Spec

-----------------------------------------------------------------------------
(* The bound on namespaces *)

\* A set of namespaces is finite and has a cardinality.
LEMMA FiniteNames ==
    ASSUME NEW S \in SUBSET Namespaces
    PROVE  IsFiniteSet(S) /\ Cardinality(S) \in Nat
  BY RingAssumption, FS_Subset, FS_CardinalityType

\* A smaller set of namespaces is within any bound the larger one is within.
LEMMA BoundShrinks ==
    ASSUME NEW S \in SUBSET Namespaces, NEW T \in SUBSET S, Cardinality(S) <= MaxNamespaces
    PROVE  Cardinality(T) <= MaxNamespaces
<1>1. Cardinality(T) <= Cardinality(S) /\ Cardinality(T) \in Nat /\ Cardinality(S) \in Nat
  BY FiniteNames, FS_Subset, FS_CardinalityType
<1> QED
  BY <1>1, RingAssumption

\* One more namespace fits when the bound is not reached.
LEMMA BoundGrows ==
    ASSUME NEW S \in SUBSET Namespaces, NEW ns \in Namespaces, Cardinality(S) < MaxNamespaces
    PROVE  Cardinality(S \cup {ns}) <= MaxNamespaces
<1>1. IsFiniteSet(S) /\ Cardinality(S) \in Nat
  BY FiniteNames
<1>2. Cardinality(S \cup {ns}) = IF ns \in S THEN Cardinality(S) ELSE Cardinality(S) + 1
  BY <1>1, FS_AddElement
<1> QED
  BY <1>1, <1>2, RingAssumption

\* createLocked and AdmitNamespace keep an engine within the bound.
LEMMA SeatBounded ==
    ASSUME NEW S \in SUBSET Namespaces, NEW ns \in Namespaces, Cardinality(S) <= MaxNamespaces
    PROVE  Cardinality(Seat(S, ns)) <= MaxNamespaces
<1>1. CASE ns \in S \/ ns = DefaultNamespace
  <2>1. Seat(S, ns) = S
    BY <1>1 DEF Seat
  <2> QED
    BY <2>1
<1>2. CASE ns \notin S /\ ns # DefaultNamespace
  BY <1>2, BoundGrows DEF Seat, Seats
<1> QED
  BY <1>1, <1>2

\* laneFor keeps the journal within the bound.
LEMMA LaneForBounded ==
    ASSUME NEW ls, GoodLanes(ls), NEW ns \in Namespaces,
           Cardinality(namedLanes(ls)) <= MaxNamespaces
    PROVE  Cardinality(namedLanes(laneFor(ls, ns))) <= MaxNamespaces
<1>0. namedLanes(ls) \in SUBSET Namespaces
  BY DEF namedLanes
<1>1. CASE ~ (Admits(ls, ns) /\ ~ ls[ns].live)
  BY <1>1 DEF laneFor
<1>2. CASE Admits(ls, ns) /\ ~ ls[ns].live
  <2>1. laneFor(ls, ns) = [ls EXCEPT ![ns] = NewLane]
    BY <1>2 DEF laneFor
  <2>2. CASE ns = DefaultNamespace
    <3>1. namedLanes(laneFor(ls, ns)) = namedLanes(ls)
      BY <2>1, <2>2 DEF namedLanes, GoodLanes
    <3> QED
      BY <3>1
  <2>3. CASE ns # DefaultNamespace
    <3>1. namedLanes(laneFor(ls, ns)) = namedLanes(ls) \cup {ns}
      BY <2>1, <2>3, FreshLanes DEF namedLanes, GoodLanes
    <3>2. Cardinality(namedLanes(ls)) < MaxNamespaces
      BY <1>2, <2>3 DEF Admits
    <3> QED
      BY <1>0, <3>1, <3>2, BoundGrows
  <2> QED
    BY <2>2, <2>3
<1> QED
  BY <1>1, <1>2

\* Lanes that live in the same namespaces are as many.
LEMMA SameNamed ==
    ASSUME NEW ls, NEW ms, \A n \in Namespaces : ms[n].live = ls[n].live
    PROVE  namedLanes(ms) = namedLanes(ls)
  BY DEF namedLanes

\* Every method of the Ring keeps the journal within the bound.
LEMMA MethodsBounded ==
    ASSUME NEW ls, GoodLanes(ls), NEW ns \in Namespaces,
           Cardinality(namedLanes(ls)) <= MaxNamespaces
    PROVE  /\ Cardinality(namedLanes(NextIn(ls, ns))) <= MaxNamespaces
           /\ \A e \in Entry : Cardinality(namedLanes(AppendIn(ls, ns, e))) <= MaxNamespaces
           /\ \A seq \in Nat, by \in Nat :
                 Cardinality(namedLanes(CloseStream(ls, ns, seq, by))) <= MaxNamespaces
           /\ \A scope : Cardinality(namedLanes(Drop(ls, scope))) <= MaxNamespaces
<1> DEFINE found == laneFor(ls, ns)
<1>0. /\ GoodLanes(found) /\ GoodLane(found[ns])
      /\ Cardinality(namedLanes(found)) <= MaxNamespaces
  BY LaneForGood, LaneForBounded
<1>1. Cardinality(namedLanes(NextIn(ls, ns))) <= MaxNamespaces
  <2>1. CASE Admits(ls, ns)
    <3> DEFINE lane == Numbered(found[ns])
    <3>1. lane.live = found[ns].live
      BY <1>0 DEF Numbered, GoodLane, Lane
    <3>2. NextIn(ls, ns) = [found EXCEPT ![ns] = lane]
      BY <2>1 DEF NextIn
    <3> HIDE DEF lane, found
    <3>3. \A n \in Namespaces : NextIn(ls, ns)[n].live = found[n].live
      BY <1>0, <3>1, <3>2 DEF GoodLanes
    <3> QED
      BY <1>0, <3>3, SameNamed
  <2>2. CASE ~ Admits(ls, ns)
    BY <2>2 DEF NextIn
  <2> QED
    BY <2>1, <2>2
<1>2. ASSUME NEW e \in Entry
      PROVE  Cardinality(namedLanes(AppendIn(ls, ns, e))) <= MaxNamespaces
  <2>1. CASE Admits(ls, ns)
    <3> DEFINE lane == Store(found[ns], e)
    <3>1. lane.live = found[ns].live
      BY <1>0, StoreGood
    <3>2. AppendIn(ls, ns, e) = [found EXCEPT ![ns] = lane]
      BY <2>1 DEF AppendIn
    <3> HIDE DEF lane, found
    <3>3. \A n \in Namespaces : AppendIn(ls, ns, e)[n].live = found[n].live
      BY <1>0, <3>1, <3>2 DEF GoodLanes
    <3> QED
      BY <1>0, <3>3, SameNamed
  <2>2. CASE ~ Admits(ls, ns)
    BY <2>2 DEF AppendIn
  <2> QED
    BY <2>1, <2>2
<1>3. ASSUME NEW seq \in Nat, NEW by \in Nat
      PROVE  Cardinality(namedLanes(CloseStream(ls, ns, seq, by))) <= MaxNamespaces
  <2>1. PICK i : CloseStream(ls, ns, seq, by) \in {ls, [ls EXCEPT ![ns] = Amend(ls[ns], i, by)]}
    BY DEF CloseStream
  <2>2. Amend(ls[ns], i, by).live = ls[ns].live
    BY DEF Amend, GoodLanes, Lane
  <2>3. \A n \in Namespaces : CloseStream(ls, ns, seq, by)[n].live = ls[n].live
    BY <2>1, <2>2 DEF GoodLanes
  <2> QED
    BY <2>3, SameNamed
<1>4. ASSUME NEW scope PROVE Cardinality(namedLanes(Drop(ls, scope))) <= MaxNamespaces
  <2>1. namedLanes(Drop(ls, scope)) \subseteq namedLanes(ls)
    BY FreshLanes DEF namedLanes, Drop
  <2>2. namedLanes(ls) \subseteq Namespaces
    BY DEF namedLanes
  <2> QED
    BY <2>1, <2>2, BoundShrinks
<1> QED
  BY <1>1, <1>2, <1>3, <1>4

\* Every action keeps both stores within the bound.
LEMMA BoundStep == Inv /\ NamespacesBounded /\ [Next]_vars => NamespacesBounded'
<1> SUFFICES ASSUME Inv, NamespacesBounded, [Next]_vars PROVE NamespacesBounded'
  OBVIOUS
<1>0. GoodLanes(lanes) /\ TypeOK
  BY InvLanes DEF Inv
<1>a. \A s \in Scenarios : live[s] \in SUBSET Namespaces
  BY <1>0 DEF TypeOK
<1>b. \A c \in Clients : client[c].ns \in Namespaces /\ client[c].seq \in Nat
                        /\ client[c].request \in Nat
                        /\ client[c].stream \in {"none", "open", "closed"}
  BY <1>0 DEF TypeOK, ClientState
<1>1. ASSUME NEW c \in Clients, NEW ns \in Namespaces, NEW s \in Scenarios \cup {NoScenario},
             Arrive(c, ns, s)
      PROVE  NamespacesBounded'
  BY <1>0, <1>1, MethodsBounded DEF Arrive, NamespacesBounded
<1>2. ASSUME NEW c \in Clients, NEW demoted \in BOOLEAN, AdmitNamespace(c, demoted)
      PROVE  NamespacesBounded'
  BY <1>a, <1>b, <1>0, <1>2, SeatBounded DEF AdmitNamespace, NamespacesBounded, TypeOK
<1>3. ASSUME NEW c \in Clients, NEW claims \in BOOLEAN, NEW stream \in {"none", "open"},
             Serve(c, claims, stream)
      PROVE  NamespacesBounded'
  BY <1>a, <1>b, <1>0, <1>3, SeatBounded DEF Serve, NamespacesBounded, TypeOK
<1>4. ASSUME NEW c \in Clients, Record(c) PROVE NamespacesBounded'
  <2> DEFINE r == client[c]
             e == [seq |-> r.seq, request |-> r.request, stream |-> r.stream, closedBy |-> 0]
  <2>1. e \in Entry
    BY <1>b DEF Entry
  <2>2. lanes' = AppendIn(lanes, r.ns, e) /\ live' = live
    BY <1>4 DEF Record
  <2> HIDE DEF e
  <2> QED
    BY <1>0, <1>b, <2>1, <2>2, MethodsBounded DEF NamespacesBounded
<1>5. ASSUME NEW c \in Clients, Close(c) PROVE NamespacesBounded'
  BY <1>0, <1>b, <1>5, MethodsBounded DEF Close, NamespacesBounded
<1>6. ASSUME NEW c \in Clients, NEW scope \in ResetScopes, ResetJournal(c, scope)
      PROVE  NamespacesBounded'
  BY <1>0, <1>6, MethodsBounded, RingAssumption DEF ResetJournal, NamespacesBounded
<1>7. ASSUME NEW c \in Clients, ResetEngine(c) PROVE NamespacesBounded'
  <2>1. \A s \in Scenarios : live'[s] \subseteq live[s]
    BY <1>0, <1>7 DEF ResetEngine, TypeOK
  <2>2. \A s \in Scenarios : Cardinality(live'[s]) <= MaxNamespaces
    BY <1>a, <2>1, BoundShrinks DEF NamespacesBounded
  <2> QED
    BY <1>7, <2>2 DEF ResetEngine, NamespacesBounded
<1>8. CASE UNCHANGED vars
  BY <1>8 DEF NamespacesBounded, vars, namedLanes
<1> QED
  BY <1>1, <1>2, <1>3, <1>4, <1>5, <1>6, <1>7, <1>8 DEF Next

\* Neither the journal nor any scenario's engine ever exceeds --max-namespaces.
THEOREM NamespacesAreBounded == Spec => []NamespacesBounded
<1>1. Init => NamespacesBounded
  <2> SUFFICES ASSUME Init PROVE NamespacesBounded
    OBVIOUS
  <2>1. namedLanes(lanes) = {}
    BY FreshLanes DEF Init, namedLanes
  <2>2. Cardinality({}) = 0
    BY FS_EmptySet
  <2> QED
    BY <2>1, <2>2, RingAssumption DEF Init, NamespacesBounded
<1> QED
  BY <1>1, InvInit, InvStep, BoundStep, PTL DEF Spec

-----------------------------------------------------------------------------
(* What a snapshot shows *)

\* Where lane.snapshot finds its i-th entry, without the remainder.
At(lane, i) ==
    IF lane.head + i <= Len(lane.entries) THEN lane.head + i
    ELSE lane.head + i - Len(lane.entries)

\* The remainder of a number less than twice the divisor.
LEMMA SmallRemainder ==
    ASSUME NEW n \in Nat \ {0}, NEW a \in 0..(n + n - 1)
    PROVE  a % n = IF a < n THEN a ELSE a - n
<1>1. CASE a < n
  BY <1>1
<1>2. CASE a >= n
  <2>1. a = n + (a - n) /\ a - n \in 0..(n - 1)
    BY <1>2
  <2> QED
    BY <1>2, <2>1
<1> QED
  BY <1>1, <1>2

\* A snapshot is the lane's entries from its head on, all of them.
LEMMA SnapshotOf ==
    ASSUME NEW lane, GoodLane(lane)
    PROVE  /\ snapshot(lane) \in Seq(Entry)
           /\ Len(snapshot(lane)) = Len(lane.entries)
           /\ \A i \in 1..Len(lane.entries) :
                 /\ At(lane, i) \in 1..Len(lane.entries)
                 /\ snapshot(lane)[i] = lane.entries[At(lane, i)]
<1> DEFINE n == Len(lane.entries)
<1>0. lane.entries \in Seq(Entry) /\ n \in Nat /\ lane.head \in Nat
  BY DEF GoodLane, Lane
<1>1. n # 0 => lane.head < n
  BY <1>0, RingAssumption DEF GoodLane, Honest
<1>2. ASSUME NEW i \in 1..n
      PROVE  At(lane, i) \in 1..n /\ ((lane.head + i - 1) % n) + 1 = At(lane, i)
  <2>1. n \in Nat \ {0} /\ lane.head + i - 1 \in 0..(n + n - 1)
    BY <1>0, <1>1
  <2> DEFINE a == lane.head + i - 1
  <2>2. a % n = IF a < n THEN a ELSE a - n
    <3> HIDE DEF n, a
    <3> QED
      BY <2>1, SmallRemainder DEF a
  <2>3. At(lane, i) = (IF a < n THEN a ELSE a - n) + 1
    <3>1. lane.head \in Int /\ i \in Int /\ n \in Int
      BY <1>0
    <3> QED
      BY <3>1 DEF At
  <2>4. (IF a < n THEN a ELSE a - n) + 1 \in 1..n
    BY <1>0, <1>1, <2>1
  <2> HIDE DEF n
  <2> QED
    BY <2>2, <2>3, <2>4
<1>3. \A i \in 1..n : snapshot(lane)[i] = lane.entries[At(lane, i)]
  BY <1>2 DEF snapshot
<1>4. snapshot(lane) = [i \in 1..n |-> lane.entries[At(lane, i)]]
  BY <1>2 DEF snapshot
<1>5. \A i \in 1..n : lane.entries[At(lane, i)] \in Entry
  BY <1>0, <1>2
<1>6. snapshot(lane) \in Seq(Entry) /\ Len(snapshot(lane)) = n
  <2> DEFINE f == [i \in 1..n |-> lane.entries[At(lane, i)]]
  <2>1. f \in [1..n -> Entry]
    BY <1>5
  <2>2. f \in Seq(Entry) /\ Len(f) = n
    <3> HIDE DEF n, f
    <3> QED
      BY <1>0, <2>1
  <2> QED
    BY <1>4, <2>2
<1> QED
  BY <1>2, <1>3, <1>6

\* Two sequences of the same length and elements are the same.
LEMMA SameSequence ==
    ASSUME NEW s \in Seq(Entry), NEW t \in Seq(Entry), Len(s) = Len(t),
           \A i \in 1..Len(s) : s[i] = t[i]
    PROVE  s = t
  OBVIOUS

\* Ring.Append's store, read through snapshot: the new entry comes last, and
\* a full lane loses its oldest.
LEMMA StoreAppends ==
    ASSUME NEW lane, GoodLane(lane), NEW e \in Entry
    PROVE  /\ Store(lane, e).seq = lane.seq
           /\ Store(lane, e).appended = lane.appended + 1
           /\ Capacity = 0 => snapshot(Store(lane, e)) = snapshot(lane)
           /\ Capacity # 0 =>
                 snapshot(Store(lane, e)) =
                   Append(IF Len(snapshot(lane)) < Capacity THEN snapshot(lane)
                          ELSE Tail(snapshot(lane)), e)
<1> USE RingAssumption
<1> DEFINE new == Store(lane, e)
           n == Len(lane.entries)
           old == snapshot(lane)
<1>0. /\ lane \in Lane /\ lane.entries \in Seq(Entry) /\ n \in Nat /\ n <= Capacity
      /\ lane.head \in Nat /\ Capacity \in Nat
      /\ lane.head # 0 => lane.head < Capacity /\ n = Capacity
  BY DEF GoodLane, Lane, Honest
<1>1. GoodLane(new)
  BY StoreGood
<1>2. /\ old \in Seq(Entry) /\ Len(old) = n
      /\ \A i \in 1..n : At(lane, i) \in 1..n /\ old[i] = lane.entries[At(lane, i)]
  BY SnapshotOf
<1>3. /\ snapshot(new) \in Seq(Entry) /\ Len(snapshot(new)) = Len(new.entries)
      /\ \A i \in 1..Len(new.entries) : snapshot(new)[i] = new.entries[At(new, i)]
  BY <1>1, SnapshotOf
<1>4. CASE Capacity = 0
  <2>1. new = [lane EXCEPT !.appended = @ + 1, !.dropped = @ + 1]
    BY <1>4 DEF Store
  <2>2. /\ new.entries = lane.entries /\ new.head = lane.head
        /\ new.seq = lane.seq /\ new.appended = lane.appended + 1
    BY <1>0, <2>1 DEF Lane
  <2>3. snapshot(new) = snapshot(lane)
    BY <2>2 DEF snapshot
  <2> QED
    BY <1>4, <2>2, <2>3
<1>5. CASE Capacity > 0 /\ n < Capacity
  <2>1. new = [lane EXCEPT !.appended = @ + 1, !.entries = Append(@, e)]
    BY <1>0, <1>5 DEF Store
  <2>2. /\ new.entries = Append(lane.entries, e) /\ new.head = lane.head
        /\ new.seq = lane.seq /\ new.appended = lane.appended + 1
    BY <1>0, <2>1 DEF Lane
  <2>3. lane.head = 0
    BY <1>0, <1>5
  <2>4. /\ Append(lane.entries, e) \in Seq(Entry) /\ Len(Append(lane.entries, e)) = n + 1
        /\ \A i \in 1..n : Append(lane.entries, e)[i] = lane.entries[i]
        /\ Append(lane.entries, e)[n + 1] = e
    BY <1>0
  <2>5. /\ Append(old, e) \in Seq(Entry) /\ Len(Append(old, e)) = n + 1
        /\ \A i \in 1..n : Append(old, e)[i] = old[i]
        /\ Append(old, e)[n + 1] = e
    BY <1>2
  <2> HIDE DEF new, n, old
  <2>6. \A i \in 1..(n + 1) : At(new, i) = i
    BY <1>0, <2>2, <2>3, <2>4 DEF At
  <2>7. \A i \in 1..n : At(lane, i) = i
    BY <1>0, <2>3 DEF At, n
  <2>8. \A i \in 1..(n + 1) : snapshot(new)[i] = Append(old, e)[i]
    <3> TAKE i \in 1..(n + 1)
    <3>1. snapshot(new)[i] = Append(lane.entries, e)[i]
      BY <1>3, <2>2, <2>4, <2>6
    <3>2. CASE i = n + 1
      BY <3>1, <3>2, <2>4, <2>5
    <3>3. CASE i # n + 1
      <4>1. i \in 1..n
        BY <1>0, <3>3
      <4> QED
        BY <3>1, <4>1, <1>2, <2>4, <2>5, <2>7
    <3> QED
      BY <3>2, <3>3
  <2>9. Len(snapshot(new)) = n + 1
    BY <1>3, <2>2, <2>4
  <2>10. snapshot(new) = Append(old, e)
    BY <1>3, <2>5, <2>8, <2>9, SameSequence
  <2> QED
    BY <1>2, <1>5, <2>2, <2>10 DEF new, old
<1>6. CASE Capacity > 0 /\ n = Capacity
  <2> DEFINE h == (lane.head + 1) % Capacity
             over == [lane.entries EXCEPT ![lane.head + 1] = e]
             aged == Append(Tail(old), e)
  <2>1. new = [lane EXCEPT !.appended = @ + 1, !.dropped = @ + 1, !.entries = over, !.head = h]
    BY <1>0, <1>6 DEF Store
  <2>2. lane.head \in 0..(n - 1)
    BY <1>0, <1>6
  <2>3. over \in Seq(Entry) /\ Len(over) = n
    BY <1>0, <2>2
  <2>4. h = IF lane.head + 1 < n THEN lane.head + 1 ELSE 0
    <3>1. n \in Nat \ {0} /\ lane.head + 1 \in 0..(n + n - 1)
      BY <1>6, <1>0, <2>2
    <3>2. PICK a : a = lane.head + 1
      OBVIOUS
    <3>3. a % n = IF a < n THEN a ELSE a - n
      <4>1. a \in 0..(n + n - 1)
        BY <3>1, <3>2
      <4> HIDE DEF n
      <4> QED
        BY <3>1, <4>1, SmallRemainder
    <3>4. h = a % n
      <4>1. n = Capacity
        BY <1>6
      <4> HIDE DEF n
      <4> QED
        BY <3>2, <4>1
    <3> HIDE DEF h, n
    <3> QED
      BY <3>1, <3>2, <3>3, <3>4, <2>2, <1>0
  <2>5. /\ new.entries = over /\ new.head = h
        /\ new.seq = lane.seq /\ new.appended = lane.appended + 1
    <3> HIDE DEF new, over, h
    <3> QED
      BY <1>0, <2>1 DEF Lane
  <2>6. /\ aged \in Seq(Entry) /\ Len(aged) = n
        /\ \A i \in 1..(n - 1) : aged[i] = old[i + 1]
        /\ aged[n] = e
    <3> HIDE DEF old, n
    <3>1. Tail(old) \in Seq(Entry) /\ Len(Tail(old)) = n - 1
      BY <1>2, <1>0, <1>6
    <3>2. \A i \in 1..(n - 1) : Tail(old)[i] = old[i + 1]
      BY <1>2, <1>0, <1>6
    <3> QED
      BY <3>1, <3>2, <1>0, <1>6
  <2>7. \A i \in 1..n : over[i] = IF i = lane.head + 1 THEN e ELSE lane.entries[i]
    BY <1>0
  <2> HIDE DEF new, n, old, h, over, aged
  <2>8. \A i \in 1..n : snapshot(new)[i] = aged[i]
    <3> TAKE i \in 1..n
    <3>1. snapshot(new)[i] = over[At(new, i)]
      BY <1>3, <2>3, <2>5
    <3>2. At(new, i) = IF h + i <= n THEN h + i ELSE h + i - n
      BY <2>3, <2>5 DEF At
    <3>3. CASE i = n
      <4>1. At(new, i) = lane.head + 1
        BY <3>2, <3>3, <2>2, <2>4, <1>0
      <4>2. lane.head + 1 \in 1..n
        BY <2>2, <1>0
      <4> QED
        BY <3>1, <3>3, <4>1, <4>2, <2>6, <2>7
    <3>4. CASE i # n
      <4>1. i \in 1..(n - 1) /\ i + 1 \in 1..n
        BY <3>4, <1>0
      <4>2. At(lane, i + 1) = IF lane.head + (i + 1) <= n THEN lane.head + (i + 1)
                              ELSE lane.head + (i + 1) - n
        BY DEF At, n
      <4>3. At(new, i) = At(lane, i + 1)
        <5>1. i \in Int /\ n \in Int /\ lane.head \in 0..(n - 1) /\ i \in 1..(n - 1)
          BY <4>1, <2>2, <1>0
        <5>2. CASE lane.head + 1 < n
          BY <3>2, <4>2, <5>1, <5>2, <2>4
        <5>3. CASE ~ (lane.head + 1 < n)
          <6>1. lane.head + 1 = n /\ h = 0
            BY <5>1, <5>3, <2>4
          <6>2. At(new, i) = i /\ At(lane, i + 1) = i
            BY <3>2, <4>2, <5>1, <6>1
          <6> QED
            BY <6>2
        <5> QED
          BY <5>2, <5>3
      <4>4. At(lane, i + 1) # lane.head + 1
        BY <4>1, <4>2, <2>2, <1>0
      <4>5. At(lane, i + 1) \in 1..n /\ old[i + 1] = lane.entries[At(lane, i + 1)]
        BY <1>2, <4>1
      <4> QED
        BY <3>1, <4>1, <4>3, <4>4, <4>5, <2>6, <2>7
    <3> QED
      BY <3>3, <3>4
  <2>9. Len(snapshot(new)) = n
    BY <1>3, <2>3, <2>5
  <2>10. snapshot(new) = aged
    BY <1>3, <2>6, <2>8, <2>9, SameSequence
  <2> QED
    BY <1>2, <1>6, <2>5, <2>10 DEF new, old, aged
<1> QED
  BY <1>0, <1>4, <1>5, <1>6

\* The k-th retained entry is closed, and no other differs.
ClosedAt(old, new, k, by) ==
    k \in 1..Len(old) /\ new = [old EXCEPT ![k] = Closed(old[k], by)]

\* CloseStream's amendment, read through snapshot: one entry is closed where
\* it stands.
LEMMA AmendCompletes ==
    ASSUME NEW lane, GoodLane(lane), NEW i \in 1..Len(lane.entries), NEW by \in Nat
    PROVE  /\ Amend(lane, i, by).seq = lane.seq
           /\ Amend(lane, i, by).appended = lane.appended
           /\ \E k : /\ ClosedAt(snapshot(lane), snapshot(Amend(lane, i, by)), k, by)
                    /\ snapshot(lane)[k] = lane.entries[i]
<1> DEFINE new == Amend(lane, i, by)
           n == Len(lane.entries)
           old == snapshot(lane)
           k == IF i > lane.head THEN i - lane.head ELSE i - lane.head + n
           over == [lane.entries EXCEPT ![i] = Closed(lane.entries[i], by)]
<1>0. /\ lane \in Lane /\ lane.entries \in Seq(Entry) /\ n \in Nat /\ lane.head \in Nat
      /\ lane.head # 0 => lane.head < n
  BY DEF GoodLane, Lane, Honest
<1>1. GoodLane(new)
  BY AmendGood
<1>2. /\ old \in Seq(Entry) /\ Len(old) = n
      /\ \A j \in 1..n : At(lane, j) \in 1..n /\ old[j] = lane.entries[At(lane, j)]
  BY SnapshotOf
<1>3. /\ snapshot(new) \in Seq(Entry) /\ Len(snapshot(new)) = Len(new.entries)
      /\ \A j \in 1..Len(new.entries) : snapshot(new)[j] = new.entries[At(new, j)]
  BY <1>1, SnapshotOf
<1>4. new = [lane EXCEPT !.entries = over]
  BY DEF Amend
<1>5. Closed(lane.entries[i], by) \in Entry
  <2>1. lane.entries[i] \in Entry
    BY <1>0
  <2> QED
    BY <2>1 DEF Entry, Closed
<1>6. /\ over \in Seq(Entry) /\ Len(over) = n
      /\ \A j \in 1..n : over[j] = IF j = i THEN Closed(lane.entries[i], by) ELSE lane.entries[j]
  BY <1>0, <1>5
<1>7. /\ new.entries = over /\ new.head = lane.head /\ new.seq = lane.seq
      /\ new.appended = lane.appended
  <2> HIDE DEF new, over
  <2> QED
    BY <1>0, <1>4 DEF Lane
<1>8. k \in 1..n /\ \A j \in 1..n : (At(lane, j) = i) <=> (j = k)
  <2>1. \A j : At(lane, j) = IF lane.head + j <= n THEN lane.head + j ELSE lane.head + j - n
    BY DEF At
  <2>2. lane.head \in Int /\ i \in 1..n /\ lane.head >= 0 /\ lane.head < n
    BY <1>0
  <2> HIDE DEF n
  <2>3. k \in 1..n
    BY <1>0, <2>2
  <2> QED
    BY <1>0, <2>1, <2>2, <2>3
<1> DEFINE done == [old EXCEPT ![k] = Closed(lane.entries[i], by)]
<1> HIDE DEF new, n, old, over, k
<1>9. /\ done \in Seq(Entry) /\ Len(done) = n
      /\ \A j \in 1..n : done[j] = IF j = k THEN Closed(lane.entries[i], by) ELSE old[j]
  BY <1>2, <1>5, <1>8
<1> HIDE DEF done
<1>10. \A j \in 1..n : At(new, j) = At(lane, j)
  <2>1. new.head = lane.head /\ Len(new.entries) = Len(lane.entries)
    BY <1>6, <1>7 DEF n
  <2> QED
    BY <2>1 DEF At
<1>11. \A j \in 1..n : snapshot(new)[j] = done[j]
  <2> TAKE j \in 1..n
  <2>1. snapshot(new)[j] = over[At(lane, j)]
    BY <1>3, <1>6, <1>7, <1>10
  <2>2. At(lane, j) \in 1..n /\ old[j] = lane.entries[At(lane, j)]
    BY <1>2
  <2>3. CASE j = k
    BY <2>1, <2>2, <2>3, <1>6, <1>8, <1>9
  <2>4. CASE j # k
    <3>1. At(lane, j) # i
      BY <2>4, <1>8
    <3>2. over[At(lane, j)] = lane.entries[At(lane, j)]
      BY <3>1, <2>2, <1>6
    <3> QED
      BY <2>1, <2>2, <2>4, <3>2, <1>9
  <2> QED
    BY <2>3, <2>4
<1>12. snapshot(new) = done
  BY <1>3, <1>6, <1>7, <1>9, <1>11, SameSequence
<1>13. old[k] = lane.entries[i]
  BY <1>2, <1>8
<1>14. ClosedAt(old, snapshot(new), k, by)
  BY <1>2, <1>8, <1>12, <1>13 DEF ClosedAt, done
<1> QED
  BY <1>7, <1>13, <1>14 DEF new, old

-----------------------------------------------------------------------------
(* The ring implements the queue *)

\* What JournalQueue sees of a map of lanes.
Numbers(ls) == [ns \in Namespaces |-> ls[ns].seq]
Retained(ls) == [ns \in Namespaces |-> snapshot(ls[ns])]
Counts(ls) == [ns \in Namespaces |-> ls[ns].appended]

\* A namespace missing from the map has left nothing behind.
Missing(ls) == \A ns \in Namespaces : ~ ls[ns].live => ls[ns] = NoLane

\* laneFor creates a lane that reads as the missing one did.
LEMMA LaneForMaps ==
    ASSUME NEW ls, GoodLanes(ls), Missing(ls), NEW ns \in Namespaces
    PROVE  /\ Numbers(laneFor(ls, ns)) = Numbers(ls)
           /\ Retained(laneFor(ls, ns)) = Retained(ls)
           /\ Counts(laneFor(ls, ns)) = Counts(ls)
           /\ Missing(laneFor(ls, ns))
<1> DEFINE ms == laneFor(ls, ns)
<1>1. CASE ~ (Admits(ls, ns) /\ ~ ls[ns].live)
  BY <1>1 DEF laneFor
<1>2. CASE Admits(ls, ns) /\ ~ ls[ns].live
  <2>1. ms = [ls EXCEPT ![ns] = NewLane] /\ ls[ns] = NoLane
    BY <1>2 DEF laneFor, Missing
  <2>2. /\ NewLane.seq = NoLane.seq /\ NewLane.appended = NoLane.appended
        /\ NewLane.entries = NoLane.entries /\ NewLane.head = NoLane.head /\ NewLane.live
    BY DEF NewLane, NoLane, EmptyLane
  <2>3. snapshot(NewLane) = snapshot(NoLane)
    BY <2>2 DEF snapshot
  <2>4. \A n \in Namespaces : ms[n] = IF n = ns THEN NewLane ELSE ls[n]
    BY <2>1 DEF GoodLanes
  <2> HIDE DEF ms
  <2>5. Missing(ms)
    BY <2>2, <2>4 DEF Missing
  <2>6. \A n \in Namespaces : /\ ms[n].seq = ls[n].seq
                              /\ snapshot(ms[n]) = snapshot(ls[n])
                              /\ ms[n].appended = ls[n].appended
    BY <2>1, <2>2, <2>3, <2>4
  <2>7. Numbers(ms) = Numbers(ls) /\ Counts(ms) = Counts(ls)
    BY <2>6 DEF Numbers, Counts
  <2>8. Retained(ms) = Retained(ls)
    BY <2>6 DEF Retained
  <2> QED
    BY <2>5, <2>7, <2>8 DEF ms
<1> QED
  BY <1>1, <1>2

\* NextIn hands out the next number, or refuses and changes nothing.
LEMMA NextMaps ==
    ASSUME GoodLanes(lanes), Missing(lanes), NEW ns \in Namespaces, lanes' = NextIn(lanes, ns)
    PROVE  /\ Queue!Number(ns) \/ lanes' = lanes
           /\ Missing(lanes')
<1> DEFINE found == laneFor(lanes, ns)
           lane == Numbered(found[ns])
<1>1. GoodLanes(found) /\ GoodLane(found[ns]) /\ (Admits(lanes, ns) => found[ns].live)
  BY LaneForGood
<1>2. /\ Numbers(found) = Numbers(lanes) /\ Retained(found) = Retained(lanes)
      /\ Counts(found) = Counts(lanes) /\ Missing(found)
  BY LaneForMaps
<1>3. CASE ~ Admits(lanes, ns)
  BY <1>3 DEF NextIn
<1>4. CASE Admits(lanes, ns)
  <2>1. lanes' = [found EXCEPT ![ns] = lane]
    BY <1>4 DEF NextIn
  <2> HIDE DEF found
  <2>2. /\ lane.seq = found[ns].seq + 1 /\ lane.appended = found[ns].appended
        /\ lane.entries = found[ns].entries /\ lane.head = found[ns].head
        /\ lane.live = found[ns].live
    BY <1>1 DEF Numbered, GoodLane, Lane
  <2>3. snapshot(lane) = snapshot(found[ns])
    BY <2>2 DEF snapshot
  <2> HIDE DEF lane
  <2>4. /\ Numbers(lanes') = [Numbers(found) EXCEPT ![ns] = lane.seq]
        /\ Retained(lanes') = [Retained(found) EXCEPT ![ns] = snapshot(lane)]
        /\ Counts(lanes') = [Counts(found) EXCEPT ![ns] = lane.appended]
    BY <1>1, <2>1 DEF GoodLanes, Numbers, Retained, Counts
  <2>5. Numbers(lanes') = [Numbers(lanes) EXCEPT ![ns] = @ + 1]
    BY <1>2, <2>2, <2>4 DEF Numbers
  <2>6. Retained(lanes') = Retained(lanes) /\ Counts(lanes') = Counts(lanes)
    BY <1>2, <2>2, <2>3, <2>4, ZenonT(60) DEF Retained, Counts
  <2>7. Missing(lanes')
    BY <1>1, <1>2, <1>4, <2>1, <2>2 DEF Missing, GoodLanes
  <2> QED
    BY <2>5, <2>6, <2>7 DEF Queue!Number, Numbers, Retained, Counts
<1> QED
  BY <1>3, <1>4

\* Append records the entry last, or refuses and changes nothing.
LEMMA AppendMaps ==
    ASSUME GoodLanes(lanes), Missing(lanes), NEW ns \in Namespaces, NEW e \in Entry,
           lanes' = AppendIn(lanes, ns, e)
    PROVE  /\ Queue!Record(ns) \/ lanes' = lanes
           /\ Missing(lanes')
<1> DEFINE found == laneFor(lanes, ns)
           lane == Store(found[ns], e)
           old == snapshot(found[ns])
           now == snapshot(lane)
<1>1. GoodLanes(found) /\ GoodLane(found[ns]) /\ (Admits(lanes, ns) => found[ns].live)
  BY LaneForGood
<1>2. /\ Numbers(found) = Numbers(lanes) /\ Retained(found) = Retained(lanes)
      /\ Counts(found) = Counts(lanes) /\ Missing(found)
  BY LaneForMaps
<1>3. CASE ~ Admits(lanes, ns)
  BY <1>3 DEF AppendIn
<1>4. CASE Admits(lanes, ns)
  <2>1. lanes' = [found EXCEPT ![ns] = lane]
    BY <1>4 DEF AppendIn
  <2> HIDE DEF found
  <2>2. GoodLane(lane) /\ lane.live = found[ns].live
    BY <1>1, StoreGood
  <2>3. /\ lane.seq = found[ns].seq /\ lane.appended = found[ns].appended + 1
        /\ Capacity = 0 => now = old
        /\ Capacity # 0 => now = Append(IF Len(old) < Capacity THEN old ELSE Tail(old), e)
    BY <1>1, StoreAppends
  <2>4. old \in Seq(Entry)
    BY <1>1, SnapshotOf
  <2>5. Capacity # 0 => now # <<>> /\ now[Len(now)] = e
    <3> HIDE DEF old, now
    <3>1. CASE Len(old) < Capacity
      BY <3>1, <2>3, <2>4
    <3>2. CASE ~ (Len(old) < Capacity) /\ Capacity # 0
      <4>1. old # <<>>
        BY <3>2, RingAssumption
      <4>2. Tail(old) \in Seq(Entry)
        BY <4>1, <2>4
      <4> QED
        BY <3>2, <4>2, <2>3
    <3> QED
      BY <3>1, <3>2
  <2> HIDE DEF lane
  <2>6. /\ Numbers(lanes') = [Numbers(found) EXCEPT ![ns] = lane.seq]
        /\ Retained(lanes') = [Retained(found) EXCEPT ![ns] = now]
        /\ Counts(lanes') = [Counts(found) EXCEPT ![ns] = lane.appended]
    BY <1>1, <2>1 DEF GoodLanes, Numbers, Retained, Counts
  <2>7. old = Retained(lanes)[ns] /\ now = Retained(lanes')[ns]
    <3>1. old = Retained(found)[ns]
      BY DEF Retained
    <3>2. Retained(found)[ns] = Retained(lanes)[ns]
      BY <1>2
    <3>3. lanes'[ns] = lane
      BY <1>1, <2>1 DEF GoodLanes
    <3> QED
      BY <3>1, <3>2, <3>3 DEF Retained
  <2>8. Numbers(lanes') = Numbers(lanes)
    BY <1>2, <2>3, <2>6 DEF Numbers
  <2>9. Counts(lanes') = [Counts(lanes) EXCEPT ![ns] = @ + 1]
    BY <1>2, <2>3, <2>6 DEF Counts
  <2>10. Missing(lanes')
    BY <1>1, <1>2, <1>4, <2>1, <2>2 DEF Missing, GoodLanes
  <2>11. IF Capacity = 0 THEN Retained(lanes') = Retained(lanes)
         ELSE /\ Retained(lanes')[ns] # <<>>
              /\ Retained(lanes') = [Retained(lanes) EXCEPT ![ns] =
                   Append(IF Len(@) < Capacity THEN @ ELSE Tail(@),
                          Retained(lanes')[ns][Len(Retained(lanes')[ns])])]
    <3> HIDE DEF now, old
    <3>1. CASE Capacity = 0
      BY <3>1, <1>2, <2>3, <2>6, <2>7, ZenonT(60) DEF Retained
    <3>2. CASE Capacity # 0
      <4>1. Retained(lanes') = [Retained(lanes) EXCEPT ![ns] = now]
        BY <1>2, <2>6
      <4> QED
        BY <3>2, <4>1, <2>3, <2>5, <2>7
    <3> QED
      BY <3>1, <3>2
  <2>12. Queue!Record(ns)
    BY <2>8, <2>9, <2>11 DEF Queue!Record, Numbers, Retained, Counts
  <2> QED
    BY <2>10, <2>12
<1> QED
  BY <1>3, <1>4

\* The queue of a namespace completes an entry it holds.
Completes(ns) == \E k \in 1..Len(Retained(lanes)[ns]) : Queue!Complete(ns, k)

\* CloseStream completes one retained stream, or changes nothing.
LEMMA CloseMaps ==
    ASSUME GoodLanes(lanes), Missing(lanes), NEW ns \in Namespaces,
           NEW seq \in Nat, NEW by \in Nat, lanes' = CloseStream(lanes, ns, seq, by)
    PROVE  /\ Completes(ns) \/ lanes' = lanes
           /\ Missing(lanes')
<1> DEFINE held == lanes[ns].entries
           found == {i \in 1..Len(held) : held[i].seq = seq}
           i == Min(found)
           lane == Amend(lanes[ns], i, by)
           old == snapshot(lanes[ns])
<1>1. GoodLane(lanes[ns]) /\ held \in Seq(Entry)
  BY DEF GoodLanes, GoodLane, Lane
<1>2. lanes' = IF lanes[ns].live /\ found # {} /\ held[i].stream # "none"
               THEN [lanes EXCEPT ![ns] = lane] ELSE lanes
  BY DEF CloseStream
<1>3. CASE ~ (lanes[ns].live /\ found # {} /\ held[i].stream # "none")
  BY <1>2, <1>3
<1>4. CASE lanes[ns].live /\ found # {} /\ held[i].stream # "none"
  <2>1. i \in 1..Len(held)
    <3>1. found \subseteq Nat /\ found \subseteq 1..Len(held)
      BY <1>1
    <3> QED
      BY <1>4, <3>1, MinInSet
  <2>2. lanes' = [lanes EXCEPT ![ns] = lane]
    BY <1>2, <1>4
  <2> HIDE DEF i, found
  <2>3. GoodLane(lane) /\ lane.live = lanes[ns].live
    BY <1>1, <2>1, AmendGood
  <2>4. PICK k : ClosedAt(old, snapshot(lane), k, by) /\ old[k] = held[i]
    BY <1>1, <2>1, AmendCompletes
  <2>5. lane.seq = lanes[ns].seq /\ lane.appended = lanes[ns].appended
    BY <1>1, <2>1, AmendCompletes
  <2>6. old \in Seq(Entry) /\ old[k] \in Entry
    <3>1. old \in Seq(Entry)
      BY <1>1, SnapshotOf
    <3> HIDE DEF old
    <3> QED
      BY <3>1, <2>4 DEF ClosedAt
  <2> HIDE DEF lane, held
  <2>7. /\ Numbers(lanes') = Numbers(lanes)
        /\ Counts(lanes') = Counts(lanes)
        /\ Retained(lanes') = [Retained(lanes) EXCEPT ![ns] = snapshot(lane)]
    BY <2>2, <2>5 DEF GoodLanes, Numbers, Retained, Counts
  <2>8. Missing(lanes')
    BY <1>4, <2>2, <2>3 DEF Missing, GoodLanes
  <2>9. old = Retained(lanes)[ns] /\ snapshot(lane) = Retained(lanes')[ns]
    <3>1. lanes'[ns] = lane
      BY <2>2 DEF GoodLanes
    <3> QED
      BY <3>1 DEF Retained
  <2> DEFINE before == Retained(lanes)
             after == Retained(lanes')
             done == Closed(old[k], by)
  <2>10. done \in Entry /\ done = [old[k] EXCEPT !.stream = "closed", !.closedBy = done.closedBy]
    BY <2>6 DEF Closed, Entry
  <2>11. before[ns] = old /\ after[ns] = [old EXCEPT ![k] = done] /\ k \in 1..Len(old)
    BY <2>4, <2>9 DEF ClosedAt
  <2>12. after = [before EXCEPT ![ns] = [old EXCEPT ![k] = done]]
    BY <2>7, <2>9, <2>11
  <2> HIDE DEF done, old, before, after
  <2>13. after[ns][k] = done /\ Len(after[ns]) = Len(old)
    BY <2>6, <2>10, <2>11
  <2>14. old[k].stream # "none"
    BY <1>4, <2>4
  <2>15. after = [before EXCEPT ![ns][k] =
                    [@ EXCEPT !.stream = "closed", !.closedBy = after[ns][k].closedBy]]
    BY <2>10, <2>11, <2>12, <2>13
  <2>16. Queue!Complete(ns, k)
    BY <2>7, <2>11, <2>13, <2>14, <2>15
    DEF Queue!Complete, before, after, Numbers, Retained, Counts
  <2> QED
    BY <2>8, <2>11, <2>16 DEF Completes, before
<1> QED
  BY <1>3, <1>4

\* Reset and ResetIn empty the queues they name.
LEMMA DropMaps ==
    ASSUME GoodLanes(lanes), Missing(lanes), NEW scope, lanes' = Drop(lanes, scope)
    PROVE  Queue!Drop(scope) /\ Missing(lanes')
<1>1. NoLane.seq = 0 /\ NoLane.appended = 0 /\ NoLane.entries = <<>> /\ NoLane.head = 0
  BY DEF NoLane, EmptyLane
<1>2. snapshot(NoLane) = <<>>
  <2>1. GoodLane(NoLane) /\ Len(NoLane.entries) = 0
    BY <1>1, FreshLanes
  <2>2. snapshot(NoLane) \in Seq(Entry) /\ Len(snapshot(NoLane)) = 0
    BY <2>1, SnapshotOf
  <2> QED
    BY <2>2
<1>3. \A ns \in Namespaces : lanes'[ns] = IF ns \in scope THEN NoLane ELSE lanes[ns]
  BY DEF Drop
<1>4. Missing(lanes')
  BY <1>3 DEF Missing
<1>5. /\ \A ns \in Namespaces : lanes'[ns].seq = IF ns \in scope THEN 0 ELSE lanes[ns].seq
      /\ \A ns \in Namespaces :
            snapshot(lanes'[ns]) = IF ns \in scope THEN <<>> ELSE snapshot(lanes[ns])
      /\ \A ns \in Namespaces :
            lanes'[ns].appended = IF ns \in scope THEN 0 ELSE lanes[ns].appended
  BY <1>1, <1>2, <1>3
<1> HIDE DEF NoLane
<1>6. Queue!Drop(scope)
  BY <1>5 DEF Queue!Drop
<1> QED
  BY <1>4, <1>6

NothingLeft == Missing(lanes)

\* Every action is a step of the queue or leaves it alone, and a missing lane
\* stays empty.
LEMMA QueueStep ==
    Inv /\ NothingLeft /\ [Next]_vars => [Queue!Next]_(Queue!vars) /\ NothingLeft'
<1> SUFFICES ASSUME Inv, Missing(lanes), [Next]_vars
             PROVE  [Queue!Next]_(Queue!vars) /\ Missing(lanes')
  BY DEF NothingLeft
<1>0. GoodLanes(lanes) /\ TypeOK
  BY InvLanes DEF Inv
<1>a. ASSUME lanes' = lanes PROVE UNCHANGED Queue!vars /\ Missing(lanes')
  BY <1>a DEF Queue!vars
<1>b. \A c \in Clients : client[c].ns \in Namespaces /\ client[c].seq \in Nat
                        /\ client[c].request \in Nat
                        /\ client[c].stream \in {"none", "open", "closed"}
  BY <1>0 DEF TypeOK, ClientState
<1>1. ASSUME NEW c \in Clients, NEW ns \in Namespaces, NEW s \in Scenarios \cup {NoScenario},
             Arrive(c, ns, s)
      PROVE  [Queue!Next]_(Queue!vars) /\ Missing(lanes')
  <2>1. (Queue!Number(ns) \/ lanes' = lanes) /\ Missing(lanes')
    BY <1>0, <1>1, NextMaps DEF Arrive
  <2> QED
    BY <1>a, <2>1 DEF Queue!Next
<1>2. ASSUME NEW c \in Clients, Record(c)
      PROVE  [Queue!Next]_(Queue!vars) /\ Missing(lanes')
  <2>1. PICK ns \in Namespaces : ns = client[c].ns
    BY <1>b
  <2>2. PICK e \in Entry :
           e = [seq |-> client[c].seq, request |-> client[c].request,
                stream |-> client[c].stream, closedBy |-> 0]
    BY <1>b DEF Entry
  <2>3. lanes' = AppendIn(lanes, ns, e)
    BY <1>2, <2>1, <2>2 DEF Record
  <2>4. (Queue!Record(ns) \/ lanes' = lanes) /\ Missing(lanes')
    BY <1>0, <2>3, AppendMaps
  <2> QED
    BY <1>a, <2>4 DEF Queue!Next
<1>3. ASSUME NEW c \in Clients, Close(c)
      PROVE  [Queue!Next]_(Queue!vars) /\ Missing(lanes')
  <2> DEFINE ns == client[c].ns
  <2>1. ns \in Namespaces
    BY <1>b
  <2>2. lanes' = CloseStream(lanes, ns, client[c].seq, client[c].request)
    BY <1>3 DEF Close
  <2>3. client[c].seq \in Nat /\ client[c].request \in Nat
    BY <1>b
  <2> HIDE DEF ns
  <2>4. (Completes(ns) \/ lanes' = lanes) /\ Missing(lanes')
    BY <1>0, <2>1, <2>2, <2>3, CloseMaps
  <2> QED
    BY <1>a, <2>1, <2>4 DEF Queue!Next, Completes, Retained
<1>4. ASSUME NEW c \in Clients, NEW scope \in ResetScopes, ResetJournal(c, scope)
      PROVE  [Queue!Next]_(Queue!vars) /\ Missing(lanes')
  <2>1. Queue!Drop(scope) /\ Missing(lanes')
    BY <1>0, <1>4, DropMaps DEF ResetJournal
  <2>2. scope = Namespaces \/ \E ns \in Namespaces : scope = {ns}
    BY StoresAssumption
  <2> QED
    BY <2>1, <2>2 DEF Queue!Next
<1>5. ASSUME NEW c \in Clients,
             \/ \E demoted \in BOOLEAN : AdmitNamespace(c, demoted)
             \/ \E claims \in BOOLEAN, stream \in {"none", "open"} : Serve(c, claims, stream)
             \/ ResetEngine(c)
      PROVE  [Queue!Next]_(Queue!vars) /\ Missing(lanes')
  <2>1. lanes' = lanes
    BY <1>5 DEF AdmitNamespace, Serve, ResetEngine
  <2> QED
    BY <1>a, <2>1
<1>6. CASE UNCHANGED vars
  BY <1>a, <1>6 DEF vars
<1> QED
  BY <1>1, <1>2, <1>3, <1>4, <1>5, <1>6 DEF Next

\* Each namespace's lane is a queue of its newest entries: the ring's head
\* arithmetic, the bound on lanes, the completion of streams and the resets of
\* other namespaces never reorder, skip or take back what it recorded.
THEOREM QueueIsImplemented == Spec => ImplementsQueue
<1>1. Init => Queue!Init /\ NothingLeft
  <2> SUFFICES ASSUME Init PROVE Queue!Init /\ NothingLeft
    OBVIOUS
  <2>1. \A ns \in Namespaces : lanes[ns] = NoLane
    BY DEF Init
  <2>2. NoLane.seq = 0 /\ NoLane.appended = 0 /\ NoLane.entries = <<>>
    BY DEF NoLane, EmptyLane
  <2>3. snapshot(NoLane) = <<>>
    <3>1. GoodLane(NoLane) /\ Len(NoLane.entries) = 0
      BY <2>2, FreshLanes
    <3>2. snapshot(NoLane) \in Seq(Entry) /\ Len(snapshot(NoLane)) = 0
      BY <3>1, SnapshotOf
    <3> QED
      BY <3>2
  <2> HIDE DEF NoLane
  <2> QED
    BY <2>1, <2>2, <2>3 DEF Queue!Init, NothingLeft, Missing
<1> QED
  BY <1>1, InvInit, InvStep, QueueStep, PTL DEF Spec, ImplementsQueue, Queue!Spec

-----------------------------------------------------------------------------
(* A plan is lost only to a reset *)

\* A request the engine let in keeps its seat there until a reset of its
\* namespace takes it, and is marked when one does.
Seated ==
    \A c \in Clients :
        /\ client[c].pc \in {"admit", "handle"} => client[c].scenario \in Scenarios
        /\ client[c].pc = "admit" => ~ client[c].unknown
        /\ client[c].pc = "handle" /\ client[c].admitted =>
              \/ client[c].ns = DefaultNamespace
              \/ client[c].ns \in live[client[c].scenario]
              \/ client[c].request \in cut
        /\ client[c].admitted /\ client[c].unknown => client[c].request \in cut

\* Every action keeps the seats, or marks the requests it unseats.
LEMMA SeatedStep == Inv /\ Seated /\ [Next]_vars => Seated'
<1> SUFFICES ASSUME Inv, Seated, [Next]_vars PROVE Seated'
  OBVIOUS
<1>0. TypeOK
  BY DEF Inv
<1>a. ASSUME NEW c \in Clients, client' = [client EXCEPT ![c] = client'[c]],
             \A s \in Scenarios : live[s] \subseteq live'[s],
             cut' = cut,
             /\ client'[c].pc \in {"admit", "handle"} => client'[c].scenario \in Scenarios
             /\ client'[c].pc = "admit" => ~ client'[c].unknown
             /\ client'[c].pc = "handle" /\ client'[c].admitted =>
                   \/ client'[c].ns = DefaultNamespace
                   \/ client'[c].ns \in live'[client'[c].scenario]
                   \/ client'[c].request \in cut'
             /\ client'[c].admitted /\ client'[c].unknown => client'[c].request \in cut'
      PROVE  Seated'
  <2>1. \A d \in Clients : d # c => client'[d] = client[d]
    BY <1>0, <1>a DEF TypeOK
  <2>2. ASSUME NEW d \in Clients, d # c, client[d].pc = "handle", client[d].admitted
        PROVE  \/ client[d].ns = DefaultNamespace
               \/ client[d].ns \in live'[client[d].scenario]
               \/ client[d].request \in cut'
    BY <1>a, <2>2 DEF Seated
  <2> QED
    BY <1>a, <2>1, <2>2 DEF Seated
<1>i. ~ Idle.unknown /\ Idle.pc = "idle"
  BY DEF Idle
<1>1. ASSUME NEW c \in Clients, NEW ns \in Namespaces, NEW s \in Scenarios \cup {NoScenario},
             Arrive(c, ns, s)
      PROVE  Seated'
  <2>1. client'[c] = [Idle EXCEPT !.pc = IF s = NoScenario THEN "record" ELSE "admit",
                                  !.ns = ns, !.scenario = s, !.request = calls + 1,
                                  !.seq = NextSeq(lanes, ns)]
    BY <1>0, <1>1 DEF Arrive, TypeOK
  <2>2. /\ client'[c].pc = IF s = NoScenario THEN "record" ELSE "admit"
        /\ client'[c].scenario = s /\ ~ client'[c].unknown
    BY <2>1 DEF Idle
  <2>3. client' = [client EXCEPT ![c] = client'[c]] /\ live' = live /\ cut' = cut
    BY <1>0, <1>1 DEF Arrive, TypeOK
  <2> QED
    BY <1>a, <2>2, <2>3
<1>2. ASSUME NEW c \in Clients, NEW demoted \in BOOLEAN, AdmitNamespace(c, demoted) PROVE Seated'
  <2> DEFINE ns == client[c].ns  s == client[c].scenario
  <2>1. client[c].pc = "admit" /\ s \in Scenarios /\ ~ client[c].unknown
    BY <1>2 DEF AdmitNamespace, Seated
  <2>2. /\ client' = [client EXCEPT ![c] = client'[c]] /\ cut' = cut
        /\ client'[c] = [client[c] EXCEPT
                !.pc = IF Seats(live[s], ns) \/ demoted THEN "handle" ELSE "record",
                !.admitted = Seats(live[s], ns)]
        /\ live' = [live EXCEPT ![s] = Seat(live[s], ns)]
    BY <1>0, <1>2 DEF AdmitNamespace, TypeOK
  <2>3. /\ client'[c].pc \in {"handle", "record"} /\ client'[c].admitted = Seats(live[s], ns)
        /\ client'[c].ns = ns /\ client'[c].scenario = s /\ ~ client'[c].unknown
    BY <1>0, <2>1, <2>2 DEF TypeOK, ClientState
  <2>4. \A t \in Scenarios : live[t] \subseteq live'[t]
    BY <1>0, <2>2 DEF TypeOK, Seat
  <2>5. Seats(live[s], ns) => ns = DefaultNamespace \/ ns \in live'[s]
    BY <1>0, <2>1, <2>2 DEF TypeOK, Seat
  <2> HIDE DEF ns, s
  <2> QED
    BY <1>a, <2>1, <2>2, <2>3, <2>4, <2>5
<1>3. ASSUME NEW c \in Clients, NEW claims \in BOOLEAN, NEW stream \in {"none", "open"},
             Serve(c, claims, stream)
      PROVE  Seated'
  <2> DEFINE ns == client[c].ns  s == client[c].scenario
             unknown == claims /\ ~ Seats(live[s], ns)
  <2>1. client[c].pc = "handle" /\ s \in Scenarios
    BY <1>3 DEF Serve, Seated
  <2>2. /\ client' = [client EXCEPT ![c] = client'[c]] /\ cut' = cut
        /\ client'[c] = [client[c] EXCEPT !.pc = "record", !.stream = stream, !.unknown = unknown]
        /\ live' = IF claims THEN [live EXCEPT ![s] = Seat(live[s], ns)] ELSE live
    BY <1>0, <1>3 DEF Serve, TypeOK
  <2>3. client'[c].pc = "record" /\ client'[c].unknown = unknown
        /\ client'[c].request = client[c].request /\ client'[c].admitted = client[c].admitted
    BY <1>0, <2>2 DEF TypeOK, ClientState
  <2>4. \A t \in Scenarios : live[t] \subseteq live'[t]
    BY <1>0, <2>2 DEF TypeOK, Seat
  <2>5. client[c].admitted /\ unknown => client[c].request \in cut
    BY <2>1 DEF Seated, Seats
  <2> HIDE DEF unknown
  <2> QED
    BY <1>a, <2>2, <2>3, <2>4, <2>5
<1>4. ASSUME NEW c \in Clients, Record(c) \/ Close(c) PROVE Seated'
  <2>1. /\ client' = [client EXCEPT ![c] = client'[c]] /\ live' = live /\ cut' = cut
        /\ client'[c] = Idle \/ client'[c] = [client[c] EXCEPT !.pc = "close"]
    BY <1>0, <1>4 DEF Record, Close, TypeOK
  <2>2. /\ client'[c].pc \notin {"admit", "handle"}
        /\ client'[c].admitted /\ client'[c].unknown =>
              client[c].admitted /\ client[c].unknown /\ client'[c].request = client[c].request
    BY <1>0, <1>i, <2>1 DEF TypeOK, ClientState
  <2> QED
    BY <1>a, <2>1, <2>2 DEF Seated
<1>5. ASSUME NEW c \in Clients, NEW scope \in ResetScopes, ResetJournal(c, scope) PROVE Seated'
  <2>1. /\ client' = [client EXCEPT ![c] = client'[c]] /\ live' = live /\ cut' = cut
        /\ client'[c] = [Idle EXCEPT !.pc = "reset", !.scope = scope, !.engine = 1]
    BY <1>0, <1>5 DEF ResetJournal, TypeOK
  <2>2. client'[c].pc = "reset" /\ ~ client'[c].unknown
    BY <2>1 DEF Idle
  <2> QED
    BY <1>a, <2>1, <2>2
<1>6. ASSUME NEW c \in Clients, ResetEngine(c) PROVE Seated'
  <2> DEFINE s == client[c].engine  scope == client[c].scope
  <2>1. /\ client[c].pc = "reset"
        /\ client' = [client EXCEPT ![c] = client'[c]]
        /\ client'[c] = Idle \/ client'[c] = [client[c] EXCEPT !.engine = s + 1]
    BY <1>0, <1>6 DEF ResetEngine, TypeOK
  <2>2. /\ client'[c].pc \notin {"admit", "handle"}
        /\ client'[c].admitted /\ client'[c].unknown =>
              client[c].admitted /\ client[c].unknown /\ client'[c].request = client[c].request
    BY <1>0, <1>i, <2>1 DEF TypeOK, ClientState
  <2>3. \A d \in Clients : d # c => client'[d] = client[d]
    BY <1>0, <2>1 DEF TypeOK
  <2>4. cut \subseteq cut'
    BY <1>6 DEF ResetEngine
  <2>5. ASSUME NEW d \in Clients, client[d].pc = "handle", client[d].admitted,
                 client[d].ns \in live[client[d].scenario]
        PROVE  client[d].ns \in live'[client[d].scenario] \/ client[d].request \in cut'
    <3>1. CASE scope = Namespaces
      BY <1>6, <2>5, <3>1 DEF ResetEngine
    <3>2. CASE scope # Namespaces /\ client[d].ns \in scope
      <4>1. client[d].request \in RequestsIn(scope)
        BY <2>5, <3>2 DEF RequestsIn, Requesting
      <4> QED
        BY <1>6, <3>2, <4>1 DEF ResetEngine
    <3>3. CASE scope # Namespaces /\ client[d].ns \notin scope
      BY <1>0, <1>6, <2>5, <3>3 DEF ResetEngine, TypeOK, Seated
    <3> QED
      BY <3>1, <3>2, <3>3
  <2> QED
    BY <2>2, <2>3, <2>4, <2>5 DEF Seated
<1>7. CASE UNCHANGED vars
  BY <1>7 DEF Seated, vars
<1> QED
  BY <1>1, <1>2, <1>3, <1>4, <1>5, <1>6, <1>7 DEF Next

\* A request that the engine admitted is served without its fault plan only when
\* a reset of its own namespace came between its admission and its claim.
THEOREM PlansAreLostToResets == Spec => []PlanLostOnlyToReset
<1>1. Init => Seated
  BY DEF Init, Seated, Idle
<1>2. Seated => PlanLostOnlyToReset
  BY DEF Seated, PlanLostOnlyToReset
<1> QED
  BY <1>1, <1>2, InvInit, InvStep, SeatedStep, PTL DEF Spec

-----------------------------------------------------------------------------
(* Streams are closed by the requests that opened them *)

\* A request that still has its place in its lane: it claimed a number there,
\* and no reset has dropped the lane since.
Claimed(c, ns) ==
    /\ Requesting(c) /\ client[c].ns = ns
    /\ client[c].seq # 0 /\ client[c].request \notin torn

\* A lane hands each of its numbers out once.
NumbersClaimed ==
    \A ns \in Namespaces : \A c \in Clients : Claimed(c, ns) =>
        /\ client[c].seq <= lanes[ns].seq
        /\ \A d \in Clients : Claimed(d, ns) /\ d # c => client[d].seq # client[c].seq

\* A lane's entries carry numbers it handed out, no two the same.
EntriesNumbered(ns) ==
    LET held == lanes[ns].entries
    IN  /\ \A i \in 1..Len(held) : held[i].seq # 0 /\ held[i].seq <= lanes[ns].seq
        /\ \A i, j \in 1..Len(held) : held[i].seq = held[j].seq => i = j

\* An entry with the number of a request is the one that request recorded.
EntriesOwned(ns) ==
    \A i \in 1..Len(lanes[ns].entries), c \in Clients :
        Claimed(c, ns) /\ lanes[ns].entries[i].seq = client[c].seq =>
            client[c].pc = "close" /\ lanes[ns].entries[i].request = client[c].request

\* The request that will close an entry.
Closer(c, ns, e) ==
    /\ client[c].pc = "close" /\ client[c].ns = ns
    /\ client[c].seq = e.seq /\ client[c].request = e.request

\* An open entry has a request that will close it; a closed one was closed by
\* its request, or by one whose lane a reset had dropped.
StreamsOwned(ns) ==
    \A i \in 1..Len(lanes[ns].entries) :
        /\ lanes[ns].entries[i].stream = "open" =>
              \E c \in Clients : Closer(c, ns, lanes[ns].entries[i])
        /\ lanes[ns].entries[i].closedBy \in {0, lanes[ns].entries[i].request} \cup torn

LaneOwned(ns) == EntriesNumbered(ns) /\ EntriesOwned(ns) /\ StreamsOwned(ns)

StreamsInv == NumbersClaimed /\ \A ns \in Namespaces \ stale : LaneOwned(ns)

\* A request keeps its place in a lane, and its number.
Stays(c, ns) ==
    /\ Claimed(c, ns)
    /\ client'[c].seq = client[c].seq /\ client'[c].request = client[c].request
    /\ client[c].pc = "close" => client'[c].pc = "close"

\* What the types say of a lane and of its entries.
LEMMA LaneTypes ==
    ASSUME NEW lane \in Lane
    PROVE  /\ lane.seq \in Nat /\ lane.entries \in Seq(Entry) /\ Len(lane.entries) \in Nat
           /\ \A i \in 1..Len(lane.entries) :
                 /\ lane.entries[i] \in Entry
                 /\ lane.entries[i].seq \in Nat /\ lane.entries[i].request \in Nat
<1>1. lane.seq \in Nat /\ lane.entries \in Seq(Entry)
  BY DEF Lane
<1>2. \A i \in 1..Len(lane.entries) : lane.entries[i] \in Entry
  BY <1>1
<1> QED
  BY <1>1, <1>2 DEF Entry

\* A lane whose entries stand is still owned, if no closer of it moves and any
\* newcomer claimed a number it had not handed out.
LEMMA LaneStands ==
    ASSUME TypeOK, NEW ns \in Namespaces, LaneOwned(ns),
           lanes'[ns].entries = lanes[ns].entries,
           lanes[ns].seq <= lanes'[ns].seq, lanes'[ns].seq \in Nat,
           torn \subseteq torn',
           \A c \in Clients :
               client[c].pc = "close" /\ client[c].ns = ns => client'[c] = client[c],
           \A c \in Clients :
               Claimed(c, ns)' => Stays(c, ns) \/ ~ (client'[c].seq <= lanes[ns].seq)
    PROVE  LaneOwned(ns)'
<1> DEFINE held == lanes[ns].entries
<1>0. lanes[ns].seq \in Nat /\ \A i \in 1..Len(held) : held[i].seq \in Nat
  BY LaneTypes DEF TypeOK
<1>1. EntriesNumbered(ns)'
  BY <1>0 DEF LaneOwned, EntriesNumbered
<1>2. EntriesOwned(ns)'
  <2> SUFFICES ASSUME NEW i \in 1..Len(held), NEW c \in Clients,
                      Claimed(c, ns)', held[i].seq = client'[c].seq
               PROVE  client'[c].pc = "close" /\ held[i].request = client'[c].request
    BY DEF EntriesOwned
  <2>1. Stays(c, ns)
    BY <1>0 DEF LaneOwned, EntriesNumbered
  <2> QED
    BY <2>1 DEF Stays, LaneOwned, EntriesOwned
<1>3. StreamsOwned(ns)'
  <2>1. ASSUME NEW i \in 1..Len(held)
        PROVE  held[i].closedBy \in {0, held[i].request} \cup torn'
    BY DEF LaneOwned, StreamsOwned
  <2>2. ASSUME NEW i \in 1..Len(held), held[i].stream = "open"
        PROVE  \E c \in Clients : /\ client'[c].pc = "close" /\ client'[c].ns = ns
                                  /\ client'[c].seq = held[i].seq
                                  /\ client'[c].request = held[i].request
    <3>1. PICK c \in Clients : Closer(c, ns, held[i])
      BY <2>2 DEF LaneOwned, StreamsOwned
    <3>2. client'[c] = client[c]
      BY <3>1 DEF Closer
    <3> QED
      BY <3>1, <3>2 DEF Closer
  <2> HIDE DEF held
  <2>3. held = lanes'[ns].entries
    BY DEF held
  <2> QED
    BY <2>1, <2>2, <2>3 DEF StreamsOwned, Closer
<1> QED
  BY <1>1, <1>2, <1>3 DEF LaneOwned

\* Ring.Append's store, entry by entry: one is the new one, the others stand.
LEMMA StoreEntries ==
    ASSUME NEW lane, GoodLane(lane), NEW e \in Entry
    PROVE  LET new == Store(lane, e).entries
           IN  \/ new = lane.entries
               \/ \E k \in 1..Len(new) :
                     /\ new[k] = e
                     /\ \A i \in 1..Len(new) : i # k =>
                           i \in 1..Len(lane.entries) /\ new[i] = lane.entries[i]
<1> USE RingAssumption
<1> DEFINE s == Store(lane, e)
           n == Len(lane.entries)
<1>0. /\ lane \in Lane /\ lane.entries \in Seq(Entry) /\ n \in Nat /\ n <= Capacity
      /\ lane.head \in Nat /\ Capacity \in Nat
      /\ lane.head # 0 => lane.head < Capacity /\ n = Capacity
  BY DEF GoodLane, Lane, Honest
<1>1. CASE Capacity = 0
  <2>1. s = [lane EXCEPT !.appended = @ + 1, !.dropped = @ + 1]
    BY <1>1 DEF Store
  <2>2. s.entries = lane.entries
    BY <1>0, <2>1 DEF Lane
  <2> QED
    BY <2>2
<1>2. CASE Capacity > 0 /\ n < Capacity
  <2> DEFINE more == Append(lane.entries, e)
  <2>1. s = [lane EXCEPT !.appended = @ + 1, !.entries = more]
    BY <1>0, <1>2 DEF Store
  <2>2. s.entries = more
    BY <1>0, <2>1 DEF Lane
  <2>3. Len(more) = n + 1 /\ more[n + 1] = e /\ \A i \in 1..n : more[i] = lane.entries[i]
    BY <1>0
  <2> QED
    BY <1>0, <2>2, <2>3
<1>3. CASE Capacity > 0 /\ n = Capacity
  <2> DEFINE over == [lane.entries EXCEPT ![lane.head + 1] = e]
  <2>1. s = [lane EXCEPT !.appended = @ + 1, !.dropped = @ + 1, !.entries = over,
                         !.head = (@ + 1) % Capacity]
    BY <1>0, <1>3 DEF Store
  <2>2. s.entries = over
    <3> HIDE DEF s, over
    <3> QED
      BY <1>0, <2>1 DEF Lane
  <2>3. lane.head + 1 \in 1..n
    BY <1>0, <1>3
  <2>4. /\ Len(over) = n /\ over[lane.head + 1] = e
        /\ \A i \in 1..n : i # lane.head + 1 => over[i] = lane.entries[i]
    BY <1>0, <2>3
  <2> HIDE DEF over
  <2> QED
    BY <2>2, <2>3, <2>4
<1> QED
  BY <1>0, <1>1, <1>2, <1>3

\* Numbers stay claimed once while no request claims one.
LEMMA ClaimsStand ==
    ASSUME NumbersClaimed,
           \A ns \in Namespaces, c \in Clients :
               Claimed(c, ns)' => /\ Claimed(c, ns) /\ client'[c].seq = client[c].seq
                                 /\ lanes'[ns].seq = lanes[ns].seq
    PROVE  NumbersClaimed'
  BY DEF NumbersClaimed

\* A step of one request, or of a reset, that writes no lane and keeps the
\* request's number and namespace.
LEMMA QuietStreams ==
    ASSUME TypeOK, StreamsInv, lanes' = lanes, torn' = torn, stale' = stale,
           NEW c \in Clients, client[c].pc # "close",
           \A d \in Clients : d # c => client'[d] = client[d],
           Requesting(c)' => /\ Requesting(c)
                             /\ client'[c].ns = client[c].ns /\ client'[c].seq = client[c].seq
                             /\ client'[c].request = client[c].request
    PROVE  StreamsInv'
<1>1. \A d \in Clients : client[d].pc = "close" => client'[d] = client[d]
  OBVIOUS
<1>2. ASSUME NEW ns \in Namespaces, NEW d \in Clients, Claimed(d, ns)' PROVE Stays(d, ns)
  BY <1>2 DEF Claimed, Stays, Requesting
<1>3. NumbersClaimed'
  BY <1>2, ClaimsStand DEF StreamsInv, Stays
<1>4. ASSUME NEW ns \in Namespaces \ stale PROVE LaneOwned(ns)'
  <2>1. LaneOwned(ns) /\ lanes[ns].seq \in Nat
    BY LaneTypes DEF StreamsInv, TypeOK
  <2> QED
    BY <1>1, <1>2, <2>1, LaneStands
<1> QED
  BY <1>3, <1>4 DEF StreamsInv

\* What laneFor leaves of a lane: its number and its entries.
LEMMA LaneForEntries ==
    ASSUME NEW ls, GoodLanes(ls), Missing(ls), NEW ns \in Namespaces, NEW n \in Namespaces
    PROVE  /\ laneFor(ls, ns)[n].seq = ls[n].seq
           /\ laneFor(ls, ns)[n].entries = ls[n].entries
<1>1. CASE ~ (Admits(ls, ns) /\ ~ ls[ns].live)
  BY <1>1 DEF laneFor
<1>2. CASE Admits(ls, ns) /\ ~ ls[ns].live
  <2>1. laneFor(ls, ns) = [ls EXCEPT ![ns] = NewLane] /\ ls[ns] = NoLane
    BY <1>2 DEF laneFor, Missing
  <2>2. NewLane.seq = NoLane.seq /\ NewLane.entries = NoLane.entries
    BY DEF NewLane, NoLane, EmptyLane
  <2> QED
    BY <2>1, <2>2 DEF GoodLanes
<1> QED
  BY <1>1, <1>2

\* A request that arrives claims a number its lane had not handed out, or none.
LEMMA ArriveStreams ==
    ASSUME Inv, NothingLeft, StreamsInv, NEW c \in Clients, NEW ns \in Namespaces,
           NEW s \in Scenarios \cup {NoScenario}, Arrive(c, ns, s)
    PROVE  StreamsInv'
<1> DEFINE found == laneFor(lanes, ns)
<1>0. TypeOK /\ GoodLanes(lanes) /\ Missing(lanes)
  BY InvLanes DEF Inv, NothingLeft
<1>1. /\ GoodLanes(lanes')
      /\ torn' = torn /\ stale' = stale /\ client[c].pc = "idle"
      /\ \A d \in Clients : d # c => client'[d] = client[d]
  BY <1>0, NextInGood DEF Arrive, TypeOK
<1>2. client'[c].ns = ns /\ client'[c].seq = NextSeq(lanes, ns)
  <2>1. client'[c] = [Idle EXCEPT !.pc = IF s = NoScenario THEN "record" ELSE "admit",
                                  !.ns = ns, !.scenario = s, !.request = calls + 1,
                                  !.seq = NextSeq(lanes, ns)]
    BY <1>0 DEF Arrive, TypeOK
  <2> QED
    BY <2>1 DEF Idle
<1>3. \A n \in Namespaces :
         /\ lanes'[n].entries = lanes[n].entries
         /\ lanes'[n].seq = IF n = ns /\ Admits(lanes, ns) THEN lanes[n].seq + 1 ELSE lanes[n].seq
  <2>1. CASE ~ Admits(lanes, ns)
    BY <2>1 DEF Arrive, NextIn
  <2>2. CASE Admits(lanes, ns)
    <3>1. GoodLanes(found) /\ found[ns] \in Lane
      BY <1>0, LaneForGood DEF GoodLane
    <3>2. lanes' = [found EXCEPT ![ns] = Numbered(found[ns])]
      BY <2>2 DEF Arrive, NextIn
    <3>3. \A n \in Namespaces : found[n].seq = lanes[n].seq /\ found[n].entries = lanes[n].entries
      BY <1>0, LaneForEntries
    <3> HIDE DEF found
    <3>4. /\ Numbered(found[ns]).seq = found[ns].seq + 1
          /\ Numbered(found[ns]).entries = found[ns].entries
      BY <3>1 DEF Numbered, Lane
    <3> QED
      BY <2>2, <3>1, <3>2, <3>3, <3>4 DEF GoodLanes
  <2> QED
    BY <2>1, <2>2
<1>4. NextSeq(lanes, ns) = IF Admits(lanes, ns) THEN lanes'[ns].seq ELSE 0
  BY DEF NextSeq, Arrive
<1>5. \A n \in Namespaces : lanes[n].seq \in Nat /\ lanes'[n].seq \in Nat
  BY <1>0, <1>1, LaneTypes DEF GoodLanes
<1>6. ASSUME NEW n \in Namespaces, NEW d \in Clients, Claimed(d, n)'
      PROVE  \/ Stays(d, n) /\ d # c
             \/ d = c /\ n = ns /\ client'[d].seq = lanes[n].seq + 1 /\ Admits(lanes, ns)
  <2>1. CASE d # c
    BY <1>1, <1>6, <2>1 DEF Stays, Claimed, Requesting
  <2>2. CASE d = c
    BY <1>2, <1>3, <1>4, <1>6, <2>2 DEF Claimed
  <2> QED
    BY <2>1, <2>2
<1>7. NumbersClaimed'
  <2> SUFFICES ASSUME NEW n \in Namespaces, NEW d \in Clients, Claimed(d, n)'
               PROVE  /\ client'[d].seq <= lanes'[n].seq
                      /\ \A b \in Clients : Claimed(b, n)' /\ b # d =>
                             client'[b].seq # client'[d].seq
    BY DEF NumbersClaimed
  <2>1. ASSUME NEW b \in Clients, Stays(b, n) 
        PROVE  client'[b].seq <= lanes[n].seq /\ client'[b].seq \in Nat
    BY <1>0, <2>1 DEF Stays, StreamsInv, NumbersClaimed, TypeOK, ClientState
  <2>2. client'[d].seq <= lanes'[n].seq
    BY <1>3, <1>5, <1>6, <2>1
  <2>3. ASSUME NEW b \in Clients, Claimed(b, n)', b # d
        PROVE  client'[b].seq # client'[d].seq
    <3>1. CASE Stays(b, n) /\ Stays(d, n)
      BY <3>1, <2>3 DEF Stays, StreamsInv, NumbersClaimed
    <3>2. CASE ~ (Stays(b, n) /\ Stays(d, n))
      BY <1>5, <1>6, <2>1, <2>3, <3>2
    <3> QED
      BY <3>1, <3>2
  <2> QED
    BY <2>2, <2>3
<1>8. ASSUME NEW n \in Namespaces \ stale PROVE LaneOwned(n)'
  <2>1. \A d \in Clients : client[d].pc = "close" /\ client[d].ns = n => client'[d] = client[d]
    BY <1>1
  <2>2. \A d \in Clients :
           Claimed(d, n)' => Stays(d, n) \/ ~ (client'[d].seq <= lanes[n].seq)
    BY <1>5, <1>6
  <2>3. LaneOwned(n) /\ torn \subseteq torn' /\ lanes[n].seq <= lanes'[n].seq
    BY <1>1, <1>3, <1>5 DEF StreamsInv
  <2> QED
    BY <1>0, <1>3, <1>5, <2>1, <2>2, <2>3, LaneStands
<1> QED
  BY <1>1, <1>7, <1>8 DEF StreamsInv

\* A reset leaves no entry and no claim in the lanes it drops.
LEMMA ResetStreams ==
    ASSUME Inv, StreamsInv, NEW c \in Clients, NEW scope \in ResetScopes, ResetJournal(c, scope)
    PROVE  StreamsInv'
<1>0. TypeOK /\ GoodLanes(lanes)
  BY InvLanes DEF Inv
<1>1. /\ client[c].pc = "idle" /\ client'[c].pc = "reset"
      /\ \A d \in Clients : d # c => client'[d] = client[d]
      /\ torn' = torn \cup RequestsIn(scope) /\ stale' = stale \ scope
      /\ lanes' = Drop(lanes, scope)
  BY <1>0 DEF ResetJournal, TypeOK, Idle
<1>2. ASSUME NEW n \in Namespaces, NEW d \in Clients, Claimed(d, n)'
      PROVE  n \notin scope /\ Stays(d, n)
  <2>1. d # c /\ client'[d] = client[d]
    BY <1>1, <1>2 DEF Claimed, Requesting
  <2>2. Stays(d, n)
    BY <1>1, <1>2, <2>1 DEF Stays, Claimed, Requesting
  <2>3. n \in scope => client[d].request \in RequestsIn(scope)
    BY <2>2 DEF Stays, Claimed, RequestsIn
  <2> QED
    BY <1>1, <1>2, <2>1, <2>2, <2>3 DEF Claimed
<1>3. \A n \in Namespaces : n \notin scope => lanes'[n] = lanes[n]
  BY <1>1 DEF Drop
<1>4. NumbersClaimed'
  BY <1>2, <1>3, ClaimsStand DEF StreamsInv, Stays
<1>5. ASSUME NEW n \in Namespaces \ stale' PROVE LaneOwned(n)'
  <2>1. CASE n \in scope
    <3>1. Len(lanes'[n].entries) = 0
      BY <1>1, <2>1 DEF Drop, NoLane, EmptyLane
    <3> QED
      BY <3>1 DEF LaneOwned, EntriesNumbered, EntriesOwned, StreamsOwned
  <2>2. CASE n \notin scope
    <3>1. LaneOwned(n) /\ lanes[n].seq \in Nat /\ lanes'[n] = lanes[n] /\ torn \subseteq torn'
      BY <1>0, <1>1, <1>3, <2>2, LaneTypes DEF StreamsInv, GoodLanes
    <3>2. \A d \in Clients : client[d].pc = "close" /\ client[d].ns = n => client'[d] = client[d]
      BY <1>1
    <3> QED
      BY <1>0, <1>2, <3>1, <3>2, LaneStands
  <2> QED
    BY <2>1, <2>2
<1> QED
  BY <1>4, <1>5 DEF StreamsInv

\* An entry recorded carries its request's own number, or leaves its lane stale.
LEMMA RecordStreams ==
    ASSUME Inv, NothingLeft, StreamsInv, NEW c \in Clients, Record(c)
    PROVE  StreamsInv'
<1>0. TypeOK /\ GoodLanes(lanes) /\ Missing(lanes) /\ client[c] \in ClientState
  BY InvLanes DEF Inv, NothingLeft, TypeOK
<1>1. PICK ns \in Namespaces : ns = client[c].ns
  BY <1>0 DEF ClientState
<1>2. PICK e \in Entry : e = [seq |-> client[c].seq, request |-> client[c].request,
                              stream |-> client[c].stream, closedBy |-> 0]
  BY <1>0 DEF ClientState, Entry
<1>3. /\ client[c].pc = "record" /\ torn' = torn /\ lanes' = AppendIn(lanes, ns, e)
      /\ \A d \in Clients : d # c => client'[d] = client[d]
      /\ client'[c] = IF client[c].stream = "open" THEN [client[c] EXCEPT !.pc = "close"] ELSE Idle
      /\ stale' = IF Admits(lanes, ns) /\ (client[c].seq = 0 \/ client[c].request \in torn)
                   THEN stale \cup {ns} ELSE stale
  BY <1>0, <1>1, <1>2 DEF Record, TypeOK
<1>4. /\ client[c].stream = "open" =>
            /\ client'[c].pc = "close"
            /\ client'[c].ns = ns /\ client'[c].seq = client[c].seq
            /\ client'[c].request = client[c].request
      /\ client[c].stream # "open" => client'[c].pc = "idle"
  BY <1>0, <1>1, <1>3 DEF ClientState, Idle
<1>5. CASE ~ Admits(lanes, ns)
  <2>1. lanes' = lanes /\ stale' = stale
    BY <1>3, <1>5 DEF AppendIn
  <2>2. Requesting(c)' => /\ Requesting(c)
                          /\ client'[c].ns = client[c].ns /\ client'[c].seq = client[c].seq
                          /\ client'[c].request = client[c].request
    BY <1>1, <1>3, <1>4 DEF Requesting
  <2> QED
    BY <1>0, <1>3, <2>1, <2>2, QuietStreams
<1>6. CASE Admits(lanes, ns)
  <2> DEFINE found == laneFor(lanes, ns)
             held == lanes[ns].entries
             new == lanes'[ns].entries
  <2>1. GoodLanes(found) /\ GoodLane(found[ns])
    BY <1>0, LaneForGood
  <2>2. \A n \in Namespaces : found[n].seq = lanes[n].seq /\ found[n].entries = lanes[n].entries
    BY <1>0, LaneForEntries
  <2>3. lanes' = [found EXCEPT ![ns] = Store(found[ns], e)]
    BY <1>3, <1>6 DEF AppendIn
  <2> HIDE DEF found
  <2>4. lanes'[ns] = Store(found[ns], e)
    BY <2>1, <2>3 DEF GoodLanes
  <2>5. \A n \in Namespaces : n # ns => /\ lanes'[n].entries = lanes[n].entries
                                       /\ lanes'[n].seq = lanes[n].seq
    BY <2>1, <2>2, <2>3 DEF GoodLanes
  <2>6. /\ lanes'[ns].seq = lanes[ns].seq
        /\ \/ new = held
           \/ \E k \in 1..Len(new) :
                 /\ new[k] = e
                 /\ \A i \in 1..Len(new) : i # k => i \in 1..Len(held) /\ new[i] = held[i]
    BY <2>1, <2>2, <2>4, StoreEntries, StoreAppends
  <2>7. \A n \in Namespaces : lanes'[n].seq = lanes[n].seq /\ lanes[n].seq \in Nat
    BY <1>0, <2>5, <2>6, LaneTypes DEF GoodLanes
  <2>8. ASSUME NEW n \in Namespaces, NEW d \in Clients, Claimed(d, n)' PROVE Stays(d, n)
    BY <1>1, <1>3, <1>4, <2>8 DEF Claimed, Stays, Requesting
  <2>9. NumbersClaimed'
    BY <2>7, <2>8, ClaimsStand DEF StreamsInv, Stays
  <2>10. \A d \in Clients : client[d].pc = "close" => client'[d] = client[d]
    BY <1>3
  <2>11. ASSUME NEW n \in Namespaces \ stale', n # ns \/ new = held PROVE LaneOwned(n)'
    <3>1. LaneOwned(n) /\ torn \subseteq torn'
      BY <1>3 DEF StreamsInv
    <3> QED
      BY <1>0, <2>5, <2>7, <2>8, <2>10, <2>11, <3>1, LaneStands
  <2>12. ASSUME ns \notin stale', new # held PROVE LaneOwned(ns)'
    <3>1. LaneOwned(ns) /\ Claimed(c, ns)
      BY <1>1, <1>3, <1>6, <2>12 DEF StreamsInv, Claimed, Requesting
    <3>2. PICK k \in 1..Len(new) :
             /\ new[k] = e
             /\ \A i \in 1..Len(new) : i # k => i \in 1..Len(held) /\ new[i] = held[i]
      BY <2>6, <2>12
    <3>3. /\ e.seq = client[c].seq /\ e.request = client[c].request
          /\ e.stream = client[c].stream /\ e.closedBy = 0
      BY <1>2
    <3>4. e.seq # 0 /\ e.seq <= lanes[ns].seq
      BY <3>1, <3>3 DEF Claimed, StreamsInv, NumbersClaimed
    <3>5. \A i \in 1..Len(held) : held[i].seq # e.seq
      BY <1>3, <3>1, <3>3 DEF LaneOwned, EntriesOwned
    <3>6. EntriesNumbered(ns)'
      <4>1. ASSUME NEW i \in 1..Len(new) PROVE new[i].seq # 0 /\ new[i].seq <= lanes[ns].seq
        BY <3>1, <3>2, <3>4 DEF LaneOwned, EntriesNumbered
      <4>2. ASSUME NEW i \in 1..Len(new), NEW j \in 1..Len(new), new[i].seq = new[j].seq
            PROVE  i = j
        <5>1. CASE i = k \/ j = k
          BY <3>2, <3>5, <4>2, <5>1
        <5>2. CASE i # k /\ j # k
          BY <3>1, <3>2, <4>2, <5>2 DEF LaneOwned, EntriesNumbered
        <5> QED
          BY <5>1, <5>2
      <4> QED
        BY <2>7, <4>1, <4>2 DEF EntriesNumbered
    <3>7. EntriesOwned(ns)'
      <4>1. ASSUME NEW i \in 1..Len(new), NEW d \in Clients,
                   Claimed(d, ns)', new[i].seq = client'[d].seq
            PROVE  client'[d].pc = "close" /\ new[i].request = client'[d].request
        <5>1. Stays(d, ns)
          BY <2>8, <4>1
        <5>2. CASE i # k
          BY <3>1, <3>2, <4>1, <5>1, <5>2 DEF Stays, LaneOwned, EntriesOwned
        <5>3. CASE i = k
          <6>1. d = c
            BY <3>1, <3>2, <3>3, <4>1, <5>1, <5>3 DEF Stays, StreamsInv, NumbersClaimed
          <6> QED
            BY <1>4, <3>2, <3>3, <4>1, <5>1, <5>3, <6>1 DEF Claimed, Requesting, Stays
        <5> QED
          BY <5>2, <5>3
      <4> QED
        BY <4>1 DEF EntriesOwned
    <3>8. StreamsOwned(ns)'
      <4>1. ASSUME NEW i \in 1..Len(new)
            PROVE  new[i].closedBy \in {0, new[i].request} \cup torn'
        BY <1>3, <3>1, <3>2, <3>3 DEF LaneOwned, StreamsOwned
      <4>2. ASSUME NEW i \in 1..Len(new), new[i].stream = "open"
            PROVE  \E d \in Clients : /\ client'[d].pc = "close" /\ client'[d].ns = ns
                                      /\ client'[d].seq = new[i].seq
                                      /\ client'[d].request = new[i].request
        <5>1. CASE i = k
          BY <1>4, <3>2, <3>3, <4>2, <5>1
        <5>2. CASE i # k
          <6>1. PICK d \in Clients : Closer(d, ns, new[i])
            BY <3>1, <3>2, <4>2, <5>2 DEF LaneOwned, StreamsOwned
          <6> QED
            BY <2>10, <6>1 DEF Closer
        <5> QED
          BY <5>1, <5>2
      <4> QED
        BY <4>1, <4>2 DEF StreamsOwned, Closer
    <3> QED
      BY <3>6, <3>7, <3>8 DEF LaneOwned
  <2> QED
    BY <2>9, <2>11, <2>12 DEF StreamsInv
<1> QED
  BY <1>5, <1>6

\* A stream that ends finds its entry by its number, or its entry is gone.
LEMMA CloseStreams ==
    ASSUME Inv, NothingLeft, StreamsInv, NEW c \in Clients, Close(c)
    PROVE  StreamsInv'
<1>0. TypeOK /\ GoodLanes(lanes) /\ Missing(lanes) /\ client[c] \in ClientState
  BY InvLanes DEF Inv, NothingLeft, TypeOK
<1>1. PICK ns \in Namespaces : ns = client[c].ns
  BY <1>0 DEF ClientState
<1>2. PICK seq \in Nat : seq = client[c].seq
  BY <1>0 DEF ClientState
<1>3. PICK by \in Nat : by = client[c].request
  BY <1>0 DEF ClientState
<1>4. /\ client[c].pc = "close" /\ client'[c].pc = "idle"
      /\ torn' = torn /\ stale' = stale
      /\ lanes' = CloseStream(lanes, ns, seq, by)
      /\ \A d \in Clients : d # c => client'[d] = client[d]
  BY <1>0, <1>1, <1>2, <1>3 DEF Close, TypeOK, Idle
<1> DEFINE held == lanes[ns].entries
           new == lanes'[ns].entries
           found == {i \in 1..Len(held) : held[i].seq = seq}
           k == Min(found)
<1>5. lanes' = IF lanes[ns].live /\ found # {} /\ held[k].stream # "none"
               THEN [lanes EXCEPT ![ns] = Amend(lanes[ns], k, by)] ELSE lanes
  BY <1>4 DEF CloseStream
<1>6. /\ held \in Seq(Entry) /\ Len(held) \in Nat /\ lanes[ns].seq \in Nat /\ lanes[ns] \in Lane
      /\ \A i \in 1..Len(held) : held[i] \in Entry
  BY <1>0, LaneTypes DEF GoodLanes
<1>7. found # {} => k \in 1..Len(held) /\ held[k].seq = seq
  <2>1. found \subseteq Nat /\ found \subseteq 1..Len(held)
    BY <1>6
  <2>2. found # {} => k \in found
    BY <2>1, MinInSet
  <2> QED
    BY <2>2
<1>8. ASSUME NEW n \in Namespaces, NEW d \in Clients, Claimed(d, n)' PROVE Stays(d, n) /\ d # c
  BY <1>4, <1>8 DEF Claimed, Stays, Requesting
<1> HIDE DEF k
<1>9. /\ \A n \in Namespaces : lanes'[n].seq = lanes[n].seq
      /\ \A n \in Namespaces : n # ns => lanes'[n].entries = lanes[n].entries
      /\ \/ new = held /\ ~ (lanes[ns].live /\ found # {} /\ held[k].stream # "none")
         \/ found # {} /\ new = [held EXCEPT ![k] = Closed(held[k], by)]
  <2>1. CASE lanes[ns].live /\ found # {} /\ held[k].stream # "none"
    <3> DEFINE over == [held EXCEPT ![k] = Closed(held[k], by)]
    <3>1. Amend(lanes[ns], k, by) = [lanes[ns] EXCEPT !.entries = over]
      BY DEF Amend
    <3> HIDE DEF over
    <3>2. Amend(lanes[ns], k, by).entries = over /\ Amend(lanes[ns], k, by).seq = lanes[ns].seq
      BY <1>6, <3>1 DEF Lane
    <3>3. lanes' = [lanes EXCEPT ![ns] = Amend(lanes[ns], k, by)]
      BY <1>5, <2>1
    <3>4. /\ \A n \in Namespaces : n # ns => lanes'[n] = lanes[n]
          /\ lanes'[ns] = Amend(lanes[ns], k, by)
      BY <1>0, <3>3 DEF GoodLanes
    <3> QED
      BY <2>1, <3>2, <3>4 DEF over
  <2>2. CASE ~ (lanes[ns].live /\ found # {} /\ held[k].stream # "none")
    BY <1>5, <2>2
  <2> QED
    BY <2>1, <2>2
<1>10. NumbersClaimed'
  BY <1>8, <1>9, ClaimsStand DEF StreamsInv, Stays
<1>11. ASSUME NEW n \in Namespaces \ stale, n # ns PROVE LaneOwned(n)'
  <2>1. \A d \in Clients : client[d].pc = "close" /\ client[d].ns = n => client'[d] = client[d]
    BY <1>1, <1>4, <1>11
  <2>2. LaneOwned(n) /\ torn \subseteq torn' /\ lanes[n].seq \in Nat /\ lanes'[n].seq = lanes[n].seq
        /\ lanes'[n].entries = lanes[n].entries
    BY <1>0, <1>4, <1>9, <1>11, LaneTypes DEF StreamsInv, GoodLanes
  <2> QED
    BY <1>0, <1>8, <2>1, <2>2, LaneStands
<1>12. ASSUME ns \notin stale PROVE LaneOwned(ns)'
  <2>1. LaneOwned(ns)
    BY <1>12 DEF StreamsInv
  <2>2. /\ Len(new) = Len(held)
        /\ \A i \in 1..Len(held) : new[i].seq = held[i].seq /\ new[i].request = held[i].request
        /\ \A i \in 1..Len(held) : i # k => new[i] = held[i]
    <3>1. CASE new = held
      BY <3>1
    <3>2. CASE found # {} /\ new = [held EXCEPT ![k] = Closed(held[k], by)]
      <4>1. held[k] \in Entry /\ k \in 1..Len(held)
        BY <1>6, <1>7, <3>2
      <4>2. Closed(held[k], by).seq = held[k].seq /\ Closed(held[k], by).request = held[k].request
        BY <4>1 DEF Closed, Entry
      <4> HIDE DEF held, new, found
      <4>3. /\ Len(new) = Len(held)
            /\ \A i \in 1..Len(held) : new[i] = IF i = k THEN Closed(held[k], by) ELSE held[i]
        BY <1>6, <3>2
      <4> QED
        BY <4>2, <4>3
    <3> QED
      BY <1>9, <3>1, <3>2
  <2>3. \A i \in 1..Len(held) : held[i].seq = seq => found # {} /\ i = k
    <3> SUFFICES ASSUME NEW i \in 1..Len(held), held[i].seq = seq PROVE found # {} /\ i = k
      OBVIOUS
    <3>1. i \in found
      OBVIOUS
    <3> QED
      BY <1>7, <2>1, <3>1 DEF LaneOwned, EntriesNumbered
  <2>4. \A i \in 1..Len(held) :
           new[i].seq = seq => new[i].stream # "open"
    <3> SUFFICES ASSUME NEW i \in 1..Len(held), new[i].seq = seq PROVE new[i].stream # "open"
      OBVIOUS
    <3>1. found # {} /\ i = k
      BY <2>2, <2>3
    <3>2. CASE new = held /\ ~ (lanes[ns].live /\ found # {} /\ held[k].stream # "none")
      <4>1. CASE ~ lanes[ns].live
        <5>1. Len(held) = 0
          BY <1>0, <4>1 DEF Missing, NoLane, EmptyLane
        <5> QED
          BY <5>1
      <4>2. CASE held[k].stream = "none"
        BY <3>1, <3>2, <4>2
      <4> QED
        BY <3>1, <3>2, <4>1, <4>2
    <3>3. CASE new = [held EXCEPT ![k] = Closed(held[k], by)]
      <4>1. held[k] \in Entry /\ k \in 1..Len(held)
        BY <1>6, <1>7, <3>1
      <4>2. Closed(held[k], by).stream = "closed"
        BY <4>1 DEF Closed, Entry
      <4> HIDE DEF held, new, found
      <4>3. new[k] = Closed(held[k], by)
        BY <1>6, <3>3, <4>1
      <4> QED
        BY <3>1, <4>2, <4>3
    <3> QED
      BY <1>9, <3>2, <3>3
  <2>5. EntriesNumbered(ns)'
    BY <1>9, <2>1, <2>2 DEF LaneOwned, EntriesNumbered
  <2>6. EntriesOwned(ns)'
    <3>1. ASSUME NEW i \in 1..Len(held), NEW d \in Clients,
                 Claimed(d, ns)', new[i].seq = client'[d].seq
          PROVE  client'[d].pc = "close" /\ new[i].request = client'[d].request
      BY <1>8, <2>1, <2>2, <3>1 DEF Stays, LaneOwned, EntriesOwned
    <3> QED
      BY <2>2, <3>1 DEF EntriesOwned
  <2>7. StreamsOwned(ns)'
    <3>1. ASSUME NEW i \in 1..Len(held)
          PROVE  new[i].closedBy \in {0, new[i].request} \cup torn'
      <4>1. held[i].closedBy \in {0, held[i].request} \cup torn
        BY <2>1 DEF LaneOwned, StreamsOwned
      <4>2. CASE new[i] = held[i]
        BY <1>4, <4>1, <4>2
      <4>3. CASE new[i] # held[i]
        <5>1. i = k /\ found # {} /\ new = [held EXCEPT ![k] = Closed(held[k], by)]
          BY <1>9, <2>2, <4>3
        <5>2. held[k] \in Entry /\ held[k].seq = seq
          BY <1>6, <1>7, <5>1
        <5>3. new[k] = Closed(held[k], by)
          <6> HIDE DEF held, new, found
          <6> QED
            BY <1>6, <5>1
        <5>4. new[k].closedBy = by
          BY <5>2, <5>3 DEF Closed, Entry
        <5>5. seq # 0
          BY <2>1, <5>1, <5>2 DEF LaneOwned, EntriesNumbered
        <5>6. by \in torn \/ Claimed(c, ns)
          BY <1>1, <1>2, <1>3, <1>4, <5>5 DEF Claimed, Requesting
        <5>7. Claimed(c, ns) => held[k].request = by
          BY <1>2, <1>3, <2>1, <5>1, <5>2 DEF LaneOwned, EntriesOwned
        <5> QED
          BY <1>4, <2>2, <5>1, <5>4, <5>6, <5>7
      <4> QED
        BY <4>2, <4>3
    <3>2. ASSUME NEW i \in 1..Len(held), new[i].stream = "open"
          PROVE  \E d \in Clients : /\ client'[d].pc = "close" /\ client'[d].ns = ns
                                    /\ client'[d].seq = new[i].seq
                                    /\ client'[d].request = new[i].request
      <4>1. new[i].seq # seq
        BY <2>4, <3>2
      <4>2. new[i] = held[i]
        <5>1. i # k \/ found = {}
          BY <1>7, <2>2, <4>1
        <5> QED
          BY <1>9, <2>2, <5>1
      <4>3. PICK d \in Clients : Closer(d, ns, held[i])
        BY <2>1, <3>2, <4>2 DEF LaneOwned, StreamsOwned
      <4>4. d # c
        BY <1>2, <4>1, <4>2, <4>3 DEF Closer
      <4> QED
        BY <1>4, <4>2, <4>3, <4>4 DEF Closer
    <3> QED
      BY <2>2, <3>1, <3>2 DEF StreamsOwned, Closer
  <2> QED
    BY <2>5, <2>6, <2>7 DEF LaneOwned
<1> QED
  BY <1>4, <1>10, <1>11, <1>12 DEF StreamsInv

\* Every action keeps the streams owned.
LEMMA StreamsStep == Inv /\ NothingLeft /\ StreamsInv /\ [Next]_vars => StreamsInv'
<1> SUFFICES ASSUME Inv, NothingLeft, StreamsInv, [Next]_vars PROVE StreamsInv'
  OBVIOUS
<1>0. TypeOK
  BY DEF Inv
<1>1. ASSUME NEW c \in Clients,
             \/ \E demoted \in BOOLEAN : AdmitNamespace(c, demoted)
             \/ \E claims \in BOOLEAN, stream \in {"none", "open"} : Serve(c, claims, stream)
      PROVE  StreamsInv'
  <2>1. /\ lanes' = lanes /\ torn' = torn /\ stale' = stale
        /\ client[c].pc \in {"admit", "handle"}
        /\ \A d \in Clients : d # c => client'[d] = client[d]
    BY <1>0, <1>1 DEF AdmitNamespace, Serve, TypeOK
  <2>2. /\ client'[c].ns = client[c].ns /\ client'[c].seq = client[c].seq
        /\ client'[c].request = client[c].request
    <3>1. CASE \E demoted \in BOOLEAN : AdmitNamespace(c, demoted)
      BY <1>0, <3>1 DEF AdmitNamespace, TypeOK, ClientState
    <3>2. ASSUME NEW claims \in BOOLEAN, NEW stream \in {"none", "open"},
                 Serve(c, claims, stream)
          PROVE  /\ client'[c].ns = client[c].ns /\ client'[c].seq = client[c].seq
                 /\ client'[c].request = client[c].request
      BY <1>0, <3>2 DEF Serve, TypeOK, ClientState
    <3> QED
      BY <1>1, <3>1, <3>2
  <2>3. Requesting(c)
    BY <2>1 DEF Requesting
  <2> QED
    BY <1>0, <2>1, <2>2, <2>3, QuietStreams
<1>2. ASSUME NEW c \in Clients, ResetEngine(c) PROVE StreamsInv'
  <2>1. /\ lanes' = lanes /\ torn' = torn /\ stale' = stale /\ client[c].pc = "reset"
        /\ \A d \in Clients : d # c => client'[d] = client[d]
        /\ client'[c] = Idle \/ client'[c] = [client[c] EXCEPT !.engine = client[c].engine + 1]
    BY <1>0, <1>2 DEF ResetEngine, TypeOK
  <2>2. ~ Requesting(c)'
    BY <1>0, <2>1 DEF Requesting, Idle, TypeOK, ClientState
  <2> QED
    BY <1>0, <2>1, <2>2, QuietStreams
<1>3. CASE UNCHANGED vars
  BY <1>3 DEF vars, StreamsInv, NumbersClaimed, LaneOwned, EntriesNumbered, EntriesOwned,
              StreamsOwned, Closer, Claimed, Requesting
<1> QED
  BY <1>1, <1>2, <1>3, ArriveStreams, RecordStreams, CloseStreams, ResetStreams DEF Next

\* A stream's entry is completed by its own request once that ends, and an
\* entry left open belongs to one still streaming, in every lane that took no
\* foreign number.
THEOREM StreamsAreClosed == Spec => []StreamsClosed
<1>1. Init => StreamsInv
  BY DEF Init, StreamsInv, NumbersClaimed, LaneOwned, EntriesNumbered, EntriesOwned,
         StreamsOwned, Claimed, Requesting, Idle, NoLane, EmptyLane
<1>2. StreamsInv => StreamsClosed
  BY DEF StreamsInv, StreamsClosed, LaneOwned, StreamsOwned, Closer
<1>3. Init => NothingLeft
  BY DEF Init, NothingLeft, Missing
<1> QED
  BY <1>1, <1>2, <1>3, InvInit, InvStep, QueueStep, StreamsStep, PTL DEF Spec

-----------------------------------------------------------------------------
(* The two stores admit the same namespaces *)

\* The journal admits a namespace as an engine seats one.
LEMMA LanesSeat ==
    ASSUME NEW ls, GoodLanes(ls), NEW ns \in Namespaces
    PROVE  /\ namedLanes(laneFor(ls, ns)) = Seat(namedLanes(ls), ns)
           /\ namedLanes(NextIn(ls, ns)) = Seat(namedLanes(ls), ns)
           /\ \A e \in Entry : namedLanes(AppendIn(ls, ns, e)) = Seat(namedLanes(ls), ns)
<1> DEFINE found == laneFor(ls, ns)
<1>1. GoodLanes(found) /\ GoodLane(found[ns])
  BY LaneForGood
<1>2. namedLanes(found) = Seat(namedLanes(ls), ns)
  <2>1. CASE Admits(ls, ns) /\ ~ ls[ns].live
    <3>1. found = [ls EXCEPT ![ns] = NewLane]
      BY <2>1 DEF laneFor
    <3>2. \A n \in Namespaces : found[n].live = (ls[n].live \/ n = ns)
      BY <3>1, FreshLanes DEF GoodLanes, Lane
    <3> QED
      BY <2>1, <3>2 DEF namedLanes, Seat, Seats, Admits
  <2>2. CASE ~ (Admits(ls, ns) /\ ~ ls[ns].live)
    BY <2>2 DEF laneFor, namedLanes, Seat, Seats, Admits
  <2> QED
    BY <2>1, <2>2
<1>3. ASSUME ~ Admits(ls, ns) PROVE Seat(namedLanes(ls), ns) = namedLanes(ls)
  BY <1>3 DEF Admits, Seat, Seats, namedLanes
<1>4. namedLanes(NextIn(ls, ns)) = Seat(namedLanes(ls), ns)
  <2>1. CASE Admits(ls, ns)
    <3> DEFINE lane == Numbered(found[ns])
    <3>1. lane.live = found[ns].live
      BY <1>1 DEF Numbered, GoodLane, Lane
    <3>2. NextIn(ls, ns) = [found EXCEPT ![ns] = lane]
      BY <2>1 DEF NextIn
    <3> HIDE DEF lane, found
    <3>3. \A n \in Namespaces : NextIn(ls, ns)[n].live = found[n].live
      BY <1>1, <3>1, <3>2 DEF GoodLanes
    <3> QED
      BY <1>2, <3>3, SameNamed
  <2>2. CASE ~ Admits(ls, ns)
    BY <1>3, <2>2 DEF NextIn
  <2> QED
    BY <2>1, <2>2
<1>5. ASSUME NEW e \in Entry PROVE namedLanes(AppendIn(ls, ns, e)) = Seat(namedLanes(ls), ns)
  <2>1. CASE Admits(ls, ns)
    <3> DEFINE lane == Store(found[ns], e)
    <3>1. lane.live = found[ns].live
      BY <1>1, StoreGood
    <3>2. AppendIn(ls, ns, e) = [found EXCEPT ![ns] = lane]
      BY <2>1 DEF AppendIn
    <3> HIDE DEF lane, found
    <3>3. \A n \in Namespaces : AppendIn(ls, ns, e)[n].live = found[n].live
      BY <1>1, <3>1, <3>2 DEF GoodLanes
    <3> QED
      BY <1>2, <3>3, SameNamed
  <2>2. CASE ~ Admits(ls, ns)
    BY <1>3, <2>2 DEF AppendIn
  <2> QED
    BY <2>1, <2>2
<1> QED
  BY <1>2, <1>4, <1>5

\* One client at a time.
Sequential == \A c, d \in Clients : client[c].pc # "idle" /\ client[d].pc # "idle" => c = d

\* Where the two stores stand at each point of the one client's work: the
\* journal is ahead while the engine has not been asked, and has dropped what
\* the engine still holds while a reset is between the two.
Agreed ==
    LET named == namedLanes(lanes)
    IN  /\ AllIdle => live[1] = named
        /\ \A c \in Clients :
              /\ client[c].pc = "admit" => named = Seat(live[1], client[c].ns)
              /\ client[c].pc \in {"handle", "record", "close"} => live[1] = named
              /\ client[c].pc \in {"handle", "record"} =>
                    \/ client[c].ns = DefaultNamespace \/ client[c].ns \in named
                    \/ ~ (Cardinality(named) < MaxNamespaces)
              /\ client[c].pc = "reset" =>
                    /\ client[c].scope # Namespaces /\ client[c].engine = 1
                    /\ named = live[1] \ client[c].scope

AgreeInv == ~ apart /\ NumScenarios = 1 => Sequential /\ Agreed

\* What is left to show when the one busy client moves.
LEMMA OneMoves ==
    ASSUME NEW c \in Clients, \A d \in Clients : d # c => client'[d] = client[d],
           \A d \in Clients : d # c => client[d].pc = "idle",
           LET named == namedLanes(lanes')
           IN  /\ client'[c].pc = "idle" => live'[1] = named
               /\ client'[c].pc = "admit" => named = Seat(live'[1], client'[c].ns)
               /\ client'[c].pc \in {"handle", "record", "close"} => live'[1] = named
               /\ client'[c].pc \in {"handle", "record"} =>
                     \/ client'[c].ns = DefaultNamespace \/ client'[c].ns \in named
                     \/ ~ (Cardinality(named) < MaxNamespaces)
               /\ client'[c].pc = "reset" =>
                     /\ client'[c].scope # Namespaces /\ client'[c].engine = 1
                     /\ named = live'[1] \ client'[c].scope
    PROVE  (Sequential /\ Agreed)'
<1>1. \A d \in Clients : d # c => client'[d].pc = "idle"
  OBVIOUS
<1>2. Sequential'
  BY <1>1 DEF Sequential
<1>3. AllIdle' => client'[c].pc = "idle"
  BY DEF AllIdle
<1>4. Agreed'
  BY <1>1, <1>3 DEF Agreed
<1> QED
  BY <1>2, <1>4

\* Every action keeps the two stores together.
LEMMA AgreeStep == Inv /\ Seated /\ AgreeInv /\ [Next]_vars => AgreeInv'
<1> SUFFICES ASSUME Inv, Seated, AgreeInv, [Next]_vars, ~ apart', NumScenarios = 1
             PROVE  (Sequential /\ Agreed)'
  BY DEF AgreeInv
<1>0. TypeOK /\ GoodLanes(lanes)
  BY InvLanes DEF Inv
<1>a. ~ apart
  BY DEF Next, Arrive, AdmitNamespace, Serve, Record, Close, ResetJournal, ResetEngine, vars
<1>b. Sequential /\ Agreed
  BY <1>a DEF AgreeInv
<1>c. Scenarios = {1}
  BY DEF Scenarios
<1>d. \A c \in Clients : client[c] \in ClientState /\ client[c].ns \in Namespaces
  BY <1>0 DEF TypeOK, ClientState
<1>e. live[1] \subseteq Namespaces \ {DefaultNamespace}
  BY <1>0, <1>c DEF TypeOK
<1>1. ASSUME NEW c \in Clients, NEW ns \in Namespaces, NEW s \in Scenarios \cup {NoScenario},
             Arrive(c, ns, s)
      PROVE  (Sequential /\ Agreed)'
  <2>1. AllIdle /\ s # NoScenario
    BY <1>1 DEF Arrive
  <2>2. namedLanes(lanes') = Seat(namedLanes(lanes), ns) /\ live' = live
    BY <1>0, <1>1, LanesSeat DEF Arrive
  <2>3. client'[c] = [Idle EXCEPT !.pc = IF s = NoScenario THEN "record" ELSE "admit",
                                  !.ns = ns, !.scenario = s, !.request = calls + 1,
                                  !.seq = NextSeq(lanes, ns)]
    BY <1>0, <1>1 DEF Arrive, TypeOK
  <2>4. client'[c].pc = "admit" /\ client'[c].ns = ns
    BY <2>1, <2>3 DEF Idle
  <2>5. \A d \in Clients : d # c => client'[d] = client[d] /\ client[d].pc = "idle"
    BY <1>0, <1>1, <2>1 DEF Arrive, TypeOK, AllIdle
  <2>6. live[1] = namedLanes(lanes)
    BY <1>b, <2>1 DEF Agreed
  <2> QED
    BY <2>2, <2>4, <2>5, <2>6, OneMoves
<1>m. ASSUME NEW c \in Clients, client[c].pc # "idle"
      PROVE  \A d \in Clients : d # c => client[d].pc = "idle"
  BY <1>b, <1>m DEF Sequential
<1>2. ASSUME NEW c \in Clients, NEW demoted \in BOOLEAN, AdmitNamespace(c, demoted)
      PROVE  (Sequential /\ Agreed)'
  <2> DEFINE ns == client[c].ns
  <2>1. client[c].pc = "admit" /\ client[c].scenario = 1 /\ lanes' = lanes
    BY <1>2, <1>c DEF AdmitNamespace, Seated
  <2>2. namedLanes(lanes) = Seat(live[1], ns)
    BY <1>b, <2>1 DEF Agreed
  <2>3. /\ live' = [live EXCEPT ![1] = Seat(live[1], ns)]
        /\ client'[c] = [client[c] EXCEPT
                !.pc = IF Seats(live[1], ns) \/ demoted THEN "handle" ELSE "record",
                !.admitted = Seats(live[1], ns)]
        /\ \A d \in Clients : d # c => client'[d] = client[d]
    BY <1>0, <1>2, <2>1 DEF AdmitNamespace, TypeOK
  <2>4. client'[c].pc \in {"handle", "record"} /\ client'[c].ns = ns
    BY <1>d, <2>3 DEF ClientState
  <2>5. live'[1] = namedLanes(lanes')
    BY <1>0, <1>c, <2>1, <2>2, <2>3 DEF TypeOK
  <2>6. Seats(live[1], ns) => ns = DefaultNamespace \/ ns \in namedLanes(lanes')
    BY <2>1, <2>2 DEF Seat
  <2>7. ~ Seats(live[1], ns) => ~ (Cardinality(namedLanes(lanes')) < MaxNamespaces)
    BY <2>1, <2>2 DEF Seat, Seats
  <2> HIDE DEF ns
  <2> QED
    BY <1>m, <2>1, <2>3, <2>4, <2>5, <2>6, <2>7, OneMoves
<1>3. ASSUME NEW c \in Clients, NEW claims \in BOOLEAN, NEW stream \in {"none", "open"},
             Serve(c, claims, stream)
      PROVE  (Sequential /\ Agreed)'
  <2> DEFINE ns == client[c].ns
  <2>1. client[c].pc = "handle" /\ client[c].scenario = 1 /\ lanes' = lanes
    BY <1>3, <1>c DEF Serve, Seated
  <2>2. /\ live[1] = namedLanes(lanes)
        /\ \/ ns = DefaultNamespace \/ ns \in namedLanes(lanes)
           \/ ~ (Cardinality(namedLanes(lanes)) < MaxNamespaces)
    BY <1>b, <2>1 DEF Agreed
  <2>3. Seat(live[1], ns) = live[1]
    BY <2>2 DEF Seat, Seats
  <2>4. /\ live' = IF claims THEN [live EXCEPT ![1] = Seat(live[1], ns)] ELSE live
        /\ client'[c].pc = "record" /\ client'[c].ns = ns
        /\ \A d \in Clients : d # c => client'[d] = client[d]
    BY <1>0, <1>d, <1>3, <2>1 DEF Serve, TypeOK, ClientState
  <2>5. live'[1] = live[1]
    BY <1>0, <1>c, <2>3, <2>4 DEF TypeOK
  <2> HIDE DEF ns
  <2> QED
    BY <1>m, <2>1, <2>2, <2>4, <2>5, OneMoves
<1>4. ASSUME NEW c \in Clients, Record(c) PROVE (Sequential /\ Agreed)'
  <2>1. PICK ns \in Namespaces : ns = client[c].ns
    BY <1>d
  <2>2. PICK e \in Entry : e = [seq |-> client[c].seq, request |-> client[c].request,
                                stream |-> client[c].stream, closedBy |-> 0]
    BY <1>d DEF ClientState, Entry
  <2>3. client[c].pc = "record" /\ lanes' = AppendIn(lanes, ns, e) /\ live' = live
    BY <1>4, <2>1, <2>2 DEF Record
  <2>4. /\ live[1] = namedLanes(lanes)
        /\ \/ ns = DefaultNamespace \/ ns \in namedLanes(lanes)
           \/ ~ (Cardinality(namedLanes(lanes)) < MaxNamespaces)
    BY <1>b, <2>1, <2>3 DEF Agreed
  <2>5. namedLanes(lanes') = namedLanes(lanes)
    <3>1. namedLanes(lanes') = Seat(namedLanes(lanes), ns)
      BY <1>0, <2>3, LanesSeat
    <3> QED
      BY <2>4, <3>1 DEF Seat, Seats
  <2>6. /\ client'[c].pc \in {"idle", "close"}
        /\ \A d \in Clients : d # c => client'[d] = client[d]
    BY <1>0, <1>d, <1>4 DEF Record, TypeOK, ClientState, Idle
  <2> QED
    BY <1>m, <2>3, <2>4, <2>5, <2>6, OneMoves
<1>5. ASSUME NEW c \in Clients, Close(c) PROVE (Sequential /\ Agreed)'
  <2>1. PICK ns, i, by :
           /\ ns \in Namespaces
           /\ lanes' \in {lanes, [lanes EXCEPT ![ns] = Amend(lanes[ns], i, by)]}
    BY <1>5, <1>d DEF Close, CloseStream
  <2>2. Amend(lanes[ns], i, by).live = lanes[ns].live
    BY <1>0 DEF Amend, GoodLanes, Lane
  <2>3. \A n \in Namespaces : lanes'[n].live = lanes[n].live
    BY <1>0, <2>1, <2>2 DEF GoodLanes
  <2>4. namedLanes(lanes') = namedLanes(lanes)
    BY <2>3, SameNamed
  <2>5. /\ client[c].pc = "close" /\ client'[c].pc = "idle" /\ live' = live
        /\ \A d \in Clients : d # c => client'[d] = client[d]
    BY <1>0, <1>5 DEF Close, TypeOK, Idle
  <2>6. live[1] = namedLanes(lanes)
    BY <1>b, <2>5 DEF Agreed
  <2> QED
    BY <1>m, <2>4, <2>5, <2>6, OneMoves
<1>6. ASSUME NEW c \in Clients, NEW scope \in ResetScopes, ResetJournal(c, scope)
      PROVE  (Sequential /\ Agreed)'
  <2>1. AllIdle /\ scope # Namespaces /\ live' = live /\ lanes' = Drop(lanes, scope)
    BY <1>6 DEF ResetJournal
  <2>2. namedLanes(lanes') = namedLanes(lanes) \ scope
    BY <2>1, FreshLanes DEF namedLanes, Drop
  <2>3. client'[c] = [Idle EXCEPT !.pc = "reset", !.scope = scope, !.engine = 1]
    BY <1>0, <1>6 DEF ResetJournal, TypeOK
  <2>4. client'[c].pc = "reset" /\ client'[c].scope = scope /\ client'[c].engine = 1
    BY <2>3 DEF Idle
  <2>5. \A d \in Clients : d # c => client'[d] = client[d] /\ client[d].pc = "idle"
    BY <1>0, <1>6, <2>1 DEF ResetJournal, TypeOK, AllIdle
  <2>6. live[1] = namedLanes(lanes)
    BY <1>b, <2>1 DEF Agreed
  <2> QED
    BY <2>1, <2>2, <2>4, <2>5, <2>6, OneMoves
<1>7. ASSUME NEW c \in Clients, ResetEngine(c) PROVE (Sequential /\ Agreed)'
  <2>1. client[c].pc = "reset" /\ lanes' = lanes
    BY <1>7 DEF ResetEngine
  <2>2. /\ client[c].scope # Namespaces /\ client[c].engine = 1
        /\ namedLanes(lanes) = live[1] \ client[c].scope
    BY <1>b, <2>1 DEF Agreed
  <2>3. /\ live' = [live EXCEPT ![1] = live[1] \ client[c].scope]
        /\ client'[c] = Idle
        /\ \A d \in Clients : d # c => client'[d] = client[d]
    BY <1>0, <1>7, <2>2 DEF ResetEngine, TypeOK
  <2>4. live'[1] = namedLanes(lanes')
    BY <1>0, <1>c, <2>1, <2>2, <2>3 DEF TypeOK
  <2>5. client'[c].pc = "idle"
    BY <2>3 DEF Idle
  <2> QED
    BY <1>m, <2>1, <2>3, <2>4, <2>5, OneMoves
<1>8. CASE UNCHANGED vars
  BY <1>b, <1>8 DEF vars, Sequential, Agreed, AllIdle, namedLanes
<1> QED
  BY <1>1, <1>2, <1>3, <1>4, <1>5, <1>6, <1>7, <1>8 DEF Next

\* One loaded scenario, used by one client at a time and reset one namespace at
\* a time: the journal and the engine admit exactly the same namespaces.
THEOREM StoresAreTogether == Spec => []StoresAgree
<1>1. Init => AgreeInv
  <2> SUFFICES ASSUME Init, NumScenarios = 1 PROVE Sequential /\ Agreed
    BY DEF AgreeInv
  <2>1. \A c \in Clients : client[c].pc = "idle"
    BY DEF Init, Idle
  <2>2. namedLanes(lanes) = {} /\ live[1] = {}
    BY FreshLanes DEF Init, namedLanes, Scenarios
  <2> QED
    BY <2>1, <2>2 DEF Sequential, Agreed
<1>2. AgreeInv => StoresAgree
  BY DEF AgreeInv, StoresAgree, Agreed
<1>3. Init => Seated
  BY DEF Init, Seated, Idle
<1> QED
  BY <1>1, <1>2, <1>3, InvInit, InvStep, SeatedStep, AgreeStep, PTL DEF Spec
=============================================================================
