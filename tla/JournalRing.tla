---------------------------- MODULE JournalRing ----------------------------
(***************************************************************************)
(* The request journal of internal/journal: a bounded buffer per namespace *)
(* (a lane) with its own sequence counter, and the bound on named lanes.   *)
(* Each method of the Go Ring is an operator on the map of lanes.          *)
(*                                                                         *)
(* A method first finds its lane under the Ring's lock and then works on   *)
(* it under the lane's own.  A reset in between leaves it working on a     *)
(* lane nobody can reach, which is what would have happened had the reset  *)
(* come just after it, so a method is one step here.                       *)
(***************************************************************************)
EXTENDS Integers, Sequences, FiniteSetsExt

CONSTANTS
    Namespaces,         \* namespaces a request may name
    DefaultNamespace,   \* the lane of an unprefixed request, outside the bound
    MaxNamespaces,      \* Limits.MaxNamespaces
    Capacity            \* Limits.Capacity, per lane

ASSUME RingAssumption ==
    /\ DefaultNamespace \in Namespaces
    /\ IsFiniteSet(Namespaces)
    /\ MaxNamespaces \in Nat \ {0}
    /\ Capacity \in Nat

\* What an entry keeps here: its sequence number, the request it describes,
\* whether that request streams and whether its stream was closed, and the
\* request whose CloseStream amended it (0 for none; history).
Entry == [seq : Nat, request : Nat, stream : {"none", "open", "closed"}, closedBy : Nat]

\* A lane; live = FALSE is a namespace missing from the map.  Positions in
\* entries count from 1, head from 0 as in the code.
Lane == [live : BOOLEAN, seq : Nat, entries : Seq(Entry), head : Nat,
         appended : Nat, dropped : Nat]

EmptyLane(isLive) == [live |-> isLive, seq |-> 0, entries |-> <<>>, head |-> 0,
                      appended |-> 0, dropped |-> 0]
NoLane == EmptyLane(FALSE)
NewLane == EmptyLane(TRUE)

\* namedLanesLocked: the default lane spends no budget.
namedLanes(lanes) == {ns \in Namespaces \ {DefaultNamespace} : lanes[ns].live}

\* Mutant of Admits: one lane too many.
BugAdmits(lanes, ns) ==
    \/ lanes[ns].live
    \/ ns = DefaultNamespace
    \/ Cardinality(namedLanes(lanes)) <= MaxNamespaces

\* laneFor returns a lane: it exists, or may be created.
Admits(lanes, ns) ==
    \/ lanes[ns].live
    \/ ns = DefaultNamespace
    \/ Cardinality(namedLanes(lanes)) < MaxNamespaces

\* laneFor: the lane created on first use; a refusal evicts nothing.
laneFor(lanes, ns) ==
    IF Admits(lanes, ns) /\ ~ lanes[ns].live THEN [lanes EXCEPT ![ns] = NewLane] ELSE lanes

Numbered(lane) == [lane EXCEPT !.seq = @ + 1]

\* NextIn: the lanes after the claim, and the number claimed, 0 for a refusal.
NextIn(lanes, ns) ==
    IF Admits(lanes, ns)
    THEN [laneFor(lanes, ns) EXCEPT ![ns] = Numbered(@)]
    ELSE lanes
NextSeq(lanes, ns) == IF Admits(lanes, ns) THEN NextIn(lanes, ns)[ns].seq ELSE 0

\* Stats of a lane: everything appended is held or counted as dropped, the
\* lane is within its capacity, and its head leaves zero only once it is full.
Honest(lane) ==
    /\ lane.appended = Len(lane.entries) + lane.dropped
    /\ Len(lane.entries) <= Capacity
    /\ lane.head # 0 => lane.head < Capacity /\ Len(lane.entries) = Capacity

\* Mutants of Store: the head stays behind when an entry is overwritten, and
\* an eviction is not counted.
BugStoreHead(lane, e) ==
    IF Len(lane.entries) < Capacity
    THEN [lane EXCEPT !.appended = @ + 1, !.entries = Append(@, e)]
    ELSE [lane EXCEPT !.appended = @ + 1, !.dropped = @ + 1,
                      !.entries = IF Capacity = 0 THEN @ ELSE [@ EXCEPT ![lane.head + 1] = e]]
BugStoreCount(lane, e) ==
    IF Len(lane.entries) < Capacity
    THEN [lane EXCEPT !.appended = @ + 1, !.entries = Append(@, e)]
    ELSE [lane EXCEPT !.appended = @ + 1,
                      !.entries = [@ EXCEPT ![lane.head + 1] = e],
                      !.head = (@ + 1) % Capacity]

\* Append, once it has its lane: store, overwriting the oldest when full.
Store(lane, e) ==
    CASE Capacity = 0 -> [lane EXCEPT !.appended = @ + 1, !.dropped = @ + 1]
      [] Capacity > 0 /\ Len(lane.entries) < Capacity ->
           [lane EXCEPT !.appended = @ + 1, !.entries = Append(@, e)]
      [] Capacity > 0 /\ Len(lane.entries) >= Capacity ->
           [lane EXCEPT !.appended = @ + 1, !.dropped = @ + 1,
                        !.entries = [@ EXCEPT ![lane.head + 1] = e],
                        !.head = (@ + 1) % Capacity]

\* Append: it looks its lane up again, by name.
AppendIn(lanes, ns, e) ==
    IF Admits(lanes, ns)
    THEN [laneFor(lanes, ns) EXCEPT ![ns] = Store(@, e)]
    ELSE lanes

\* lane.snapshot: oldest first.
snapshot(lane) ==
    [i \in 1..Len(lane.entries) |->
        lane.entries[((lane.head + i - 1) % Len(lane.entries)) + 1]]

\* The observed half of the entry at this position is written.
Closed(e, by) == [e EXCEPT !.stream = "closed", !.closedBy = by]
Amend(lane, i, by) ==
    [lane EXCEPT !.entries = [lane.entries EXCEPT ![i] = Closed(lane.entries[i], by)]]

\* Mutant of CloseStream: the last entry is amended, whoever it belongs to.
BugCloseStream(lanes, ns, seq, by) ==
    LET held == lanes[ns].entries
    IN  IF lanes[ns].live /\ held # <<>> /\ held[Len(held)].stream # "none"
        THEN [lanes EXCEPT ![ns] = Amend(@, Len(held), by)]
        ELSE lanes

\* CloseStream amends the first entry in storage order that carries the
\* number; a lane or an entry that is gone, or no stream, is left alone.
CloseStream(lanes, ns, seq, by) ==
    LET held  == lanes[ns].entries
        found == {i \in 1..Len(held) : held[i].seq = seq}
    IN  IF lanes[ns].live /\ found # {} /\ held[Min(found)].stream # "none"
        THEN [lanes EXCEPT ![ns] = Amend(@, Min(found), by)]
        ELSE lanes

\* Reset and ResetIn: the lanes are removed, not emptied.
Drop(lanes, scope) ==
    [ns \in Namespaces |-> IF ns \in scope THEN NoLane ELSE lanes[ns]]
=============================================================================
