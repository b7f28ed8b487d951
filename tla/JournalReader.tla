--------------------------- MODULE JournalReader ---------------------------
(***************************************************************************)
(* GET /__admin/requests read as a pager while requests are being served:  *)
(* each poll passes the highest sequence number seen so far as `since`.    *)
(* Models internal/admin/requests.go and the two snapshots of the Ring.    *)
(* A request draws its number when it arrives and is appended when it      *)
(* ends.  An entry's `request` is its stamp, its place in append order.    *)
(***************************************************************************)
EXTENDS JournalRing, SequencesExt

CONSTANTS
    Scope,         \* the ?namespace= of the pager; "" reads every lane
    Limits,        \* the ?limit= values it sends; 0 is no cap
    MaxArrivals    \* bound on the requests served

VARIABLES
    lanes,     \* the Ring
    served,    \* requests in flight: [ns, seq]
    stamp,     \* Ring.order
    reader     \* [since, read]: the pager's position and the entries it got

vars == <<lanes, served, stamp, reader>>

\* Ring.Snapshot: every lane's entries, merged on their stamps.
Snapshot ==
    SetToSortSeq(UNION {ToSet(snapshot(lanes[ns])) : ns \in Namespaces},
                 LAMBDA a, b : a.request < b.request)

\* Ring.SnapshotIn: one lane's, in append order.
SnapshotIn(ns) == snapshot(lanes[ns])

Stored == IF Scope = "" THEN Snapshot ELSE SnapshotIn(Scope)

\* filter.matches, the provider filter left out.
matches(e, since) == e.seq > since

\* handleRequests: the first `limit` matches of the snapshot.
handleRequests(since, limit) ==
    LET hits == SelectSeq(Stored, LAMBDA e : matches(e, since))
    IN  IF limit > 0 /\ Len(hits) > limit THEN SubSeq(hits, 1, limit) ELSE hits

\* Handle draws the number first.  (A namespace the journal refuses is left out.)
Arrive(ns) ==
    /\ stamp + Cardinality(served) < MaxArrivals
    /\ Admits(lanes, ns)
    /\ lanes' = NextIn(lanes, ns)
    /\ served' = served \cup {[ns |-> ns, seq |-> NextSeq(lanes, ns)]}
    /\ UNCHANGED <<stamp, reader>>

\* The request ends, in whatever order, and its entry is appended.
End(r) ==
    /\ served' = served \ {r}
    /\ stamp' = stamp + 1
    /\ lanes' = AppendIn(lanes, r.ns, [seq |-> r.seq, request |-> stamp + 1,
                                       stream |-> "none", closedBy |-> 0])
    /\ UNCHANGED reader

\* One poll of the reader, which keeps "the highest sequence it has already seen".
Page(limit) ==
    LET got == ToSet(handleRequests(reader.since, limit))
    IN  /\ got # {}
        /\ reader' = [since |-> Max({e.seq : e \in got}), read |-> reader.read \cup got]
        /\ UNCHANGED <<lanes, served, stamp>>

Init ==
    /\ lanes = [ns \in Namespaces |-> NoLane]
    /\ served = {} /\ stamp = 0
    /\ reader = [since |-> 0, read |-> {}]

Next ==
    \/ \E ns \in Namespaces : Arrive(ns)
    \/ \E r \in served : End(r)
    \/ \E limit \in Limits : Page(limit)

Spec == Init /\ [][Next]_vars

\* What requests.go says of since plus limit, "a correct forward pager": an
\* entry the journal retains has been read, or a later page will have it.
PagerSkipsNothing == \A e \in ToSet(Stored) : e \in reader.read \/ e.seq > reader.since
=============================================================================
