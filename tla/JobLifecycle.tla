---------------------------- MODULE JobLifecycle ----------------------------
(***************************************************************************)
(* What the asynchronous job store promises, with every operation atomic:  *)
(* a job is created within its namespace's bound, its polls move it        *)
(* forward, and a cancel takes effect once, at the position the job is at, *)
(* and only if the snapshot there would not have ended the job.  Nothing   *)
(* is taken back except by a reset, which drops whole namespaces.          *)
(***************************************************************************)
EXTENDS Integers, FiniteSets

CONSTANTS
    Namespaces, JobIDs, MaxJobs,
    Cancellable(_, _)   \* the poll of job id at this position may be cancelled away

VARIABLE record         \* record[ns][id]: {} or {s}, s the state of the live job:
                        \* its position and {} or {the position of its cancel}

Init == record = [ns \in Namespaces |-> [id \in JobIDs |-> {}]]

Write(ns, id, state) == record' = [record EXCEPT ![ns][id] = {state}]

Create(ns, id) ==
    /\ record[ns][id] = {}
    /\ Cardinality({j \in JobIDs : record[ns][j] # {}}) < MaxJobs
    /\ Write(ns, id, [polls |-> 0, cancelled |-> {}])

\* Polls may be recorded out of order, so the position may jump forward; t is
\* the new state, which differs from the old only in its position.
Poll(ns, id) ==
    \E s \in record[ns][id] : \E t \in record'[ns][id] :
        /\ t.polls > s.polls
        /\ Write(ns, id, [s EXCEPT !.polls = t.polls])

Cancel(ns, id) ==
    \E s \in record[ns][id] :
        /\ s.cancelled = {}
        /\ Cancellable(id, s.polls)
        /\ Write(ns, id, [s EXCEPT !.cancelled = {s.polls}])

Drop(scope) ==
    record' = [ns \in Namespaces |->
                 IF ns \in scope THEN [id \in JobIDs |-> {}] ELSE record[ns]]

Next ==
    \/ \E ns \in Namespaces, id \in JobIDs : Create(ns, id) \/ Poll(ns, id) \/ Cancel(ns, id)
    \/ \E scope \in SUBSET Namespaces : Drop(scope)

Spec == Init /\ [][Next]_record
=============================================================================
