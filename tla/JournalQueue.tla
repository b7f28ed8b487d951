---------------------------- MODULE JournalQueue ----------------------------
(***************************************************************************)
(* What the journal promises each namespace: its own numbering from 1, its *)
(* last Capacity entries in the order they were recorded, and a count of   *)
(* everything recorded.  One request touches one namespace; only a reset   *)
(* takes anything back, from one namespace or from all of them.            *)
(***************************************************************************)
EXTENDS Integers, Sequences

CONSTANTS Namespaces, Capacity

VARIABLES
    next,    \* the last number handed out, per namespace
    held,    \* the retained entries, oldest first
    count    \* entries recorded since the last reset

vars == <<next, held, count>>

Init ==
    /\ next = [ns \in Namespaces |-> 0]
    /\ held = [ns \in Namespaces |-> <<>>]
    /\ count = [ns \in Namespaces |-> 0]

Number(ns) ==
    /\ next' = [next EXCEPT ![ns] = @ + 1]
    /\ UNCHANGED <<held, count>>

\* The newest entry is whatever the step adds at the end.
Record(ns) ==
    LET now == held'[ns]
    IN  /\ count' = [count EXCEPT ![ns] = @ + 1]
        /\ IF Capacity = 0 THEN held' = held
           ELSE /\ now # <<>>
                /\ held' = [held EXCEPT ![ns] =
                     Append(IF Len(@) < Capacity THEN @ ELSE Tail(@), now[Len(now)])]
        /\ UNCHANGED next

\* A stream's entry is completed: its stream and nothing else of it.
Complete(ns, i) ==
    /\ held[ns][i].stream # "none"
    /\ Len(held'[ns]) = Len(held[ns])
    /\ held' = [held EXCEPT ![ns][i] =
         [@ EXCEPT !.stream = "closed", !.closedBy = held'[ns][i].closedBy]]
    /\ UNCHANGED <<next, count>>

Drop(scope) ==
    /\ next' = [ns \in Namespaces |-> IF ns \in scope THEN 0 ELSE next[ns]]
    /\ held' = [ns \in Namespaces |-> IF ns \in scope THEN <<>> ELSE held[ns]]
    /\ count' = [ns \in Namespaces |-> IF ns \in scope THEN 0 ELSE count[ns]]

Next ==
    \/ \E ns \in Namespaces : Number(ns) \/ Record(ns)
    \/ \E ns \in Namespaces : \E i \in 1..Len(held[ns]) : Complete(ns, i)
    \/ \E ns \in Namespaces : Drop({ns})
    \/ Drop(Namespaces)

Spec == Init /\ [][Next]_vars
=============================================================================
