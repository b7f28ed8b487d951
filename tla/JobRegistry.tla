---------------------------- MODULE JobRegistry ----------------------------
(***************************************************************************)
(* The in-memory job store of internal/jobs: one namespace's records as a  *)
(* function from identifiers to jobs, and each method of the store as an   *)
(* operator on it.  The Go Registry runs every method under one mutex, so  *)
(* a caller applies one of these operators in one step.                    *)
(*                                                                         *)
(* A record keeps what the lifecycle reads: the entry its create was       *)
(* served from, the polls recorded on it and the cancel, with the poll     *)
(* position it was recorded at.                                            *)
(***************************************************************************)
EXTENDS Integers, FiniteSets

CONSTANTS
    Entries,    \* scenario entries a create can be served from
    MaxJobs,    \* Limits.MaxJobs, per namespace
    MaxCalls    \* model bound: calls claimed per lane between resets

ASSUME RegistryAssumption ==
    /\ MaxJobs \in Nat \ {0}
    /\ MaxCalls \in Nat \ {0}
    /\ Entries # {}

\* A job identifier is derived from the create lane and the claimed index,
\* never from the namespace: two namespaces mint the same identifiers.
JobID(entry, index) == <<entry, index>>
JobIDs == {JobID(e, i) : e \in Entries, i \in 0..(MaxCalls - 1)}

Job == [live : BOOLEAN, entry : Entries, polls : Nat,
        cancelRequested : BOOLEAN, cancelAtPoll : Nat]

\* The record a miss returns: the zero Job, live = FALSE standing for `ok`.
NoJob == [live |-> FALSE, entry |-> CHOOSE e \in Entries : TRUE, polls |-> 0,
          cancelRequested |-> FALSE, cancelAtPoll |-> 0]

EmptyStore == [id \in JobIDs |-> NoJob]

Live(store) == {id \in JobIDs : store[id].live}

\* Stats.Full: the bound refuses a create, it never evicts.
Full(store) == Cardinality(Live(store)) >= MaxJobs

\* Mutant of CreateResult: the bound is not enforced.
BugCreateResult(store, id) == IF store[id].live THEN "duplicate" ELSE "created"

\* Create.  A duplicate is reported before the bound, and a new record starts
\* with its lifecycle fields zeroed whatever the caller passed.
CreateResult(store, id) ==
    IF store[id].live THEN "duplicate"
    ELSE IF Full(store) THEN "limit"
    ELSE "created"

Create(store, id, entry) ==
    IF CreateResult(store, id) = "created"
    THEN [store EXCEPT ![id] = [NoJob EXCEPT !.live = TRUE, !.entry = entry]]
    ELSE store

\* Mutants of Advance: the index recorded instead of the count, and the last
\* index to arrive winning over a higher one.
BugAdvanceOffByOne(store, id, i) ==
    IF store[id].live /\ store[id].polls < i THEN [store EXCEPT ![id].polls = i] ELSE store
BugAdvanceLastWins(store, id, i) ==
    IF store[id].live THEN [store EXCEPT ![id].polls = i + 1] ELSE store

\* Advance: raise the recorded poll count to cover the claimed index i.
\* Indices may arrive out of order, so the count only ever rises.
Advance(store, id, i) ==
    IF store[id].live /\ store[id].polls < i + 1
    THEN [store EXCEPT ![id].polls = i + 1]
    ELSE store

\* Mutants of MarkResult: no check of the position, and a check that takes the
\* position judged for one that has moved.
BugMarkResultUnchecked(store, id, atPoll) ==
    CASE ~ store[id].live -> "not_found"
      [] store[id].live /\ store[id].cancelRequested -> "already_marked"
      [] OTHER -> "marked"
BugMarkResultOffByOne(store, id, atPoll) ==
    CASE ~ store[id].live -> "not_found"
      [] store[id].live /\ store[id].cancelRequested -> "already_marked"
      [] store[id].live /\ ~ store[id].cancelRequested /\ store[id].polls # atPoll + 1
            -> "position_moved"
      [] OTHER -> "marked"

\* MarkCancel: a compare-and-set on the poll position, decided in this order.
MarkResult(store, id, atPoll) ==
    CASE ~ store[id].live -> "not_found"
      [] store[id].live /\ store[id].cancelRequested -> "already_marked"
      [] store[id].live /\ ~ store[id].cancelRequested /\ store[id].polls # atPoll
            -> "position_moved"
      [] OTHER -> "marked"

\* Mutant of MarkCancel: the cancel recorded one poll too early.
BugMarkCancel(store, id, atPoll) ==
    IF MarkResult(store, id, atPoll) = "marked"
    THEN [store EXCEPT ![id].cancelRequested = TRUE, ![id].cancelAtPoll = atPoll - 1]
    ELSE store

MarkCancel(store, id, atPoll) ==
    IF MarkResult(store, id, atPoll) = "marked"
    THEN [store EXCEPT ![id].cancelRequested = TRUE, ![id].cancelAtPoll = atPoll]
    ELSE store
=============================================================================
