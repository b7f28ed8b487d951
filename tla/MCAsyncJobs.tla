---------------------------- MODULE MCAsyncJobs ----------------------------
(***************************************************************************)
(* Small instances of AsyncJobs.  The scripts cover what a selection can   *)
(* meet: several pending snapshots before a terminal one, a cancel script  *)
(* with a pending step, and an entry whose cancel script is missing.       *)
(***************************************************************************)
EXTENDS AsyncJobs, TLC

At(n) == [NoWhen EXCEPT !.set = TRUE, !.callIndex = {n}]
T(when, status) == [when |-> when, status |-> status]

PendingThenDone == <<T(At(0), "pending"), T(At(1), "pending"), T(NoWhen, "terminal")>>
StoppingThenGone == <<T(At(0), "pending"), T(NoWhen, "terminal")>>
RunsOut == <<T(At(0), "pending")>>

MCTurns == [e \in Entries |-> IF e = "sparse" THEN RunsOut ELSE PendingThenDone]
MCCancelTurns == [e \in Entries |-> IF e = "sparse" THEN <<>> ELSE StoppingThenGone]

\* A terminal snapshot within two polls, for the runs with few calls.
MCTurnsShort == [e \in Entries |-> IF e = "sparse" THEN RunsOut ELSE StoppingThenGone]

Symmetry == Permutations(Requests)
=============================================================================
