--------------------------- MODULE TurnSelection ---------------------------
(***************************************************************************)
(* How a scenario's script of turns answers one call of a lane, and the    *)
(* load-time check that a poll script's terminal snapshot is absorbing.    *)
(* Models provider/turn.go and the predicate scenario.Match.Matches.       *)
(*                                                                         *)
(* A call is described by its zero-based index in its lane.  The route of  *)
(* a lane is fixed, so a turn's route predicate either selects it          *)
(* ("this"), is absent ("any") or selects another route ("other").  Only   *)
(* bodyless calls are modelled (polls and the peeks of a cancel), so a     *)
(* body predicate never matches.                                           *)
(***************************************************************************)
EXTENDS Integers, Sequences, FiniteSetsExt

\* What a snapshot says of the job: it ends it, it does not, or it did not
\* decode (the profile cannot tell).
Statuses == {"pending", "terminal", "unknown"}

\* A When block.  set = FALSE is a turn with no `when`; callIndex is {} when
\* the block names no call_index and {n} when it names n.
Whens(indices) ==
    [set : BOOLEAN, route : {"any", "this", "other"},
     callIndex : {{}} \cup {{n} : n \in indices}, body : BOOLEAN]

NoWhen == [set |-> FALSE, route |-> "any", callIndex |-> {}, body |-> FALSE]

\* scenario.Match.Matches on a bodyless call: every axis present must match.
Matches(when, at) ==
    \/ ~ when.set
    \/ /\ when.route # "other"
       /\ when.callIndex \subseteq {at}
       /\ ~ when.body

\* selectTurn: the first match, else the last turn with no `when`, else 0 for
\* ErrNoMatchingTurn.  Turn positions count from 1 here, from 0 in the code.
selectTurn(turns, at) ==
    LET matching  == {i \in 1..Len(turns) : Matches(turns[i].when, at)}
        fallbacks == {i \in 1..Len(turns) : ~ turns[i].when.set}
    IN  IF matching # {} THEN Min(matching)
        ELSE IF fallbacks # {} THEN Max(fallbacks)
        ELSE 0

\* Mutant of Positions: without the successors, the fallback served right after
\* a scripted index is never looked at.
BugPositions(turns) ==
    {0} \cup {n \in UNION {turns[i].when.callIndex : i \in 1..Len(turns)} : n >= 0}

\* The poll positions TerminalRegressions evaluates.
Positions(turns) ==
    LET named == {n \in UNION {turns[i].when.callIndex :
                               i \in {j \in 1..Len(turns) : turns[j].when.set}} : n >= 0}
    IN  {0} \cup named \cup {n + 1 : n \in named}

\* Every turn served non-terminal at one of the positions ps after a terminal
\* one, once each, with the first poll at which it happens.
RegressionsAt(turns, ps) ==
    LET Serves(p, status) == /\ selectTurn(turns, p) # 0
                             /\ turns[selectTurn(turns, p)].status = status
        ended == {p \in ps : Serves(p, "terminal")}
        late  == {p \in ps : Serves(p, "pending") /\ \E q \in ended : q < p}
    IN  {[poll |-> Min({p \in late : selectTurn(turns, p) = t}),
          turn |-> t,
          terminalPoll |-> Min(ended),
          terminalTurn |-> selectTurn(turns, Min(ended))] :
            t \in {selectTurn(turns, p) : p \in late}}

TerminalRegressions(turns) == RegressionsAt(turns, Positions(turns))

\* A script as the loader reads one: any number of turns, naming integers.
PollScript(turns) ==
    /\ Len(turns) \in Nat
    /\ \A i \in 1..Len(turns) : turns[i].when.callIndex \subseteq Int

\* A poll script a profile's validator lets load: every turn decoded and no
\* regression was found, each an error finding.
ScriptLoads(turns) ==
    /\ PollScript(turns)
    /\ \A i \in 1..Len(turns) : turns[i].status \in Statuses \ {"unknown"}
    /\ TerminalRegressions(turns) = {}
=============================================================================
