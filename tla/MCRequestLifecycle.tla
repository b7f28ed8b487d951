------------------------ MODULE MCRequestLifecycle ------------------------
(***************************************************************************)
(* Attempts that declare a kind, explicitly or by a field that implies it, *)
(* and at most two modifiers; entries with turns of different lengths.     *)
(***************************************************************************)
EXTENDS RequestLifecycle

Modified(S) ==
    S \cup {[a EXCEPT !.delay = TRUE] : a \in S}
      \cup {[a EXCEPT !.hang = TRUE] : a \in S}
      \cup {[a EXCEPT !.body = TRUE] : a \in S}
      \cup {[a EXCEPT !.reset = TRUE] : a \in S}
      \cup {[a EXCEPT !.accepted = TRUE] : a \in S}
      \cup {[a EXCEPT !.status = s] : a \in S, s \in {200, 204, 429}}
      \cup {[a EXCEPT !.cut = n] : a \in S, n \in {1, BodyLen}}
      \cup {[a EXCEPT !.after = n] : a \in S, n \in 1..2}

MCAttempts ==
    LET kinds == {[Bare EXCEPT !.kind = k, !.pad = IF k = "oversized_body" THEN p ELSE 0] :
                      k \in Kinds, p \in {1, BodyLen + 2}}
                     \cup {[Bare EXCEPT !.raw = TRUE], [Bare EXCEPT !.ctype = TRUE],
                           [Bare EXCEPT !.pad = 1], NoAttempt}
    IN  {a \in Modified(Modified(kinds)) : a.repeat = 0 \/ a = NoAttempt}

\* A streaming entry whose second turn is shorter, one whose renderer counts
\* its own chunks, and an entry that answers JSON.
MCEntries ==
    {<<[policy |-> "stream", deltas |-> 2, chunks |-> 0], [policy |-> "", deltas |-> 1, chunks |-> 0]>>,
     <<[policy |-> "", deltas |-> 1, chunks |-> 3]>>,
     <<[policy |-> "warn", deltas |-> 0, chunks |-> 0]>>}
=============================================================================
