--------------------------- MODULE OperatorLemmas ---------------------------
(***************************************************************************)
(* What the operators without constants return, which the proofs about     *)
(* every component use: Min and Max, the enumeration of Ordered, what      *)
(* appending, joining and taking apart do to a sequence of anything, and   *)
(* the turn a poll script answers with.                                    *)
(***************************************************************************)
EXTENDS Ordered, TurnSelection, FiniteSetTheorems, SequenceTheorems, WellFoundedInduction, TLAPS

\* A nonempty set of naturals has the minimum that Min chooses.
LEMMA MinInSet ==
    ASSUME NEW S, S \subseteq Nat, S # {}
    PROVE  Min(S) \in S /\ \A y \in S : Min(S) <= y
<1>1. PICK x \in S : \A y \in S : ~ (<<y, x>> \in OpToRel(<, Nat))
  BY NatLessThanWellFounded, WFMin
<1>2. \A y \in S : x <= y
  <2> TAKE y \in S
  <2>1. ~ (y < x)
    BY <1>1 DEF OpToRel
  <2> QED
    BY <2>1
<1> QED
  BY <1>2 DEF Min

\* Two sets of naturals that agree up to a member of both have one minimum.
LEMMA MinAgrees ==
    ASSUME NEW S, S \subseteq Nat, NEW T, T \subseteq Nat, NEW m \in S, m \in T,
           \A y \in Nat : y <= m => (y \in S <=> y \in T)
    PROVE  Min(S) = Min(T)
<1>1. Min(S) \in S /\ (\A y \in S : Min(S) <= y) /\ Min(T) \in T /\ (\A y \in T : Min(T) <= y)
  BY MinInSet
<1>2. Min(S) <= m /\ Min(T) <= m /\ Min(S) \in Nat /\ Min(T) \in Nat
  BY <1>1
<1>3. Min(S) \in T /\ Min(T) \in S
  BY <1>1, <1>2
<1>4. Min(S) <= Min(T) /\ Min(T) <= Min(S)
  BY <1>1, <1>3
<1> QED
  BY <1>2, <1>4

\* A nonempty bounded set of naturals has the maximum that Max chooses.
LEMMA MaxInSet ==
    ASSUME NEW n \in Nat, NEW S, S \subseteq 1..n, S # {}
    PROVE  Max(S) \in S
<1> DEFINE R == {n - x : x \in S}
<1>1. R \subseteq Nat /\ R # {}
  <2>1. ASSUME NEW x \in S PROVE n - x \in Nat /\ n - x \in R
    <3>1. x \in 1..n
      OBVIOUS
    <3>2. n - x \in Nat
      BY <3>1
    <3> QED
      BY <3>2
  <2>2. PICK x \in S : TRUE
    OBVIOUS
  <2>3. R # {}
    BY <2>1, <2>2
  <2>4. R \subseteq Nat
    BY <2>1
  <2> QED
    BY <2>3, <2>4
<1>2. Min(R) \in R /\ \A y \in R : Min(R) <= y
  BY <1>1, MinInSet
<1>3. PICK x \in S : Min(R) = n - x
  BY <1>2
<1>4. \A y \in S : x >= y
  <2> TAKE y \in S
  <2>1. n - y \in R
    OBVIOUS
  <2>2. n - x <= n - y
    BY <2>1, <1>2, <1>3
  <2> QED
    BY <2>2
<1> QED
  BY <1>4 DEF Max

-----------------------------------------------------------------------------
(* A set in order *)

\* Ascending lists each member of a finite set of integers once, ascending.
LEMMA AscendingSorts ==
    ASSUME NEW S, S \subseteq Int, IsFiniteSet(S)
    PROVE  /\ Cardinality(S) \in Nat
           /\ Ascending(S) \in [1..Cardinality(S) -> S]
           /\ \A i, j \in 1..Cardinality(S) : i < j => Ascending(S)[i] < Ascending(S)[j]
           /\ \A n \in S : \E i \in 1..Cardinality(S) : Ascending(S)[i] = n
<1> DEFINE UpTo(n) == {m \in S : m <= n}
           rank == [n \in S |-> Cardinality(UpTo(n))]
<1>0. \A k \in S : k \in Int
  OBVIOUS
<1>1. Cardinality(S) \in Nat
  BY FS_CardinalityType
<1>2. ASSUME NEW n \in S PROVE rank[n] \in 1..Cardinality(S)
  <2>1. /\ UpTo(n) \subseteq S /\ n \in UpTo(n)
    OBVIOUS
  <2>2. /\ IsFiniteSet(UpTo(n)) /\ Cardinality(UpTo(n)) \in Nat
        /\ Cardinality(UpTo(n)) <= Cardinality(S)
    BY <2>1, FS_Subset, FS_CardinalityType
  <2>3. Cardinality(UpTo(n)) # 0
    BY <2>1, <2>2, FS_EmptySet
  <2> QED
    BY <1>1, <2>2, <2>3
<1>3. ASSUME NEW m \in S, NEW n \in S, m < n PROVE rank[m] < rank[n]
  <2>0. m \in Int /\ n \in Int /\ ~ (n <= m) /\ n <= n
    BY <1>0, <1>3
  <2>a. ASSUME NEW k \in S, k <= m PROVE k <= n
    BY <1>0, <1>3, <2>0, <2>a
  <2>b. UpTo(m) \subseteq UpTo(n)
    BY <2>a
  <2>1. /\ UpTo(m) \subseteq UpTo(n) /\ UpTo(n) \subseteq S /\ n \in UpTo(n) /\ n \notin UpTo(m)
    BY <2>0, <2>b
  <2>2. IsFiniteSet(UpTo(n))
    BY <2>1, FS_Subset
  <2>3. Cardinality(UpTo(m)) <= Cardinality(UpTo(n)) /\ Cardinality(UpTo(m)) # Cardinality(UpTo(n))
    BY <2>1, <2>2, FS_Subset
  <2> QED
    BY <1>2, <2>3
<1>4. rank \in Injection(S, 1..Cardinality(S))
  <2>1. rank \in [S -> 1..Cardinality(S)]
    BY <1>2
  <2>2. ASSUME NEW m \in S, NEW n \in S, rank[m] = rank[n] PROVE m = n
    <3>1. rank[m] \in Int /\ rank[n] \in Int
      BY <1>2
    <3> HIDE DEF rank
    <3>2. ~ (m < n) /\ ~ (n < m)
      BY <1>3, <2>2, <3>1
    <3> QED
      BY <3>2
  <2> QED
    BY <2>1, <2>2 DEF Injection, IsInjective
<1>5. IsFiniteSet(1..Cardinality(S)) /\ Cardinality(1..Cardinality(S)) = Cardinality(S)
  BY <1>1, FS_Interval
<1>6. rank \in Surjection(S, 1..Cardinality(S))
  BY <1>4, <1>5, FS_Injection
<1>7. ASSUME NEW i \in 1..Cardinality(S)
      PROVE  Ascending(S)[i] \in S /\ rank[Ascending(S)[i]] = i
  <2>1. \E n \in S : rank[n] = i
    BY <1>6 DEF Surjection
  <2>2. \E n \in S : Cardinality({m \in S : m <= n}) = i
    BY <2>1
  <2>3. Ascending(S)[i] = CHOOSE n \in S : Cardinality({m \in S : m <= n}) = i
    BY DEF Ascending
  <2>4. Ascending(S)[i] \in S /\ Cardinality({m \in S : m <= Ascending(S)[i]}) = i
    BY <2>2, <2>3
  <2> QED
    BY <2>4
<1>8. Ascending(S) \in [1..Cardinality(S) -> S]
  BY <1>7 DEF Ascending
<1>9. ASSUME NEW i \in 1..Cardinality(S), NEW j \in 1..Cardinality(S), i < j
      PROVE  Ascending(S)[i] < Ascending(S)[j]
  <2>1. /\ Ascending(S)[i] \in S /\ rank[Ascending(S)[i]] = i
        /\ Ascending(S)[j] \in S /\ rank[Ascending(S)[j]] = j
    BY <1>7
  <2> HIDE DEF rank
  <2>i. i \in Int /\ j \in Int
    BY <1>1
  <2>2. Ascending(S)[i] \in Int /\ Ascending(S)[j] \in Int /\ i \in Int /\ j \in Int
    BY <1>0, <2>1, <2>i, Zenon
  <2>3. ASSUME Ascending(S)[j] < Ascending(S)[i] PROVE FALSE
    <3>1. rank[Ascending(S)[j]] < rank[Ascending(S)[i]]
      BY <1>3, <2>1, <2>3
    <3> QED
      BY <1>9, <2>1, <2>2, <3>1
  <2>4. Ascending(S)[j] # Ascending(S)[i]
    BY <1>9, <2>1, <2>2
  <2> QED
    BY <2>2, <2>3, <2>4
<1>10. ASSUME NEW n \in S PROVE Ascending(S)[rank[n]] = n
  <2>1. /\ rank[n] \in 1..Cardinality(S)
        /\ Ascending(S)[rank[n]] \in S /\ rank[Ascending(S)[rank[n]]] = rank[n]
    BY <1>2, <1>7
  <2> HIDE DEF rank
  <2>i. rank[n] \in Int
    BY <1>1, <2>1
  <2>2. Ascending(S)[rank[n]] \in Int /\ n \in Int /\ rank[n] \in Int
    BY <1>0, <2>1, <2>i, Zenon
  <2>3. ASSUME Ascending(S)[rank[n]] < n PROVE FALSE
    BY <1>3, <2>1, <2>2, <2>3
  <2>4. ASSUME n < Ascending(S)[rank[n]] PROVE FALSE
    BY <1>3, <2>1, <2>2, <2>4
  <2> QED
    BY <2>2, <2>3, <2>4
<1> QED
  BY <1>1, <1>2, <1>8, <1>9, <1>10

-----------------------------------------------------------------------------
(* Sequences of anything *)

\* A function on an initial segment of the positive naturals is a sequence.
LEMMA RowIsSeq ==
    ASSUME NEW n \in Nat, NEW s, s = [i \in 1..n |-> s[i]]
    PROVE  IsSeq(s) /\ Len(s) = n /\ DOMAIN s = 1..n
<1>1. DOMAIN s = 1..n
  OBVIOUS
<1>2. s \in [1..n -> Range(s)]
  BY <1>1 DEF Range
<1>3. s \in Seq(Range(s))
  BY <1>2, SeqDef
<1> QED
  BY <1>1, <1>3 DEF IsSeq

\* A sequence over any set is one.
LEMMA OfSetIsSeq ==
    ASSUME NEW S, NEW s \in Seq(S)
    PROVE  IsSeq(s)
<1>1. s = [i \in 1..Len(s) |-> s[i]] /\ Len(s) \in Nat
  OBVIOUS
<1> QED
  BY <1>1, RowIsSeq

\* One element alone is a sequence.
LEMMA OneIsSeq ==
    ASSUME NEW e
    PROVE  IsSeq(<<e>>) /\ Len(<<e>>) = 1 /\ <<e>>[1] = e
<1>1. <<e>> \in Seq({e})
  OBVIOUS
<1> QED
  BY <1>1, OfSetIsSeq

\* Every sequence is such a function.
LEMMA SeqIsRow ==
    ASSUME NEW s, IsSeq(s)
    PROVE  Len(s) \in Nat /\ s = [i \in 1..Len(s) |-> s[i]]
BY DEF IsSeq

\* An element appended comes last and leaves the others where they were.
LEMMA AppendIsSeq ==
    ASSUME NEW s, IsSeq(s), NEW e
    PROVE  /\ IsSeq(Append(s, e)) /\ Len(Append(s, e)) = Len(s) + 1
           /\ \A i \in 1..Len(s) : Append(s, e)[i] = s[i]
           /\ Append(s, e)[Len(s) + 1] = e
<1> DEFINE S == Range(s) \cup {e}
<1>1. s \in Seq(S) /\ e \in S
  <2>1. s \in Seq(Range(s)) /\ Range(s) \subseteq S
    BY DEF IsSeq
  <2> HIDE DEF S
  <2> QED
    BY <2>1 DEF S
<1> HIDE DEF S
<1>2. /\ Append(s, e) \in Seq(S) /\ Len(Append(s, e)) = Len(s) + 1 /\ Len(s) \in Nat
      /\ \A i \in 1..Len(s) : Append(s, e)[i] = s[i]
      /\ Append(s, e)[Len(s) + 1] = e
  BY <1>1
<1> QED
  BY <1>2, OfSetIsSeq

\* Two sequences joined: the first where it was, the second behind it.
LEMMA JoinIsSeq ==
    ASSUME NEW s, IsSeq(s), NEW t, IsSeq(t)
    PROVE  /\ IsSeq(s \o t) /\ Len(s \o t) = Len(s) + Len(t)
           /\ \A i \in 1..Len(s) : (s \o t)[i] = s[i]
           /\ \A i \in 1..Len(t) : (s \o t)[Len(s) + i] = t[i]
<1> DEFINE S == Range(s) \cup Range(t)
<1>1. s \in Seq(S) /\ t \in Seq(S)
  <2>1. s \in Seq(Range(s)) /\ Range(s) \subseteq S /\ t \in Seq(Range(t)) /\ Range(t) \subseteq S
    BY DEF IsSeq
  <2> HIDE DEF S
  <2> QED
    BY <2>1
<1> HIDE DEF S
<1>2. /\ s \o t \in Seq(S) /\ Len(s \o t) = Len(s) + Len(t) /\ Len(s) \in Nat /\ Len(t) \in Nat
      /\ \A i \in 1..Len(s) : (s \o t)[i] = s[i]
      /\ \A i \in 1..Len(t) : (s \o t)[Len(s) + i] = t[i]
  BY <1>1
<1> QED
  BY <1>2, OfSetIsSeq

\* A part of a sequence is one, of the same elements shifted.
LEMMA SubIsSeq ==
    ASSUME NEW s, IsSeq(s), NEW m \in 1..Len(s) + 1, NEW n \in 0..Len(s), m <= n + 1
    PROVE  /\ IsSeq(SubSeq(s, m, n)) /\ Len(SubSeq(s, m, n)) = n - m + 1
           /\ \A i \in 1..(n - m + 1) : SubSeq(s, m, n)[i] = s[m + i - 1]
<1>1. s \in Seq(Range(s)) /\ Len(s) \in Nat
  BY DEF IsSeq
<1>2. /\ Len(SubSeq(s, m, n)) = n - m + 1 /\ n - m + 1 \in Nat
      /\ \A i \in 1..(n - m + 1) : SubSeq(s, m, n)[i] = s[m + i - 1]
      /\ SubSeq(s, m, n) \in Seq(Range(s))
  BY <1>1
<1> QED
  BY <1>2, OfSetIsSeq

\* What is kept of a sequence is one, as long as the positions are many.
LEMMA KeptIsSeq ==
    ASSUME NEW s, IsSeq(s), NEW positions, positions \subseteq 1..Len(s)
    PROVE  /\ IsFiniteSet(positions) /\ Cardinality(positions) \in Nat
           /\ IsSeq(Kept(s, positions)) /\ Len(Kept(s, positions)) = Cardinality(positions)
<1>1. Len(s) \in Nat
  BY SeqIsRow
<1>2. IsFiniteSet(positions) /\ Cardinality(positions) \in Nat
  <2>1. IsFiniteSet(1..Len(s))
    BY <1>1, FS_Interval
  <2> QED
    BY <2>1, FS_Subset, FS_CardinalityType
<1>3. Kept(s, positions) = [i \in 1..Cardinality(positions) |-> Kept(s, positions)[i]]
  BY DEF Kept
<1> QED
  BY <1>2, <1>3, RowIsSeq

\* Element i of what is kept is an element of s at one of the positions.
FromPosition(s, positions, i) == \E j \in positions : Kept(s, positions)[i] = s[j]

\* What is kept of a sequence is an element at one of the positions.
LEMMA KeptMembers ==
    ASSUME NEW s, IsSeq(s), NEW positions, positions \subseteq 1..Len(s),
           NEW i \in 1..Cardinality(positions)
    PROVE  FromPosition(s, positions, i)
<1>1. Len(s) \in Nat
  BY SeqIsRow
<1>2. IsFiniteSet(positions) /\ positions \subseteq Int
  <2>1. positions \subseteq Int
    BY <1>1
  <2>2. IsFiniteSet(positions)
    BY KeptIsSeq
  <2> QED
    BY <2>1, <2>2
<1>3. Ascending(positions) \in [1..Cardinality(positions) -> positions]
  BY <1>2, AscendingSorts
<1>4. Ascending(positions)[i] \in positions
  BY <1>3
<1>5. Kept(s, positions)[i] = s[Ascending(positions)[i]]
  BY DEF Kept
<1> QED
  BY <1>4, <1>5 DEF FromPosition

\* The positions, among some, where an element is.
PlacesOf(u, s, positions) == {p \in positions : s[p] = u}

\* An element is kept as often as it is at one of the positions.
LEMMA KeptCounts ==
    ASSUME NEW s, IsSeq(s), NEW positions, positions \subseteq 1..Len(s), NEW u
    PROVE  Times(u, Kept(s, positions)) = Cardinality(PlacesOf(u, s, positions))
<1> DEFINE c == Cardinality(positions)
           f == Ascending(positions)
           A == {i \in 1..c : Kept(s, positions)[i] = u}
           B == {p \in positions : s[p] = u}
           g == [i \in A |-> f[i]]
<1>1. /\ Len(s) \in Nat /\ c \in Nat /\ IsFiniteSet(positions) /\ positions \subseteq Int
      /\ Len(Kept(s, positions)) = c
  BY SeqIsRow, KeptIsSeq
<1>2. /\ f \in [1..c -> positions]
      /\ \A i, j \in 1..c : i < j => f[i] < f[j]
      /\ \A p \in positions : \E i \in 1..c : f[i] = p
  BY <1>1, AscendingSorts
<1>3. \A i \in 1..c : Kept(s, positions)[i] = s[f[i]]
  BY DEF Kept
<1> HIDE DEF c, f
<1>4. g \in [A -> B]
  BY <1>2, <1>3
<1>5. ASSUME NEW i \in A, NEW j \in A, g[i] = g[j] PROVE i = j
  <2>1. f[i] = f[j] /\ i \in 1..c /\ j \in 1..c /\ f[i] \in Int
    BY <1>1, <1>2, <1>5
  <2>2. ~ (i < j) /\ ~ (j < i)
    BY <1>1, <1>2, <2>1
  <2> QED
    BY <1>1, <2>1, <2>2
<1>6. ASSUME NEW p \in B PROVE \E i \in A : g[i] = p
  <2>1. PICK i \in 1..c : f[i] = p
    BY <1>2
  <2>2. i \in A
    BY <1>3, <2>1
  <2> QED
    BY <2>1, <2>2
<1>7. IsFiniteSet(A)
  <2>1. IsFiniteSet(1..c)
    BY <1>1, FS_Interval
  <2> QED
    BY <2>1, FS_Subset
<1> HIDE DEF g
<1>8. ExistsBijection(A, B)
  <2>1. g \in Injection(A, B)
    BY <1>4, <1>5 DEF Injection, IsInjective
  <2>2. g \in Surjection(A, B)
    BY <1>4, <1>6 DEF Surjection
  <2> QED
    BY <2>1, <2>2 DEF ExistsBijection, Bijection
<1> HIDE DEF A, B
<1>9. Cardinality(B) = Cardinality(A)
  BY <1>7, <1>8, FS_Bijection
<1> QED
  BY <1>1, <1>9 DEF A, B, c, Times, PlacesOf

-----------------------------------------------------------------------------
(* The load-time check of a poll script, for scripts of every length that  *)
(* name any indices: what TerminalRegressions samples is all there is.     *)

\* selectTurn answers a turn of the script it was given, or 0.
LEMMA SelectTurnRange ==
    ASSUME NEW turns, Len(turns) \in Nat, NEW at
    PROVE  selectTurn(turns, at) \in 0..Len(turns)
<1> DEFINE matching  == {i \in 1..Len(turns) : Matches(turns[i].when, at)}
           fallbacks == {i \in 1..Len(turns) : ~ turns[i].when.set}
<1>a. matching \subseteq Nat /\ matching \subseteq 1..Len(turns)
  OBVIOUS
<1>b. fallbacks \subseteq 1..Len(turns)
  OBVIOUS
<1> HIDE DEF matching, fallbacks
<1>c. selectTurn(turns, at) = IF matching # {} THEN Min(matching)
                              ELSE IF fallbacks # {} THEN Max(fallbacks) ELSE 0
  BY DEF selectTurn, matching, fallbacks
<1>1. CASE matching # {}
  <2>1. Min(matching) \in matching
    BY <1>1, <1>a, MinInSet
  <2>2. selectTurn(turns, at) = Min(matching)
    BY <1>1, <1>c
  <2>3. selectTurn(turns, at) \in 1..Len(turns)
    BY <1>a, <2>1, <2>2
  <2> QED
    BY <2>3
<1>2. CASE matching = {} /\ fallbacks # {}
  <2>1. Max(fallbacks) \in fallbacks
    BY <1>2, <1>b, MaxInSet
  <2>2. selectTurn(turns, at) = Max(fallbacks)
    BY <1>2, <1>c
  <2>3. selectTurn(turns, at) \in 1..Len(turns)
    BY <1>b, <2>1, <2>2
  <2> QED
    BY <2>3
<1>3. CASE matching = {} /\ fallbacks = {}
  BY <1>3, <1>c
<1> QED
  BY <1>1, <1>2, <1>3

\* The indices the turns of a script name.
Named(turns) ==
    {n \in UNION {turns[i].when.callIndex : i \in {j \in 1..Len(turns) : turns[j].when.set}} :
        n >= 0}

\* The polls at which a script serves a turn of this status.
ServesAt(turns, p, status) ==
    /\ selectTurn(turns, p) # 0
    /\ turns[selectTurn(turns, p)].status = status

\* Among the positions ps, those that serve a terminal turn.
EndedAt(turns, ps) == {p \in ps : ServesAt(turns, p, "terminal")}

\* Among the positions ps, those that serve a pending turn after a terminal one.
LateAt(turns, ps) ==
    {p \in ps : ServesAt(turns, p, "pending") /\ \E q \in EndedAt(turns, ps) : q < p}

\* RegressionsAt in terms of the two sets.
LEMMA RegressionsUnfolded ==
    ASSUME NEW turns, NEW ps
    PROVE  RegressionsAt(turns, ps) =
             {[poll |-> Min({p \in LateAt(turns, ps) : selectTurn(turns, p) = t}),
               turn |-> t,
               terminalPoll |-> Min(EndedAt(turns, ps)),
               terminalTurn |-> selectTurn(turns, Min(EndedAt(turns, ps)))] :
                 t \in {selectTurn(turns, p) : p \in LateAt(turns, ps)}}
BY DEF RegressionsAt, LateAt, EndedAt, ServesAt

\* The sampled positions are polls, and hold every named index, the poll after
\* each, and the first poll.
LEMMA PositionsFacts ==
    ASSUME NEW turns, PollScript(turns)
    PROVE  /\ Positions(turns) \subseteq Nat
           /\ 0 \in Positions(turns)
           /\ Named(turns) \subseteq Positions(turns)
           /\ \A n \in Named(turns) : n + 1 \in Positions(turns)
<1>1. Positions(turns) = {0} \cup Named(turns) \cup {n + 1 : n \in Named(turns)}
  BY DEF Positions, Named
<1>2. Named(turns) \subseteq Nat
  BY DEF Named, PollScript
<1> HIDE DEF Named
<1> QED
  BY <1>1, <1>2

\* A poll that is not sampled is served what the poll before it is served: no
\* turn names either of the two.
LEMMA UnsampledRepeats ==
    ASSUME NEW turns, PollScript(turns), NEW p \in Nat, p \notin Positions(turns)
    PROVE  p - 1 \in Nat /\ selectTurn(turns, p) = selectTurn(turns, p - 1)
<1>1. p - 1 \in Nat
  <2>1. p # 0
    BY PositionsFacts
  <2> QED
    BY <2>1
<1>2. p \notin Named(turns)
  BY PositionsFacts
<1>3. p - 1 \notin Named(turns)
  <2>1. p - 1 \in Named(turns) => (p - 1) + 1 \in Positions(turns)
    BY PositionsFacts
  <2>2. (p - 1) + 1 = p
    OBVIOUS
  <2> QED
    BY <2>1, <2>2
<1>4. ASSUME NEW i \in 1..Len(turns)
      PROVE  Matches(turns[i].when, p) = Matches(turns[i].when, p - 1)
  <2>1. CASE ~ turns[i].when.set
    BY <2>1 DEF Matches
  <2>2. CASE turns[i].when.set
    <3>1. \A n \in Nat : n \in turns[i].when.callIndex => n \in Named(turns)
      BY <2>2 DEF Named
    <3>2. p \notin turns[i].when.callIndex /\ p - 1 \notin turns[i].when.callIndex
      BY <1>1, <1>2, <1>3, <3>1
    <3>3. turns[i].when.callIndex \subseteq {p} <=> turns[i].when.callIndex \subseteq {p - 1}
      BY <3>2
    <3> QED
      BY <3>3 DEF Matches
  <2> QED
    BY <2>1, <2>2
<1>5. {i \in 1..Len(turns) : Matches(turns[i].when, p)}
        = {i \in 1..Len(turns) : Matches(turns[i].when, p - 1)}
  BY <1>4
<1> QED
  BY <1>1, <1>5 DEF selectTurn

\* The poll at which anything is first so, if a poll served the same turn
\* just before would have been so too, is a sampled one.
LEMMA FirstIsSampled ==
    ASSUME NEW turns, PollScript(turns), NEW S, S \subseteq Nat, S # {},
           \A p \in S : p - 1 \in Nat /\ selectTurn(turns, p) = selectTurn(turns, p - 1)
                          => p - 1 \in S
    PROVE  Min(S) \in S \cap Positions(turns) /\ \A q \in S : Min(S) <= q
<1>1. Min(S) \in S /\ \A q \in S : Min(S) <= q
  BY MinInSet
<1>2. ASSUME Min(S) \notin Positions(turns) PROVE FALSE
  <2>1. Min(S) - 1 \in Nat /\ selectTurn(turns, Min(S)) = selectTurn(turns, Min(S) - 1)
    BY <1>1, <1>2, UnsampledRepeats
  <2>2. Min(S) - 1 \in S
    BY <1>1, <2>1
  <2>3. Min(S) \in Nat /\ Min(S) <= Min(S) - 1
    BY <1>1, <2>2
  <2> QED
    BY <2>3
<1> QED
  BY <1>1, <1>2

\* Two sets of naturals with a common least element have one minimum.
LEMMA MinUnique ==
    ASSUME NEW S, S \subseteq Nat, NEW m \in S, \A y \in S : m <= y
    PROVE  Min(S) = m
<1>1. Min(S) \in S /\ Min(S) <= m /\ m <= Min(S)
  BY MinInSet
<1>2. Min(S) \in Nat /\ m \in Nat
  BY <1>1
<1> QED
  BY <1>1, <1>2

\* "It is equivalent to walking polls 0 through the highest call_index plus
\* one, without the walk" (TerminalRegressions): the check at the sampled
\* positions reports exactly what a walk of all polls would, the same turns,
\* each at the same poll, against the same terminal poll.
THEOREM SamplingIsExact ==
    ASSUME NEW turns, PollScript(turns)
    PROVE  TerminalRegressions(turns) = RegressionsAt(turns, Nat)
<1> DEFINE ps == Positions(turns)
           endedN == EndedAt(turns, Nat)
           endedP == EndedAt(turns, ps)
           lateN == LateAt(turns, Nat)
           lateP == LateAt(turns, ps)
           AtN(t) == {p \in lateN : selectTurn(turns, p) = t}
           AtP(t) == {p \in lateP : selectTurn(turns, p) = t}
<1>1. ps \subseteq Nat
  BY PositionsFacts
<1>2. endedP = endedN \cap ps
  BY <1>1 DEF EndedAt
<1>3. ASSUME endedN # {}
      PROVE  Min(endedN) \in endedP /\ \A q \in endedN : Min(endedN) <= q
  <2>1. endedN \subseteq Nat
    BY DEF EndedAt
  <2>2. \A p \in endedN : p - 1 \in Nat /\ selectTurn(turns, p) = selectTurn(turns, p - 1)
                            => p - 1 \in endedN
    BY DEF EndedAt, ServesAt
  <2> HIDE DEF endedN
  <2>3. Min(endedN) \in endedN \cap ps /\ \A q \in endedN : Min(endedN) <= q
    BY <1>3, <2>1, <2>2, FirstIsSampled
  <2> QED
    BY <1>2, <2>3
<1>4. lateP = lateN \cap ps
  <2>1. lateP \subseteq lateN
    BY <1>1, <1>2 DEF LateAt
  <2>2. ASSUME NEW p \in lateN, p \in ps PROVE p \in lateP
    <3>1. PICK q \in endedN : q < p
      BY DEF LateAt
    <3>2. Min(endedN) \in endedP /\ Min(endedN) <= q
      BY <1>3, <3>1
    <3>3. Min(endedN) \in Nat /\ q \in Nat /\ p \in Nat
      BY <1>1, <2>2, <3>2, <1>2 DEF EndedAt
    <3>4. Min(endedN) < p
      BY <3>1, <3>2, <3>3
    <3> QED
      BY <2>2, <3>2, <3>4 DEF LateAt
  <2>3. lateP \subseteq ps
    BY DEF LateAt
  <2> QED
    BY <2>1, <2>2, <2>3
<1>5. ASSUME NEW t, AtN(t) # {}
      PROVE  /\ Min(AtN(t)) \in AtP(t)
             /\ \A q \in AtN(t) : Min(AtN(t)) <= q
             /\ Min(AtP(t)) = Min(AtN(t))
  <2> DEFINE S == AtN(t)
  <2>1. S \subseteq Nat
    BY DEF LateAt
  <2>2. ASSUME NEW p \in S, p - 1 \in Nat, selectTurn(turns, p) = selectTurn(turns, p - 1)
        PROVE  p - 1 \in S
    <3>1. PICK q \in endedN : q < p
      BY DEF LateAt
    <3>2. ServesAt(turns, p - 1, "pending")
      BY <2>2 DEF LateAt, ServesAt
    <3>3. q # p - 1
      BY <3>1, <3>2 DEF EndedAt, ServesAt
    <3>4. q < p - 1
      BY <2>1, <2>2, <3>1, <3>3 DEF EndedAt
    <3> QED
      BY <2>2, <3>1, <3>2, <3>4 DEF LateAt
  <2>3. S # {}
    BY <1>5
  <2> HIDE DEF S
  <2>4. Min(S) \in S \cap ps /\ \A q \in S : Min(S) <= q
    BY <2>1, <2>2, <2>3, FirstIsSampled
  <2>5. AtP(t) = S \cap ps
    BY <1>4 DEF S
  <2> HIDE DEF ps, AtP
  <2>6. Min(AtP(t)) = Min(S)
    <3>1. AtP(t) \subseteq Nat /\ Min(S) \in AtP(t) /\ \A y \in AtP(t) : Min(S) <= y
      BY <2>1, <2>4, <2>5
    <3> QED
      BY <3>1, MinUnique
  <2> QED
    BY <2>4, <2>5, <2>6 DEF S
<1>6. lateN # {} => Min(endedP) = Min(endedN)
  <2> SUFFICES ASSUME lateN # {} PROVE Min(endedP) = Min(endedN)
    OBVIOUS
  <2>1. endedN # {}
    BY DEF LateAt
  <2>2. endedP \subseteq Nat /\ \A q \in endedP : Min(endedN) <= q
    BY <1>2, <1>3, <2>1 DEF EndedAt
  <2> QED
    BY <1>3, <2>1, <2>2, MinUnique
<1>7. {selectTurn(turns, p) : p \in lateP} = {selectTurn(turns, p) : p \in lateN}
  <2>1. ASSUME NEW p \in lateN
        PROVE  \E q \in lateP : selectTurn(turns, q) = selectTurn(turns, p)
    <3>1. AtN(selectTurn(turns, p)) # {}
      OBVIOUS
    <3>2. Min(AtN(selectTurn(turns, p))) \in AtP(selectTurn(turns, p))
      BY <1>5, <3>1
    <3> QED
      BY <3>2
  <2> QED
    BY <1>4, <2>1
<1>8. \A t \in {selectTurn(turns, p) : p \in lateN} :
         Min(AtP(t)) = Min(AtN(t)) /\ Min(endedP) = Min(endedN)
  <2> TAKE t \in {selectTurn(turns, p) : p \in lateN}
  <2>1. AtN(t) # {} /\ lateN # {}
    OBVIOUS
  <2> QED
    BY <1>5, <1>6, <2>1
<1>9. TerminalRegressions(turns) =
        {[poll |-> Min(AtP(t)), turn |-> t, terminalPoll |-> Min(endedP),
          terminalTurn |-> selectTurn(turns, Min(endedP))] :
            t \in {selectTurn(turns, p) : p \in lateP}}
  BY RegressionsUnfolded DEF TerminalRegressions
<1>10. RegressionsAt(turns, Nat) =
        {[poll |-> Min(AtN(t)), turn |-> t, terminalPoll |-> Min(endedN),
          terminalTurn |-> selectTurn(turns, Min(endedN))] :
            t \in {selectTurn(turns, p) : p \in lateN}}
  BY RegressionsUnfolded
<1> HIDE DEF AtP, AtN, endedP, endedN, lateP, lateN
<1> QED
  BY <1>7, <1>8, <1>9, <1>10

\* A script that loads absorbs: after a terminal snapshot, whatever polls were
\* sampled, every poll the script answers is terminal.
THEOREM LoadedScriptAbsorbs ==
    ASSUME NEW turns, ScriptLoads(turns), NEW p \in Nat, NEW q \in Nat, p < q,
           ServesAt(turns, p, "terminal"), selectTurn(turns, q) # 0
    PROVE  ServesAt(turns, q, "terminal")
<1>1. LateAt(turns, Nat) = {}
  <2>1. RegressionsAt(turns, Nat) = {}
    BY SamplingIsExact DEF ScriptLoads
  <2> DEFINE Found(t) == [poll |-> Min({r \in LateAt(turns, Nat) : selectTurn(turns, r) = t}),
                          turn |-> t,
                          terminalPoll |-> Min(EndedAt(turns, Nat)),
                          terminalTurn |-> selectTurn(turns, Min(EndedAt(turns, Nat)))]
  <2>2. RegressionsAt(turns, Nat) =
          {Found(t) : t \in {selectTurn(turns, r) : r \in LateAt(turns, Nat)}}
    BY RegressionsUnfolded
  <2> HIDE DEF Found
  <2> QED
    BY <2>1, <2>2
<1>2. p \in EndedAt(turns, Nat)
  BY DEF EndedAt
<1>3. ~ ServesAt(turns, q, "pending")
  BY <1>1, <1>2 DEF LateAt
<1>4. selectTurn(turns, q) \in 1..Len(turns)
  BY SelectTurnRange DEF ScriptLoads, PollScript
<1> QED
  BY <1>3, <1>4 DEF ServesAt, ScriptLoads, Statuses
=============================================================================
