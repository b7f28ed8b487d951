---------------------------- MODULE ServerProofs ----------------------------
(***************************************************************************)
(* Proofs about the life of a process, for any number of profiles, any     *)
(* scenarios, and any order of signals, failing listeners, requests and    *)
(* callers of Shutdown.                                                    *)
(***************************************************************************)
EXTENDS Server, LaneLemmas

-----------------------------------------------------------------------------
(* The inductive invariant *)

Phases == {"register", "config", "load", "bind", "abort", "starting", "select", "shutdown", "exited"}
Early == {"register", "config", "load"}

Drain == [at : -1..N, errs : BOOLEAN]

Typed ==
    /\ input \in Inputs /\ phase \in Phases /\ exit \in {-1, 0, 1, 2}
    /\ bound \in 0..N
    /\ socket \in [All -> {"none", "open", "closed"}]
    /\ serve \in [All -> {"none", "spawned", "accepting", "returned"}]
    /\ inflight \in [All -> {0, 1}]
    /\ closing \subseteq All /\ cut \subseteq All /\ failed \subseteq All
    /\ ready \in BOOLEAN /\ started \in BOOLEAN /\ done \in BOOLEAN
    /\ drain \in [Callers -> Drain] /\ expired \subseteq Callers

\* What a listener's goroutine says of its socket: it is open from the bind to
\* the first of a shutdown and a failure, and no request is served without it.
SocketFollowsServe(i) ==
    /\ serve[i] = "none" <=> i > bound
    /\ serve[i] = "none" => socket[i] = "none" /\ inflight[i] = 0
    /\ serve[i] = "spawned" => socket[i] = "open" /\ inflight[i] = 0
    /\ serve[i] = "accepting" => socket[i] = IF i \in closing THEN "closed" ELSE "open"
    /\ serve[i] = "returned" => socket[i] = "closed" /\ (i \in closing \/ i \in failed)

\* A listener that is through with its requests.
Over(i) == i \in closing /\ inflight[i] = 0

\* Shutdown goes backward: what a caller has passed is over, and the admin
\* listener starts to close only when every other one is.
Backward ==
    /\ \A c \in Callers : drain[c].at >= 0 => \A i \in All : i > drain[c].at => Over(i)
    /\ 1 \in closing => \A i \in All : i # 1 => Over(i)

\* Where Run is and what may have happened by then.
RunsInOrder ==
    /\ exit = -1 <=> phase # "exited"
    /\ ready => phase \in {"starting", "select"}
    /\ phase \in Early => bound = 0 /\ cut = {} /\ drain["elsewhere"].at = -1
    /\ phase \in {"shutdown", "exited"} \/ drain["run"] = [at |-> -1, errs |-> FALSE]
    /\ phase = "shutdown" => drain["run"].at >= 0
    /\ phase = "abort" => \A i \in All : Over(i)
    /\ phase = "exited" => \A i \in All : serve[i] \in {"none", "returned"} /\ inflight[i] = 0
    /\ cut # {} => \/ drain["elsewhere"].errs
                   \/ phase = "abort"
                   \/ phase = "exited" /\ exit = 1
                   \/ phase = "shutdown" /\ drain["run"].errs

Settled == Typed /\ (\A i \in All : SocketFollowsServe(i)) /\ Backward /\ RunsInOrder

-----------------------------------------------------------------------------
(* Facts about the listeners *)

\* The enabled profiles, by their place in the registration.
On == {i \in 1..Len(Profs) : Profs[i].name \in Enabled}

\* There is always the admin listener, and it is the first.
LEMMA Listeners ==
    ASSUME input \in Inputs
    PROVE  /\ N \in Nat /\ N >= 1 /\ 1 \in All
           /\ IsFiniteSet(On) /\ N = Cardinality(On) + 1
           /\ \A i \in 1..Cardinality(On) : Surfaces[i + 1] = Profs[Ascending(On)[i]].name
<1> DEFINE row == [i \in 1..Cardinality(On) |-> Profs[Ascending(On)[i]].name]
<1>1. Cardinality(On) \in Nat /\ IsFiniteSet(On)
  <2>1. IsSeq(Profs) /\ On \subseteq 1..Len(Profs)
    BY InputsAssumption DEF Profs, On
  <2> QED
    BY <2>1, KeptIsSeq
<1>2. Surfaces = <<"admin">> \o row
  BY DEF Surfaces, newSurfaces, On, Profs, Enabled, Setting, Given
<1>3. IsSeq(row) /\ Len(row) = Cardinality(On)
  BY <1>1, RowIsSeq
<1>4. IsSeq(<<"admin">>) /\ Len(<<"admin">>) = 1
  BY OneIsSeq
<1>5. \A i \in 1..Cardinality(On) : row[i] = Profs[Ascending(On)[i]].name
  OBVIOUS
<1> HIDE DEF row
<1>6. /\ Len(Surfaces) = Cardinality(On) + 1
      /\ \A i \in 1..Cardinality(On) : Surfaces[1 + i] = row[i]
  BY <1>1, <1>2, <1>3, <1>4, JoinIsSeq
<1>7. \A i \in 1..Cardinality(On) : Surfaces[i + 1] = Profs[Ascending(On)[i]].name
  BY <1>1, <1>5, <1>6
<1> QED
  BY <1>1, <1>6, <1>7 DEF N, All

\* Each listener but the admin one is an enabled profile's, and no two are of one name.
LEMMA ListenerNames ==
    ASSUME input \in Inputs, NewSet(Profs), NEW i \in All, i # 1
    PROVE  /\ Surfaces[i] \in Enabled
           /\ \E k \in 1..Len(Profs) : Surfaces[i] = Profs[k].name
           /\ \A j \in All : j # 1 /\ j # i => Surfaces[j] # Surfaces[i]
<1>1. /\ IsFiniteSet(On) /\ On \subseteq Int /\ N = Cardinality(On) + 1
      /\ On \subseteq 1..Len(Profs) /\ Cardinality(On) \in Nat
  <2>1. IsSeq(Profs)
    BY InputsAssumption DEF Profs
  <2>2. Len(Profs) \in Nat
    BY <2>1, SeqIsRow
  <2> QED
    BY <2>2, Listeners, FS_CardinalityType DEF On
<1>2. ASSUME NEW j \in All, j # 1
      PROVE  /\ j - 1 \in 1..Cardinality(On) /\ Ascending(On)[j - 1] \in On
             /\ Surfaces[j] = Profs[Ascending(On)[j - 1]].name
  <2>1. j - 1 \in 1..Cardinality(On) /\ (j - 1) + 1 = j
    BY <1>1, <1>2 DEF All
  <2>2. Surfaces[(j - 1) + 1] = Profs[Ascending(On)[j - 1]].name
    BY <2>1, Listeners
  <2>3. Ascending(On)[j - 1] \in On
    BY <1>1, <2>1, AscendingSorts
  <2> QED
    BY <2>1, <2>2, <2>3
<1>3. Ascending(On)[i - 1] \in 1..Len(Profs) /\ Profs[Ascending(On)[i - 1]].name \in Enabled
  BY <1>2 DEF On
<1>4. ASSUME NEW j \in All, j # 1, j # i PROVE Surfaces[j] # Surfaces[i]
  <2>1. Ascending(On)[j - 1] # Ascending(On)[i - 1]
    <3>1. i - 1 \in 1..Cardinality(On) /\ j - 1 \in 1..Cardinality(On) /\ i - 1 # j - 1
      BY <1>1, <1>2, <1>4 DEF All
    <3>2. Ascending(On)[i - 1] \in Int /\ Ascending(On)[j - 1] \in Int
      BY <1>1, <1>2, <1>4
    <3>3. i - 1 < j - 1 \/ j - 1 < i - 1
      BY <1>1, <3>1
    <3>4. \/ Ascending(On)[i - 1] < Ascending(On)[j - 1]
          \/ Ascending(On)[j - 1] < Ascending(On)[i - 1]
      BY <1>1, <3>1, <3>3, AscendingSorts
    <3> QED
      BY <3>2, <3>4
  <2>2. Ascending(On)[j - 1] \in 1..Len(Profs)
    BY <1>2, <1>4 DEF On
  <2> QED
    BY <1>2, <1>3, <1>4, <2>1, <2>2 DEF NewSet
<1> QED
  BY <1>2, <1>3, <1>4

\* They are fixed by what the process was started with, which never changes.
LEMMA InputStays == [Next]_vars => input' = input /\ N' = N /\ All' = All
<1> SUFFICES ASSUME [Next]_vars PROVE input' = input /\ N' = N /\ All' = All
  OBVIOUS
<1>1. input' = input
  BY DEF Next, Code, vars, loadVars, Register, Configure, LoadSource, New, Bind, Abort, BecomeReady,
     Start, Select, RunReturns, ServeStarts, ServeReturns, StopAccepting, Drained, GiveUp, Signal,
     ShutdownElsewhere, Expire, ServeFails, Accept, Answer
<1> QED
  BY <1>1 DEF N, All, Surfaces

\* What precedes the first bind touches no listener: it ends the process or goes on.
LEMMA EarlySteps ==
    ASSUME Register \/ Configure \/ LoadSource \/ New
    PROVE  /\ phase \in Early /\ input' = input
           /\ UNCHANGED <<bound, socket, serve, closing, inflight, cut, failed,
                          ready, started, done, drain, expired>>
           /\ \/ phase' = "exited" /\ exit' \in {0, 1, 2}
              \/ phase' \in Early \cup {"bind"} /\ exit' = exit
<1>1. CASE Register
  BY <1>1 DEF Register, Exit, Early, loadVars, netVars, runVars
<1>2. CASE Configure
  <2>1. phase = "config" /\ UNCHANGED <<loadVars, netVars, runVars, served>>
    BY <1>2 DEF Configure
  <2>2. CASE ~ Load(Given, Names(Profs), input.ports, Builtins)
    <3>1. phase' = "exited" /\ exit' = usageExitCode(Given)
      BY <1>2, <2>2 DEF Configure, Exit
    <3> QED
      BY <2>1, <3>1 DEF usageExitCode, Early, loadVars, netVars, runVars
  <2>3. CASE Load(Given, Names(Profs), input.ports, Builtins)
    <3>1. CASE Given.mode = "print"
      <4>1. Exit(0)
        BY <1>2, <2>3, <3>1 DEF Configure
      <4> QED
        BY <2>1, <4>1 DEF Exit, Early, loadVars, netVars, runVars
    <3>2. CASE Given.mode = "healthcheck"
      <4>1. \E code \in {0, 1} : Exit(code)
        BY <1>2, <2>3, <3>2 DEF Configure
      <4> QED
        BY <2>1, <4>1 DEF Exit, Early, loadVars, netVars, runVars
    <3>3. CASE Given.mode # "print" /\ Given.mode # "healthcheck"
      <4>1. phase' = "load" /\ UNCHANGED exit
        BY <1>2, <2>3, <3>3 DEF Configure
      <4> QED
        BY <2>1, <4>1 DEF Early, loadVars, netVars, runVars
    <3> QED
      BY <3>1, <3>2, <3>3
  <2> QED
    BY <2>2, <2>3
<1>3. CASE LoadSource
  BY <1>3 DEF LoadSource, Early, netVars, runVars
<1>4. CASE New
  BY <1>4 DEF New, Exit, Early, loadVars, netVars, runVars
<1> QED
  BY <1>1, <1>2, <1>3, <1>4

-----------------------------------------------------------------------------
(* Types *)

\* A step of the process keeps its types.
LEMMA TypedStep == Typed /\ [Next]_vars => Typed'
<1> SUFFICES ASSUME Typed, [Next]_vars PROVE Typed'
  OBVIOUS
<1>0. /\ input' = input /\ N' = N /\ All' = All /\ N \in Nat /\ All = 1..N
      /\ input \in Inputs /\ phase \in Phases /\ exit \in {-1, 0, 1, 2} /\ bound \in 0..N
      /\ socket \in [All -> {"none", "open", "closed"}]
      /\ serve \in [All -> {"none", "spawned", "accepting", "returned"}]
      /\ inflight \in [All -> {0, 1}]
      /\ closing \subseteq All /\ cut \subseteq All /\ failed \subseteq All
      /\ ready \in BOOLEAN /\ started \in BOOLEAN /\ done \in BOOLEAN
      /\ drain \in [Callers -> Drain] /\ expired \subseteq Callers
  BY Listeners, InputStays DEF Typed, All
<1>d. Drain' = Drain
  BY <1>0 DEF Drain
<1>a. ASSUME NEW c \in Callers, drain' = [drain EXCEPT ![c].at = N] PROVE drain' \in [Callers -> Drain]
  <2>1. N \in -1..N
    BY <1>0
  <2>2. [drain[c] EXCEPT !.at = N] \in Drain
    BY <1>0, <2>1 DEF Drain
  <2>3. drain' = [drain EXCEPT ![c] = [drain[c] EXCEPT !.at = N]]
    BY <1>a
  <2> QED
    BY <1>0, <2>2, <2>3
<1>c. ASSUME NEW c \in Callers, drain[c].at > 0
      PROVE  drain[c].at \in All /\ drain[c].at - 1 \in -1..N
  <2>1. drain[c].at \in -1..N
    BY <1>0 DEF Drain
  <2> QED
    BY <1>0, <1>c, <2>1
<1>1. CASE Register \/ Configure \/ LoadSource \/ New
  BY <1>0, <1>1, <1>d, EarlySteps DEF Typed, Phases, Early
<1>2. CASE Bind
  <2>1. CASE PortTaken(bound + 1)
    <3>1. /\ UNCHANGED <<input, bound, serve, failed, started, done, drain, expired, exit>>
          /\ phase' = "abort" /\ ready' = FALSE /\ closing' = All
          /\ cut' = cut \cup {i \in All : inflight[i] > 0}
          /\ socket' = [i \in All |-> IF serve[i] = "accepting" THEN "closed" ELSE socket[i]]
          /\ inflight' = [i \in All |-> 0]
      BY <1>2, <2>1 DEF Bind, forceClose, loadVars
    <3>2. socket' \in [All -> {"none", "open", "closed"}] /\ inflight' \in [All -> {0, 1}]
          /\ cut' \subseteq All
      BY <1>0, <3>1
    <3> QED
      BY <1>0, <1>d, <3>1, <3>2 DEF Typed, Phases
  <2>2. CASE ~ PortTaken(bound + 1)
    <3>1. /\ UNCHANGED <<input, phase, ready, closing, cut, inflight, failed, started, done, drain,
                        expired, exit>>
          /\ bound < N /\ bound' = bound + 1
          /\ socket' = [socket EXCEPT ![bound + 1] = "open"]
          /\ serve' = [serve EXCEPT ![bound + 1] = "spawned"]
      BY <1>2, <2>2 DEF Bind, loadVars
    <3>2. bound' \in 0..N
      BY <1>0, <3>1
    <3> QED
      BY <1>0, <1>d, <3>1, <3>2 DEF Typed
  <2> QED
    BY <2>1, <2>2
<1>3. ASSUME NEW i \in All, ServeStarts(i) PROVE Typed'
  BY <1>0, <1>3, <1>d DEF ServeStarts, Typed, loadVars, runVars
<1>4. ASSUME NEW i \in All, ServeReturns(i) PROVE Typed'
  BY <1>0, <1>4, <1>d DEF ServeReturns, Typed, loadVars, runVars
<1>5. ASSUME NEW i \in All, ServeFails(i) PROVE Typed'
  BY <1>0, <1>5, <1>d DEF ServeFails, Typed, loadVars, runVars
<1>6. CASE Abort
  BY <1>0, <1>6, <1>d DEF Abort, Exit, Typed, Phases, loadVars, netVars, runVars
<1>7. CASE BecomeReady
  BY <1>0, <1>7, <1>d DEF BecomeReady, Typed, Phases, loadVars, netVars
<1>8. CASE Start
  BY <1>0, <1>8, <1>d DEF Start, Typed, Phases, loadVars, netVars
<1>9. ASSUME NEW i \in All, Accept(i) PROVE Typed'
  BY <1>0, <1>9, <1>d DEF Accept, Typed, loadVars, runVars
<1>10. ASSUME NEW i \in All, Answer(i) PROVE Typed'
  BY <1>0, <1>10, <1>d DEF Answer, Typed, loadVars, runVars
<1>11. CASE Signal
  BY <1>0, <1>11, <1>d DEF Signal, Typed, loadVars, netVars
<1>12. CASE Select
  <2>1. drain' \in [Callers -> Drain]
    BY <1>a, <1>12 DEF Select, Callers
  <2> QED
    BY <1>0, <1>12, <1>d, <2>1 DEF Select, Typed, Phases, loadVars, netVars
<1>13. CASE ShutdownElsewhere
  <2>1. drain' \in [Callers -> Drain]
    BY <1>a, <1>13 DEF Callers, ShutdownElsewhere
  <2> QED
    BY <1>0, <1>13, <1>d, <2>1 DEF ShutdownElsewhere, Typed, loadVars, netVars
<1>14. ASSUME NEW c \in Callers, Expire(c) PROVE Typed'
  BY <1>0, <1>14, <1>d DEF Expire, Typed, loadVars, netVars
<1>15. ASSUME NEW c \in Callers, StopAccepting(c) PROVE Typed'
  BY <1>0, <1>15, <1>c, <1>d DEF StopAccepting, NextToStop, Typed, loadVars, runVars
<1>16. ASSUME NEW c \in Callers, Drained(c) PROVE Typed'
  <2>1. [drain[c] EXCEPT !.at = @ - 1] \in Drain
    <3>1. drain[c] \in Drain /\ drain[c].at - 1 \in -1..N
      BY <1>0, <1>16, <1>c DEF Drained
    <3> QED
      BY <3>1 DEF Drain
  <2>2. drain' \in [Callers -> Drain]
    BY <1>0, <1>16, <2>1 DEF Drained
  <2> QED
    BY <1>0, <1>16, <1>d, <2>2 DEF Drained, Typed, loadVars, netVars
<1>17. ASSUME NEW c \in Callers, GiveUp(c) PROVE Typed'
  <2>1. [at |-> drain[c].at - 1, errs |-> TRUE] \in Drain
    BY <1>17, <1>c DEF GiveUp, Drain
  <2>2. drain' \in [Callers -> Drain]
    BY <1>0, <1>17, <2>1 DEF GiveUp
  <2>3. inflight' \in [All -> {0, 1}] /\ cut' \subseteq All
    BY <1>0, <1>17, <1>c DEF GiveUp, NextToStop
  <2> QED
    BY <1>0, <1>17, <1>d, <2>2, <2>3 DEF GiveUp, Typed, loadVars
<1>18. CASE RunReturns
  BY <1>0, <1>18, <1>d DEF RunReturns, Exit, Typed, Phases, loadVars, netVars, runVars
<1>19. CASE UNCHANGED vars
  BY <1>0, <1>19, <1>d DEF vars, Typed
<1> QED
  BY <1>1, <1>2, <1>3, <1>4, <1>5, <1>6, <1>7, <1>8, <1>9, <1>10, <1>11, <1>12, <1>13, <1>14,
     <1>15, <1>16, <1>17, <1>18, <1>19 DEF Next, Code

-----------------------------------------------------------------------------
(* Sockets *)

\* Every listener's socket follows its goroutine through every step.
LEMMA SocketStep ==
    Typed /\ (\A i \in All : SocketFollowsServe(i)) /\ [Next]_vars
        => (\A i \in All : SocketFollowsServe(i))'
<1> SUFFICES ASSUME Typed, \A j \in All : SocketFollowsServe(j), [Next]_vars, NEW i \in All
             PROVE  SocketFollowsServe(i)'
  BY InputStays
<1>0. /\ All = 1..N /\ N \in Nat /\ bound \in 0..N /\ i \in 1..N
      /\ socket \in [All -> {"none", "open", "closed"}]
      /\ serve \in [All -> {"none", "spawned", "accepting", "returned"}]
      /\ inflight \in [All -> {0, 1}]
      /\ SocketFollowsServe(i)
  BY Listeners DEF Typed, All
<1>1. CASE Register \/ Configure \/ LoadSource \/ New
  BY <1>0, <1>1, EarlySteps DEF SocketFollowsServe
<1>2. CASE Bind
  <2>1. CASE PortTaken(bound + 1)
    BY <1>0, <1>2, <2>1 DEF Bind, forceClose, SocketFollowsServe
  <2>2. CASE ~ PortTaken(bound + 1)
    <3>1. /\ bound' = bound + 1 /\ socket' = [socket EXCEPT ![bound + 1] = "open"]
          /\ serve' = [serve EXCEPT ![bound + 1] = "spawned"] /\ bound < N
          /\ closing' = closing /\ inflight' = inflight /\ failed' = failed
      BY <1>2, <2>2 DEF Bind
    <3>2. CASE i = bound + 1
      BY <1>0, <3>1, <3>2 DEF SocketFollowsServe
    <3>3. CASE i # bound + 1
      BY <1>0, <3>1, <3>3 DEF SocketFollowsServe
    <3> QED
      BY <3>2, <3>3
  <2> QED
    BY <2>1, <2>2
<1>3. ASSUME NEW j \in All, ServeStarts(j) PROVE SocketFollowsServe(i)'
  BY <1>0, <1>3 DEF ServeStarts, SocketFollowsServe
<1>4. ASSUME NEW j \in All, ServeReturns(j) PROVE SocketFollowsServe(i)'
  BY <1>0, <1>4 DEF ServeReturns, SocketFollowsServe
<1>5. ASSUME NEW j \in All, ServeFails(j) PROVE SocketFollowsServe(i)'
  BY <1>0, <1>5 DEF ServeFails, SocketFollowsServe
<1>6. CASE Abort
  BY <1>6 DEF Abort, SocketFollowsServe, netVars
<1>7. CASE BecomeReady
  BY <1>7 DEF BecomeReady, SocketFollowsServe, netVars
<1>8. CASE Start
  BY <1>8 DEF Start, SocketFollowsServe, netVars
<1>9. ASSUME NEW j \in All, Accept(j) PROVE SocketFollowsServe(i)'
  BY <1>0, <1>9 DEF Accept, SocketFollowsServe
<1>10. ASSUME NEW j \in All, Answer(j) PROVE SocketFollowsServe(i)'
  <2>1. /\ inflight' = [inflight EXCEPT ![j] = 0]
        /\ UNCHANGED <<bound, socket, serve, closing, failed>>
    BY <1>10 DEF Answer
  <2> QED
    BY <1>0, <2>1 DEF SocketFollowsServe
<1>11. CASE Signal
  BY <1>11 DEF Signal, SocketFollowsServe, netVars
<1>12. CASE Select
  BY <1>12 DEF Select, SocketFollowsServe, netVars
<1>13. CASE ShutdownElsewhere
  BY <1>13 DEF ShutdownElsewhere, SocketFollowsServe, netVars
<1>14. ASSUME NEW c \in Callers, Expire(c) PROVE SocketFollowsServe(i)'
  BY <1>14 DEF Expire, SocketFollowsServe, netVars
<1>15. ASSUME NEW c \in Callers, StopAccepting(c) PROVE SocketFollowsServe(i)'
  BY <1>0, <1>15 DEF StopAccepting, SocketFollowsServe
<1>16. ASSUME NEW c \in Callers, Drained(c) PROVE SocketFollowsServe(i)'
  BY <1>16 DEF Drained, SocketFollowsServe, netVars
<1>17. ASSUME NEW c \in Callers, GiveUp(c) PROVE SocketFollowsServe(i)'
  BY <1>0, <1>17 DEF GiveUp, SocketFollowsServe
<1>18. CASE RunReturns
  BY <1>18 DEF RunReturns, SocketFollowsServe, netVars
<1>19. CASE UNCHANGED vars
  BY <1>19 DEF vars, SocketFollowsServe
<1> QED
  BY <1>1, <1>2, <1>3, <1>4, <1>5, <1>6, <1>7, <1>8, <1>9, <1>10, <1>11, <1>12, <1>13, <1>14,
     <1>15, <1>16, <1>17, <1>18, <1>19 DEF Next, Code

-----------------------------------------------------------------------------
(* The order of the shutdown *)

\* A listener that is through takes no request any more.
LEMMA OverStays ==
    ASSUME Typed, [Next]_vars, NEW i \in All, Over(i)
    PROVE  Over(i)'
<1>0. /\ All = 1..N /\ N \in Nat /\ i \in 1..N /\ inflight \in [All -> {0, 1}]
      /\ i \in closing /\ inflight[i] = 0
  BY Listeners DEF Typed, All, Over
<1>1. CASE Register \/ Configure \/ LoadSource \/ New
  BY <1>0, <1>1, EarlySteps DEF Over
<1>2. CASE Bind
  BY <1>0, <1>2 DEF Bind, forceClose, Over
<1>3. ASSUME NEW j \in All, Accept(j) \/ Answer(j) PROVE Over(i)'
  <2>1. closing' = closing /\ (inflight' = [inflight EXCEPT ![j] = 0] \/ i # j)
        /\ \E n : inflight' = [inflight EXCEPT ![j] = n]
    BY <1>0, <1>3 DEF Accept, Answer
  <2> QED
    BY <1>0, <2>1 DEF Over
<1>4. ASSUME NEW c \in Callers, StopAccepting(c) \/ GiveUp(c) PROVE Over(i)'
  BY <1>0, <1>4 DEF StopAccepting, GiveUp, Over
<1>5. ASSUME UNCHANGED <<closing, inflight>> PROVE Over(i)'
  BY <1>5, <1>0 DEF Over
<1> QED
  BY <1>1, <1>2, <1>3, <1>4, <1>5
  DEF Next, Code, vars, netVars, Abort, BecomeReady, Start, Select, RunReturns, ServeStarts,
      ServeReturns, Drained, Signal, ShutdownElsewhere, Expire, ServeFails

\* Each Shutdown closes the listeners from the last to the first.
LEMMA BackwardStep == Typed /\ Backward /\ [Next]_vars => Backward'
<1> SUFFICES ASSUME Typed, Backward, [Next]_vars PROVE Backward'
  OBVIOUS
<1>0. /\ All = 1..N /\ N \in Nat /\ All' = All /\ 1 \in All /\ N' = N
      /\ closing \subseteq All /\ inflight \in [All -> {0, 1}]
      /\ drain \in [Callers -> Drain]
  BY Listeners, InputStays DEF Typed, All
<1>a. ASSUME NEW c \in Callers PROVE drain[c].at \in -1..N /\ drain[c].at \in Int
  BY <1>0 DEF Drain
<1>1. ASSUME NEW c \in Callers, drain'[c].at >= 0, NEW i \in All, i > drain'[c].at
      PROVE  Over(i)'
  <2>1. CASE drain' = drain
    BY <1>1, <2>1, OverStays DEF Backward
  <2>2. CASE Select \/ ShutdownElsewhere
    <3>1. PICK d \in Callers : drain' = [drain EXCEPT ![d].at = N]
      BY <2>2 DEF Select, ShutdownElsewhere, Callers
    <3>2. c # d
      <4>1. SUFFICES ASSUME c = d PROVE FALSE
        OBVIOUS
      <4>2. drain'[c].at = N
        BY <1>0, <3>1, <4>1 DEF Drain
      <4> QED
        BY <1>0, <1>1, <4>2
    <3>3. drain'[c] = drain[c]
      BY <1>0, <3>1, <3>2
    <3> QED
      BY <1>1, <3>3, OverStays DEF Backward
  <2>3. ASSUME NEW d \in Callers, Drained(d) \/ GiveUp(d) PROVE Over(i)'
    <3>1. drain[d].at > 0 /\ drain[d].at \in closing /\ closing' = closing
      BY <2>3 DEF Drained, GiveUp, NextToStop, netVars
    <3>k. PICK k \in All : k = drain[d].at
      BY <1>0, <1>a, <3>1
    <3>2. Over(k)'
      <4>1. CASE Drained(d)
        BY <3>1, <3>k, <4>1 DEF Drained, NextToStop, netVars, Over
      <4>2. CASE GiveUp(d)
        BY <1>0, <3>1, <3>k, <4>2 DEF GiveUp, NextToStop, Over
      <4> QED
        BY <2>3, <4>1, <4>2
    <3>3. c # d => drain'[c] = drain[c]
      BY <1>0, <2>3 DEF Drained, GiveUp
    <3>4. c = d => drain'[c].at = drain[c].at - 1
      <4>1. CASE Drained(d)
        <5>1. drain' = [drain EXCEPT ![d] = [drain[d] EXCEPT !.at = drain[d].at - 1]]
          BY <4>1 DEF Drained
        <5>2. [drain[d] EXCEPT !.at = drain[d].at - 1].at = drain[d].at - 1
          BY <1>0 DEF Drain
        <5> QED
          BY <1>0, <5>1, <5>2
      <4>2. CASE GiveUp(d)
        BY <1>0, <4>2 DEF GiveUp
      <4> QED
        BY <2>3, <4>1, <4>2
    <3>5. CASE c # d
      BY <1>1, <3>3, <3>5, OverStays DEF Backward
    <3>6. CASE c = d /\ i = drain[d].at
      BY <3>2, <3>6, <3>k
    <3>7. CASE c = d /\ i # drain[d].at
      <4>1. drain[c].at >= 0 /\ i > drain[c].at
        BY <1>0, <1>1, <1>a, <3>1, <3>4, <3>7
      <4> QED
        BY <4>1, OverStays DEF Backward
    <3> QED
      BY <3>5, <3>6, <3>7
  <2>4. drain' = drain \/ Select \/ ShutdownElsewhere \/ (\E d \in Callers : Drained(d) \/ GiveUp(d))
    BY EarlySteps DEF Next, Code, vars, runVars, Bind, Abort, BecomeReady, Start, RunReturns,
       ServeStarts, ServeReturns, StopAccepting, Signal, Expire, ServeFails, Accept, Answer
  <2> QED
    BY <2>1, <2>2, <2>3, <2>4
<1>2. ASSUME 1 \in closing', NEW i \in All, i # 1 PROVE Over(i)'
  <2>1. CASE 1 \in closing
    BY <1>2, <2>1, OverStays DEF Backward
  <2>2. CASE 1 \notin closing
    <3>1. CASE Bind
      <4>1. PortTaken(bound + 1)
        BY <1>2, <2>2, <3>1 DEF Bind
      <4> QED
        BY <1>0, <3>1, <4>1 DEF Bind, forceClose, Over
    <3>2. ASSUME NEW c \in Callers, StopAccepting(c) PROVE Over(i)'
      <4>1. drain[c].at = 1
        BY <1>2, <2>2, <3>2 DEF StopAccepting, NextToStop
      <4>2. Over(i)
        BY <1>0, <1>2, <4>1 DEF Backward
      <4> QED
        BY <4>2, OverStays
    <3>3. closing' = closing \/ Bind \/ (\E c \in Callers : StopAccepting(c))
      BY EarlySteps DEF Next, Code, vars, netVars, Abort, BecomeReady, Start, RunReturns, Select,
         ServeStarts, ServeReturns, Drained, GiveUp, Signal, ShutdownElsewhere, Expire, ServeFails,
         Accept, Answer
    <3> QED
      BY <1>2, <2>2, <3>1, <3>2, <3>3
  <2> QED
    BY <2>1, <2>2
<1> QED
  BY <1>0, <1>1, <1>2 DEF Backward

-----------------------------------------------------------------------------
(* Where Run is *)

\* Run binds, starts, waits and shuts down in that order, and returns the error it met.
LEMMA RunStep ==
    Typed /\ (\A i \in All : SocketFollowsServe(i)) /\ Backward /\ RunsInOrder /\ [Next]_vars
        => RunsInOrder'
<1> SUFFICES ASSUME Typed, \A i \in All : SocketFollowsServe(i), Backward, RunsInOrder, [Next]_vars
             PROVE  RunsInOrder'
  OBVIOUS
<1>0. /\ All = 1..N /\ N \in Nat /\ N >= 1 /\ All' = All /\ N' = N
      /\ phase \in Phases /\ exit \in {-1, 0, 1, 2} /\ bound \in 0..N
      /\ serve \in [All -> {"none", "spawned", "accepting", "returned"}]
      /\ inflight \in [All -> {0, 1}] /\ closing \subseteq All /\ cut \subseteq All
      /\ drain \in [Callers -> Drain] /\ "run" \in Callers /\ "elsewhere" \in Callers
      /\ "run" # "elsewhere"
  BY Listeners, InputStays DEF Typed, All, Callers
<1>o. phase = "abort" => \A i \in All : Over(i)'
  BY OverStays DEF RunsInOrder
<1>e. phase \in Early => cut = {} /\ (\A i \in All : serve[i] = "none" /\ inflight[i] = 0)
  BY <1>0 DEF RunsInOrder, SocketFollowsServe
<1>1. CASE Register \/ Configure \/ LoadSource \/ New
  <2>1. /\ phase \in Early /\ exit = -1 /\ ~ ready
        /\ drain["run"] = [at |-> -1, errs |-> FALSE] /\ cut = {}
    BY <1>0, <1>1, <1>e, EarlySteps DEF RunsInOrder, Early
  <2>2. /\ UNCHANGED <<bound, serve, inflight, cut, ready, drain>>
        /\ bound = 0 /\ drain["elsewhere"].at = -1
        /\ \A i \in All : serve[i] = "none" /\ inflight[i] = 0
    BY <1>1, <1>e, <2>1, EarlySteps DEF RunsInOrder
  <2>3. CASE phase' = "exited" /\ exit' \in {0, 1, 2}
    BY <1>0, <2>1, <2>2, <2>3 DEF RunsInOrder, Early
  <2>4. CASE phase' \in Early \cup {"bind"} /\ exit' = exit
    BY <1>0, <2>1, <2>2, <2>4 DEF RunsInOrder, Early
  <2> QED
    BY <1>1, <2>3, <2>4, EarlySteps
<1>2. CASE Bind
  <2>1. CASE PortTaken(bound + 1)
    <3>1. /\ phase = "bind" /\ phase' = "abort" /\ ready' = FALSE
          /\ drain' = drain /\ exit' = exit /\ closing' = All /\ inflight' = [i \in All |-> 0]
      BY <1>2, <2>1 DEF Bind, forceClose
    <3>2. \A i \in All : Over(i)'
      BY <3>1 DEF Over
    <3>3. exit = -1 /\ drain["run"] = [at |-> -1, errs |-> FALSE]
      BY <3>1 DEF RunsInOrder
    <3> QED
      <4>1. exit' = -1 /\ phase' = "abort" /\ ready' = FALSE
            /\ drain'["run"] = [at |-> -1, errs |-> FALSE] /\ \A i \in All' : Over(i)'
        BY <1>0, <3>1, <3>2, <3>3
      <4> QED
        BY <4>1 DEF RunsInOrder, Early
  <2>2. CASE ~ PortTaken(bound + 1)
    BY <1>0, <1>2, <2>2 DEF Bind, RunsInOrder, Early
  <2> QED
    BY <2>1, <2>2
<1>3. ASSUME NEW i \in All, ServeStarts(i) PROVE RunsInOrder'
  <2>1. phase \notin Early /\ phase # "exited"
    BY <1>0, <1>3, <1>e DEF ServeStarts, RunsInOrder
  <2> QED
    BY <1>0, <1>3, <1>o, <2>1 DEF ServeStarts, RunsInOrder, Early, runVars
<1>4. ASSUME NEW i \in All, ServeReturns(i) PROVE RunsInOrder'
  <2>1. phase \notin Early /\ phase # "exited"
    BY <1>0, <1>4, <1>e DEF ServeReturns, RunsInOrder
  <2> QED
    BY <1>0, <1>4, <1>o, <2>1 DEF ServeReturns, RunsInOrder, Early, runVars
<1>5. ASSUME NEW i \in All, ServeFails(i) PROVE RunsInOrder'
  <2>1. phase \notin Early /\ phase # "exited"
    BY <1>0, <1>5, <1>e DEF ServeFails, RunsInOrder
  <2> QED
    BY <1>0, <1>5, <1>o, <2>1 DEF ServeFails, RunsInOrder, Early, runVars
<1>6. CASE Abort
  <2>1. /\ phase = "abort" /\ phase' = "exited" /\ exit' = 1
        /\ \A i \in All : serve[i] \in {"none", "returned"}
        /\ UNCHANGED <<bound, serve, inflight, cut, ready, drain>>
    BY <1>6 DEF Abort, Exit, netVars, runVars
  <2>2. \A i \in All : inflight[i] = 0
    BY <2>1 DEF RunsInOrder, Over
  <2> QED
    BY <1>0, <2>1, <2>2 DEF RunsInOrder, Early
<1>7. CASE BecomeReady
  BY <1>0, <1>7 DEF BecomeReady, RunsInOrder, Early, netVars
<1>8. CASE Start
  BY <1>0, <1>8 DEF Start, RunsInOrder, Early, netVars
<1>9. ASSUME NEW i \in All, Accept(i) \/ Answer(i) PROVE RunsInOrder'
  <2>1. phase \notin Early /\ phase # "exited"
    BY <1>0, <1>9, <1>e DEF Accept, Answer, RunsInOrder
  <2>2. UNCHANGED <<phase, exit, ready, bound, cut, drain>>
    BY <1>9 DEF Accept, Answer, runVars
  <2> QED
    BY <1>0, <1>o, <2>1, <2>2 DEF RunsInOrder
<1>10. CASE Signal
  BY <1>0, <1>o, <1>10 DEF Signal, RunsInOrder, Early, netVars
<1>11. CASE Select
  <2>1. /\ phase = "select" /\ phase' = "shutdown" /\ ready' = FALSE /\ exit' = exit /\ cut' = cut
        /\ drain' = [drain EXCEPT !["run"].at = N]
    BY <1>11 DEF Select, netVars
  <2>2. drain'["elsewhere"] = drain["elsewhere"] /\ drain'["run"].at = N
    BY <1>0, <2>1 DEF Drain
  <2> QED
    BY <1>0, <2>1, <2>2 DEF RunsInOrder, Early
<1>12. CASE ShutdownElsewhere
  <2>1. /\ phase \in {"bind", "starting", "select", "shutdown"} /\ phase' = phase /\ ready' = FALSE
        /\ exit' = exit /\ cut' = cut /\ drain' = [drain EXCEPT !["elsewhere"].at = N]
    BY <1>12 DEF ShutdownElsewhere, netVars
  <2>2. drain'["run"] = drain["run"] /\ drain'["elsewhere"].errs = drain["elsewhere"].errs
    BY <1>0, <2>1 DEF Drain
  <2> QED
    BY <1>0, <2>1, <2>2 DEF RunsInOrder, Early
<1>13. ASSUME NEW c \in Callers, Expire(c) PROVE RunsInOrder'
  BY <1>0, <1>o, <1>13 DEF Expire, RunsInOrder, Early, netVars
<1>d. ASSUME NEW c \in Callers, drain[c].at > 0
      PROVE  /\ phase \notin Early
             /\ c = "run" => phase \in {"shutdown", "exited"}
  BY <1>0, <1>d DEF RunsInOrder, Callers, Early
<1>14. ASSUME NEW c \in Callers, StopAccepting(c) PROVE RunsInOrder'
  BY <1>0, <1>o, <1>14, <1>d DEF StopAccepting, RunsInOrder, runVars
<1>15. ASSUME NEW c \in Callers, Drained(c) PROVE RunsInOrder'
  <2>1. /\ drain[c].at > 0 /\ drain' = [drain EXCEPT ![c] = [drain[c] EXCEPT !.at = drain[c].at - 1]]
        /\ UNCHANGED <<phase, exit, ready, bound, cut, serve, inflight>>
    BY <1>15 DEF Drained, netVars
  <2>2. /\ drain'["run"].errs = drain["run"].errs /\ drain'["elsewhere"].errs = drain["elsewhere"].errs
        /\ c # "run" => drain'["run"] = drain["run"]
        /\ drain'[c].at = drain[c].at - 1
    BY <1>0, <2>1 DEF Drain
  <2>3. drain[c].at - 1 >= 0
    <3>1. drain[c].at \in Int
      BY <1>0 DEF Drain
    <3> QED
      BY <2>1, <3>1
  <2> QED
    BY <1>0, <1>d, <1>o, <2>1, <2>2, <2>3 DEF RunsInOrder
<1>16. ASSUME NEW c \in Callers, GiveUp(c) PROVE RunsInOrder'
  <2>1. /\ drain[c].at > 0 /\ drain[c].at \in closing /\ inflight[drain[c].at] > 0
        /\ drain' = [drain EXCEPT ![c] = [at |-> drain[c].at - 1, errs |-> TRUE]]
        /\ UNCHANGED <<phase, exit, ready, bound, serve>>
    BY <1>16 DEF GiveUp, NextToStop
  <2>2. phase \notin {"abort", "exited"}
    <3>1. drain[c].at \in All
      BY <1>0, <2>1
    <3>2. inflight[drain[c].at] # 0
      BY <1>0, <2>1, <3>1
    <3> QED
      BY <3>1, <3>2 DEF RunsInOrder, Over
  <2>3. /\ c # "run" => drain'["run"] = drain["run"] /\ c = "elsewhere"
        /\ drain'[c].at = drain[c].at - 1 /\ drain'[c].errs
    BY <1>0, <2>1 DEF Callers
  <2>4. drain[c].at - 1 >= 0
    <3>1. drain[c].at \in Int
      BY <1>0 DEF Drain
    <3> QED
      BY <2>1, <3>1
  <2> QED
    BY <1>0, <1>d, <2>1, <2>2, <2>3, <2>4 DEF RunsInOrder
<1>17. CASE RunReturns
  <2>1. /\ phase = "shutdown" /\ phase' = "exited" /\ drain["run"].at = 0
        /\ \A i \in All : serve[i] = "returned"
        /\ exit' = (IF failed # {} \/ drain["run"].errs THEN 1 ELSE 0)
        /\ UNCHANGED <<bound, serve, inflight, cut, ready, drain>>
    BY <1>17 DEF RunReturns, Stopped, Exit, netVars, runVars
  <2>2. \A i \in All : inflight[i] = 0
    BY <1>0, <2>1 DEF Backward, Over
  <2>3. exit' \in {0, 1} /\ (drain["run"].errs => exit' = 1)
    BY <2>1
  <2> QED
    BY <1>0, <2>1, <2>2, <2>3 DEF RunsInOrder, Early
<1>18. CASE UNCHANGED vars
  BY <1>0, <1>o, <1>18 DEF vars, RunsInOrder, Early
<1> QED
  BY <1>1, <1>2, <1>3, <1>4, <1>5, <1>6, <1>7, <1>8, <1>9, <1>10, <1>11, <1>12, <1>13, <1>14,
     <1>15, <1>16, <1>17, <1>18 DEF Next, Code

-----------------------------------------------------------------------------
(* The invariant and the theorems *)

\* A process that has only been started has nothing bound.
LEMMA SettledInit == Init => Settled
<1> SUFFICES ASSUME Init PROVE Settled
  OBVIOUS
<1>0. /\ input \in Inputs /\ N \in Nat /\ All = 1..N /\ phase = "register" /\ exit = -1 /\ bound = 0
      /\ socket = [i \in All |-> "none"] /\ serve = [i \in All |-> "none"]
      /\ inflight = [i \in All |-> 0] /\ closing = {} /\ cut = {} /\ failed = {}
      /\ ready = FALSE /\ started = FALSE /\ done = FALSE /\ expired = {}
      /\ drain = [c \in Callers |-> [at |-> -1, errs |-> FALSE]]
  BY Listeners DEF Init, All
<1>1. Typed
  <2>1. [at |-> -1, errs |-> FALSE] \in Drain
    BY <1>0 DEF Drain
  <2>2. socket \in [All -> {"none", "open", "closed"}] /\ inflight \in [All -> {0, 1}]
        /\ serve \in [All -> {"none", "spawned", "accepting", "returned"}]
    BY <1>0
  <2>3. drain \in [Callers -> Drain]
    BY <1>0, <2>1
  <2>4. bound \in 0..N /\ exit \in {-1, 0, 1, 2} /\ phase \in Phases
    BY <1>0 DEF Phases
  <2> QED
    BY <1>0, <2>2, <2>3, <2>4 DEF Typed
<1>2. \A i \in All : SocketFollowsServe(i)
  BY <1>0 DEF SocketFollowsServe
<1>3. Backward
  BY <1>0 DEF Backward
<1>4. RunsInOrder
  BY <1>0 DEF RunsInOrder, Early, Callers
<1> QED
  BY <1>1, <1>2, <1>3, <1>4 DEF Settled

\* Every reachable state of a process satisfies the invariant.
LEMMA SettledHolds == Spec => []Settled
<1>1. Settled /\ [Next]_vars => Settled'
  BY TypedStep, SocketStep, BackwardStep, RunStep DEF Settled
<1> QED
  BY <1>1, SettledInit, PTL DEF Spec

\* What main leaves behind, however it ended (a refused configuration, a failed
\* bind, a signal, a failing listener, a Shutdown called from elsewhere that
\* races Run's own): no socket, no readiness and no request; and a request that
\* was cut shows in the exit status or in the other caller's error.
THEOREM ProcessLeavesNothing == Spec => []ReturnSettles
<1>1. Settled => ReturnSettles
  <2> SUFFICES ASSUME Settled, exit # -1
               PROVE  /\ ~ ready
                      /\ \A i \in All : socket[i] # "open" /\ inflight[i] = 0
                      /\ cut # {} => exit = 1 \/ drain["elsewhere"].errs
    BY DEF ReturnSettles
  <2>1. phase = "exited" /\ ~ ready
    BY DEF Settled, RunsInOrder
  <2>2. ASSUME NEW i \in All PROVE socket[i] # "open" /\ inflight[i] = 0
    BY <2>1 DEF Settled, RunsInOrder, SocketFollowsServe
  <2>3. cut # {} => exit = 1 \/ drain["elsewhere"].errs
    BY <2>1 DEF Settled, RunsInOrder
  <2> QED
    BY <2>1, <2>2, <2>3
<1> QED
  BY <1>1, SettledHolds, PTL

\* Shutdown's promise to a health probe: as long as a provider listener has a
\* request to finish, the admin listener accepts, unless it failed by itself.
THEOREM AdminClosesLast == Spec => []ProbeOutlivesDrain
<1>1. Settled => ProbeOutlivesDrain
  <2> SUFFICES ASSUME Settled, NEW i \in All \ {1}, inflight[i] > 0
               PROVE  socket[1] = "open" \/ 1 \in failed
    BY DEF ProbeOutlivesDrain
  <2>1. /\ All = 1..N /\ N \in Nat /\ 1 \in All /\ bound \in 0..N /\ i \in All
        /\ serve \in [All -> {"none", "spawned", "accepting", "returned"}]
        /\ SocketFollowsServe(1) /\ SocketFollowsServe(i)
    BY Listeners DEF Settled, Typed, All
  <2>2. 1 \notin closing
    BY DEF Settled, Backward, Over
  <2>3. serve[1] # "none"
    BY <2>1 DEF SocketFollowsServe
  <2> QED
    BY <2>1, <2>2, <2>3 DEF SocketFollowsServe
<1> QED
  BY <1>1, SettledHolds, PTL

-----------------------------------------------------------------------------
(* What was read before anything was bound *)

Running == {"bind", "abort", "starting", "select", "shutdown"}

\* The sources are read one by one, each accepted one under a name of its own.
ReadInOrder ==
    /\ registry = [next |-> registry.next, loaded |-> registry.loaded, def |-> registry.def,
                   failures |-> registry.failures]
    /\ registry.next \in 1..(Len(scenarioSources) + 1)
    /\ IsSeq(registry.loaded)
    /\ registry.failures = {} => Len(registry.loaded) = registry.next - 1
    /\ registry.def \in 0..Len(registry.loaded)
    /\ \A i, j \in 1..Len(registry.loaded) : i # j => registry.loaded[i].name # registry.loaded[j].name
    /\ \A i \in 1..Len(registry.loaded) :
         \E k \in 1..Len(scenarioSources) : registry.loaded[i].scenario = scenarioSources[k].scenario

\* Nothing is bound before the profiles, the configuration and every source
\* were accepted, and reading stops early for nothing.
Whole ==
    /\ phase \in {"register", "config"} => registry.next = 1
    /\ phase \in {"config", "load"} \cup Running => NewSet(Profs)
    /\ phase \in {"load"} \cup Running => Load(Given, Names(Profs), input.ports, Builtins)
    /\ dirMode /\ entriesFail(input.files) => registry.next = 1
    /\ phase \in Running \/ bound > 0 =>
         registry.next > Len(scenarioSources) /\ registry.failures = {} /\ NewSet(Profs)
    /\ phase = "exited" /\ registry.next > 1 => registry.next > Len(scenarioSources)
    /\ phase = "abort" => PortOf(bound + 1) \in input.taken

\* There is a source to each entry of the directory, and one when none is named.
LEMMA Sources ==
    ASSUME input \in Inputs
    PROVE  Len(scenarioSources) \in Nat
<1>1. CASE dirMode
  <2> DEFINE entries == ScenarioEntries(input.files)
  <2>1. IsSeq(input.files) /\ {i \in 1..Len(input.files) : isEntry(input.files[i])} \subseteq 1..Len(input.files)
    BY InputsAssumption
  <2>2. Len(entries) \in Nat
    BY <2>1, KeptIsSeq DEF ScenarioEntries
  <2> HIDE DEF entries
  <2> DEFINE row == [i \in 1..Len(entries) |->
                       [name |-> entries[i].stem, default |-> DefaultScenarioEntry(entries, i),
                        scenario |-> entries[i].scenario]]
  <2>3. scenarioSources = row
    BY <1>1 DEF scenarioSources, entries
  <2>4. Len(row) = Len(entries)
    BY <2>2, RowIsSeq
  <2> QED
    BY <2>2, <2>3, <2>4
<1>2. CASE ~ dirMode
  <2>1. scenarioSources = <<[name |-> "", default |-> TRUE, scenario |-> input.scenario]>>
    BY <1>2 DEF scenarioSources
  <2> QED
    BY <2>1, OneIsSeq
<1> QED
  BY <1>1, <1>2

\* What depends on the input alone stays as it is.
LEMMA ReadingStays ==
    ASSUME [Next]_vars
    PROVE  /\ scenarioSources' = scenarioSources /\ dirMode' = dirMode /\ Profs' = Profs
           /\ entriesFail(input.files)' = entriesFail(input.files)
           /\ NewSet(Profs)' = NewSet(Profs)
           /\ Load(Given, Names(Profs), input.ports, Builtins)' = Load(Given, Names(Profs), input.ports, Builtins)
           /\ \A i : PortOf(i)' = PortOf(i)
<1>1. input' = input
  BY InputStays
<1> QED
  BY <1>1 DEF scenarioSources, dirMode, Given, Profs, PortOf, Setting, Surfaces

\* Only LoadSource changes what was read.
LEMMA RegistryStays == [Next]_vars => LoadSource \/ registry' = registry
<1> SUFFICES ASSUME [Next]_vars, ~ LoadSource PROVE registry' = registry
  OBVIOUS
<1> QED
  BY DEF Next, Code, vars, loadVars, Register, Configure, New, Bind, Abort, BecomeReady,
     Start, Select, RunReturns, ServeStarts, ServeReturns, StopAccepting, Drained, GiveUp, Signal,
     ShutdownElsewhere, Expire, ServeFails, Accept, Answer

\* Reading a source, accepted or not, keeps the order.
LEMMA ReadStep == Typed /\ ReadInOrder /\ [Next]_vars => ReadInOrder'
<1> SUFFICES ASSUME Typed, ReadInOrder, [Next]_vars PROVE ReadInOrder'
  OBVIOUS
<1>0. /\ scenarioSources' = scenarioSources /\ Len(scenarioSources) \in Nat
      /\ registry.next \in 1..(Len(scenarioSources) + 1)
      /\ IsSeq(registry.loaded) /\ Len(registry.loaded) \in Nat
      /\ registry = [next |-> registry.next, loaded |-> registry.loaded, def |-> registry.def,
                     failures |-> registry.failures]
  BY ReadingStays, Sources, SeqIsRow DEF Typed, ReadInOrder
<1>1. CASE registry' = registry
  BY <1>0, <1>1 DEF ReadInOrder
<1>2. CASE LoadSource
  <2> DEFINE src == scenarioSources[registry.next]
             new == [name |-> nameOf(src), scenario |-> src.scenario]
  <2>0. registry.next <= Len(scenarioSources)
    BY <1>2 DEF LoadSource
  <2>1. CASE loads(src, registry.loaded)
    <3>1. registry' = [next |-> registry.next + 1, loaded |-> Append(registry.loaded, new),
                       def |-> IF src.default THEN Len(registry.loaded) + 1 ELSE registry.def,
                       failures |-> registry.failures]
      BY <1>0, <1>2, <2>1 DEF LoadSource
    <3>2. \A i \in 1..Len(registry.loaded) : registry.loaded[i].name # new.name
      BY <2>1 DEF loads
    <3>3. new.scenario = scenarioSources[registry.next].scenario
      OBVIOUS
    <3> HIDE DEF new
    <3>4. /\ IsSeq(Append(registry.loaded, new))
          /\ Len(Append(registry.loaded, new)) = Len(registry.loaded) + 1
          /\ \A i \in 1..Len(registry.loaded) : Append(registry.loaded, new)[i] = registry.loaded[i]
          /\ Append(registry.loaded, new)[Len(registry.loaded) + 1] = new
      BY <1>0, AppendIsSeq
    <3>5. registry' = [next |-> registry'.next, loaded |-> registry'.loaded, def |-> registry'.def,
                       failures |-> registry'.failures]
      BY <3>1
    <3>6. /\ registry'.next \in 1..(Len(scenarioSources) + 1)
          /\ registry'.def \in 0..Len(registry'.loaded)
          /\ registry'.failures = {} => Len(registry'.loaded) = registry'.next - 1
      BY <1>0, <2>0, <3>1, <3>4 DEF ReadInOrder
    <3>7. \A i, j \in 1..Len(registry'.loaded) : i # j => registry'.loaded[i].name # registry'.loaded[j].name
      BY <1>0, <3>1, <3>2, <3>4 DEF ReadInOrder
    <3>8. \A i \in 1..Len(registry'.loaded) :
            \E k \in 1..Len(scenarioSources) : registry'.loaded[i].scenario = scenarioSources[k].scenario
      BY <1>0, <2>0, <3>1, <3>3, <3>4 DEF ReadInOrder
    <3> QED
      BY <1>0, <3>1, <3>4, <3>5, <3>6, <3>7, <3>8 DEF ReadInOrder
  <2>2. CASE ~ loads(src, registry.loaded)
    <3>1. registry' = [next |-> registry.next + 1, loaded |-> registry.loaded, def |-> registry.def,
                       failures |-> registry.failures \cup {registry.next}]
      BY <1>0, <1>2, <2>2 DEF LoadSource
    <3>2. registry'.failures # {}
      BY <3>1
    <3> QED
      BY <1>0, <2>0, <3>1, <3>2 DEF ReadInOrder
  <2> QED
    BY <2>1, <2>2
<1> QED
  BY <1>1, <1>2, RegistryStays

\* Listeners of one process never claim one port: a port that is taken while
\* Run binds is another process's.
LEMMA OwnPortsApart ==
    ASSUME Typed, \A i \in All : SocketFollowsServe(i), NewSet(Profs),
           Load(Given, Names(Profs), input.ports, Builtins), bound < N, PortTaken(bound + 1)
    PROVE  PortOf(bound + 1) \in input.taken
<1> DEFINE b == bound + 1
<1>0. /\ input \in Inputs /\ N \in Nat /\ All = 1..N /\ b \in All /\ bound \in 0..N /\ 1 \in All
      /\ serve \in [All -> {"none", "spawned", "accepting", "returned"}]
  BY Listeners DEF Typed, All
<1>1. SUFFICES ASSUME NEW j \in All, j # b, PortOf(j) = PortOf(b), socket[j] = "open" PROVE FALSE
  BY DEF PortTaken
<1>2. j <= bound
  BY <1>0, <1>1 DEF SocketFollowsServe
<1>3. b # 1 /\ PortOf(b) = input.ports[Surfaces[b]] /\ PortOf(b) # 0
  BY <1>0, <1>1, <1>2 DEF PortOf, PortTaken
<1>4. \A n \in Enabled : input.ports[n] # 0 =>
        /\ input.ports[n] # Setting("admin-port")
        /\ \A m \in Enabled \ {n} : input.ports[m] # input.ports[n]
  <2>1. validate(Given, Names(Profs), input.ports, Enabled)
    BY DEF Load, Enabled, Setting
  <2>2. validPorts(Setting("admin-port"), input.ports, Enabled)
    BY <2>1 DEF validate, Setting
  <2> QED
    BY <2>2 DEF validPorts
<1>5. Surfaces[b] \in Enabled
  BY <1>0, <1>3, ListenerNames
<1>6. CASE j = 1
  BY <1>1, <1>3, <1>4, <1>5, <1>6 DEF PortOf
<1>7. CASE j # 1
  <2>1. Surfaces[j] \in Enabled /\ Surfaces[j] # Surfaces[b]
    BY <1>0, <1>1, <1>3, <1>7, ListenerNames
  <2>2. PortOf(j) = input.ports[Surfaces[j]]
    BY <1>7 DEF PortOf
  <2> QED
    BY <1>1, <1>3, <1>4, <1>5, <2>1, <2>2
<1> QED
  BY <1>6, <1>7

\* A step leads from one phase to the next one only through its checks.
LEMMA WholeStep == Settled /\ ReadInOrder /\ Whole /\ [Next]_vars => Whole'
<1> SUFFICES ASSUME Settled, ReadInOrder, Whole, [Next]_vars PROVE Whole'
  OBVIOUS
<1>0. /\ scenarioSources' = scenarioSources /\ dirMode' = dirMode /\ Len(scenarioSources) \in Nat
      /\ entriesFail(input.files)' = entriesFail(input.files)
      /\ NewSet(Profs)' = NewSet(Profs)
      /\ Load(Given, Names(Profs), input.ports, Builtins)' = Load(Given, Names(Profs), input.ports, Builtins)
      /\ \A i : PortOf(i)' = PortOf(i)
      /\ registry.next \in 1..(Len(scenarioSources) + 1) /\ phase \in Phases
      /\ phase \in Early => bound = 0
  BY ReadingStays, Sources DEF Settled, Typed, RunsInOrder, ReadInOrder
<1>1. CASE Register
  <2>1. /\ registry' = registry /\ bound' = bound /\ phase = "register"
        /\ \/ NewSet(Profs) /\ phase' = "config"
           \/ phase' = "exited"
    BY <1>1 DEF Register, Exit, loadVars, netVars
  <2> QED
    BY <1>0, <2>1 DEF Whole, Running, Early
<1>2. CASE Configure
  <2>1. /\ registry' = registry /\ bound' = bound /\ phase = "config"
    BY <1>2 DEF Configure, loadVars, netVars
  <2>2. \/ Load(Given, Names(Profs), input.ports, Builtins) /\ phase' = "load"
        \/ phase' = "exited"
    <3>1. CASE ~ Load(Given, Names(Profs), input.ports, Builtins)
      BY <1>2, <3>1 DEF Configure, Exit
    <3>2. CASE Given.mode = "print"
      BY <1>2, <3>2 DEF Configure, Exit
    <3>3. CASE Given.mode = "healthcheck" /\ Given.mode # "print"
      BY <1>2, <3>3 DEF Configure, Exit
    <3>4. CASE /\ Load(Given, Names(Profs), input.ports, Builtins)
               /\ Given.mode # "print" /\ Given.mode # "healthcheck"
      <4>1. phase' = "load"
        BY <1>2, <3>4 DEF Configure
      <4> QED
        BY <3>4, <4>1
    <3> QED
      BY <3>1, <3>2, <3>3, <3>4
  <2> QED
    BY <1>0, <2>1, <2>2 DEF Whole, Running, Early
<1>3. CASE LoadSource
  <2>1. /\ bound' = bound /\ phase = "load" /\ phase' = phase
        /\ ~ (dirMode /\ entriesFail(input.files))
    BY <1>3 DEF LoadSource, netVars
  <2> QED
    BY <1>0, <2>1 DEF Whole, Running, Early
<1>4. CASE New
  <2>1. /\ registry' = registry /\ bound' = bound /\ phase = "load"
    BY <1>4 DEF New, loadVars, netVars
  <2>2. \/ dirMode /\ entriesFail(input.files) /\ phase' = "exited"
        \/ registry.next > Len(scenarioSources) /\ phase' = "exited"
        \/ registry.next > Len(scenarioSources) /\ registry.failures = {} /\ phase' = "bind"
    BY <1>4 DEF New, Exit
  <2> QED
    BY <1>0, <2>1, <2>2 DEF Whole, Running, Early
<1>5. CASE Bind
  <2>0. /\ phase = "bind" /\ bound < N /\ registry' = registry
    BY <1>5 DEF Bind, loadVars
  <2>1. CASE PortTaken(bound + 1)
    <3>1. phase' = "abort" /\ bound' = bound
      BY <1>5, <2>1 DEF Bind
    <3>2. PortOf(bound + 1) \in input.taken
      BY <2>0, <2>1, OwnPortsApart DEF Settled, Whole, Running
    <3>3. input' = input
      BY InputStays
    <3>4. (PortOf(bound + 1) \in input.taken)'
      BY <3>1, <3>2, <3>3 DEF PortOf, Setting, Given, Profs, Surfaces
    <3> QED
      BY <1>0, <2>0, <3>1, <3>4 DEF Whole, Running, Early
  <2>2. CASE ~ PortTaken(bound + 1)
    <3>1. phase' = "bind"
      BY <1>5, <2>0, <2>2 DEF Bind
    <3> QED
      BY <1>0, <2>0, <3>1 DEF Whole, Running, Early
  <2> QED
    BY <2>1, <2>2
<1>6. CASE Abort \/ RunReturns
  <2>1. /\ registry' = registry /\ bound' = bound /\ phase \in Running /\ phase' = "exited"
    BY <1>6 DEF Abort, RunReturns, Exit, loadVars, netVars, Running
  <2> QED
    BY <1>0, <2>1 DEF Whole, Running, Early
<1>7. CASE BecomeReady \/ Start \/ Select
  <2>1. /\ registry' = registry /\ bound' = bound /\ phase \in Running
        /\ phase' \in {"starting", "select", "shutdown"}
    BY <1>7 DEF BecomeReady, Start, Select, loadVars, netVars, Running
  <2> QED
    BY <1>0, <2>1 DEF Whole, Running, Early
<1>8. CASE UNCHANGED <<input, registry, phase, bound>>
  <2>1. (PortOf(bound + 1) \in input.taken)' = (PortOf(bound + 1) \in input.taken)
    BY <1>8 DEF PortOf, Setting, Given, Profs, Surfaces
  <2> QED
    BY <1>0, <1>8, <2>1 DEF Whole
<1> QED
  BY <1>1, <1>2, <1>3, <1>4, <1>5, <1>6, <1>7, <1>8 DEF Next, Code, vars, loadVars, netVars,
     ServeStarts, ServeReturns, StopAccepting, Drained, GiveUp, Signal, ShutdownElsewhere, Expire,
     ServeFails, Accept, Answer

\* Every reachable state of a process satisfies both.
LEMMA WholeHolds == Spec => [](Settled /\ ReadInOrder /\ Whole)
<1>1. Init => ReadInOrder /\ Whole
  <2> SUFFICES ASSUME Init PROVE ReadInOrder /\ Whole
    OBVIOUS
  <2>1. /\ phase = "register" /\ bound = 0
        /\ registry = [next |-> 1, loaded |-> <<>>, def |-> 0, failures |-> {}]
        /\ Len(scenarioSources) \in Nat
    BY Sources DEF Init
  <2>2. IsSeq(<<>>) /\ Len(<<>>) = 0
    <3>1. <<>> \in Seq({})
      OBVIOUS
    <3> QED
      BY <3>1, OfSetIsSeq
  <2> QED
    BY <2>1, <2>2 DEF ReadInOrder, Whole, Running
<1>2. Settled /\ ReadInOrder /\ Whole /\ [Next]_vars => Settled' /\ ReadInOrder' /\ Whole'
  BY TypedStep, SocketStep, BackwardStep, RunStep, ReadStep, WholeStep DEF Settled
<1> QED
  BY <1>1, <1>2, SettledInit, PTL DEF Spec

\* New's and config's promise: a port is opened only once every scenario of the
\* directory was read and accepted, each under a name of its own; a start that
\* fails has read them all; and a bind fails only on another process's port.
THEOREM StartIsWhole == Spec => []StartsOnlyWhole
<1>1. Settled /\ ReadInOrder /\ Whole => StartsOnlyWhole
  <2> SUFFICES ASSUME Settled, ReadInOrder, Whole PROVE StartsOnlyWhole
    OBVIOUS
  <2>1. Len(scenarioSources) \in Nat /\ registry.next \in 1..(Len(scenarioSources) + 1)
    BY Sources DEF Settled, Typed, ReadInOrder
  <2>2. bound > 0 => registry.failures = {} /\ Len(registry.loaded) = Len(scenarioSources)
    BY <2>1 DEF ReadInOrder, Whole
  <2> QED
    BY <2>2 DEF ReadInOrder, Whole, StartsOnlyWhole
<1> QED
  BY <1>1, WholeHolds, PTL

-----------------------------------------------------------------------------
(* The plans of the engine *)

\* A key of a route as the mux and the engine see it opens with the name of its
\* own profile, and keeps apart what the profile's routes keep apart.
LEMMA RouteKeys ==
    ASSUME input \in Inputs, NewSet(Profs), NEW i \in 1..Len(Profs), NEW rt \in namespacedRoutes(Profs[i])
    PROVE  /\ IsSeq(rt.key) /\ Len(rt.key) >= 2 /\ rt.key[1] = Profs[i].name /\ rt.key[2] = ":"
           /\ \A n \in 1..Len(rt.key) : rt.key[n] # "|"
           /\ rt.laneFrom \in ExtractorLists(input)
           /\ \A other \in namespacedRoutes(Profs[i]) : other.key = rt.key => other.entry = rt.entry
<1> DEFINE p == Profs[i]
           key(r) == namespacedFaultKey(p, r.key)
           named(r) == [r EXCEPT !.key = key(r)]
           head == <<p.name, ":">>
<1>1. ASSUME NEW r \in p.routes
      PROVE  /\ {"method", "path", "key", "laneFrom", "entry"} \subseteq DOMAIN r
             /\ IsSeq(r.key) /\ Len(r.key) >= 2 /\ Len(r.key) \in Nat
             /\ r.key[1] = effectiveKind(p) /\ r.key[2] = ":"
             /\ \A n \in 1..Len(r.key) : r.key[n] # "|"
             /\ \A other \in p.routes : other.key = r.key => other.entry = r.entry
  BY KeysAssumption, SeqIsRow DEF Profs
<1>2. ASSUME NEW r \in p.routes
      PROVE  named(r).key = key(r) /\ named(r).laneFrom = r.laneFrom /\ named(r).entry = r.entry
  BY <1>1
<1>3. PICK r \in p.routes : rt = named(r)
  BY DEF namespacedRoutes
<1>4. IsSeq(head) /\ Len(head) = 2 /\ head[1] = p.name /\ head[2] = ":"
  <2>1. head \in Seq({p.name, ":"}) /\ Len(head) = 2 /\ head[1] = p.name /\ head[2] = ":"
    OBVIOUS
  <2> QED
    BY <2>1, OfSetIsSeq
<1>5. p.name # "|"
  <2>1. Validate(p)
    BY DEF NewSet
  <2>2. p.name \in ProfileNames
    BY <2>1 DEF Validate, validProfileName
  <2> QED
    BY <2>2, KeysAssumption
<1> HIDE DEF head
<1>6. ASSUME NEW k, IsSeq(k)
      PROVE  /\ IsSeq(head \o k) /\ Len(head \o k) = 2 + Len(k) /\ Len(k) \in Nat
             /\ (head \o k)[1] = p.name /\ (head \o k)[2] = ":"
             /\ \A n \in 1..Len(k) : (head \o k)[2 + n] = k[n]
  <2> DEFINE long == head \o k
  <2>1. /\ IsSeq(long) /\ Len(long) = Len(head) + Len(k)
        /\ \A n \in 1..Len(head) : long[n] = head[n]
        /\ \A n \in 1..Len(k) : long[Len(head) + n] = k[n]
    <3>1. IsSeq(head)
      BY <1>4
    <3> QED
      BY <1>6, <3>1, JoinIsSeq
  <2>2. Len(k) \in Nat
    BY <1>6, SeqIsRow
  <2> HIDE DEF long
  <2>3. /\ IsSeq(long) /\ Len(long) = 2 + Len(k) /\ long[1] = p.name /\ long[2] = ":"
        /\ \A n \in 1..Len(k) : long[2 + n] = k[n]
    BY <1>4, <2>1
  <2> QED
    BY <2>2, <2>3 DEF long
<1>7. r.laneFrom \in ExtractorLists(input)
  <2>1. r.laneFrom \in {q.laneFrom : q \in input.profiles[i].routes}
    BY DEF Profs
  <2>2. r.laneFrom \in UNION {{q.laneFrom : q \in input.profiles[j].routes} : j \in 1..Len(input.profiles)}
    BY <2>1 DEF Profs
  <2> QED
    BY <2>2 DEF ExtractorLists
<1>8. CASE instanced(p)
  <2>1. \A q \in p.routes : key(q) = head \o q.key
    BY <1>8 DEF namespacedFaultKey, head
  <2> HIDE DEF key
  <2> DEFINE long == head \o r.key
  <2>2. /\ IsSeq(long) /\ Len(long) = 2 + Len(r.key) /\ Len(r.key) \in Nat
        /\ long[1] = p.name /\ long[2] = ":"
        /\ \A n \in 1..Len(r.key) : long[2 + n] = r.key[n]
    BY <1>1, <1>6
  <2>3. rt.key = long
    BY <1>2, <1>3, <2>1
  <2> HIDE DEF long
  <2>4. \A n \in 1..Len(long) : long[n] # "|"
    <3> TAKE n \in 1..Len(long)
    <3>1. CASE n = 1 \/ n = 2
      BY <1>5, <2>2, <3>1
    <3>2. CASE n > 2
      <4>1. n - 2 \in 1..Len(r.key) /\ 2 + (n - 2) = n
        BY <2>2, <3>2
      <4>2. long[2 + (n - 2)] = r.key[n - 2]
        BY <2>2, <4>1
      <4> QED
        BY <1>1, <4>1, <4>2
    <3> QED
      BY <2>2, <3>1, <3>2
  <2>5. ASSUME NEW other \in namespacedRoutes(Profs[i]), other.key = rt.key PROVE other.entry = rt.entry
    <3>1. PICK q \in p.routes : other = named(q)
      BY DEF namespacedRoutes, key
    <3> DEFINE long2 == head \o q.key
    <3>2. /\ Len(long2) = 2 + Len(q.key) /\ Len(q.key) \in Nat
          /\ \A n \in 1..Len(q.key) : long2[2 + n] = q.key[n]
      BY <1>1, <1>6
    <3>3. other.key = long2
      BY <1>2, <2>1, <3>1
    <3> HIDE DEF long2
    <3>4. long2 = long
      BY <2>3, <2>5, <3>3
    <3>5. Len(q.key) = Len(r.key) /\ \A n \in 1..Len(q.key) : q.key[n] = r.key[n]
      BY <2>2, <3>2, <3>4, SMTT(30)
    <3>6. q.key = [n \in 1..Len(q.key) |-> q.key[n]] /\ r.key = [n \in 1..Len(r.key) |-> r.key[n]]
      BY <1>1, SeqIsRow
    <3>7. q.key = r.key
      BY <3>5, <3>6
    <3> QED
      BY <1>1, <1>2, <1>3, <3>1, <3>7
  <2>6. rt.laneFrom \in ExtractorLists(input)
    BY <1>2, <1>3, <1>7
  <2> QED
    BY <2>2, <2>3, <2>4, <2>5, <2>6
<1>9. CASE ~ instanced(p)
  <2>1. \A q \in p.routes : key(q) = q.key
    BY <1>9 DEF namespacedFaultKey
  <2>2. effectiveKind(p) = p.name
    BY <1>9 DEF instanced
  <2> HIDE DEF key
  <2>3. rt.key = r.key /\ rt.entry = r.entry /\ rt.laneFrom = r.laneFrom
    BY <1>2, <1>3, <2>1
  <2>4. ASSUME NEW other \in namespacedRoutes(Profs[i]), other.key = rt.key PROVE other.entry = rt.entry
    <3>1. PICK q \in p.routes : other = named(q)
      BY DEF namespacedRoutes, key
    <3>2. other.key = q.key /\ other.entry = q.entry
      BY <1>2, <2>1, <3>1
    <3> QED
      BY <1>1, <2>3, <2>4, <3>2
  <2>5. rt.laneFrom \in ExtractorLists(input)
    BY <2>3, <1>7
  <2> QED
    BY <1>1, <2>2, <2>3, <2>4, <2>5
<1> QED
  BY <1>8, <1>9

\* A route's key is the engine's, and its plan is the one of that route's own
\* profile: no other profile declares it.
LEMMA EnginePlans ==
    ASSUME input \in Inputs, NewSet(Profs), NEW i \in 1..Len(Profs), NEW rt \in namespacedRoutes(Profs[i]),
           NEW declares
    PROVE  /\ rt.key \in DOMAIN enginePlans(Profs, declares)
           /\ enginePlans(Profs, declares)[rt.key] = planOf(Profs[i], rt, declares)
<1> DEFINE Of(k, n) == \E r \in namespacedRoutes(Profs[n]) : r.key = k
           Owns(k, n) == Of(k, n) /\ \A j \in 1..(n - 1) : \A r \in namespacedRoutes(Profs[j]) : r.key # k
           Owner(k) == Profs[CHOOSE n \in 1..Len(Profs) : Owns(k, n)]
           First(k) == CHOOSE r \in namespacedRoutes(Owner(k)) : r.key = k
           Keys == {r.key : r \in Routes(Profs)}
<1>0. Len(Profs) \in Nat
  BY InputsAssumption, SeqIsRow DEF Profs
<1>1. enginePlans(Profs, declares) = [k \in Keys |-> planOf(Owner(k), First(k), declares)]
  BY DEF enginePlans
<1>2. rt.key \in Keys
  BY DEF Routes
<1>3. ASSUME NEW n \in 1..Len(Profs), Of(rt.key, n) PROVE n = i
  <2>1. rt.key[1] = Profs[n].name /\ rt.key[1] = Profs[i].name
    BY <1>3, RouteKeys
  <2> QED
    BY <2>1 DEF NewSet
<1>4. Owns(rt.key, i)
  <2>1. Of(rt.key, i)
    OBVIOUS
  <2>2. ASSUME NEW j \in 1..(i - 1), NEW r \in namespacedRoutes(Profs[j]) PROVE r.key # rt.key
    <3>1. j \in 1..Len(Profs) /\ j # i
      BY <1>0
    <3> QED
      BY <1>3, <3>1
  <2> QED
    BY <2>1, <2>2
<1>5. Owner(rt.key) = Profs[i]
  <2>1. \A n \in 1..Len(Profs) : Owns(rt.key, n) => n = i
    BY <1>3
  <2> HIDE DEF Owns
  <2> QED
    BY <1>4, <2>1
<1>6. First(rt.key) \in namespacedRoutes(Profs[i]) /\ First(rt.key).key = rt.key
  BY <1>5
<1> HIDE DEF Owner, First
<1>7. First(rt.key).entry = rt.entry
  BY <1>6, RouteKeys
<1>8. enginePlans(Profs, declares)[rt.key] = planOf(Profs[i], First(rt.key), declares)
  BY <1>1, <1>2, <1>5
<1>9. planOf(Profs[i], First(rt.key), declares) = planOf(Profs[i], rt, declares)
  BY <1>7 DEF planOf
<1> HIDE DEF Keys
<1> QED
  BY <1>1, <1>2, <1>8, <1>9

\* The engine's keys can be told from what a lane adds to them.
LEMMA PlansRegistrable ==
    ASSUME input \in Inputs, NewSet(Profs), NEW declares
    PROVE  Registrable(DOMAIN enginePlans(Profs, declares))
<1>1. DOMAIN enginePlans(Profs, declares) = {r.key : r \in Routes(Profs)}
  BY DEF enginePlans
<1>2. ASSUME NEW k \in {r.key : r \in Routes(Profs)}
      PROVE  /\ IsSeq(k) /\ Len(k) >= 1
             /\ \A n \in 1..Len(k) : k[n] # "|"
             /\ Len(k) >= 2 => k[2] # "/"
  <2>1. PICK i \in 1..Len(Profs) : \E rt \in namespacedRoutes(Profs[i]) : k = rt.key
    BY DEF Routes
  <2>2. PICK rt \in namespacedRoutes(Profs[i]) : k = rt.key
    BY <2>1
  <2>3. /\ IsSeq(rt.key) /\ Len(rt.key) >= 2 /\ rt.key[2] = ":" /\ Len(rt.key) \in Nat
        /\ \A n \in 1..Len(rt.key) : rt.key[n] # "|"
    BY RouteKeys, SeqIsRow
  <2> QED
    BY <2>2, <2>3
<1> QED
  BY <1>1, <1>2 DEF Registrable

-----------------------------------------------------------------------------
(* What a request comes to *)

\* The parts answerOf names, for one request to the listener of profile p.
ScenarioOf(req) == registry.loaded[stackFor(req.path)].scenario
MuxOf(p, req) == NewMux(p, req.method, splitLanePath(req.path).route)
LaneOf(p, req) ==
    resolveLane(req, MuxOf(p, req).route, turnKeyOf(ScenarioOf(req), p.name), ScenarioOf(req).name).lane
PlansOf(req) == enginePlans(Profs, Declares(ScenarioOf(req)))
FoundOf(p, req) == resolve(DOMAIN PlansOf(req), CursorKey(LaneOf(p, req)))

\* The mux serves one of the profile's routes or refuses with a 404 or a 405.
LEMMA MuxServes ==
    ASSUME NEW p, NEW method, NEW path
    PROVE  LET mux == NewMux(p, method, path)
           IN  \/ mux.refusal.status = 0 /\ mux.route \in namespacedRoutes(p)
               \/ mux.refusal.status \in {404, 405}
<1> DEFINE hits == {rt \in namespacedRoutes(p) : rt.path = path}
           exact == {rt \in hits : rt.method = method}
<1>1. CASE exact # {}
  <2>1. NewMux(p, method, path) = [route |-> CHOOSE rt \in exact : TRUE, refusal |-> [status |-> 0]]
    BY <1>1 DEF NewMux
  <2>2. (CHOOSE rt \in exact : TRUE) \in exact
    BY <1>1
  <2> QED
    BY <2>1, <2>2
<1>2. CASE exact = {}
  <2>1. NewMux(p, method, path).refusal = IF hits # {} THEN methodNotAllowed(p) ELSE notFound(p)
    BY <1>2 DEF NewMux
  <2>2. methodNotAllowed(p).status = 405 /\ notFound(p).status = 404
    BY DEF methodNotAllowed, notFound, Refuse
  <2> QED
    BY <2>1, <2>2
<1> QED
  BY <1>1, <1>2

\* What answerOf returns, in one case of its own.
Outcome(p, req, status, scenario, namespace, route, plan) ==
    [surface |-> p.name, path |-> req.path, stack |-> stackFor(req.path), status |-> status,
     scenario |-> scenario, namespace |-> namespace, route |-> route, plan |-> plan]

\* The parts of what it returns.
LEMMA OutcomeFields ==
    ASSUME NEW p, NEW req, NEW status, NEW scenario, NEW namespace, NEW route, NEW plan, NEW r,
           r = Outcome(p, req, status, scenario, namespace, route, plan)
    PROVE  /\ r.surface = p.name /\ r.path = req.path /\ r.stack = stackFor(req.path)
           /\ r.status = status /\ r.scenario = scenario /\ r.route = route /\ r.plan = plan
  BY DEF Outcome

\* An answer names its listener, its path and its stack; the scenario it
\* records is its lane's; and only a route of the profile is answered with 200.
Unfolds(r, p, req) ==
    /\ r.surface = p.name /\ r.path = req.path /\ r.stack = stackFor(req.path)
    /\ r.stack = 0 => r.status = 404 /\ r.scenario = splitLanePath(req.path).scenario
    /\ r.stack # 0 /\ r.status \in {200, 404, 405} => r.scenario = LaneOf(p, req).scenario
    /\ r.status = 200 =>
         /\ r.stack # 0 /\ MuxOf(p, req).route \in namespacedRoutes(p)
         /\ r.route = MuxOf(p, req).route.entry
         /\ r.plan = IF FoundOf(p, req).plan = <<>> THEN "unknown_key"
                     ELSE PlansOf(req)[FoundOf(p, req).plan]

\* Every answer is one.
LEMMA AnswerUnfolded ==
    ASSUME NEW p, NEW req, NEW r, r = answerOf(p, req)
    PROVE  Unfolds(r, p, req)
<1> DEFINE prefix == splitLanePath(req.path)
           mux == MuxOf(p, req)
           lane == LaneOf(p, req)
           found == FoundOf(p, req)
           findings == resolveLane(req, mux.route, turnKeyOf(ScenarioOf(req), p.name), ScenarioOf(req).name).findings
           plan == IF found.plan = <<>> THEN "unknown_key" ELSE PlansOf(req)[found.plan]
           stack == stackFor(req.path)
<1>1. r = IF stack = 0
          THEN Outcome(p, req, Refuse(p, "scenario_unknown", 0).status, prefix.scenario,
                       requestNamespace(prefix, req.namespace).namespace, "", "")
          ELSE IF NeedsCleaning(req.path) THEN Outcome(p, req, 301, "", "", "", "")
          ELSE IF mux.refusal.status # 0
          THEN Outcome(p, req, mux.refusal.status, lane.scenario, lane.namespace, "", "")
          ELSE IF findings # {}
          THEN Outcome(p, req, 400, lane.scenario, lane.namespace, mux.route.entry, "")
          ELSE Outcome(p, req, recoverPanic(p, req.outcome).status, lane.scenario, lane.namespace,
                       mux.route.entry, plan)
  BY DEF answerOf, Outcome, MuxOf, LaneOf, FoundOf, PlansOf, ScenarioOf
<1>2. Refuse(p, "scenario_unknown", 0).status = 404
  BY DEF Refuse, defaultRefusalStatus
<1>3. \/ mux.refusal.status = 0 /\ mux.route \in namespacedRoutes(p)
      \/ mux.refusal.status \in {404, 405}
  BY MuxServes DEF MuxOf
<1> HIDE DEF prefix, mux, lane, found, findings, plan, stack
<1> DEFINE Is(status, scenario) == \E n, rt, t : r = Outcome(p, req, status, scenario, n, rt, t)
<1>4. \/ stack = 0 /\ Is(404, prefix.scenario)
      \/ stack # 0 /\ \E s : Is(301, s)
      \/ stack # 0 /\ mux.refusal.status # 0 /\ Is(mux.refusal.status, lane.scenario)
      \/ stack # 0 /\ Is(400, lane.scenario)
      \/ /\ stack # 0 /\ mux.refusal.status = 0
         /\ r = Outcome(p, req, recoverPanic(p, req.outcome).status, lane.scenario, lane.namespace,
                        mux.route.entry, plan)
  <2>1. CASE stack = 0
    <3>1. r = Outcome(p, req, 404, prefix.scenario, requestNamespace(prefix, req.namespace).namespace, "", "")
      BY <1>1, <1>2, <2>1, Zenon
    <3>2. Is(404, prefix.scenario)
      BY <3>1, ZenonT(40)
    <3> HIDE DEF Is
    <3> QED
      BY <2>1, <3>2, Zenon
  <2>2. CASE stack # 0 /\ NeedsCleaning(req.path)
    <3>1. r = Outcome(p, req, 301, "", "", "", "")
      BY <1>1, <2>2, Zenon
    <3>2. Is(301, "")
      BY <3>1, Zenon
    <3> HIDE DEF Is
    <3> QED
      BY <2>2, <3>2, Zenon
  <2>3. CASE stack # 0 /\ ~ NeedsCleaning(req.path) /\ mux.refusal.status # 0
    <3>1. r = Outcome(p, req, mux.refusal.status, lane.scenario, lane.namespace, "", "")
      BY <1>1, <2>3, Zenon
    <3>2. Is(mux.refusal.status, lane.scenario)
      BY <3>1, Zenon
    <3> HIDE DEF Is
    <3> QED
      BY <2>3, <3>2, Zenon
  <2>4. CASE stack # 0 /\ ~ NeedsCleaning(req.path) /\ mux.refusal.status = 0 /\ findings # {}
    <3>1. r = Outcome(p, req, 400, lane.scenario, lane.namespace, mux.route.entry, "")
      BY <1>1, <2>4, Zenon
    <3>2. Is(400, lane.scenario)
      BY <3>1, ZenonT(40)
    <3> HIDE DEF Is
    <3> QED
      BY <2>4, <3>2, Zenon
  <2>5. CASE stack # 0 /\ ~ NeedsCleaning(req.path) /\ mux.refusal.status = 0 /\ findings = {}
    BY <1>1, <2>5, Zenon
  <2> QED
    BY <2>1, <2>2, <2>3, <2>4, <2>5, Zenon
<1>5. ASSUME NEW status, NEW scenario, Is(status, scenario)
      PROVE  /\ r.surface = p.name /\ r.path = req.path /\ r.stack = stackFor(req.path)
             /\ r.status = status /\ r.scenario = scenario
  BY <1>5, OutcomeFields
<1> HIDE DEF Is
<1>6. /\ r.surface = p.name /\ r.path = req.path /\ r.stack = stackFor(req.path)
      /\ \/ stack = 0 /\ r.status = 404 /\ r.scenario = prefix.scenario
         \/ stack # 0 /\ r.status = 301
         \/ stack # 0 /\ mux.refusal.status # 0 /\ r.status = mux.refusal.status /\ r.scenario = lane.scenario
         \/ stack # 0 /\ r.status = 400
         \/ stack # 0 /\ mux.refusal.status = 0 /\ r.scenario = lane.scenario
               /\ r.route = mux.route.entry /\ r.plan = plan
  <2>1. CASE stack = 0 /\ Is(404, prefix.scenario)
    BY <1>5, <2>1
  <2>2. CASE stack # 0 /\ \E s : Is(301, s)
    BY <1>5, <2>2
  <2>3. CASE stack # 0 /\ mux.refusal.status # 0 /\ Is(mux.refusal.status, lane.scenario)
    BY <1>5, <2>3
  <2>4. CASE stack # 0 /\ Is(400, lane.scenario)
    BY <1>5, <2>4
  <2>5. CASE /\ stack # 0 /\ mux.refusal.status = 0
             /\ r = Outcome(p, req, recoverPanic(p, req.outcome).status, lane.scenario, lane.namespace,
                            mux.route.entry, plan)
    BY <2>5, OutcomeFields
  <2> QED
    BY <1>4, <2>1, <2>2, <2>3, <2>4, <2>5
<1>7. /\ r.stack = stack
      /\ r.stack = 0 => r.status = 404 /\ r.scenario = prefix.scenario
      /\ r.stack # 0 /\ r.status \in {200, 404, 405} => r.scenario = lane.scenario
      /\ r.status = 200 => /\ r.stack # 0 /\ mux.route \in namespacedRoutes(p)
                           /\ r.route = mux.route.entry /\ r.plan = plan
  BY <1>3, <1>6 DEF stack
<1> QED
  BY <1>6, <1>7 DEF Unfolds, prefix, mux, lane, found, plan

\* A source's scenario is one the input names.
LEMMA SourcesOfInput ==
    ASSUME input \in Inputs, NEW n \in 1..Len(scenarioSources)
    PROVE  scenarioSources[n].scenario \in Scenarios(input)
<1>1. CASE dirMode
  <2> DEFINE files == {i \in 1..Len(input.files) : isEntry(input.files[i])}
             entries == ScenarioEntries(input.files)
             row == [i \in 1..Len(entries) |->
                       [name |-> entries[i].stem, default |-> DefaultScenarioEntry(entries, i),
                        scenario |-> entries[i].scenario]]
  <2>1. IsSeq(input.files) /\ files \subseteq 1..Len(input.files)
    BY InputsAssumption
  <2> HIDE DEF files, entries
  <2>2. /\ Len(entries) \in Nat
        /\ \A i \in 1..Len(entries) : \E j \in files : entries[i] = input.files[j]
    <3>1. entries = Kept(input.files, files)
      BY DEF entries, files, ScenarioEntries
    <3>2. /\ Len(Kept(input.files, files)) = Cardinality(files) /\ Cardinality(files) \in Nat
      BY <2>1, KeptIsSeq
    <3>3. ASSUME NEW i \in 1..Cardinality(files) PROVE \E j \in files : Kept(input.files, files)[i] = input.files[j]
      <4>1. FromPosition(input.files, files, i)
        BY <2>1, KeptMembers
      <4> QED
        BY <4>1, Zenon DEF FromPosition
    <3> QED
      BY <3>1, <3>2, <3>3
  <2>3. scenarioSources = row
    BY <1>1 DEF scenarioSources, entries
  <2>4. Len(row) = Len(entries)
    BY <2>2, RowIsSeq
  <2>5. n \in 1..Len(entries)
    BY <2>3, <2>4
  <2>6. scenarioSources[n].scenario = entries[n].scenario
    BY <2>3, <2>5
  <2>7. PICK j \in files : entries[n] = input.files[j]
    BY <2>2, <2>5
  <2>8. input.files[j].scenario \in {input.files[i].scenario : i \in 1..Len(input.files)}
    BY DEF files
  <2> QED
    BY <2>6, <2>7, <2>8 DEF Scenarios
<1>2. CASE ~ dirMode
  <2>1. scenarioSources = <<[name |-> "", default |-> TRUE, scenario |-> input.scenario]>>
    BY <1>2 DEF scenarioSources
  <2>2. Len(scenarioSources) = 1
    BY <2>1, OneIsSeq
  <2>3. n = 1
    BY <2>2
  <2>4. scenarioSources[1].scenario = input.scenario
    BY <2>1
  <2> QED
    BY <2>3, <2>4 DEF Scenarios
<1> QED
  BY <1>1, <1>2

\* The extractors a route's requests are read with, the route's own or the
\* turn_key of the entry of the listener's name.
LEMMA RouteReads ==
    ASSUME input \in Inputs, NewSet(Profs), ReadInOrder, NEW k \in 1..Len(Profs),
           NEW req \in input.calls, NEW rt \in namespacedRoutes(Profs[k]), stackFor(req.path) # 0
    PROVE  LET turnKey == turnKeyOf(ScenarioOf(req), Profs[k].name)
           IN  Opens(turnLaneKey(req, rt, turnKey), rt.key)
<1> DEFINE s == ScenarioOf(req)
           own == {i \in 1..Len(s.entries) : s.entries[i].name = Profs[k].name}
           turnKey == turnKeyOf(s, Profs[k].name)
<1>1. \A l \in ExtractorLists(input) : Readable(req, l)
  BY RequestsAssumption DEF Readable
<1>2. IsSeq(rt.key) /\ rt.laneFrom \in ExtractorLists(input)
  BY RouteKeys
<1>3. stackFor(req.path) \in 1..Len(registry.loaded)
  <2> DEFINE named == {i \in 1..Len(registry.loaded) : registry.loaded[i].name = lanePrefixes(req.path)}
  <2>1. Len(registry.loaded) \in Nat /\ registry.def \in 0..Len(registry.loaded)
    BY SeqIsRow DEF ReadInOrder
  <2>2. stackFor(req.path) = IF lanePrefixes(req.path) = "" THEN registry.def
                             ELSE IF named = {} THEN 0 ELSE CHOOSE i \in named : TRUE
    BY DEF stackFor
  <2>3. named # {} => (CHOOSE i \in named : TRUE) \in named
    OBVIOUS
  <2>4. named \subseteq 1..Len(registry.loaded)
    OBVIOUS
  <2> HIDE DEF named
  <2>5. CASE lanePrefixes(req.path) = ""
    <3>1. registry.def # 0
      BY <2>2, <2>5
    <3>2. registry.def \in 1..Len(registry.loaded)
      BY <2>1, <3>1
    <3> QED
      BY <2>2, <2>5, <3>2
  <2>6. CASE lanePrefixes(req.path) # ""
    BY <2>2, <2>3, <2>4, <2>6
  <2> QED
    BY <2>5, <2>6
<1>4. s \in Scenarios(input)
  <2>1. PICK n \in 1..Len(scenarioSources) : s = scenarioSources[n].scenario
    BY <1>3 DEF ReadInOrder, ScenarioOf
  <2> HIDE DEF s
  <2> QED
    BY <2>1, SourcesOfInput
<1> HIDE DEF s
<1>5. turnKey = <<>> \/ turnKey \in ExtractorLists(input)
  <2>1. CASE own = {}
    BY <2>1 DEF turnKeyOf
  <2>2. CASE own # {}
    <3> DEFINE i == CHOOSE j \in own : TRUE
    <3>1. turnKey = s.entries[i].turnKey /\ i \in 1..Len(s.entries)
      BY <2>2 DEF turnKeyOf
    <3>2. turnKey \in {s.entries[j].turnKey : j \in 1..Len(s.entries)}
      BY <3>1
    <3> HIDE DEF turnKey
    <3> QED
      BY <1>4, <3>2 DEF ExtractorLists
  <2> QED
    BY <2>1, <2>2
<1> HIDE DEF turnKey
<1>6. Readable(req, <<>>)
  <2>1. <<>> \in Seq({}) /\ Len(<<>>) = 0
    OBVIOUS
  <2>2. IsSeq(<<>>)
    BY <2>1, OfSetIsSeq
  <2> QED
    BY <2>1, <2>2 DEF Readable
<1>7. Readable(req, rt.laneFrom) /\ Readable(req, turnKey)
  BY <1>1, <1>2, <1>5, <1>6
<1>8. Opens(turnLaneKey(req, rt, turnKey), rt.key)
  BY <1>2, <1>7, TurnLaneKeyOpens
<1> QED
  BY <1>8 DEF turnKey, s

-----------------------------------------------------------------------------
(* A request is answered from the script it names *)

\* The path names a scenario.
Selects(path) == Len(path) > 1 /\ path[1] = "x" /\ path[2] # ""

\* The router's reading of the prefix and the lane's agree on the paths that
\* name a scenario, and differ only when it is not a name one may have.
LEMMA PrefixReads ==
    ASSUME NEW path, IsSeq(path)
    PROVE  /\ Selects(path) => lanePrefixes(path) = path[2]
           /\ Selects(path) /\ ValidNamespace(path[2]) => splitLanePath(path).scenario = path[2]
           /\ ~ Selects(path) => lanePrefixes(path) = "" /\ splitLanePath(path).scenario = ""
<1> DEFINE prefix == cutLaneSegment(path, "x")
           taken == prefix.ok /\ ValidNamespace(prefix.value)
<1>1. Len(path) > 1 <=> Len(path) >= 2
  <2>1. Len(path) \in Nat
    BY SeqIsRow
  <2> QED
    BY <2>1
<1>2. lanePrefixes(path) = prefix.value
  BY DEF lanePrefixes
<1>3. splitLanePath(path).scenario = IF taken THEN prefix.value ELSE ""
  BY Zenon DEF splitLanePath
<1>4. CASE Len(path) >= 2 /\ path[1] = "x"
  <2>1. prefix = [ok |-> TRUE, value |-> path[2], rest |-> SubSeq(path, 3, Len(path))]
    BY <1>4 DEF cutLaneSegment
  <2>2. prefix.ok = TRUE /\ prefix.value = path[2]
    BY <2>1
  <2> HIDE DEF prefix
  <2>3. CASE path[2] = ""
    BY <1>1, <1>2, <1>3, <1>4, <2>2, <2>3, Zenon DEF Selects
  <2>4. CASE path[2] # ""
    BY <1>1, <1>2, <1>3, <1>4, <2>2, <2>4, Zenon DEF Selects
  <2> QED
    BY <2>3, <2>4, Zenon
<1>5. CASE ~ (Len(path) >= 2 /\ path[1] = "x")
  <2>1. prefix = [ok |-> FALSE, value |-> "", rest |-> path]
    BY <1>5, Zenon DEF cutLaneSegment
  <2>2. prefix.ok = FALSE /\ prefix.value = ""
    <3>1. ASSUME NEW ok, NEW value, NEW rest, NEW c, c = [ok |-> ok, value |-> value, rest |-> rest]
          PROVE  c.ok = ok /\ c.value = value
      BY <3>1
    <3> HIDE DEF prefix
    <3> QED
      BY <2>1, <3>1, Zenon
  <2> HIDE DEF prefix
  <2> QED
    BY <1>1, <1>2, <1>3, <1>5, <2>2, Zenon DEF Selects
<1> QED
  BY <1>4, <1>5, Zenon

\* The stack that answers a request is the one it names, or the default's.
LEMMA StackIsSelected ==
    ASSUME NEW path, IsSeq(path), Selects(path), stackFor(path) # 0
    PROVE  registry.loaded[stackFor(path)].name = path[2]
<1> DEFINE named == {i \in 1..Len(registry.loaded) : registry.loaded[i].name = lanePrefixes(path)}
<1>1. lanePrefixes(path) = path[2] /\ lanePrefixes(path) # ""
  <2>1. lanePrefixes(path) = path[2]
    BY PrefixReads
  <2> QED
    BY <2>1, Zenon DEF Selects
<1>2. stackFor(path) = IF named = {} THEN 0 ELSE CHOOSE i \in named : TRUE
  BY <1>1, Zenon DEF stackFor
<1>3. named # {} => (CHOOSE i \in named : TRUE) \in named
  OBVIOUS
<1>4. stackFor(path) \in named
  BY <1>2, <1>3
<1> QED
  BY <1>1, <1>4

\* The engine finds the plan of the route the mux served, and it is the one
\* the instance's own block scripts, else the one of the route's entry.
LEMMA PlanFound ==
    ASSUME input \in Inputs, NewSet(Profs), ReadInOrder, NEW k \in 1..Len(Profs), NEW req \in input.calls,
           stackFor(req.path) # 0, MuxOf(Profs[k], req).route \in namespacedRoutes(Profs[k])
    PROVE  /\ FoundOf(Profs[k], req).plan # <<>>
           /\ PlansOf(req)[FoundOf(Profs[k], req).plan]
                = planOf(Profs[k], MuxOf(Profs[k], req).route, Declares(ScenarioOf(req)))
<1> DEFINE rt == MuxOf(Profs[k], req).route
           lane == LaneOf(Profs[k], req)
           plans == DOMAIN PlansOf(req)
           ns == requestNamespace(splitLanePath(req.path), req.namespace).namespace
<1>1. Opens(turnLaneKey(req, rt, turnKeyOf(ScenarioOf(req), Profs[k].name)), rt.key)
  BY RouteReads
<1>2. /\ lane.key = turnLaneKey(req, rt, turnKeyOf(ScenarioOf(req), Profs[k].name))
      /\ lane.namespace = ns
  BY Zenon DEF LaneOf, resolveLane
<1>3. ns = DefaultNamespace \/ ValidNamespace(ns)
  BY LaneNamespaces
<1>4. /\ rt.key \in plans
      /\ PlansOf(req)[rt.key] = planOf(Profs[k], rt, Declares(ScenarioOf(req)))
  BY EnginePlans DEF PlansOf
<1>5. Registrable(plans)
  BY PlansRegistrable DEF PlansOf
<1>6. rt.key # <<>>
  <2>1. IsSeq(rt.key) /\ Len(rt.key) >= 2
    BY RouteKeys
  <2> QED
    BY <2>1
<1> HIDE DEF rt, lane, plans, ns
<1>7. resolve(plans, CursorKey(lane)) = [namespace |-> lane.namespace, plan |-> rt.key]
  BY <1>1, <1>2, <1>3, <1>4, <1>5, LaneResolves
<1>8. FoundOf(Profs[k], req).plan = rt.key
  BY <1>7 DEF FoundOf, plans, lane
<1> QED
  BY <1>4, <1>6, <1>8 DEF rt

\* An answer of a process that listens is routed to its script.
LEMMA AnswerIsRouted ==
    ASSUME input \in Inputs, NewSet(Profs), ReadInOrder, NEW k \in 1..Len(Profs), NEW req \in input.calls,
           served = answerOf(Profs[k], req)
    PROVE  RoutedToItsScript
<1> DEFINE p == Profs[k]
           stack == stackFor(req.path)
           s == ScenarioOf(req)
<1>1. IsSeq(req.path)
  BY RequestsAssumption
<1>2. /\ served.surface = p.name /\ served.path = req.path /\ served.stack = stack
      /\ stack = 0 => served.status = 404 /\ served.scenario = splitLanePath(req.path).scenario
      /\ stack # 0 /\ served.status \in {200, 404, 405} => served.scenario = LaneOf(p, req).scenario
      /\ served.status = 200 =>
           /\ stack # 0 /\ MuxOf(p, req).route \in namespacedRoutes(p)
           /\ served.route = MuxOf(p, req).route.entry
           /\ served.plan = IF FoundOf(p, req).plan = <<>> THEN "unknown_key"
                            ELSE PlansOf(req)[FoundOf(p, req).plan]
  <2>1. Unfolds(served, p, req)
    BY AnswerUnfolded
  <2>2. /\ served.surface = p.name /\ served.path = req.path /\ served.stack = stack
        /\ served.stack = 0 => served.status = 404 /\ served.scenario = splitLanePath(req.path).scenario
    BY <2>1, Zenon DEF Unfolds
  <2>3. served.stack # 0 /\ served.status \in {200, 404, 405} => served.scenario = LaneOf(p, req).scenario
    BY <2>1, Zenon DEF Unfolds
  <2>4. served.status = 200 =>
           /\ served.stack # 0 /\ MuxOf(p, req).route \in namespacedRoutes(p)
           /\ served.route = MuxOf(p, req).route.entry
           /\ served.plan = IF FoundOf(p, req).plan = <<>> THEN "unknown_key"
                            ELSE PlansOf(req)[FoundOf(p, req).plan]
    BY <2>1, Zenon DEF Unfolds
  <2> HIDE DEF p, stack
  <2> QED
    BY <2>2, <2>3, <2>4, Zenon
<1>3. Lookup(Profs, p.name) = p
  <2>1. \A j \in 1..Len(Profs) : Profs[j].name = p.name => j = k
    BY DEF NewSet
  <2> QED
    BY <2>1 DEF Lookup
<1>4. LaneOf(p, req).scenario = IF splitLanePath(req.path).scenario # "" THEN splitLanePath(req.path).scenario
                                ELSE s.name
  BY Zenon DEF LaneOf, resolveLane
<1>5. /\ Selects(req.path) => /\ stack # 0 => registry.loaded[stack].name = req.path[2]
                              /\ ValidNamespace(req.path[2]) => splitLanePath(req.path).scenario = req.path[2]
      /\ ~ Selects(req.path) => splitLanePath(req.path).scenario = ""
  BY <1>1, PrefixReads, StackIsSelected, Zenon
<1>6. served.status = 200 => served.plan = planOf(p, MuxOf(p, req).route, Declares(s))
  <2> SUFFICES ASSUME served.status = 200
               PROVE  served.plan = planOf(p, MuxOf(p, req).route, Declares(s))
    OBVIOUS
  <2>1. /\ FoundOf(p, req).plan # <<>>
        /\ PlansOf(req)[FoundOf(p, req).plan] = planOf(p, MuxOf(p, req).route, Declares(s))
    BY <1>2, PlanFound
  <2> QED
    BY <1>2, <2>1, Zenon
<1> HIDE DEF p, stack, s
<1>7. served.status \in {200, 404, 405} =>
        /\ Selects(req.path) => IF stack = 0 THEN served.status = 404
                                             ELSE registry.loaded[stack].name = req.path[2]
        /\ Selects(req.path) /\ ValidNamespace(req.path[2]) => served.scenario = req.path[2]
        /\ ~ Selects(req.path) /\ stack # 0 => served.scenario = s.name
  <2> SUFFICES ASSUME served.status \in {200, 404, 405}
               PROVE  /\ Selects(req.path) => IF stack = 0 THEN served.status = 404
                                                           ELSE registry.loaded[stack].name = req.path[2]
                      /\ Selects(req.path) /\ ValidNamespace(req.path[2]) => served.scenario = req.path[2]
                      /\ ~ Selects(req.path) /\ stack # 0 => served.scenario = s.name
    OBVIOUS
  <2>1. CASE stack = 0
    <3>1. served.status = 404 /\ served.scenario = splitLanePath(req.path).scenario
      BY <1>2, <2>1, Zenon
    <3> QED
      BY <1>5, <2>1, <3>1, Zenon
  <2>2. CASE stack # 0
    <3>1. Selects(req.path) => req.path[2] # ""
      BY Zenon DEF Selects
    <3> QED
      BY <1>2, <1>4, <1>5, <2>2, <3>1, ZenonT(40)
  <2> QED
    BY <2>1, <2>2, Zenon
<1>8. served.status = 200 =>
        served.plan = IF instanced(p) /\ p.name \in Declares(s) THEN p.name
                      ELSE IF served.route \in Declares(s) THEN served.route ELSE ""
  BY <1>2, <1>6, Zenon DEF planOf
<1>9. s = registry.loaded[served.stack].scenario /\ p = Lookup(Profs, served.surface)
  BY <1>2, <1>3 DEF s, stack, ScenarioOf
<1> QED
  <2>1. SUFFICES ASSUME served.status \in {200, 404, 405}
        PROVE  /\ Selects(served.path) => IF served.stack = 0 THEN served.status = 404
                                                              ELSE registry.loaded[served.stack].name = served.path[2]
               /\ Selects(served.path) /\ ValidNamespace(served.path[2]) => served.scenario = served.path[2]
               /\ ~ Selects(served.path) /\ served.stack # 0 =>
                    served.scenario = registry.loaded[served.stack].scenario.name
               /\ served.status = 200 =>
                    served.plan = IF /\ instanced(Lookup(Profs, served.surface))
                                     /\ Lookup(Profs, served.surface).name
                                          \in Declares(registry.loaded[served.stack].scenario)
                                  THEN Lookup(Profs, served.surface).name
                                  ELSE IF served.route \in Declares(registry.loaded[served.stack].scenario)
                                  THEN served.route ELSE ""
    BY Zenon DEF RoutedToItsScript, Selects
  <2>2. served.path = req.path /\ served.stack = stack
    BY <1>2, Zenon
  <2> QED
    BY <1>7, <1>8, <1>9, <2>1, <2>2, ZenonT(40)

\* What was last answered is an answer to a request of this process, from what
\* it loaded.
Answered ==
    \/ served = Unrouted
    \/ bound > 0 /\ \E k \in 1..Len(Profs), req \in input.calls : served = answerOf(Profs[k], req)

\* What was loaded is no longer read once a listener is bound.
LEMMA AnsweredStep == Settled /\ Whole /\ Answered /\ [Next]_vars => Answered'
<1> SUFFICES ASSUME Settled, Whole, Answered, [Next]_vars PROVE Answered'
  OBVIOUS
<1>1. /\ input' = input /\ Profs' = Profs /\ input \in Inputs /\ All = 1..N /\ N \in Nat /\ bound \in 0..N
      /\ inflight \in [All -> {0, 1}] /\ \A i \in All : SocketFollowsServe(i)
      /\ phase \in Early => bound = 0
  BY InputStays, Listeners DEF Settled, Typed, RunsInOrder, Profs, All
<1>2. bound > 0 => registry' = registry
  <2>1. LoadSource => bound = 0
    BY <1>1 DEF LoadSource, Early
  <2> QED
    BY <1>1, <2>1, RegistryStays
<1>3. ASSUME bound > 0, NEW p, NEW req
      PROVE  answerOf(p, req)' = answerOf(p, req)
  <2>1. registry' = registry /\ Profs' = Profs
    BY <1>1, <1>2, <1>3
  <2>2. ASSUME NEW path PROVE stackFor(path)' = stackFor(path)
    <3> DEFINE named == {i \in 1..Len(registry.loaded) : registry.loaded[i].name = lanePrefixes(path)}
    <3>1. named' = named
      BY <2>1
    <3>2. CASE lanePrefixes(path) = ""
      <4>1. stackFor(path) = registry.def
        BY <3>2, Zenon DEF stackFor
      <4>2. stackFor(path)' = registry'.def
        BY <3>2, Zenon DEF stackFor
      <4> QED
        BY <2>1, <4>1, <4>2
    <3>3. CASE lanePrefixes(path) # ""
      <4>1. stackFor(path) = IF named = {} THEN 0 ELSE CHOOSE i \in named : TRUE
        BY <3>3, Zenon DEF stackFor
      <4>2. stackFor(path)' = IF named' = {} THEN 0 ELSE CHOOSE i \in named' : TRUE
        BY <3>3, Zenon DEF stackFor
      <4> HIDE DEF named
      <4> QED
        BY <3>1, <4>1, <4>2
    <3> QED
      BY <3>2, <3>3, Zenon
  <2> QED
    BY <2>1, <2>2, ZenonT(40) DEF answerOf
<1>4. bound > 0 => bound' > 0
  <2>1. bound' = bound \/ bound' = bound + 1
    BY DEF Next, Code, vars, netVars, Register, Configure, LoadSource, New, Bind, Abort, BecomeReady,
       Start, Select, RunReturns, ServeStarts, ServeReturns, StopAccepting, Drained, GiveUp, Signal,
       ShutdownElsewhere, Expire, ServeFails, Accept, Answer
  <2> QED
    BY <1>1, <2>1
<1>5. ASSUME NEW i \in All, Answer(i), i # 1
      PROVE  Answered'
  <2>1. i <= bound
    BY <1>1, <1>5 DEF Answer, SocketFollowsServe
  <2>2. bound > 0
    BY <1>1, <2>1
  <2>3. NewSet(Profs)
    BY <2>2 DEF Whole
  <2>4. PICK k \in 1..Len(Profs) : Surfaces[i] = Profs[k].name
    BY <1>1, <1>5, <2>3, ListenerNames
  <2>5. Lookup(Profs, Surfaces[i]) = Profs[k]
    <3>1. \A j \in 1..Len(Profs) : Profs[j].name = Surfaces[i] => j = k
      BY <2>3, <2>4 DEF NewSet
    <3> QED
      BY <2>4, <3>1 DEF Lookup
  <2>6. PICK req \in input.calls : served' = answerOf(Profs[k], req)
    BY <1>5, <2>5 DEF Answer
  <2>7. answerOf(Profs[k], req)' = answerOf(Profs[k], req)
    BY <1>1, <1>3, <2>2, Zenon
  <2> QED
    BY <1>1, <1>4, <2>2, <2>6, <2>7 DEF Answered
<1>6. served' = served \/ \E i \in All : Answer(i) /\ i # 1
  BY DEF Next, Code, vars, Register, Configure, LoadSource, New, Bind, Abort, BecomeReady,
     Start, Select, RunReturns, ServeStarts, ServeReturns, StopAccepting, Drained, GiveUp, Signal,
     ShutdownElsewhere, Expire, ServeFails, Accept, Answer
<1>7. CASE served' = served
  <2>1. CASE served = Unrouted
    BY <1>7, <2>1 DEF Answered, Unrouted
  <2>2. CASE served # Unrouted
    <3>1. bound > 0
      BY <2>2 DEF Answered
    <3>2. PICK k \in 1..Len(Profs), req \in input.calls : served = answerOf(Profs[k], req)
      BY <2>2 DEF Answered
    <3>3. answerOf(Profs[k], req)' = answerOf(Profs[k], req)
      BY <1>1, <1>3, <3>1, Zenon
    <3> QED
      BY <1>1, <1>4, <1>7, <3>1, <3>2, <3>3 DEF Answered
  <2> QED
    BY <2>1, <2>2
<1> QED
  BY <1>5, <1>6, <1>7

\* Routing, lane resolution and the fault engine agree about what a client asked
\* for: the stack that answered is the one its lane records, a request that names
\* a scenario nobody loaded is refused, and the plan a route draws on is its own
\* instance's (then the one of its entry), never another instance's and never
\* unknown, whatever the request put into its lane.
THEOREM RequestsAreRouted == Spec => []RoutedToItsScript
<1>1. Init => Answered
  BY DEF Init, Answered
<1>2. Settled /\ ReadInOrder /\ Whole /\ Answered => RoutedToItsScript
  <2> SUFFICES ASSUME Settled, ReadInOrder, Whole, Answered PROVE RoutedToItsScript
    OBVIOUS
  <2>1. CASE served = Unrouted
    <3>1. served.status = 0
      BY <2>1 DEF Unrouted
    <3>2. served.status \notin {200, 404, 405}
      BY <3>1
    <3> QED
      BY <3>2, Zenon DEF RoutedToItsScript
  <2>2. CASE served # Unrouted
    <3>1. bound > 0 /\ \E k \in 1..Len(Profs), req \in input.calls : served = answerOf(Profs[k], req)
      BY <2>2 DEF Answered
    <3>2. input \in Inputs /\ NewSet(Profs)
      BY <3>1 DEF Settled, Typed, Whole
    <3> QED
      BY <3>1, <3>2, AnswerIsRouted
  <2> QED
    BY <2>1, <2>2
<1>3. Settled /\ Whole /\ Answered /\ [Next]_vars => Answered'
  BY AnsweredStep
<1> QED
  BY <1>1, <1>2, <1>3, WholeHolds, PTL DEF Spec
=============================================================================
