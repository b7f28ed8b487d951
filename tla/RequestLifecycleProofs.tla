----------------------- MODULE RequestLifecycleProofs -----------------------
(***************************************************************************)
(* Proofs about one request, for every length of a body, an envelope and a *)
(* chunk, every set of attempts a plan may hand out and every set of       *)
(* stream scripts they may be loaded with.                                 *)
(***************************************************************************)
EXTENDS RequestLifecycle, OperatorLemmas

-----------------------------------------------------------------------------
(* The inductive invariant *)

Response ==
    [attempt : Attempt, streams : BOOLEAN, dropped : BOOLEAN, status : Nat,
     body : [len : Nat, own : BOOLEAN], aborted : BOOLEAN, bytes : Nat]

Journaled ==
    [exists : BOOLEAN, aborted : BOOLEAN, bytes : Nat,
     state : {"none", "open", "aborted", "client_gone", "completed"}, sent : Nat]

Received ==
    [headers : BOOLEAN, bytes : Int, own : BOOLEAN, chunks : Nat,
     end : {"open", "abort", "clean"}]

\* The steps of a response that does not stream, of one that does, and of both.
PlainSteps == {"headers", "hang", "body", "prefix"}
StreamSteps == {"stream_headers", "chunk", "truncated", "reset", "complete"}
LastSteps == {"unwind", "finish", "done"}

Typed ==
    /\ req \in Requests
    /\ pc \in {"handle", "delay"} \cup PlainSteps \cup StreamSteps \cup LastSteps
    /\ client \in {"waiting", "gone"}
    /\ resp \in Response
    /\ entry \in Journaled
    /\ kept \in BOOLEAN /\ chunk \in Nat /\ panicking \in BOOLEAN
    /\ wire \in Received

\* Nothing has happened yet.
Untouched ==
    /\ ~ resp.streams /\ resp.attempt = NoAttempt /\ ~ resp.dropped
    /\ entry = NoEntry /\ chunk = 0 /\ ~ panicking
    /\ wire = [headers |-> FALSE, bytes |-> 0, own |-> FALSE, chunks |-> 0, end |-> "open"]

\* Handle's decision stands: only what is counted as written, and the fault
\* outcome of a client that left, are written over it.
DecisionStands ==
    /\ pc = "handle" => Untouched
    /\ pc \in {"delay", "stream_headers"} \cup PlainSteps => resp = Decided(req)
    /\ pc # "handle" =>
         /\ resp.attempt = Decided(req).attempt /\ resp.streams = Decided(req).streams
         /\ resp.dropped = Decided(req).dropped /\ resp.status = Decided(req).status
         /\ resp.body = Decided(req).body
         /\ Stayed => resp.aborted = Decided(req).aborted
         /\ kept = (req.mints /\ req.verdict = "serve" /\ commits(req.attempt))
    /\ pc \in PlainSteps => ~ resp.streams
    /\ pc \in StreamSteps => resp.streams
    /\ pc \in {"hang", "body", "prefix"} => ~ Is("close_before_headers")
    /\ pc = "prefix" => Is("truncate_body")
    /\ req.verdict = "abort" => pc \in {"handle"} \cup LastSteps

\* What the journal holds at each step, whatever the client does.
JournalLeads ==
    /\ pc # "handle" /\ resp.streams => entry.exists
    /\ pc \in {"delay", "stream_headers", "chunk", "truncated", "complete"} /\ resp.streams =>
         entry.state = "open"
    /\ ~ resp.streams => entry.state = "none"
    /\ ~ resp.streams /\ pc = "delay" => ~ entry.exists
    /\ pc \in PlainSteps /\ ~ ScriptAborts(resp.attempt) => ~ entry.exists
    /\ pc = "headers" /\ Is("close_before_headers") => entry.exists
    /\ pc = "reset" => entry.state = "aborted"
    /\ pc \in {"prefix", "finish", "done"} => entry.exists
    /\ pc \in {"finish", "done"} => entry.state # "open"
    /\ wire.end = "abort" => entry.exists
    /\ resp.streams /\ (panicking \/ wire.end = "abort") => entry.state = "aborted"
    /\ Is("truncate_body") /\ wire.bytes > 0 => entry.exists

\* The bytes net/http sends of a body that is written whole.
WholeBody == Sent(resp.body.len + Padding)

\* A client that stays and is not streamed to: what it has received, and what
\* the entry says of it, at each step.
PlainAccount ==
    Stayed /\ pc # "handle" /\ ~ resp.streams /\ req.verdict # "abort" =>
        /\ wire.chunks = 0
        /\ entry.exists => /\ entry.aborted = resp.aborted /\ entry.bytes = resp.bytes
                           /\ entry.sent = 0
        /\ pc \notin LastSteps => /\ wire.end = "open" /\ wire.bytes = 0 /\ ~ wire.own
                                  /\ ~ panicking
        /\ pc \in LastSteps /\ Is("close_before_headers") =>
             wire.end = "abort" /\ wire.bytes = 0 /\ ~ wire.own /\ panicking /\ resp.bytes = 0
        /\ pc \in LastSteps /\ Is("truncate_body") =>
             /\ wire.bytes = Sent(resp.bytes) /\ panicking
             /\ pc = "done" => wire.end = "abort"
        /\ pc \in LastSteps /\ ~ Is("close_before_headers") /\ ~ Is("truncate_body") =>
             /\ resp.bytes = WholeBody /\ ~ panicking
             /\ pc # "done" => wire.end = "open" /\ wire.bytes \in {0, WholeBody}
             /\ pc = "done" => /\ wire.end = "clean" /\ wire.bytes = WholeBody
                               /\ wire.own = resp.body.own

\* A client that stays and is streamed to, under a status that carries a body.
StreamAccount ==
    Stayed /\ pc # "handle" /\ resp.streams /\ ~ writesNoBody(resp.status) =>
        /\ wire.chunks = chunk /\ wire.bytes = resp.bytes
        /\ entry.aborted = resp.aborted
        /\ chunk <= ChunkCount
        /\ ScriptAborts(resp.attempt) => chunk <= resp.attempt.after
        /\ pc \in {"delay", "stream_headers"} => chunk = 0
        /\ pc \notin LastSteps => wire.end = "open" /\ ~ panicking
        /\ pc \in {"truncated", "reset"} => ScriptAborts(resp.attempt)
        /\ pc = "complete" => chunk = ChunkCount
        /\ pc \in {"reset"} \cup LastSteps => entry.bytes = resp.bytes /\ entry.sent = chunk
        /\ pc \in LastSteps =>
             /\ entry.state = IF ScriptAborts(resp.attempt) THEN "aborted" ELSE "completed"
             /\ panicking = ScriptAborts(resp.attempt)
             /\ ScriptAborts(resp.attempt) \/ chunk = ChunkCount
        /\ pc = "done" => wire.end = IF panicking THEN "abort" ELSE "clean"

Account == Typed /\ DecisionStands /\ JournalLeads /\ PlainAccount /\ StreamAccount

-----------------------------------------------------------------------------
(* Facts about attempts and requests *)

\* The larger and the smaller of two numbers.
LEMMA MaxOfTwo == ASSUME NEW a \in Int, NEW b \in Int PROVE Max({a, b}) = IF a >= b THEN a ELSE b
<1> DEFINE m == IF a >= b THEN a ELSE b
<1>1. \E x \in {a, b} : \A y \in {a, b} : x >= y
  OBVIOUS
<1>2. Max({a, b}) \in {a, b} /\ \A y \in {a, b} : Max({a, b}) >= y
  BY <1>1 DEF Max
<1> QED
  BY <1>2

\* The smaller of two numbers.
LEMMA MinOfTwo == ASSUME NEW a \in Int, NEW b \in Int PROVE Min({a, b}) = IF a <= b THEN a ELSE b
<1>1. \E x \in {a, b} : \A y \in {a, b} : x <= y
  OBVIOUS
<1>2. Min({a, b}) \in {a, b} /\ \A y \in {a, b} : Min({a, b}) <= y
  BY <1>1 DEF Min
<1> QED
  BY <1>2

\* An exhausted plan hands out an attempt that declares nothing.
LEMMA NoAttemptType ==
    /\ NoAttempt \in Attempt /\ EffectiveKind(NoAttempt) = "none" /\ ~ NoAttempt.hang
    /\ NoAttempt.status = 0
<1>1. /\ NoAttempt.kind = "none" /\ ~ NoAttempt.raw /\ ~ NoAttempt.ctype /\ NoAttempt.cut = 0
      /\ ~ NoAttempt.reset /\ NoAttempt.pad = 0 /\ NoAttempt.status = 0 /\ ~ NoAttempt.hang
  BY DEF NoAttempt, Bare
<1>2. Bare \in Attempt
  BY DEF Bare, Attempt, Kinds
<1>3. NoAttempt \in Attempt
  <2>1. -1 \in Int
    OBVIOUS
  <2> QED
    BY <1>2, <2>1 DEF NoAttempt, Attempt
<1> QED
  BY <1>1, <1>3 DEF EffectiveKind

\* What an attempt resolves to is a kind.
LEMMA KindType == ASSUME NEW a \in Attempt PROVE EffectiveKind(a) \in Kinds
  BY DEF Attempt, EffectiveKind, Kinds

\* What a request that can arrive is.
LEMMA RequestFacts ==
    ASSUME NEW r \in Requests
    PROVE  /\ r.attempt \in Attempt /\ (r.attempt = NoAttempt \/ LoadsWith(r.attempt, r.scripts))
           /\ r.scripts \in Entries /\ r.turn \in 1..Len(r.scripts)
           /\ r.scripts[r.turn] \in Script
           /\ r.asks \in BOOLEAN /\ r.mints \in BOOLEAN /\ r.sentinel \in BOOLEAN
           /\ r.paced \in BOOLEAN /\ r.verdict \in Verdicts
           /\ r.mints => ~ r.asks /\ r.verdict = "serve"
<1>1. PICK e \in Entries :
         /\ r \in [attempt : {a \in Attempts : a = NoAttempt \/ LoadsWith(a, e)}, scripts : {e},
                   turn : 1..Len(e), asks : BOOLEAN, paced : BOOLEAN, sentinel : BOOLEAN,
                   mints : BOOLEAN, verdict : Verdicts]
         /\ r.mints => ~ r.asks /\ r.verdict = "serve"
  BY DEF Requests
<1>2. r.attempt \in Attempts /\ r.scripts = e
  BY <1>1
<1> QED
  BY <1>1, <1>2, ExchangeAssumption, NoAttemptType

\* A stream script announces at least one chunk.
LEMMA ChunkCountType == ASSUME NEW s \in Script PROVE chunkCount(s) \in Nat \ {0}
<1>1. s.deltas \in Nat /\ s.chunks \in Nat
  BY DEF Script
<1> QED
  BY <1>1 DEF chunkCount

\* The shortest turn of an entry is no longer than any of them.
LEMMA ShortestTurn ==
    ASSUME NEW e \in Entries, NEW i \in 1..Len(e)
    PROVE  minChunks(e) \in Nat /\ minChunks(e) <= chunkCount(e[i])
<1> DEFINE S == {chunkCount(e[j]) : j \in 1..Len(e)}
<1>1. S \subseteq Nat /\ chunkCount(e[i]) \in S
  <2>1. \A j \in 1..Len(e) : e[j] \in Script
    BY ExchangeAssumption
  <2>2. \A j \in 1..Len(e) : chunkCount(e[j]) \in Nat
    BY <2>1, ChunkCountType
  <2> QED
    BY <2>2
<1>2. Min(S) \in S /\ \A y \in S : Min(S) <= y
  <2> HIDE DEF S
  <2> QED
    BY <1>1, MinInSet
<1> HIDE DEF S
<1>3. Min(S) \in Nat /\ Min(S) <= chunkCount(e[i])
  BY <1>1, <1>2
<1> QED
  BY <1>3 DEF minChunks, S

\* The bytes of a fault's body, and how many of them a cut lets through.
LEMMA BodyFacts ==
    ASSUME NEW a \in Attempt
    PROVE  /\ faultBody(a) \in [len : Nat, own : BOOLEAN]
           /\ truncationLen(a) \in Nat
           /\ truncationLenForChunk(a) \in Nat
<1>1. faultBody(a) \in [len : Nat, own : BOOLEAN]
  BY LengthsAssumption DEF faultBody
<1>2. ASSUME NEW cut \in Int, NEW len \in Nat PROVE halfOr(cut, len) \in Nat
  <2>1. (IF cut <= 0 THEN len \div 2 ELSE cut) \in Nat
    OBVIOUS
  <2> QED
    BY <2>1, MinOfTwo DEF halfOr
<1>3. a.cut \in Int /\ faultBody(a).len \in Nat /\ ChunkLen \in Nat
  BY <1>1, LengthsAssumption DEF Attempt
<1> QED
  BY <1>1, <1>2, <1>3 DEF truncationLen, truncationLenForChunk

\* What an attempt the load accepted with these scripts cannot be.
LEMMA LoadFacts ==
    ASSUME NEW a \in Attempt, NEW e \in Entries, LoadsWith(a, e)
    PROVE  /\ a.hang => ~ IsStream(EffectiveKind(a))
           /\ ~ (a.accepted /\ DeliversBody(a))
           /\ entryPolicy(e) = "stream" =>
                /\ EffectiveKind(a) \notin {"truncate_body", "oversized_body"}
                /\ a.hang => suppressesStream(EffectiveKind(a))
                /\ IsStream(EffectiveKind(a)) => a.after \in 0..(minChunks(e) - 1)
  BY DEF LoadsWith, validateFaultAttempt, ValidateStreamFaultMismatch, IsStream,
         delayAfterHeadersHasJSONBody, suppressesStream

\* Handle's decision on a request that can arrive.
LEMMA DecidedFacts ==
    ASSUME NEW r \in Requests
    PROVE  /\ Decided(r) \in Response
           /\ Decided(r).aborted = ScriptAborts(Decided(r).attempt)
           /\ r.verdict # "serve" => Decided(r).attempt = NoAttempt /\ ~ Decided(r).streams
           /\ AsksStream(r) => ~ Decided(r).dropped
           /\ Decided(r).streams =>
                /\ AsksStream(r) /\ r.verdict = "serve" /\ Decided(r).bytes = 0
                /\ ScriptAborts(Decided(r).attempt) =>
                     /\ EffectiveKind(Decided(r).attempt)
                          \in {"stream_disconnect", "stream_truncate_chunk"}
                     /\ Decided(r).attempt.after \in 0..(chunkCount(r.scripts[r.turn]) - 1)
           /\ ~ Decided(r).streams /\ Decided(r).attempt # NoAttempt =>
                ~ IsStream(EffectiveKind(Decided(r).attempt))
           /\ EffectiveKind(Decided(r).attempt) # "truncate_body" => Decided(r).bytes = 0
<1> DEFINE D == Decided(r)
           claimed == Claimed(r)
           what == Disposition(claimed, AsksStream(r))
           a == IF what = "unreachable" THEN NoAttempt ELSE claimed
           k == EffectiveKind(a)
           body == IF a # NoAttempt THEN faultBody(a)
                   ELSE [len |-> IF Serves(r) THEN BodyLen ELSE ErrorLen, own |-> Serves(r)]
           bytes == IF a # NoAttempt /\ k = "truncate_body" THEN truncationLen(a) ELSE 0
           status == IF Serves(r) THEN StatusOf(a) ELSE 400
           streams == AsksStream(r) /\ what # "suppress"
<1>1. D = [attempt |-> a, streams |-> streams, dropped |-> (what = "unreachable"),
           status |-> status, body |-> body, aborted |-> ScriptAborts(a), bytes |-> bytes]
  BY DEF Decided
<1>2. claimed \in Attempt /\ (claimed = NoAttempt \/ (claimed = r.attempt /\ r.verdict = "serve"))
  BY RequestFacts, NoAttemptType DEF Claimed
<1>3. a \in Attempt /\ (a = NoAttempt \/ (a = claimed /\ what # "unreachable"))
  BY <1>2, NoAttemptType
<1>4. body \in [len : Nat, own : BOOLEAN] /\ bytes \in Nat
  <2>1. Serves(r) \in BOOLEAN
    BY DEF Serves
  <2> HIDE DEF a
  <2> QED
    BY <1>3, <2>1, BodyFacts, LengthsAssumption
<1>5. status \in Nat
  BY <1>3 DEF StatusOf, Attempt
<1>6. AsksStream(r) => r.verdict = "serve" /\ entryPolicy(r.scripts) = "stream"
  BY DEF AsksStream
<1>7. AsksStream(r) \in BOOLEAN /\ ScriptAborts(a) \in BOOLEAN
  BY RequestFacts DEF AsksStream, ScriptAborts
<1>8. claimed = NoAttempt => what = "apply" /\ a = NoAttempt
  BY DEF Disposition
<1>9. claimed # NoAttempt => LoadsWith(claimed, r.scripts) /\ r.scripts \in Entries
  BY <1>2, RequestFacts
<1>10. AsksStream(r) => what # "unreachable"
  <2> SUFFICES ASSUME AsksStream(r), claimed # NoAttempt PROVE what # "unreachable"
    BY <1>8
  <2>1. /\ EffectiveKind(claimed) \notin {"truncate_body", "oversized_body"}
        /\ claimed.hang => suppressesStream(EffectiveKind(claimed))
    BY <1>2, <1>6, <1>9, LoadFacts
  <2> HIDE DEF claimed
  <2> QED
    BY <2>1 DEF Disposition
<1>11. streams /\ ScriptAborts(a) =>
         /\ k \in {"stream_disconnect", "stream_truncate_chunk"}
         /\ a.after \in 0..(chunkCount(r.scripts[r.turn]) - 1)
  <2> SUFFICES ASSUME streams, ScriptAborts(a)
               PROVE  /\ k \in {"stream_disconnect", "stream_truncate_chunk"}
                      /\ a.after \in 0..(chunkCount(r.scripts[r.turn]) - 1)
    OBVIOUS
  <2>1. a = claimed /\ a # NoAttempt
    BY <1>3 DEF ScriptAborts
  <2>2. k \notin {"truncate_body", "oversized_body"} /\ (IsStream(k) => a.after \in 0..(minChunks(r.scripts) - 1))
    BY <1>2, <1>6, <1>9, <2>1, LoadFacts
  <2>3. k # "close_before_headers"
    <3>1. ~ suppressesStream(EffectiveKind(claimed))
      <4> HIDE DEF claimed
      <4> QED
        BY <2>1 DEF Disposition
    <3> QED
      BY <2>1, <3>1 DEF suppressesStream
  <2>4. k \in {"stream_disconnect", "stream_truncate_chunk"}
    BY <2>2, <2>3 DEF ScriptAborts
  <2>5. a.after \in 0..(minChunks(r.scripts) - 1)
    BY <2>2, <2>4 DEF IsStream, StreamKinds
  <2>6. minChunks(r.scripts) \in Nat /\ minChunks(r.scripts) <= chunkCount(r.scripts[r.turn])
        /\ chunkCount(r.scripts[r.turn]) \in Nat
    BY RequestFacts, ShortestTurn, ChunkCountType
  <2> HIDE DEF a, k
  <2> QED
    BY <2>4, <2>5, <2>6
<1>12. streams => bytes = 0
  <2> SUFFICES ASSUME streams, a # NoAttempt PROVE k # "truncate_body"
    OBVIOUS
  <2>1. a = claimed
    BY <1>3
  <2> QED
    BY <1>2, <1>6, <1>9, <2>1, LoadFacts
<1>13. ~ streams /\ a # NoAttempt => ~ IsStream(k)
  <2> SUFFICES ASSUME ~ streams, a # NoAttempt, IsStream(k) PROVE FALSE
    OBVIOUS
  <2>1. a = claimed /\ what # "unreachable" /\ ~ suppressesStream(k)
    BY <1>3 DEF IsStream, StreamKinds, suppressesStream
  <2> QED
    BY <2>1 DEF Disposition
<1>14. r.verdict # "serve" => a = NoAttempt /\ ~ streams
  BY <1>2, <1>3, <1>6
<1>17. k # "truncate_body" => bytes = 0
  OBVIOUS
<1> HIDE DEF D, a, body, bytes, status, streams, what
<1>15. /\ D.attempt = a /\ D.streams = streams /\ D.dropped = (what = "unreachable")
       /\ D.aborted = ScriptAborts(a) /\ D.bytes = bytes
  BY <1>1
<1>16. D \in Response
  <2>1. streams \in BOOLEAN
    BY <1>7 DEF streams
  <2> QED
    BY <1>1, <1>3, <1>4, <1>5, <1>7, <2>1 DEF Response
<1> QED
  BY <1>6, <1>10, <1>11, <1>12, <1>13, <1>14, <1>15, <1>16, <1>17 DEF D, streams

-----------------------------------------------------------------------------
(* Types *)

\* What is delivered is received.
LEMMA DeliverType ==
    ASSUME NEW w \in Received, NEW n \in Int, NEW own \in BOOLEAN
    PROVE  Deliver(w, n, own) \in Received
<1>1. w.bytes + n \in Int
  BY DEF Received
<1>2. [w EXCEPT !.headers = TRUE, !.bytes = w.bytes + n, !.own = own] \in Received
  BY <1>1 DEF Received
<1> QED
  BY <1>2 DEF Deliver

\* A client that stays gets the bytes, and nothing else of the connection changes.
LEMMA DeliverFacts ==
    ASSUME NEW w \in Received, NEW n \in Int, NEW own \in BOOLEAN, Stayed
    PROVE  /\ Deliver(w, n, own).end = w.end /\ Deliver(w, n, own).chunks = w.chunks
           /\ Deliver(w, n, own).bytes = w.bytes + n /\ Deliver(w, n, own).own = own
<1>1. Deliver(w, n, own) = [w EXCEPT !.headers = TRUE, !.bytes = w.bytes + n, !.own = own]
  BY DEF Deliver, Stayed
<1> QED
  BY <1>1 DEF Received

\* What is written of a body is a number of bytes.
LEMMA BodyTypes ==
    ASSUME resp \in Response
    PROVE  Padding \in Nat /\ WholeBody \in Nat /\ Sent(resp.bytes) \in Nat
<1>1. resp.attempt.pad \in Int /\ resp.body.len \in Nat /\ resp.bytes \in Nat
  BY DEF Response, Attempt
<1>2. Padding \in Nat
  <2>1. resp.attempt.pad - resp.body.len \in Int
    BY <1>1
  <2> QED
    BY <2>1, MaxOfTwo DEF Padding
<1> QED
  BY <1>1, <1>2 DEF WholeBody, Sent

\* Every action keeps the types.
LEMMA TypedStep == Typed /\ [Next]_vars => Typed'
<1> SUFFICES ASSUME Typed, [Next]_vars PROVE Typed'
  OBVIOUS
<1>0. /\ req \in Requests /\ client \in {"waiting", "gone"} /\ resp \in Response
      /\ entry \in Journaled /\ kept \in BOOLEAN /\ chunk \in Nat /\ panicking \in BOOLEAN
      /\ wire \in Received
      /\ pc \in {"handle", "delay"} \cup PlainSteps \cup StreamSteps \cup LastSteps
  BY DEF Typed
<1>r. ASSUME NEW r \in Response, NEW st \in {"none", "open"}
      PROVE  Recorded(r, st, 0) \in Journaled
  BY DEF Recorded, Response, Journaled
<1>b. ASSUME NEW n \in Nat PROVE [resp EXCEPT !.bytes = n] \in Response
  BY <1>0 DEF Response
<1>c. ASSUME NEW st \in {"aborted", "client_gone", "completed"}, closeWith(st)
      PROVE  entry' \in Journaled
  <2>1. resp.bytes \in Nat
    BY <1>0 DEF Response
  <2> QED
    BY <1>0, <1>c, <2>1 DEF closeWith, Journaled
<1>e. ASSUME NEW w \in Received, NEW e \in {"open", "abort", "clean"}
      PROVE  [w EXCEPT !.end = e] \in Received
  BY DEF Received
<1>d. ASSUME NEW n \in Int, NEW own \in BOOLEAN PROVE Deliver(wire, n, own) \in Received
  BY <1>0, DeliverType
<1>y. ASSUME NEW n \in Int PROVE Deliver(wire, n, TRUE) \in Received
  BY <1>d, Zenon
<1>n. ASSUME NEW n \in Int PROVE Deliver(wire, n, FALSE) \in Received
  BY <1>d, Zenon
<1>f. /\ resp.bytes \in Nat /\ wire.bytes \in Int /\ resp.body.own \in BOOLEAN
      /\ wire.own \in BOOLEAN /\ resp.attempt \in Attempt /\ wire.end \in {"open", "abort", "clean"}
  BY <1>0 DEF Response, Received
<1>1. CASE Respond
  <2>1. resp' = Decided(req) /\ Decided(req) \in Response
    BY <1>0, <1>1, DecidedFacts DEF Respond
  <2>2. entry' \in Journaled
    BY <1>0, <1>1, <1>r, <2>1 DEF Respond
  <2>3. kept' \in BOOLEAN /\ panicking' \in BOOLEAN
    <3>1. commits(req.attempt) \in BOOLEAN
      <4>1. req.attempt.accepted \in BOOLEAN
        BY <1>0, RequestFacts DEF Attempt
      <4> QED
        BY <4>1 DEF commits, deliversBody, DeliversBody, IsStream
    <3>2. req.mints \in BOOLEAN
      BY <1>0, RequestFacts
    <3> QED
      BY <1>1, <3>1, <3>2 DEF Respond
  <2>4. pc' \in {"unwind", "delay"}
    BY <1>1 DEF Respond
  <2> QED
    BY <1>0, <1>1, <2>1, <2>2, <2>3, <2>4 DEF Respond, Typed, LastSteps
<1>2. CASE Dispatch
  BY <1>0, <1>2, <1>r DEF Dispatch, Typed, StreamSteps, PlainSteps
<1>3. CASE CancelDelay
  <2>1. resp.streams \in BOOLEAN /\ resp.aborted \in BOOLEAN
    BY <1>0 DEF Response
  <2>2. resp' \in Response
    BY <1>0, <1>3, <2>1 DEF CancelDelay, Response
  <2> QED
    BY <1>0, <1>3, <2>2 DEF CancelDelay, Typed, LastSteps
<1>4. CASE CloseBeforeHeaders
  BY <1>0, <1>4, <1>e DEF CloseBeforeHeaders, Typed, LastSteps
<1>5. CASE WriteHeaders
  <2>1. wire' \in Received
    <3>1. 0 \in Int
      OBVIOUS
    <3> QED
      BY <1>0, <1>5, <1>n, <3>1, Zenon DEF WriteHeaders
  <2> QED
    BY <1>0, <1>5, <2>1 DEF WriteHeaders, Typed, PlainSteps
<1>6. CASE HangElapses
  BY <1>0, <1>6 DEF HangElapses, Typed, PlainSteps
<1>7. CASE CancelHang
  <2>1. resp' \in Response
    BY <1>0, <1>7 DEF CancelHang, Response
  <2> QED
    BY <1>0, <1>7, <2>1 DEF CancelHang, Typed, LastSteps
<1>8. CASE RecordTruncation
  BY <1>0, <1>8, <1>r DEF RecordTruncation, Typed, PlainSteps
<1>9. CASE TruncateBody
  <2> DEFINE w == Deliver(wire, Sent(resp.bytes), resp.body.own)
  <2>1. w \in Received /\ w.end \in {"open", "abort", "clean"}
    <3>1. Sent(resp.bytes) \in Int
      BY <1>0, BodyTypes
    <3>2. w \in Received
      BY <1>d, <1>f, <3>1, Zenon
    <3> HIDE DEF w
    <3> QED
      BY <3>2 DEF Received
  <2>2. wire' = [w EXCEPT !.end = IF resp.attempt.reset THEN "abort" ELSE w.end]
    BY <1>9 DEF TruncateBody
  <2> HIDE DEF w
  <2>3. wire' \in Received
    BY <1>e, <2>1, <2>2
  <2> QED
    BY <1>0, <1>9, <2>3 DEF TruncateBody, Typed, LastSteps
<1>10. ASSUME NEW flushed \in BOOLEAN, WriteBody(flushed) PROVE Typed'
  <2>1. resp' = [resp EXCEPT !.bytes = WholeBody] /\ WholeBody \in Nat
    BY <1>0, <1>10, BodyTypes DEF WriteBody, WholeBody
  <2>2. wire' = IF flushed THEN Deliver(wire, WholeBody, resp.body.own) ELSE wire
    BY <1>10 DEF WriteBody, WholeBody
  <2>3. wire' \in Received
    BY <1>0, <1>f, <2>1, <2>2, <1>d
  <2> QED
    BY <1>0, <1>10, <1>b, <2>1, <2>3 DEF WriteBody, Typed, LastSteps
<1>11. CASE WriteStreamHeaders
  <2>1. wire' \in Received
    <3>1. 0 \in Int
      OBVIOUS
    <3> QED
      BY <1>11, <1>n, <3>1, Zenon DEF WriteStreamHeaders
  <2> QED
    BY <1>0, <1>11, <2>1 DEF WriteStreamHeaders, Typed, StreamSteps
<1>12. CASE Disconnect
  BY <1>0, <1>12, <1>c DEF Disconnect, Typed, StreamSteps
<1>13. CASE WriteChunk
  <2> DEFINE w == Deliver(wire, ChunkLen, TRUE)
  <2>1. w \in Received /\ w.chunks \in Nat /\ w.chunks + 1 \in Nat
    <3>1. w \in Received
      <4>1. ChunkLen \in Int
        BY LengthsAssumption
      <4> QED
        BY <1>y, <4>1, Zenon
    <3> HIDE DEF w
    <3>2. w.chunks \in Nat
      BY <3>1 DEF Received
    <3> QED
      BY <3>1, <3>2
  <2>2. wire' = [w EXCEPT !.chunks = IF client = "gone" THEN w.chunks ELSE w.chunks + 1]
    BY <1>13 DEF WriteChunk
  <2> HIDE DEF w
  <2>3. wire' \in Received
    BY <2>1, <2>2 DEF Received
  <2>4. resp.bytes + ChunkLen \in Nat /\ chunk + 1 \in Nat
    BY <1>0, <1>f, LengthsAssumption
  <2>5. resp' \in Response
    BY <1>13, <1>b, <2>4 DEF WriteChunk
  <2> QED
    BY <1>0, <1>13, <2>3, <2>4, <2>5 DEF WriteChunk, Typed
<1>14. CASE WritePartialChunk
  <2>1. truncationLenForChunk(resp.attempt) \in Nat
    BY <1>f, BodyFacts
  <2>2. resp.bytes + truncationLenForChunk(resp.attempt) \in Nat
    BY <1>f, <2>1
  <2>3. resp' \in Response
    BY <1>14, <1>b, <2>2 DEF WritePartialChunk
  <2>4. wire' \in Received
    <3>1. truncationLenForChunk(resp.attempt) \in Int
      BY <2>1
    <3> QED
      BY <1>14, <1>y, <3>1, Zenon DEF WritePartialChunk
  <2> QED
    BY <1>0, <1>14, <2>3, <2>4 DEF WritePartialChunk, Typed, StreamSteps
<1>15. CASE CloseTruncated
  BY <1>0, <1>15, <1>c DEF CloseTruncated, Typed, StreamSteps
<1>16. CASE ResetStream
  BY <1>0, <1>16, <1>e, <1>f DEF ResetStream, Typed, LastSteps
<1>17. CASE WriteSentinel
  <2>1. resp.bytes + 1 \in Nat
    BY <1>f
  <2>2. resp' \in Response
    BY <1>17, <1>b, <2>1 DEF WriteSentinel
  <2>3. wire' \in Received
    <3>1. 1 \in Int
      OBVIOUS
    <3> QED
      BY <1>17, <1>y, <3>1, Zenon DEF WriteSentinel
  <2> QED
    BY <1>0, <1>17, <2>2, <2>3 DEF WriteSentinel, Typed, StreamSteps
<1>18. CASE ClientGone
  BY <1>0, <1>18, <1>c DEF ClientGone, Typed, LastSteps
<1>19. CASE Complete
  BY <1>0, <1>19, <1>c DEF Complete, Typed, LastSteps
<1>20. CASE Unwind
  <2>1. entry' \in Journaled
    <3>1. CASE ~ entry.exists
      BY <1>0, <1>20, <1>r, <3>1 DEF Unwind
    <3>2. CASE entry.exists
      BY <1>0, <1>20, <3>2 DEF Unwind, Journaled
    <3> QED
      BY <3>1, <3>2
  <2> QED
    BY <1>0, <1>20, <2>1 DEF Unwind, Typed, LastSteps
<1>21. CASE Finish
  <2>1. wire' \in Received
    <3>1. CASE panicking
      BY <1>0, <1>21, <1>e, <3>1 DEF Finish
    <3>2. CASE ~ panicking
      <4> DEFINE n == IF resp.streams THEN 0 ELSE resp.bytes - wire.bytes
                 own == IF resp.streams THEN wire.own ELSE resp.body.own
                 w == Deliver(wire, n, own)
      <4>1. n \in Int /\ own \in BOOLEAN
        BY <1>f
      <4>2. wire' = [w EXCEPT !.end = "clean"]
        BY <1>21, <3>2 DEF Finish
      <4> HIDE DEF n, own
      <4>3. w \in Received
        BY <1>0, <4>1, <1>d
      <4> HIDE DEF w
      <4> QED
        BY <1>e, <4>2, <4>3
    <3> QED
      BY <3>1, <3>2
  <2> QED
    BY <1>0, <1>21, <2>1 DEF Finish, Typed, LastSteps
<1>22. CASE Leave
  BY <1>0, <1>22 DEF Leave, Typed
<1>23. CASE UNCHANGED vars
  BY <1>0, <1>23 DEF vars, Typed
<1> QED
  BY <1>1, <1>2, <1>3, <1>4, <1>5, <1>6, <1>7, <1>8, <1>9, <1>10, <1>11, <1>12, <1>13, <1>14,
     <1>15, <1>16, <1>17, <1>18, <1>19, <1>20, <1>21, <1>22, <1>23 DEF Next, Handle

-----------------------------------------------------------------------------
(* The decision *)

\* The steps after Handle's decision, whose order of steps is fixed.
Moves ==
    \/ pc = "delay" /\ pc' \in {IF resp.streams THEN "stream_headers" ELSE "headers", "unwind"}
    \/ pc = "headers" /\ pc' = "unwind"
    \/ pc = "headers" /\ pc' \in {"hang", "body"} /\ ~ Is("close_before_headers")
    \/ pc = "hang" /\ pc' \in {"body", "unwind"}
    \/ pc = "body" /\ pc' = "prefix" /\ Is("truncate_body")
    \/ pc = "body" /\ pc' = "unwind"
    \/ pc = "prefix" /\ pc' = "unwind"
    \/ pc \in StreamSteps /\ pc' \in (StreamSteps \ {"stream_headers"}) \cup {"unwind"}
    \/ pc = "unwind" /\ pc' = "finish"
    \/ pc = "finish" /\ pc' = "done"
    \/ pc' = pc

\* No step after the decision changes what was decided; the scripted outcome
\* changes only for a client that has left, what is counted only on the last
\* step of a plain response or inside a stream.
LEMMA DecidedStays ==
    ASSUME Typed, pc # "handle", [Next]_vars
    PROVE  /\ req' = req /\ kept' = kept
           /\ resp'.attempt = resp.attempt /\ resp'.streams = resp.streams
           /\ resp'.dropped = resp.dropped /\ resp'.status = resp.status
           /\ resp'.body = resp.body
           /\ Stayed' => Stayed /\ resp'.aborted = resp.aborted
           /\ resp' = resp \/ (pc' = "unwind" \/ pc' \in StreamSteps \ {"stream_headers"})
           /\ Moves
<1>0. resp \in Response /\ client \in {"waiting", "gone"}
  BY DEF Typed
<1> DEFINE Same == /\ resp'.attempt = resp.attempt /\ resp'.streams = resp.streams
                   /\ resp'.dropped = resp.dropped /\ resp'.status = resp.status
                   /\ resp'.body = resp.body
<1>b. ASSUME NEW n, resp' = [resp EXCEPT !.bytes = n] PROVE Same /\ resp'.aborted = resp.aborted
  BY <1>0, <1>b DEF Response
<1>a. ASSUME NEW n, NEW f, resp' = [resp EXCEPT !.aborted = f, !.bytes = n] PROVE Same
  BY <1>0, <1>a DEF Response
<1>1. CASE Dispatch
  BY <1>1 DEF Dispatch, Moves, Stayed
<1>2. CASE CancelDelay
  <2>1. Same
    BY <1>2, <1>a DEF CancelDelay
  <2> QED
    BY <1>2, <2>1 DEF CancelDelay, Moves, Stayed
<1>3. CASE CloseBeforeHeaders
  BY <1>3 DEF CloseBeforeHeaders, Moves, Stayed
<1>4. CASE WriteHeaders
  BY <1>4 DEF WriteHeaders, Moves, Stayed
<1>5. CASE HangElapses
  BY <1>5 DEF HangElapses, Moves, Stayed
<1>6. CASE CancelHang
  <2>1. Same
    BY <1>6, <1>a DEF CancelHang
  <2> QED
    BY <1>6, <2>1 DEF CancelHang, Moves, Stayed
<1>7. CASE RecordTruncation
  BY <1>7 DEF RecordTruncation, Moves, Stayed
<1>8. CASE TruncateBody
  BY <1>8 DEF TruncateBody, Moves, Stayed
<1>9. ASSUME NEW flushed \in BOOLEAN, WriteBody(flushed)
      PROVE  req' = req /\ kept' = kept /\ Same /\ (Stayed' => Stayed /\ resp'.aborted = resp.aborted)
             /\ pc' = "unwind" /\ Moves
  <2>1. Same /\ resp'.aborted = resp.aborted
    BY <1>9, <1>b DEF WriteBody
  <2> QED
    BY <1>9, <2>1 DEF WriteBody, Moves, Stayed
<1>10. CASE WriteStreamHeaders
  BY <1>10 DEF WriteStreamHeaders, Moves, Stayed, StreamSteps
<1>11. CASE Disconnect
  BY <1>11 DEF Disconnect, Moves, Stayed, StreamSteps
<1>12. CASE WriteChunk
  <2>1. Same /\ resp'.aborted = resp.aborted
    BY <1>12, <1>b DEF WriteChunk
  <2> QED
    BY <1>12, <2>1 DEF WriteChunk, Streaming, Moves, Stayed, StreamSteps
<1>13. CASE WritePartialChunk
  <2>1. Same /\ resp'.aborted = resp.aborted
    BY <1>13, <1>b DEF WritePartialChunk
  <2> QED
    BY <1>13, <2>1 DEF WritePartialChunk, Streaming, Moves, Stayed, StreamSteps
<1>14. CASE CloseTruncated
  BY <1>14 DEF CloseTruncated, Moves, Stayed, StreamSteps
<1>15. CASE ResetStream
  BY <1>15 DEF ResetStream, Moves, Stayed, StreamSteps
<1>16. CASE WriteSentinel
  <2>1. Same /\ resp'.aborted = resp.aborted
    BY <1>16, <1>b DEF WriteSentinel
  <2> QED
    BY <1>16, <2>1 DEF WriteSentinel, Streaming, Moves, Stayed, StreamSteps
<1>17. CASE ClientGone
  BY <1>17 DEF ClientGone, Streaming, Moves, Stayed, StreamSteps
<1>18. CASE Complete
  BY <1>18 DEF Complete, Streaming, Moves, Stayed, StreamSteps
<1>19. CASE Unwind
  BY <1>19 DEF Unwind, Moves, Stayed
<1>20. CASE Finish
  BY <1>20 DEF Finish, Moves, Stayed
<1>21. CASE Leave
  BY <1>21 DEF Leave, Moves, Stayed
<1>22. CASE UNCHANGED vars
  BY <1>22 DEF vars, Moves, Stayed
<1>23. ~ Respond
  BY DEF Respond
<1> QED
  BY <1>1, <1>2, <1>3, <1>4, <1>5, <1>6, <1>7, <1>8, <1>9, <1>10, <1>11, <1>12, <1>13, <1>14,
     <1>15, <1>16, <1>17, <1>18, <1>19, <1>20, <1>21, <1>22, <1>23 DEF Next, Handle

\* The decision stands at every step: Handle makes it once.
LEMMA DecisionStep == Typed /\ DecisionStands /\ [Next]_vars => DecisionStands'
<1> SUFFICES ASSUME Typed, DecisionStands, [Next]_vars PROVE DecisionStands'
  OBVIOUS
<1>0. req \in Requests /\ resp \in Response /\ client \in {"waiting", "gone"}
  BY DEF Typed
<1>1. CASE pc = "handle"
  <2>1. CASE Respond
    <3>1. /\ req' = req /\ resp' = Decided(req) /\ client' = client
          /\ kept' = (req.mints /\ req.verdict = "serve" /\ commits(req.attempt))
          /\ pc' = IF req.verdict = "abort" THEN "unwind" ELSE "delay"
      BY <2>1 DEF Respond
    <3> QED
      BY <3>1 DEF DecisionStands, PlainSteps, StreamSteps, LastSteps, Decided
  <2>2. CASE Leave
    BY <1>1, <2>2 DEF Leave, DecisionStands, Untouched, PlainSteps, StreamSteps
  <2>3. CASE UNCHANGED vars
    BY <1>1, <2>3 DEF vars, DecisionStands, Untouched, PlainSteps, StreamSteps
  <2> QED
    BY <1>1, <2>1, <2>2, <2>3 DEF Next, Handle, Dispatch, CancelDelay, CloseBeforeHeaders,
       WriteHeaders, HangElapses, CancelHang, RecordTruncation, TruncateBody, WriteBody,
       WriteStreamHeaders, Disconnect, Streaming, WriteChunk, WritePartialChunk, CloseTruncated,
       ResetStream, WriteSentinel, ClientGone, Complete, Unwind, Finish
<1>2. CASE pc # "handle"
  <2> DEFINE d == Decided(req)
  <2>1. req' = req /\ d' = d
    BY <1>2, DecidedStays
  <2>2. pc' # "handle" /\ Moves
    BY <1>2, DecidedStays DEF Moves, StreamSteps
  <2>3. /\ resp'.attempt = d.attempt /\ resp'.streams = d.streams /\ resp'.dropped = d.dropped
        /\ resp'.status = d.status /\ resp'.body = d.body
        /\ Stayed' => resp'.aborted = d.aborted
        /\ kept' = (req.mints /\ req.verdict = "serve" /\ commits(req.attempt))
    BY <1>2, DecidedStays DEF DecisionStands
  <2>4. pc' \in {"delay", "stream_headers"} \cup PlainSteps => resp' = d
    <3>1. pc' \in {"delay", "stream_headers"} \cup PlainSteps =>
            pc \in {"delay", "stream_headers"} \cup PlainSteps
      BY <1>2, <2>2 DEF Moves, PlainSteps, StreamSteps
    <3>2. pc' \in {"delay", "stream_headers"} \cup PlainSteps => resp' = resp
      BY <1>2, DecidedStays DEF PlainSteps, StreamSteps
    <3> QED
      BY <3>1, <3>2 DEF DecisionStands
  <2>5. (pc' \in PlainSteps => ~ resp'.streams) /\ (pc' \in StreamSteps => resp'.streams)
    <3>1. resp'.streams = resp.streams
      BY <1>2, DecidedStays
    <3> QED
      BY <1>2, <2>2, <3>1 DEF DecisionStands, Moves, PlainSteps, StreamSteps
  <2>6. /\ pc' \in {"hang", "body", "prefix"} => ~ Is("close_before_headers")'
        /\ pc' = "prefix" => Is("truncate_body")'
    <3>1. resp'.attempt = resp.attempt
      BY <1>2, DecidedStays
    <3>2. \A kind : Is(kind)' = Is(kind)
      BY <3>1 DEF Is
    <3> QED
      BY <1>2, <2>2, <3>2 DEF DecisionStands, Moves, StreamSteps
  <2>7. req.verdict = "abort" => pc' \in LastSteps
    BY <1>2, <2>2 DEF DecisionStands, Moves, PlainSteps, StreamSteps, LastSteps
  <2> QED
    BY <2>1, <2>2, <2>3, <2>4, <2>5, <2>6, <2>7 DEF DecisionStands, Untouched, d
<1> QED
  BY <1>1, <1>2

-----------------------------------------------------------------------------
(* The journal *)

\* Every step keeps what the journal holds ahead of what a client can see.
LEMMA JournalStep ==
    Typed /\ DecisionStands /\ JournalLeads /\ [Next]_vars => JournalLeads'
<1> SUFFICES ASSUME Typed, DecisionStands, JournalLeads, [Next]_vars PROVE JournalLeads'
  OBVIOUS
<1>0. /\ req \in Requests /\ resp \in Response /\ entry \in Journaled /\ wire \in Received
      /\ client \in {"waiting", "gone"} /\ panicking \in BOOLEAN /\ resp.streams \in BOOLEAN
      /\ entry.exists \in BOOLEAN
      /\ entry.state \in {"none", "open", "aborted", "client_gone", "completed"}
  BY DEF Typed, Response, Journaled
<1>s. ASSUME pc # "handle"
      PROVE  /\ resp'.attempt = resp.attempt /\ resp'.streams = resp.streams
             /\ \A kind : Is(kind)' = Is(kind)
             /\ ScriptAborts(resp'.attempt) = ScriptAborts(resp.attempt)
  BY <1>s, DecidedStays DEF Is
<1>c. ASSUME NEW st \in {"aborted", "client_gone", "completed"}, closeWith(st)
      PROVE  entry'.state = st /\ entry'.exists = entry.exists
  BY <1>0, <1>c DEF closeWith, Journaled
<1>r. ASSUME NEW r, NEW st PROVE Recorded(r, st, 0).exists /\ Recorded(r, st, 0).state = st
  BY DEF Recorded
<1>1. CASE Respond
  <2> DEFINE d == Decided(req)
  <2>1. d \in Response /\ d.streams \in BOOLEAN /\ (req.verdict = "abort" => ~ d.streams)
    BY <1>0, DecidedFacts DEF Response
  <2>2. entry.state = "none" /\ ~ entry.exists /\ wire.end = "open" /\ wire.bytes = 0
    BY <1>1 DEF Respond, DecisionStands, Untouched, NoEntry
  <2>3. /\ resp' = d /\ pc' \in {"unwind", "delay"} /\ wire' = wire
        /\ entry' = IF d.streams THEN Recorded(d, "open", 0) ELSE entry
        /\ panicking' = (req.verdict = "abort")
    BY <1>1 DEF Respond
  <2>4. d.streams => entry'.exists /\ entry'.state = "open"
    BY <1>r, <2>3
  <2>5. ~ d.streams => entry' = entry
    BY <2>3
  <2> HIDE DEF d
  <2>6. /\ resp'.streams = d.streams /\ wire'.end = "open" /\ ~ (wire'.bytes > 0)
        /\ (d.streams => ~ panicking')
    <3>1. resp'.streams = d.streams
      BY <2>3
    <3>2. wire'.end = "open" /\ wire'.bytes = 0
      BY <2>2, <2>3
    <3>3. d.streams => ~ panicking'
      BY <2>1, <2>3
    <3> QED
      BY <3>1, <3>2, <3>3
  <2>7. CASE d.streams
    BY <2>3, <2>4, <2>6, <2>7 DEF JournalLeads, PlainSteps
  <2>8. CASE ~ d.streams
    BY <2>2, <2>3, <2>5, <2>6, <2>8 DEF JournalLeads, PlainSteps
  <2> QED
    BY <2>7, <2>8
<1>2. CASE Dispatch
  <2>1. pc = "delay" /\ wire' = wire /\ panicking' = panicking
        /\ pc' = (IF resp.streams THEN "stream_headers" ELSE "headers") /\ resp' = resp
    BY <1>2 DEF Dispatch
  <2>2. resp.aborted = ScriptAborts(resp.attempt)
    BY <1>0, <2>1, DecidedFacts DEF DecisionStands
  <2>3. Is("close_before_headers") => ScriptAborts(resp.attempt) /\ ~ DefersRecord(resp)
    BY DEF Is, ScriptAborts, DefersRecord
  <2>4. CASE resp.aborted /\ ~ resp.streams /\ ~ DefersRecord(resp)
    <3>1. entry'.exists /\ entry'.state = "none"
      BY <1>2, <1>r, <2>4 DEF Dispatch
    <3> QED
      BY <1>s, <2>1, <2>2, <2>4, <3>1 DEF JournalLeads, PlainSteps
  <2>5. CASE ~ (resp.aborted /\ ~ resp.streams /\ ~ DefersRecord(resp))
    <3>1. entry' = entry
      BY <1>2, <2>5 DEF Dispatch
    <3> QED
      BY <1>s, <2>1, <2>2, <2>3, <2>5, <3>1 DEF JournalLeads, PlainSteps
  <2> QED
    BY <2>4, <2>5
<1>3. CASE CancelDelay
  BY <1>s, <1>3 DEF CancelDelay, JournalLeads, PlainSteps
<1>4. CASE CloseBeforeHeaders
  <2>1. ~ resp.streams
    BY <1>4 DEF CloseBeforeHeaders, DecisionStands, PlainSteps
  <2>2. wire'.bytes = wire.bytes
    BY <1>0, <1>4 DEF CloseBeforeHeaders, Received
  <2> QED
    BY <1>s, <1>4, <2>1, <2>2 DEF CloseBeforeHeaders, JournalLeads, PlainSteps
<1>5. CASE WriteHeaders
  <2>1. wire'.end = wire.end /\ wire'.bytes = wire.bytes
    BY <1>0, <1>5 DEF WriteHeaders, Deliver, Received
  <2> QED
    BY <1>s, <1>5, <2>1 DEF WriteHeaders, JournalLeads, PlainSteps
<1>6. CASE HangElapses
  BY <1>s, <1>6 DEF HangElapses, JournalLeads, PlainSteps
<1>7. CASE CancelHang
  BY <1>s, <1>7 DEF CancelHang, JournalLeads, PlainSteps
<1>8. CASE RecordTruncation
  <2>1. ~ resp.streams /\ ScriptAborts(resp.attempt)
    BY <1>8 DEF RecordTruncation, DecisionStands, PlainSteps, Is, ScriptAborts
  <2>2. entry'.exists /\ entry'.state = "none"
    BY <1>8, <1>r, <2>1 DEF RecordTruncation, JournalLeads
  <2> QED
    BY <1>s, <1>8, <2>1, <2>2 DEF RecordTruncation, JournalLeads, PlainSteps
<1>9. CASE TruncateBody
  <2>1. ~ resp.streams /\ entry.exists /\ entry' = entry /\ pc' = "unwind"
    BY <1>9 DEF TruncateBody, DecisionStands, PlainSteps, JournalLeads
  <2> QED
    BY <1>s, <1>9, <2>1 DEF TruncateBody, JournalLeads, PlainSteps
<1>10. ASSUME NEW flushed \in BOOLEAN, WriteBody(flushed) PROVE JournalLeads'
  <2>1. ~ resp.streams /\ ~ Is("truncate_body") /\ entry' = entry /\ pc' = "unwind"
        /\ panicking' = panicking
    BY <1>10 DEF WriteBody, DecisionStands, PlainSteps
  <2>2. wire'.end = wire.end
    BY <1>0, <1>10 DEF WriteBody, Deliver, Received
  <2> QED
    BY <1>s, <1>10, <2>1, <2>2 DEF WriteBody, JournalLeads, PlainSteps
<1>11. CASE WriteStreamHeaders
  <2>1. wire'.end = wire.end /\ wire'.bytes = wire.bytes
    BY <1>0, <1>11 DEF WriteStreamHeaders, Deliver, Received
  <2> QED
    BY <1>s, <1>11, <2>1 DEF WriteStreamHeaders, JournalLeads, PlainSteps
<1>t. pc \in StreamSteps => resp.streams /\ entry.exists
  BY DEF DecisionStands, JournalLeads, StreamSteps
<1>12. CASE Disconnect
  <2>1. entry'.state = "aborted" /\ entry'.exists = entry.exists
    BY <1>12, <1>c DEF Disconnect
  <2> QED
    BY <1>s, <1>t, <1>12, <2>1 DEF Disconnect, JournalLeads, PlainSteps, StreamSteps
<1>13. CASE WriteChunk
  <2>1. wire'.end = wire.end
    BY <1>0, <1>13 DEF WriteChunk, Deliver, Received
  <2> QED
    BY <1>s, <1>t, <1>13, <2>1 DEF WriteChunk, Streaming, JournalLeads, PlainSteps, StreamSteps
<1>14. CASE WritePartialChunk
  <2>1. wire'.end = wire.end
    BY <1>0, <1>14 DEF WritePartialChunk, Deliver, Received
  <2> QED
    BY <1>s, <1>t, <1>14, <2>1 DEF WritePartialChunk, Streaming, JournalLeads, PlainSteps, StreamSteps
<1>15. CASE CloseTruncated
  <2>1. entry'.state = "aborted" /\ entry'.exists = entry.exists
    BY <1>15, <1>c DEF CloseTruncated
  <2> QED
    BY <1>s, <1>t, <1>15, <2>1 DEF CloseTruncated, JournalLeads, PlainSteps, StreamSteps
<1>16. CASE ResetStream
  <2>1. wire'.bytes = wire.bytes
    BY <1>0, <1>16 DEF ResetStream, Received
  <2> QED
    BY <1>s, <1>t, <1>16, <2>1 DEF ResetStream, JournalLeads, PlainSteps, StreamSteps
<1>17. CASE WriteSentinel
  <2>1. wire'.end = wire.end
    BY <1>0, <1>17 DEF WriteSentinel, Deliver, Received
  <2> QED
    BY <1>s, <1>t, <1>17, <2>1 DEF WriteSentinel, Streaming, JournalLeads, PlainSteps, StreamSteps
<1>18. CASE ClientGone
  <2>1. entry'.state = "client_gone" /\ entry'.exists = entry.exists
    BY <1>18, <1>c DEF ClientGone
  <2>2. entry.state = "open" /\ pc = "chunk"
    BY <1>t, <1>18 DEF ClientGone, Streaming, JournalLeads, StreamSteps
  <2> QED
    BY <1>s, <1>t, <1>18, <2>1, <2>2 DEF ClientGone, JournalLeads, PlainSteps, StreamSteps
<1>19. CASE Complete
  <2>1. entry'.state = "completed" /\ entry'.exists = entry.exists
    BY <1>19, <1>c DEF Complete
  <2>2. entry.state = "open" /\ pc \in {"chunk", "complete"}
    BY <1>t, <1>19 DEF Complete, Streaming, JournalLeads, StreamSteps
  <2> QED
    BY <1>s, <1>t, <1>19, <2>1, <2>2 DEF Complete, JournalLeads, PlainSteps, StreamSteps
<1>20. CASE Unwind
  <2>1. pc = "unwind" /\ pc' = "finish" /\ resp' = resp /\ wire' = wire /\ panicking' = panicking
    BY <1>20 DEF Unwind
  <2>2. CASE ~ entry.exists
    <3>1. entry'.exists /\ entry'.state = "none" /\ ~ resp.streams
      BY <1>20, <1>r, <2>1, <2>2 DEF Unwind, JournalLeads
    <3> QED
      BY <1>s, <2>1, <2>2, <3>1 DEF JournalLeads, PlainSteps
  <2>3. CASE entry.exists /\ entry.state = "open"
    <3>1. entry'.exists /\ entry'.state = "client_gone"
      BY <1>0, <1>20, <2>3 DEF Unwind, Journaled
    <3> QED
      BY <1>s, <2>1, <2>3, <3>1 DEF JournalLeads, PlainSteps
  <2>4. CASE entry.exists /\ entry.state # "open"
    <3>1. entry' = entry
      BY <1>20, <2>4 DEF Unwind
    <3> QED
      BY <1>s, <2>1, <2>4, <3>1 DEF JournalLeads, PlainSteps
  <2> QED
    BY <2>2, <2>3, <2>4
<1>21. CASE Finish
  <2>1. pc = "finish" /\ pc' = "done" /\ resp' = resp /\ entry' = entry /\ panicking' = panicking
    BY <1>21 DEF Finish
  <2>2. ~ panicking => wire'.end = "clean"
    <3>1. SUFFICES ASSUME ~ panicking PROVE wire'.end = "clean"
      OBVIOUS
    <3> DEFINE w == Deliver(wire, IF resp.streams THEN 0 ELSE resp.bytes - wire.bytes,
                            IF resp.streams THEN wire.own ELSE resp.body.own)
    <3>2. w \in Received
      <4>1. /\ (IF resp.streams THEN 0 ELSE resp.bytes - wire.bytes) \in Int
            /\ (IF resp.streams THEN wire.own ELSE resp.body.own) \in BOOLEAN
        BY <1>0 DEF Response, Received
      <4> QED
        BY <1>0, <4>1, DeliverType
    <3>3. wire' = [w EXCEPT !.end = "clean"]
      BY <1>21, <3>1 DEF Finish
    <3> HIDE DEF w
    <3> QED
      BY <3>2, <3>3 DEF Received
  <2> QED
    BY <1>s, <2>1, <2>2 DEF JournalLeads, PlainSteps
<1>22. CASE Leave
  <2>1. pc' = pc /\ resp' = resp /\ entry' = entry /\ panicking' = panicking /\ wire' = wire
    BY <1>22 DEF Leave
  <2> QED
    BY <2>1 DEF JournalLeads, Is
<1>23. CASE UNCHANGED vars
  BY <1>23 DEF vars, JournalLeads, Is
<1> QED
  BY <1>1, <1>2, <1>3, <1>4, <1>5, <1>6, <1>7, <1>8, <1>9, <1>10, <1>11, <1>12, <1>13, <1>14,
     <1>15, <1>16, <1>17, <1>18, <1>19, <1>20, <1>21, <1>22, <1>23 DEF Next, Handle

-----------------------------------------------------------------------------
(* The accounts: what the journal says of what a client that stayed received *)

\* A response that does not stream runs no stream fault: an aborting one either
\* closes before the headers or cuts the body.
LEMMA PlainAborts ==
    ASSUME Typed, DecisionStands, pc # "handle", ~ resp.streams, ScriptAborts(resp.attempt)
    PROVE  Is("close_before_headers") \/ Is("truncate_body")
<1>1. resp.attempt = Decided(req).attempt /\ ~ Decided(req).streams /\ req \in Requests
  BY DEF Typed, DecisionStands
<1>2. resp.attempt # NoAttempt => ~ IsStream(EffectiveKind(resp.attempt))
  BY <1>1, DecidedFacts
<1> QED
  BY <1>2 DEF ScriptAborts, Is, IsStream, StreamKinds

\* Every step of a response that does not stream keeps its account.
LEMMA PlainStep ==
    Typed /\ DecisionStands /\ JournalLeads /\ PlainAccount /\ [Next]_vars => PlainAccount'
<1> SUFFICES ASSUME Typed, DecisionStands, JournalLeads, PlainAccount, [Next]_vars,
                    Stayed', pc' # "handle", ~ resp'.streams, req'.verdict # "abort"
             PROVE  PlainAccount'
  BY DEF PlainAccount
<1>0. /\ req \in Requests /\ resp \in Response /\ entry \in Journaled /\ wire \in Received
      /\ client \in {"waiting", "gone"} /\ panicking \in BOOLEAN /\ resp.streams \in BOOLEAN
      /\ resp.bytes \in Nat /\ resp.body.own \in BOOLEAN /\ wire.bytes \in Int
      /\ WholeBody \in Nat
  BY BodyTypes DEF Typed, Response, Received
<1>r. ASSUME NEW r, NEW st
      PROVE  /\ Recorded(r, st, 0).exists /\ Recorded(r, st, 0).aborted = r.aborted
             /\ Recorded(r, st, 0).bytes = r.bytes /\ Recorded(r, st, 0).sent = 0
  BY DEF Recorded
<1>s. ASSUME pc # "handle"
      PROVE  /\ ~ resp.streams /\ Stayed /\ req.verdict # "abort" /\ resp'.aborted = resp.aborted
             /\ \A kind : Is(kind)' = Is(kind)
             /\ WholeBody' = WholeBody /\ (\A n : Sent(n)' = Sent(n))
             /\ resp'.body = resp.body
  <2>1. /\ req' = req /\ resp'.attempt = resp.attempt /\ resp'.streams = resp.streams
        /\ resp'.status = resp.status /\ resp'.body = resp.body
        /\ Stayed /\ resp'.aborted = resp.aborted
    BY <1>s, DecidedStays
  <2>2. \A kind : Is(kind)' = Is(kind)
    BY <2>1 DEF Is
  <2>3. \A n : Sent(n)' = Sent(n)
    BY <2>1 DEF Sent
  <2>4. WholeBody' = WholeBody
    BY <2>1, <2>2 DEF WholeBody, Sent, Padding
  <2> QED
    BY <2>1, <2>2, <2>3, <2>4
<1>1. CASE Respond
  <2>1. /\ pc' = "delay" /\ wire' = wire /\ entry' = entry /\ ~ panicking'
    BY <1>1 DEF Respond
  <2>2. /\ ~ entry.exists /\ wire.end = "open" /\ wire.bytes = 0 /\ ~ wire.own /\ wire.chunks = 0
    BY <1>1 DEF Respond, DecisionStands, Untouched, NoEntry
  <2> QED
    BY <2>1, <2>2 DEF PlainAccount, LastSteps
<1>2. CASE Dispatch
  <2>1. pc = "delay" /\ pc' = "headers" /\ wire' = wire /\ resp' = resp /\ panicking' = panicking
        /\ (entry' = Recorded(resp, "none", 0) \/ entry' = entry)
    BY <1>2 DEF Dispatch
  <2> QED
    BY <1>r, <1>s, <2>1 DEF PlainAccount, LastSteps
<1>3. CASE CancelDelay
  BY <1>3, <1>s DEF CancelDelay, Stayed
<1>4. CASE CloseBeforeHeaders
  <2>1. /\ wire'.end = "abort" /\ wire'.bytes = wire.bytes /\ wire'.own = wire.own
        /\ wire'.chunks = wire.chunks
    BY <1>0, <1>4 DEF CloseBeforeHeaders, Received
  <2>2. Is("close_before_headers") /\ ~ Is("truncate_body")
    BY <1>4 DEF CloseBeforeHeaders, Is
  <2>3. resp.bytes = 0
    <3>1. resp = Decided(req) /\ EffectiveKind(resp.attempt) # "truncate_body"
      BY <1>4, <2>2 DEF CloseBeforeHeaders, DecisionStands, PlainSteps, Is
    <3> QED
      BY <1>0, <3>1, DecidedFacts
  <2> QED
    BY <1>4, <1>s, <2>1, <2>2, <2>3 DEF CloseBeforeHeaders, PlainAccount, LastSteps
<1>5. CASE WriteHeaders
  <2>1. wire.bytes = 0 /\ ~ wire.own
    BY <1>5, <1>s DEF WriteHeaders, PlainAccount, LastSteps
  <2>2. /\ wire'.end = wire.end /\ wire'.bytes = 0 /\ ~ wire'.own /\ wire'.chunks = wire.chunks
    BY <1>0, <1>5, <2>1 DEF WriteHeaders, Deliver, Received
  <2> QED
    BY <1>5, <1>s, <2>2 DEF WriteHeaders, PlainAccount, LastSteps
<1>6. CASE HangElapses
  BY <1>6, <1>s DEF HangElapses, PlainAccount, LastSteps
<1>7. CASE CancelHang
  BY <1>7, <1>s DEF CancelHang, Stayed
<1>8. CASE RecordTruncation
  <2>1. pc = "body" /\ pc' = "prefix" /\ wire' = wire /\ resp' = resp /\ panicking' = panicking
        /\ (entry' = Recorded(resp, "none", 0) \/ entry' = entry)
    BY <1>8 DEF RecordTruncation
  <2> QED
    BY <1>r, <1>s, <2>1 DEF PlainAccount, LastSteps
<1>9. CASE TruncateBody
  <2>1. Is("truncate_body") /\ ~ Is("close_before_headers") /\ wire.bytes = 0 /\ wire.chunks = 0
    BY <1>9, <1>s DEF TruncateBody, DecisionStands, PlainAccount, LastSteps
  <2>2. Sent(resp.bytes) \in Nat
    BY <1>0, BodyTypes
  <2> DEFINE w == Deliver(wire, Sent(resp.bytes), resp.body.own)
  <2>3. w \in Received /\ w.bytes = Sent(resp.bytes) /\ w.chunks = 0
    <3>1. w.bytes = wire.bytes + Sent(resp.bytes) /\ w.chunks = wire.chunks
      BY <1>0, <1>9, <1>s, <2>2, DeliverFacts DEF TruncateBody
    <3>2. w \in Received
      BY <1>0, <2>2, DeliverType
    <3> HIDE DEF w
    <3> QED
      BY <2>1, <2>2, <3>1, <3>2
  <2>4. wire' = [w EXCEPT !.end = IF resp.attempt.reset THEN "abort" ELSE w.end]
    BY <1>9 DEF TruncateBody
  <2> HIDE DEF w
  <2>5. wire'.bytes = Sent(resp.bytes) /\ wire'.chunks = 0
    BY <2>3, <2>4 DEF Received
  <2> QED
    BY <1>9, <1>s, <2>1, <2>5 DEF TruncateBody, PlainAccount, LastSteps
<1>10. ASSUME NEW flushed \in BOOLEAN, WriteBody(flushed) PROVE PlainAccount'
  <2>1. pc = "body" /\ pc' = "unwind" /\ ~ Is("truncate_body") /\ entry' = entry
        /\ panicking' = panicking /\ resp' = [resp EXCEPT !.bytes = WholeBody]
        /\ wire' = IF flushed THEN Deliver(wire, WholeBody, resp.body.own) ELSE wire
    BY <1>10 DEF WriteBody, WholeBody
  <2>2. /\ ~ Is("close_before_headers") /\ ~ entry.exists /\ wire.bytes = 0 /\ wire.chunks = 0
        /\ wire.end = "open" /\ ~ panicking
    <3>1. ~ Is("close_before_headers")
      BY <2>1 DEF DecisionStands
    <3>2. ~ ScriptAborts(resp.attempt)
      BY <1>s, <2>1, <3>1, PlainAborts
    <3> QED
      BY <1>s, <2>1, <3>1, <3>2 DEF JournalLeads, PlainAccount, PlainSteps, LastSteps
  <2>3. resp'.bytes = WholeBody
    BY <1>0, <2>1 DEF Response
  <2>4. wire'.bytes \in {0, WholeBody} /\ wire'.end = "open" /\ wire'.chunks = 0
    <3>1. CASE flushed
      <4>1. /\ wire'.bytes = wire.bytes + WholeBody /\ wire'.end = wire.end
            /\ wire'.chunks = wire.chunks
        BY <1>0, <1>s, <2>1, <3>1, DeliverFacts
      <4> QED
        BY <1>0, <2>2, <4>1
    <3>2. CASE ~ flushed
      BY <2>1, <2>2, <3>2
    <3> QED
      BY <3>1, <3>2
  <2> QED
    BY <1>s, <2>1, <2>2, <2>3, <2>4 DEF PlainAccount, LastSteps
<1>11. CASE Unwind
  <2>1. pc = "unwind" /\ pc' = "finish" /\ wire' = wire /\ resp' = resp /\ panicking' = panicking
    BY <1>11 DEF Unwind
  <2>2. entry' = Recorded(resp, "none", 0) \/ entry' = entry
    BY <1>11, <1>s, <2>1 DEF Unwind, JournalLeads
  <2> QED
    BY <1>r, <1>s, <2>1, <2>2 DEF PlainAccount, LastSteps
<1>12. CASE Finish
  <2>1. pc = "finish" /\ pc' = "done" /\ entry' = entry /\ resp' = resp /\ panicking' = panicking
    BY <1>12 DEF Finish
  <2>2. CASE panicking
    <3>1. wire'.end = "abort" /\ wire'.bytes = wire.bytes /\ wire'.own = wire.own
          /\ wire'.chunks = wire.chunks
      BY <1>0, <1>12, <2>2 DEF Finish, Received
    <3> QED
      BY <1>s, <2>1, <2>2, <3>1 DEF PlainAccount, LastSteps
  <2>3. CASE ~ panicking
    <3> DEFINE n == resp.bytes - wire.bytes
               w == Deliver(wire, n, resp.body.own)
    <3>3. wire' = [w EXCEPT !.end = "clean"]
      BY <1>12, <1>s, <2>1, <2>3 DEF Finish
    <3>1. n \in Int /\ wire.bytes + n = resp.bytes
      BY <1>0
    <3> HIDE DEF n
    <3>2. w \in Received /\ w.bytes = wire.bytes + n /\ w.own = resp.body.own
          /\ w.chunks = wire.chunks
      <4>1. wire \in Received /\ n \in Int /\ resp.body.own \in BOOLEAN /\ Stayed
        BY <1>0, <1>s, <2>1, <3>1
      <4>2. w \in Received
        BY <4>1, DeliverType
      <4>3. w.bytes = wire.bytes + n /\ w.own = resp.body.own /\ w.chunks = wire.chunks
        BY <4>1, DeliverFacts
      <4> QED
        BY <4>2, <4>3
    <3> HIDE DEF w
    <3>4. wire'.bytes = resp.bytes /\ wire'.own = resp.body.own /\ wire'.chunks = wire.chunks
          /\ wire'.end = "clean"
      BY <3>1, <3>2, <3>3 DEF Received
    <3> QED
      BY <1>s, <2>1, <2>3, <3>4 DEF PlainAccount, LastSteps
  <2> QED
    BY <2>2, <2>3
<1>13. CASE Leave
  BY <1>13 DEF Leave, Stayed
<1>14. CASE UNCHANGED vars
  BY <1>14, <1>s DEF vars, PlainAccount, LastSteps
<1>15. pc \notin StreamSteps
  BY <1>s DEF DecisionStands, StreamSteps
<1> QED
  BY <1>1, <1>2, <1>3, <1>4, <1>5, <1>6, <1>7, <1>8, <1>9, <1>10, <1>11, <1>12, <1>13, <1>14, <1>15
  DEF Next, Handle, StreamSteps, WriteStreamHeaders, Disconnect, Streaming, WriteChunk,
      WritePartialChunk, CloseTruncated, ResetStream, WriteSentinel, ClientGone, Complete

\* Where a stream's plan cuts: inside the script for an attempt that loaded.
LEMMA PlanFacts ==
    ASSUME NEW a \in Attempt,
           ScriptAborts(a) => EffectiveKind(a) \in {"stream_disconnect", "stream_truncate_chunk"}
    PROVE  /\ \A n \in Nat : n = planStream(a).disconnectAt \/ n = planStream(a).truncateAt =>
                ScriptAborts(a) /\ a.after = n
           /\ ScriptAborts(a) =>
                a.after = planStream(a).disconnectAt \/ a.after = planStream(a).truncateAt
<1> DEFINE k == IF a = NoAttempt THEN "none" ELSE EffectiveKind(a)
<1>1. /\ planStream(a).disconnectAt = IF k = "stream_disconnect" THEN a.after ELSE -1
      /\ planStream(a).truncateAt = IF k = "stream_truncate_chunk" THEN a.after ELSE -1
  BY DEF planStream
<1>2. k \in {"stream_disconnect", "stream_truncate_chunk"} <=> ScriptAborts(a)
  BY DEF ScriptAborts
<1> HIDE DEF k
<1> QED
  BY <1>1, <1>2

\* Every step of a streamed response keeps its account.
LEMMA StreamStep ==
    Typed /\ DecisionStands /\ JournalLeads /\ StreamAccount /\ [Next]_vars => StreamAccount'
<1> SUFFICES ASSUME Typed, DecisionStands, JournalLeads, StreamAccount, [Next]_vars,
                    Stayed', pc' # "handle", resp'.streams, ~ writesNoBody(resp'.status)
             PROVE  StreamAccount'
  BY DEF StreamAccount, writesNoBody
<1>0. /\ req \in Requests /\ resp \in Response /\ entry \in Journaled /\ wire \in Received
      /\ client \in {"waiting", "gone"} /\ panicking \in BOOLEAN /\ resp.streams \in BOOLEAN
      /\ resp.bytes \in Nat /\ wire.bytes \in Int /\ wire.own \in BOOLEAN /\ chunk \in Nat
      /\ resp.attempt \in Attempt
  BY DEF Typed, Response, Received
<1>n. ChunkCount \in Nat
  BY <1>0, RequestFacts, ChunkCountType DEF ChunkCount
<1>s. ASSUME pc # "handle"
      PROVE  /\ resp.streams /\ Stayed /\ client # "gone" /\ ~ writesNoBody(resp.status)
             /\ resp'.aborted = resp.aborted /\ resp'.attempt = resp.attempt
             /\ ChunkCount' = ChunkCount
             /\ ScriptAborts(resp.attempt)' = ScriptAborts(resp.attempt)
  <2>1. /\ req' = req /\ resp'.attempt = resp.attempt /\ resp'.streams = resp.streams
        /\ resp'.status = resp.status
        /\ Stayed /\ resp'.aborted = resp.aborted
    BY <1>s, DecidedStays
  <2> QED
    BY <2>1 DEF ChunkCount, Stayed, writesNoBody
<1>k. ASSUME pc # "handle"
      PROVE  ScriptAborts(resp.attempt) =>
               /\ EffectiveKind(resp.attempt) \in {"stream_disconnect", "stream_truncate_chunk"}
               /\ resp.attempt.after \in 0..(ChunkCount - 1)
  <2>1. resp.attempt = Decided(req).attempt /\ Decided(req).streams
    BY <1>k, <1>s DEF DecisionStands
  <2> QED
    BY <1>0, <2>1, DecidedFacts DEF ChunkCount
<1>p. ASSUME pc # "handle"
      PROVE  /\ chunk = planStream(resp.attempt).disconnectAt
                  \/ chunk = planStream(resp.attempt).truncateAt => ScriptAborts(resp.attempt)
             /\ ScriptAborts(resp.attempt) =>
                  resp.attempt.after = planStream(resp.attempt).disconnectAt
                    \/ resp.attempt.after = planStream(resp.attempt).truncateAt
  BY <1>0, <1>k, <1>p, PlanFacts
<1>c. ASSUME NEW st \in {"aborted", "completed"}, closeWith(st)
      PROVE  /\ entry'.state = st /\ entry'.aborted = entry.aborted
             /\ entry'.bytes = resp.bytes /\ entry'.sent = chunk
  BY <1>0, <1>c DEF closeWith, Journaled
<1>1. CASE Respond
  <2> DEFINE d == Decided(req)
  <2>1. /\ resp' = d /\ wire' = wire /\ chunk' = chunk /\ d.streams
        /\ entry' = Recorded(d, "open", 0) /\ req' = req
        /\ panicking' = (req.verdict = "abort")
        /\ pc' = IF req.verdict = "abort" THEN "unwind" ELSE "delay"
    BY <1>1 DEF Respond
  <2>2. /\ chunk = 0 /\ wire.end = "open" /\ wire.bytes = 0 /\ wire.chunks = 0
    BY <1>1 DEF Respond, DecisionStands, Untouched
  <2>3. /\ d.bytes = 0 /\ req.verdict = "serve"
        /\ ScriptAborts(d.attempt) => d.attempt.after \in 0..(ChunkCount - 1)
    BY <1>0, <2>1, DecidedFacts DEF ChunkCount
  <2>4. entry'.aborted = d.aborted
    BY <2>1 DEF Recorded
  <2>5. ChunkCount' = ChunkCount
    BY <2>1 DEF ChunkCount
  <2> HIDE DEF d
  <2>6. /\ pc' = "delay" /\ ~ panicking' /\ chunk' = 0 /\ wire'.end = "open" /\ wire'.bytes = 0
        /\ wire'.chunks = 0 /\ resp'.bytes = 0 /\ resp'.attempt = d.attempt
        /\ resp'.aborted = d.aborted
    BY <2>1, <2>2, <2>3
  <2> QED
    BY <1>n, <2>3, <2>4, <2>5, <2>6 DEF StreamAccount, LastSteps
<1>2. CASE Dispatch
  <2>1. /\ pc = "delay" /\ pc' = "stream_headers" /\ wire' = wire /\ resp' = resp
        /\ panicking' = panicking /\ entry' = entry /\ chunk' = chunk
    BY <1>2, <1>s DEF Dispatch
  <2> QED
    BY <1>s, <2>1 DEF StreamAccount, LastSteps
<1>3. CASE CancelDelay
  BY <1>3, <1>s DEF CancelDelay
<1>4. CASE WriteStreamHeaders
  <2>1. wire'.end = wire.end /\ wire'.bytes = wire.bytes /\ wire'.chunks = wire.chunks
    BY <1>0, <1>4 DEF WriteStreamHeaders, Deliver, Received
  <2> QED
    BY <1>4, <1>s, <2>1 DEF WriteStreamHeaders, StreamAccount, LastSteps
<1>5. CASE Disconnect
  <2>1. /\ entry'.aborted = entry.aborted /\ entry'.bytes = resp.bytes /\ entry'.sent = chunk
    BY <1>5, <1>c DEF Disconnect
  <2>2. ScriptAborts(resp.attempt)
    BY <1>5, <1>p DEF Disconnect
  <2> QED
    BY <1>5, <1>s, <2>1, <2>2 DEF Disconnect, StreamAccount, LastSteps
<1>6. CASE WriteChunk
  <2>1. /\ pc = "chunk" /\ pc' = pc /\ chunk' = chunk + 1 /\ entry' = entry
        /\ panicking' = panicking /\ chunk < ChunkCount
        /\ resp' = [resp EXCEPT !.bytes = @ + ChunkLen]
        /\ wire' = [Deliver(wire, ChunkLen, TRUE) EXCEPT
                      !.chunks = IF client = "gone" THEN @ ELSE @ + 1]
    BY <1>6 DEF WriteChunk, Streaming
  <2>2. resp'.bytes = resp.bytes + ChunkLen
    BY <1>0, <2>1 DEF Response
  <2>3. /\ wire'.end = wire.end /\ wire'.bytes = wire.bytes + ChunkLen
        /\ wire'.chunks = wire.chunks + 1
    BY <1>0, <1>s, <2>1 DEF Deliver, Received
  <2>4. ScriptAborts(resp.attempt) => chunk + 1 <= resp.attempt.after
    <3>1. SUFFICES ASSUME ScriptAborts(resp.attempt) PROVE chunk + 1 <= resp.attempt.after
      OBVIOUS
    <3>2. chunk # resp.attempt.after
      BY <1>6, <1>p, <3>1 DEF WriteChunk, Streaming
    <3>3. chunk <= resp.attempt.after
      BY <1>s, <2>1, <3>1 DEF StreamAccount
    <3>4. resp.attempt.after \in 0..(ChunkCount - 1)
      BY <1>k, <2>1, <3>1
    <3>5. resp.attempt.after \in Int
      BY <1>n, <3>4
    <3> QED
      BY <1>0, <3>2, <3>3, <3>5
  <2>5. chunk + 1 <= ChunkCount
    BY <1>0, <1>n, <2>1
  <2> QED
    BY <1>s, <2>1, <2>2, <2>3, <2>4, <2>5 DEF StreamAccount, LastSteps
<1>7. CASE WritePartialChunk
  <2> DEFINE n == truncationLenForChunk(resp.attempt)
  <2>1. /\ pc = "chunk" /\ pc' = "truncated" /\ chunk' = chunk /\ entry' = entry
        /\ panicking' = panicking /\ resp' = [resp EXCEPT !.bytes = @ + n]
        /\ wire' = Deliver(wire, n, TRUE)
    BY <1>7 DEF WritePartialChunk, Streaming
  <2>2. ScriptAborts(resp.attempt)
    BY <1>7, <1>p, <2>1 DEF WritePartialChunk
  <2> HIDE DEF n
  <2>3. resp'.bytes = resp.bytes + n
    BY <1>0, <2>1 DEF Response
  <2>4. /\ wire'.end = wire.end /\ wire'.bytes = wire.bytes + n /\ wire'.chunks = wire.chunks
    BY <1>0, <1>s, <2>1 DEF Deliver, Received
  <2> QED
    BY <1>s, <2>1, <2>2, <2>3, <2>4 DEF StreamAccount, LastSteps
<1>8. CASE CloseTruncated
  <2>1. /\ entry'.aborted = entry.aborted /\ entry'.bytes = resp.bytes /\ entry'.sent = chunk
    BY <1>8, <1>c DEF CloseTruncated
  <2> QED
    BY <1>8, <1>s, <2>1 DEF CloseTruncated, StreamAccount, LastSteps
<1>9. CASE ResetStream
  <2>1. wire'.bytes = wire.bytes /\ wire'.chunks = wire.chunks
    BY <1>0, <1>9 DEF ResetStream, Received
  <2>2. entry.state = "aborted" /\ ScriptAborts(resp.attempt)
    BY <1>9, <1>s DEF ResetStream, JournalLeads, StreamAccount
  <2> QED
    BY <1>9, <1>s, <2>1, <2>2 DEF ResetStream, StreamAccount, LastSteps
<1>10. CASE WriteSentinel
  <2>1. resp'.bytes = resp.bytes + 1
    BY <1>0, <1>10 DEF WriteSentinel, Response
  <2>2. /\ wire'.end = wire.end /\ wire'.bytes = wire.bytes + 1 /\ wire'.chunks = wire.chunks
    BY <1>0, <1>10, <1>s DEF WriteSentinel, Streaming, Deliver, Received
  <2> QED
    BY <1>10, <1>s, <2>1, <2>2 DEF WriteSentinel, Streaming, StreamAccount, LastSteps
<1>11. CASE ClientGone
  BY <1>11, <1>s DEF ClientGone, Streaming, WriteFails
<1>12. CASE Complete
  <2>1. /\ entry'.aborted = entry.aborted /\ entry'.bytes = resp.bytes /\ entry'.sent = chunk
        /\ entry'.state = "completed"
    BY <1>12, <1>c DEF Complete
  <2>2. pc \in {"chunk", "complete"} /\ chunk = ChunkCount
    BY <1>12, <1>s DEF Complete, Streaming, StreamAccount
  <2>3. ~ ScriptAborts(resp.attempt)
    <3>1. SUFFICES ASSUME ScriptAborts(resp.attempt) PROVE FALSE
      OBVIOUS
    <3>2. chunk <= resp.attempt.after
      BY <1>s, <2>2, <3>1 DEF StreamAccount
    <3>3. resp.attempt.after \in 0..(ChunkCount - 1)
      BY <1>k, <2>2, <3>1
    <3> QED
      BY <1>n, <2>2, <3>2, <3>3
  <2>4. ~ panicking' /\ panicking' = ScriptAborts(resp.attempt)
    <3>1. panicking' = panicking /\ ~ panicking
      BY <1>12, <1>s, <2>2 DEF Complete, StreamAccount, LastSteps
    <3> QED
      BY <1>0, <2>3, <3>1 DEF ScriptAborts
  <2>5. /\ pc' = "unwind" /\ chunk' = chunk /\ resp' = resp /\ wire' = wire
        /\ wire.chunks = chunk /\ wire.bytes = resp.bytes /\ entry.aborted = resp.aborted
    BY <1>12, <1>s, <2>2 DEF Complete, StreamAccount
  <2> QED
    BY <1>n, <1>s, <2>1, <2>2, <2>3, <2>4, <2>5 DEF StreamAccount, LastSteps
<1>13. CASE Unwind
  <2>1. entry' = entry
    <3>1. entry.exists /\ entry.state # "open"
      BY <1>13, <1>s DEF Unwind, JournalLeads, StreamAccount, LastSteps
    <3> QED
      BY <1>13, <3>1 DEF Unwind
  <2> QED
    BY <1>13, <1>s, <2>1 DEF Unwind, StreamAccount, LastSteps
<1>14. CASE Finish
  <2>1. pc = "finish" /\ pc' = "done" /\ entry' = entry /\ resp' = resp /\ panicking' = panicking
        /\ chunk' = chunk
    BY <1>14 DEF Finish
  <2>2. /\ wire'.end = (IF panicking THEN "abort" ELSE "clean") /\ wire'.bytes = wire.bytes
        /\ wire'.chunks = wire.chunks
    <3>1. CASE panicking
      BY <1>0, <1>14, <3>1 DEF Finish, Received
    <3>2. CASE ~ panicking
      BY <1>0, <1>14, <1>s, <2>1, <3>2 DEF Finish, Deliver, Received
    <3> QED
      BY <3>1, <3>2
  <2> QED
    BY <1>s, <2>1, <2>2 DEF StreamAccount, LastSteps
<1>15. CASE Leave
  BY <1>15 DEF Leave, Stayed
<1>16. CASE UNCHANGED vars
  BY <1>16, <1>s DEF vars, StreamAccount, LastSteps
<1>17. pc \notin PlainSteps
  BY <1>s DEF DecisionStands, PlainSteps
<1> QED
  BY <1>1, <1>2, <1>3, <1>4, <1>5, <1>6, <1>7, <1>8, <1>9, <1>10, <1>11, <1>12, <1>13, <1>14,
     <1>15, <1>16, <1>17
  DEF Next, Handle, PlainSteps, CloseBeforeHeaders, WriteHeaders, HangElapses, CancelHang,
      RecordTruncation, TruncateBody, WriteBody

-----------------------------------------------------------------------------
(* The invariant *)

\* A request that has not been handled owes no account.
LEMMA AccountInit == Init => Account
<1> SUFFICES ASSUME Init PROVE Account
  OBVIOUS
<1>1. /\ req \in Requests /\ pc = "handle" /\ client = "waiting" /\ entry = NoEntry
      /\ kept = FALSE /\ chunk = 0 /\ panicking = FALSE
      /\ ~ resp.streams /\ resp.attempt = NoAttempt /\ ~ resp.dropped
      /\ wire = [headers |-> FALSE, bytes |-> 0, own |-> FALSE, chunks |-> 0, end |-> "open"]
  BY DEF Init
<1>2. resp \in Response
  BY NoAttemptType DEF Init, Response
<1>3. entry \in Journaled /\ wire \in Received
  BY <1>1 DEF NoEntry, Journaled, Received
<1>4. Typed
  BY <1>1, <1>2, <1>3 DEF Typed
<1>5. entry.exists = FALSE /\ entry.state = "none" /\ wire.end = "open" /\ ~ (wire.bytes > 0)
  BY <1>1 DEF NoEntry
<1>6. DecisionStands
  BY <1>1 DEF DecisionStands, Untouched, PlainSteps, StreamSteps
<1>7. JournalLeads
  BY <1>1, <1>5 DEF JournalLeads, PlainSteps
<1> QED
  BY <1>1, <1>4, <1>6, <1>7 DEF Account, PlainAccount, StreamAccount

\* The account holds at every step of a request.
LEMMA AccountHolds == Spec => []Account
<1>1. Account /\ [Next]_vars => Account'
  BY TypedStep, DecisionStep, JournalStep, PlainStep, StreamStep DEF Account
<1> QED
  BY <1>1, AccountInit, PTL DEF Spec

-----------------------------------------------------------------------------
(* The theorems *)

\* What the invariant says of the decision once it is made.
LEMMA Decision ==
    ASSUME Account, pc # "handle"
    PROVE  /\ req \in Requests /\ Decided(req) \in Response /\ panicking \in BOOLEAN
           /\ resp.attempt = Decided(req).attempt /\ resp.streams = Decided(req).streams
           /\ resp.dropped = Decided(req).dropped /\ resp.status = Decided(req).status
           /\ resp.body = Decided(req).body
           /\ Stayed => resp.aborted = ScriptAborts(resp.attempt)
           /\ kept = (req.mints /\ req.verdict = "serve" /\ commits(req.attempt))
<1>1. req \in Requests /\ panicking \in BOOLEAN
  BY DEF Account, Typed
<1> QED
  BY <1>1, DecidedFacts DEF Account, DecisionStands

\* A client whose connection was destroyed, or that has seen any part of a
\* stream or of a cut body, finds the request in the journal, and a destroyed
\* stream already says how it ended (Handle records before it touches the socket).
THEOREM JournaledFirst == Spec => []JournaledBeforeSeen
<1>1. Account => JournaledBeforeSeen
  <2> SUFFICES ASSUME Account PROVE JournaledBeforeSeen
    OBVIOUS
  <2>1. JournalLeads
    BY DEF Account
  <2>2. wire.headers /\ resp.streams => pc # "handle"
    BY DEF Account, DecisionStands, Untouched
  <2> QED
    BY <2>1, <2>2 DEF JournaledBeforeSeen, JournalLeads, Streamed
<1> QED
  BY <1>1, AccountHolds, PTL

\* A journaled exchange is written once: after that only the observed half of
\* an open stream changes, once (record, closeWith and the fallback closer).
THEOREM EntriesAreFinal == Spec => EntryAmendedOnce
<1> DEFINE A == entry.exists /\ entry' # entry =>
                  /\ entry.state = "open" /\ entry'.state # "open"
                  /\ entry'.exists /\ entry'.aborted = entry.aborted
<1>1. Account /\ [Next]_vars => [A]_vars
  <2> SUFFICES ASSUME Account, [Next]_vars, entry.exists, entry' # entry
               PROVE  /\ entry.state = "open" /\ entry'.state # "open"
                      /\ entry'.exists /\ entry'.aborted = entry.aborted
    OBVIOUS
  <2>0. /\ entry \in Journaled /\ resp \in Response /\ JournalLeads /\ req \in Requests
        /\ (pc \in StreamSteps => resp.streams)
        /\ (pc \in PlainSteps => ~ resp.streams)
        /\ (pc = "handle" => ~ entry.exists)
    BY DEF Account, Typed, DecisionStands, Untouched, NoEntry
  <2>c. ASSUME NEW st \in {"aborted", "client_gone", "completed"}, closeWith(st),
               pc \in {"chunk", "truncated", "complete"}
        PROVE  /\ entry.state = "open" /\ entry'.state # "open"
               /\ entry'.exists /\ entry'.aborted = entry.aborted
    <3>1. resp.streams /\ entry.state = "open"
      BY <2>0, <2>c DEF StreamSteps, JournalLeads
    <3> QED
      BY <2>0, <2>c, <3>1 DEF closeWith, Journaled
  <2>1. CASE Respond
    BY <2>0, <2>1 DEF Respond
  <2>2. CASE Dispatch
    BY <2>0, <2>2 DEF Dispatch, JournalLeads
  <2>3. CASE RecordTruncation
    BY <2>3 DEF RecordTruncation
  <2>4. CASE Disconnect
    BY <2>c, <2>4 DEF Disconnect
  <2>5. CASE CloseTruncated
    BY <2>c, <2>5 DEF CloseTruncated
  <2>6. CASE ClientGone
    BY <2>c, <2>6 DEF ClientGone, Streaming
  <2>7. CASE Complete
    BY <2>c, <2>7 DEF Complete, Streaming
  <2>8. CASE Unwind
    BY <2>0, <2>8 DEF Unwind, Journaled
  <2> QED
    BY <2>1, <2>2, <2>3, <2>4, <2>5, <2>6, <2>7, <2>8
    DEF Next, Handle, CancelDelay, CloseBeforeHeaders, WriteHeaders, HangElapses, CancelHang,
        TruncateBody, WriteBody, WriteStreamHeaders, WriteChunk, WritePartialChunk,
        ResetStream, WriteSentinel, Finish, Leave, vars
<1> QED
  BY <1>1, AccountHolds, PTL DEF Spec, EntryAmendedOnce

\* A response that is not fault-eligible reaches a client that stays as the
\* handler made it, whatever attempt the request had claimed (Handle strips it).
THEOREM RejectionsAreServed == Spec => []RejectionUntouched
<1>1. Account => RejectionUntouched
  <2> SUFFICES ASSUME Account, Ended, Stayed,
                      req.verdict \in {"optout", "reject", "claimed_reject", "grammarless", "panic"}
               PROVE  /\ wire.end = "clean"
                      /\ wire.bytes = (IF Serves(req) THEN BodyLen ELSE ErrorLen)
    BY DEF RejectionUntouched
  <2>1. resp.attempt = NoAttempt /\ ~ resp.streams /\ req.verdict # "abort"
    BY Decision, DecidedFacts DEF Ended
  <2>2. \A kind : ~ Is(kind)
    BY <2>1 DEF Is
  <2>3. /\ resp.status = (IF Serves(req) THEN 200 ELSE 400)
        /\ resp.body.len = (IF Serves(req) THEN BodyLen ELSE ErrorLen)
    <3>1. Decided(req).attempt = NoAttempt
      BY <2>1, Decision DEF Ended
    <3>2. StatusOf(NoAttempt) = 200
      BY NoAttemptType DEF StatusOf
    <3>3. /\ Decided(req).status = (IF Serves(req) THEN StatusOf(NoAttempt) ELSE 400)
          /\ Decided(req).body = [len |-> IF Serves(req) THEN BodyLen ELSE ErrorLen,
                                  own |-> Serves(req)]
      BY <3>1 DEF Decided
    <3> QED
      BY <3>2, <3>3, Decision DEF Ended
  <2>4. WholeBody = (IF Serves(req) THEN BodyLen ELSE ErrorLen)
    BY <2>2, <2>3, LengthsAssumption DEF WholeBody, Sent, Padding, writesNoBody
  <2> QED
    BY <2>1, <2>2, <2>4 DEF Account, PlainAccount, LastSteps, Ended
<1> QED
  BY <1>1, AccountHolds, PTL

\* A plan the load accepted does what it says on every turn that may answer a
\* streaming request: no attempt is dropped, and a scripted abort falls inside
\* the stream, so a client that stays never receives all of it.
THEOREM PlansApply == Spec => []LoadedPlanApplies
<1>1. Account => LoadedPlanApplies
  <2> SUFFICES ASSUME Account PROVE LoadedPlanApplies
    OBVIOUS
  <2>1. AsksStream(req) => ~ resp.dropped
    <3>1. CASE pc = "handle"
      BY <3>1 DEF Account, DecisionStands, Untouched
    <3>2. CASE pc # "handle"
      BY <3>2, Decision, DecidedFacts
    <3> QED
      BY <3>1, <3>2
  <2>2. ASSUME Ended, Stayed, Streamed, ScriptAborts(resp.attempt), ~ writesNoBody(resp.status)
        PROVE  wire.end = "abort" /\ wire.chunks < ChunkCount
    <3>1. /\ wire.end = (IF panicking THEN "abort" ELSE "clean") /\ wire.chunks = chunk
          /\ panicking = ScriptAborts(resp.attempt) /\ chunk <= resp.attempt.after
          /\ chunk \in Nat
      BY <2>2 DEF Account, Typed, StreamAccount, LastSteps, Ended, Streamed
    <3>2. resp.attempt.after \in 0..(ChunkCount - 1)
      BY <2>2, Decision, DecidedFacts DEF ChunkCount, Ended, Streamed
    <3>3. ChunkCount \in Nat
      BY <2>2, Decision, RequestFacts, ChunkCountType DEF ChunkCount, Ended
    <3>4. chunk < ChunkCount
      BY <3>1, <3>2, <3>3
    <3> QED
      BY <2>2, <3>1, <3>4
  <2> QED
    BY <2>1, <2>2 DEF LoadedPlanApplies
<1> QED
  BY <1>1, AccountHolds, PTL

\* What the journal says at the end is what a client that stayed received:
\* aborted is destroyed, a completed stream was received whole, and the counts
\* are the bytes and the chunks received.
THEOREM JournalIsTruthful == Spec => []EntryTruthful
<1>1. Account => EntryTruthful
  <2> SUFFICES ASSUME Account, Ended, Stayed, req.verdict # "abort",
                      ~ (Streamed /\ writesNoBody(resp.status))
               PROVE  EntryTruthful
    BY DEF EntryTruthful
  <2>0. /\ pc = "done" /\ entry.exists /\ resp.aborted = ScriptAborts(resp.attempt)
        /\ panicking \in BOOLEAN
    BY Decision DEF Account, JournalLeads, Ended
  <2>1. CASE resp.streams
    <3>1. /\ wire.chunks = chunk /\ wire.bytes = resp.bytes /\ entry.aborted = resp.aborted
          /\ entry.bytes = resp.bytes /\ entry.sent = chunk
          /\ entry.state = (IF ScriptAborts(resp.attempt) THEN "aborted" ELSE "completed")
          /\ panicking = ScriptAborts(resp.attempt)
          /\ ScriptAborts(resp.attempt) \/ chunk = ChunkCount
          /\ wire.end = (IF panicking THEN "abort" ELSE "clean")
      BY <2>0, <2>1 DEF Account, StreamAccount, LastSteps, Streamed
    <3>2. CASE ScriptAborts(resp.attempt)
      BY <2>0, <2>1, <3>1, <3>2 DEF EntryTruthful, Streamed
    <3>3. CASE ~ ScriptAborts(resp.attempt)
      BY <2>0, <2>1, <3>1, <3>3 DEF EntryTruthful, Streamed
    <3> QED
      BY <3>2, <3>3
  <2>2. CASE ~ resp.streams
    <3>1. /\ wire.chunks = 0 /\ entry.aborted = resp.aborted /\ entry.bytes = resp.bytes
          /\ entry.sent = 0 /\ entry.state = "none"
      BY <2>0, <2>2 DEF Account, PlainAccount, JournalLeads
    <3>2. wire.end = "abort" <=> ScriptAborts(resp.attempt)
      <4>1. CASE Is("close_before_headers") \/ Is("truncate_body")
        <5>1. ScriptAborts(resp.attempt)
          BY <4>1 DEF Is, ScriptAborts
        <5> QED
          BY <2>0, <2>2, <4>1, <5>1 DEF Account, PlainAccount, LastSteps
      <4>2. CASE ~ (Is("close_before_headers") \/ Is("truncate_body"))
        <5>1. ~ ScriptAborts(resp.attempt)
          BY <2>0, <2>2, <4>2, PlainAborts DEF Account
        <5> QED
          BY <2>0, <2>2, <4>2, <5>1 DEF Account, PlainAccount, LastSteps
      <4> QED
        BY <4>1, <4>2
    <3>3. resp.bytes = wire.bytes \/ (Is("truncate_body") /\ writesNoBody(resp.status))
      BY <2>0, <2>2 DEF Account, PlainAccount, LastSteps, Sent
    <3>4. entry.aborted = (wire.end = "abort")
      BY <2>0, <3>1, <3>2 DEF ScriptAborts
    <3> QED
      BY <2>0, <2>2, <3>1, <3>3, <3>4 DEF EntryTruthful, Streamed
  <2> QED
    BY <2>1, <2>2
<1> QED
  BY <1>1, AccountHolds, PTL

\* MintJob's prediction against the wire: a create's record is kept exactly when
\* its client, having stayed, received the whole identifier-bearing body of a
\* success, or the attempt said that the request took effect.
THEOREM JobsMatchTheWire == Spec => []JobMatchesWire
<1>1. Account => JobMatchesWire
  <2> DEFINE a == req.attempt
             d == Decided(req)
             received == wire.own /\ wire.bytes >= BodyLen /\ resp.status < 400
  <2> SUFFICES ASSUME Account, Ended, Stayed, req.mints
               PROVE  kept = (a.accepted \/ (received /\ ~ Is("truncate_body")))
    BY DEF JobMatchesWire
  <2>1. /\ req \in Requests /\ req.verdict = "serve" /\ ~ req.asks /\ a \in Attempt
        /\ kept = commits(a) /\ a.accepted \in BOOLEAN
    <3>1. /\ req \in Requests
          /\ kept = (req.mints /\ req.verdict = "serve" /\ commits(req.attempt))
      BY Decision DEF Ended
    <3>2. req.verdict = "serve" /\ ~ req.asks /\ a \in Attempt
      BY <3>1, RequestFacts
    <3>3. commits(a) \in BOOLEAN /\ a.accepted \in BOOLEAN
      BY <3>2 DEF Attempt, commits, deliversBody, DeliversBody, IsStream
    <3> QED
      BY <3>1, <3>2, <3>3
  <2>2. ~ AsksStream(req) /\ Claimed(req) = a /\ Serves(req)
    BY <2>1 DEF AsksStream, Claimed, Serves
  <2> DEFINE k == EffectiveKind(a)
             unreachable == a # NoAttempt /\ IsStream(k)
             b == IF unreachable THEN NoAttempt ELSE a
  <2>3. /\ d.attempt = b /\ ~ d.streams /\ d.status = StatusOf(b)
        /\ d.body = IF b # NoAttempt THEN faultBody(b) ELSE [len |-> BodyLen, own |-> TRUE]
    <3>1. Disposition(Claimed(req), AsksStream(req)) =
            IF unreachable THEN "unreachable" ELSE "apply"
      BY <2>2 DEF Disposition
    <3>2. Decided(req).attempt = b /\ ~ Decided(req).streams /\ Decided(req).status = StatusOf(b)
      BY <2>2, <3>1 DEF Decided
    <3>3. Decided(req).body = IF b # NoAttempt THEN faultBody(b)
                              ELSE [len |-> BodyLen, own |-> TRUE]
      BY <2>2, <3>1 DEF Decided
    <3> QED
      BY <3>2, <3>3
  <2> HIDE DEF d
  <2>4. /\ resp.attempt = b /\ ~ resp.streams /\ resp.status = StatusOf(b) /\ resp.body = d.body
    BY <2>3, Decision DEF Ended, d
  <2>5. /\ Is("close_before_headers") => ~ wire.own
        /\ ~ Is("close_before_headers") /\ ~ Is("truncate_body") =>
             wire.own = d.body.own /\ wire.bytes = WholeBody
    BY <2>1, <2>4 DEF Account, PlainAccount, LastSteps, Ended
  <2>6. CASE b = NoAttempt
    <3>1. deliversBody(a)
      BY <2>6 DEF deliversBody, DeliversBody
    <3>2. \A kind : ~ Is(kind)
      BY <2>4, <2>6 DEF Is
    <3>3. resp.status = 200
      BY <2>4, <2>6, NoAttemptType DEF StatusOf
    <3>4. wire.own /\ wire.bytes = BodyLen
      <4>1. d.body.own /\ resp.body.len = BodyLen
        BY <2>3, <2>4, <2>6
      <4>2. Padding = 0
        BY <3>2 DEF Padding
      <4>3. WholeBody = BodyLen
        BY <3>3, <4>1, <4>2, LengthsAssumption DEF WholeBody, Sent, writesNoBody
      <4> QED
        BY <2>5, <3>2, <4>1, <4>3
    <3>5. received
      BY <3>3, <3>4, LengthsAssumption
    <3> QED
      BY <2>1, <3>1, <3>2, <3>5 DEF commits
  <2>7. CASE b # NoAttempt
    <3>1. b = a /\ a # NoAttempt /\ ~ IsStream(k)
      BY <2>7
    <3>2. \A kind : Is(kind) <=> k = kind
      BY <2>4, <3>1 DEF Is
    <3>3. commits(a) = (DeliversBody(a) \/ a.accepted)
      BY <3>1 DEF commits, deliversBody
    <3>4. DeliversBody(a) <=> received /\ k # "truncate_body"
      <4>1. CASE k \in {"close_before_headers", "truncate_body"}
        BY <2>5, <3>1, <3>2, <4>1 DEF DeliversBody
      <4>2. CASE k \notin {"close_before_headers", "truncate_body"}
        <5>1. wire.own = faultBody(a).own /\ wire.bytes = Sent(faultBody(a).len + Padding)
              /\ resp.status = StatusOf(a)
          BY <2>3, <2>4, <2>5, <3>1, <3>2, <4>2 DEF WholeBody
        <5>2. Padding \in Nat
          BY BodyTypes DEF Account, Typed
        <5>3. k \in Kinds /\ a.status \in Nat /\ a.body \in BOOLEAN
          BY <2>1, KindType DEF Attempt
        <5>4. DeliversBody(a) <=>
                /\ k \notin {"empty_body", "invalid_json"}
                /\ ~ a.body /\ a.status < 400 /\ ~ writesNoBody(a.status)
          BY <3>1, <4>2, <5>3 DEF DeliversBody, Kinds, IsStream
        <5>5. /\ wire.own <=> k \notin {"empty_body", "invalid_json"} /\ ~ a.body /\ a.status < 400
              /\ wire.own => faultBody(a).len = BodyLen
          BY <5>1, <5>3 DEF faultBody
        <5>6. resp.status < 400 <=> a.status < 400
          BY <5>1, <5>3 DEF StatusOf
        <5>7. writesNoBody(resp.status) <=> writesNoBody(a.status)
          BY <5>1, <5>3 DEF StatusOf, writesNoBody
        <5>8. wire.own => (wire.bytes >= BodyLen <=> ~ writesNoBody(resp.status))
          BY <5>1, <5>2, <5>5, LengthsAssumption DEF Sent
        <5> QED
          BY <4>2, <5>4, <5>5, <5>6, <5>7, <5>8
      <4> QED
        BY <4>1, <4>2
    <3> QED
      BY <2>1, <3>2, <3>3, <3>4
  <2> QED
    BY <2>6, <2>7
<1> QED
  BY <1>1, AccountHolds, PTL
=============================================================================
