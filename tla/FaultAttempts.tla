--------------------------- MODULE FaultAttempts ---------------------------
(***************************************************************************)
(* What one scripted fault attempt means: the kind it resolves to, what    *)
(* loading the scenario refuses, what a claimed attempt does to a response *)
(* of either transport, and whether the job a create minted is kept.       *)
(* Models scenario/fault.go, the fault and stream checks of                *)
(* scenario/validate.go and scenario/stream.go, and the decisions of       *)
(* provider/fault_exec.go, provider/stream.go and provider/jobs.go.        *)
(*                                                                         *)
(* Durations are booleans (is there a pause), headers and wording are left *)
(* out, and a body is its length: BodyLen bytes for the handler's own,     *)
(* ErrorLen for the envelope that replaces it, ChunkLen for one SSE frame. *)
(***************************************************************************)
EXTENDS Integers, Sequences, SequencesExt

CONSTANTS BodyLen, ErrorLen, ChunkLen

ASSUME LengthsAssumption ==
    /\ BodyLen \in Nat \ {0} /\ ErrorLen \in Nat \ {0} /\ ChunkLen \in Nat \ {0}

StreamKinds == {"stream_disconnect", "stream_truncate_chunk", "stream_stall"}

Kinds == {"none", "status", "close_before_headers", "truncate_body", "invalid_json",
          "wrong_content_type", "empty_body", "extra_fields", "oversized_body"}
             \cup StreamKinds

Attempt ==
    [kind : Kinds, status : Nat, delay : BOOLEAN, hang : BOOLEAN, body : BOOLEAN,
     raw : BOOLEAN, ctype : BOOLEAN, cut : Int, reset : BOOLEAN, pad : Int,
     after : Int, repeat : Int, accepted : BOOLEAN]

\* An attempt that declares nothing: `- {}`.
Bare == [kind |-> "none", status |-> 0, delay |-> FALSE, hang |-> FALSE, body |-> FALSE,
         raw |-> FALSE, ctype |-> FALSE, cut |-> 0, reset |-> FALSE, pad |-> 0,
         after |-> 0, repeat |-> 0, accepted |-> FALSE]

\* A claim that found no attempt left in the plan, or no plan at all.
NoAttempt == [Bare EXCEPT !.repeat = -1]

IsStream(k) == k \in StreamKinds

\* The first field that implies a kind, in the order the code asks.
EffectiveKind(a) ==
    IF a.kind # "none" THEN a.kind
    ELSE IF a.raw THEN "invalid_json"
    ELSE IF a.ctype THEN "wrong_content_type"
    ELSE IF a.cut > 0 \/ a.reset THEN "truncate_body"
    ELSE IF a.pad > 0 THEN "oversized_body"
    ELSE IF a.status >= 400 THEN "status"
    ELSE "none"

\* Statuses net/http sends without the body it was given.
writesNoBody(status) == status \in {101, 204, 304}

Repeats(a) == IF a.repeat < 1 THEN 1 ELSE a.repeat

\* Mutant of DeliversBody: a declared body is taken for a header change.
BugDeliversBody(a) ==
    LET k == EffectiveKind(a)
    IN  \/ IsStream(k)
        \/ /\ k \in {"none", "status", "wrong_content_type", "extra_fields", "oversized_body"}
           /\ a.status < 400
           /\ ~ writesNoBody(a.status)

\* The prediction a create's record is decided by: the client of a response
\* that does not stream receives the handler's own body.
DeliversBody(a) ==
    LET k == EffectiveKind(a)
    IN  \/ IsStream(k)
        \/ /\ k \in {"none", "status", "wrong_content_type", "extra_fields", "oversized_body"}
           /\ ~ a.body
           /\ a.status < 400
           /\ ~ writesNoBody(a.status)

deliversBody(a) == a = NoAttempt \/ DeliversBody(a)

\* MintJob keeps the record on this alone.
commits(a) == deliversBody(a) \/ a.accepted

-----------------------------------------------------------------------------
(* Plans: attempt n of a route is entry n of the expanded list. *)

\* expandFault: each attempt Repeats times, then what `after` says.
expandFault(attempts) ==
    FoldLeft(LAMBDA acc, a : acc \o [i \in 1..Repeats(a) |-> a], <<>>, attempts)

\* The attempt of call n (from 0): past the end it is the last one again under
\* after: repeat_last, and none otherwise.
at(attempts, after, n) ==
    LET list == expandFault(attempts)
    IN  IF n < Len(list) THEN list[n + 1]
        ELSE IF after = "repeat_last" /\ list # <<>> THEN list[Len(list)]
        ELSE NoAttempt

-----------------------------------------------------------------------------
(* Load *)

\* validateFaultAttempt: what is refused of an attempt taken alone.
validateFaultAttempt(a) ==
    LET k == EffectiveKind(a)
    IN  /\ a.after # 0 => IsStream(k)
        /\ a.pad # 0 => k = "oversized_body"
        /\ a.status # 0 => a.status \in 100..599
        /\ a.hang => k # "close_before_headers" /\ ~ IsStream(k)
        /\ a.cut >= 0 /\ a.pad >= 0 /\ a.repeat >= 0
        /\ ~ (a.accepted /\ DeliversBody(a))
        /\ k = "oversized_body" => a.pad # 0

\* The six kinds answered before a stream starts, as scenario lists them.
delayAfterHeadersHasJSONBody(k) ==
    k \in {"status", "invalid_json", "wrong_content_type", "empty_body", "extra_fields",
           "close_before_headers"}

\* A turn's stream script: its policy ("" is unset), how many deltas it
\* declares, and the renderer's own chunk count when it differs (0 if not).
Script == [policy : {"", "warn", "reject", "stream", "other"}, deltas : Nat, chunks : Nat]

EffectivePolicy(s) ==
    IF s.policy # "" THEN s.policy ELSE IF s.deltas > 0 THEN "stream" ELSE "warn"

chunkCount(s) == IF s.chunks > 0 THEN s.chunks ELSE s.deltas + 1

\* An entry's policy is its first turn's.
entryPolicy(scripts) == EffectivePolicy(scripts[1])

\* ValidateStreamScripts' errors: an unknown policy anywhere, a streaming entry
\* with a turn that has nothing to stream, a dead script.
ValidateStreamScripts(scripts) ==
    \A i \in 1..Len(scripts) :
        /\ scripts[i].policy # "other"
        /\ (entryPolicy(scripts) = "stream") = (scripts[i].deltas > 0)

minChunks(scripts) == Min({chunkCount(scripts[i]) : i \in 1..Len(scripts)})

\* ValidateStreamFaultMismatch: the plan is the route's, so an after_chunk must
\* exist in whichever turn answers the call that claims it.
ValidateStreamFaultMismatch(a, scripts) ==
    LET k == EffectiveKind(a)
    IN  IF entryPolicy(scripts) = "stream"
        THEN /\ k \notin {"truncate_body", "oversized_body"}
             /\ IsStream(k) => a.after \in 0..(minChunks(scripts) - 1)
             /\ a.hang => IsStream(k) \/ delayAfterHeadersHasJSONBody(k)
        ELSE ~ IsStream(k)

\* A plan's attempt that a streaming profile's scenario may load with.
LoadsWith(a, scripts) ==
    /\ validateFaultAttempt(a)
    /\ ValidateStreamScripts(scripts)
    /\ ValidateStreamFaultMismatch(a, scripts)

-----------------------------------------------------------------------------
(* Execution *)

\* Mutant of suppressesStream: the two hand-kept lists drift apart.
BugSuppressesStream(k) ==
    k \in {"status", "invalid_json", "wrong_content_type", "empty_body", "close_before_headers"}

\* The same six kinds, as provider lists them.
suppressesStream(k) ==
    k \in {"status", "invalid_json", "wrong_content_type", "empty_body", "extra_fields",
           "close_before_headers"}

\* What Handle does with a claimed attempt on a response that would stream or
\* not: apply it, drop the stream for it, or drop it with abort_unreachable.
Disposition(a, streams) ==
    LET k == EffectiveKind(a)
    IN  IF a = NoAttempt THEN "apply"
        ELSE IF streams /\ suppressesStream(k) THEN "suppress"
        ELSE IF streams /\ k \in {"truncate_body", "oversized_body"} THEN "unreachable"
        ELSE IF ~ streams /\ IsStream(k) THEN "unreachable"
        ELSE IF streams /\ a.hang THEN "unreachable"
        ELSE "apply"

\* faultBody: the bytes written and whether they are the handler's own.
\* invalid_json and empty_body write bytes of their own; a declared body or an
\* error status asks the profile for its envelope.
faultBody(a) ==
    LET k == EffectiveKind(a)
    IN  IF k = "empty_body" THEN [len |-> 0, own |-> FALSE]
        ELSE IF k = "invalid_json" \/ a.body \/ a.status >= 400
             THEN [len |-> ErrorLen, own |-> FALSE]
        ELSE [len |-> BodyLen, own |-> TRUE]

\* Zero means half, and a cut past the end is the whole.
halfOr(cut, len) == Min({len, IF cut <= 0 THEN len \div 2 ELSE cut})

truncationLen(a) == halfOr(a.cut, faultBody(a).len)
truncationLenForChunk(a) == halfOr(a.cut, ChunkLen)

\* planStream: the chunk before which a stream is cut, the one that is cut
\* short and the one that stalls; -1 is never.
planStream(a) ==
    LET k == IF a = NoAttempt THEN "none" ELSE EffectiveKind(a)
        Of(kind) == IF k = kind THEN a.after ELSE -1
    IN  [disconnectAt |-> Of("stream_disconnect"),
         truncateAt   |-> Of("stream_truncate_chunk"),
         stallAt      |-> Of("stream_stall"),
         reset        |-> IsStream(k) /\ k # "stream_stall" /\ a.reset]

\* The status line: the attempt's own, else 200 (statusOr).
StatusOf(a) == IF a.status > 0 THEN a.status ELSE 200

\* faultOutcome's Aborted: the script, decided before any byte.
ScriptAborts(a) ==
    a # NoAttempt /\ EffectiveKind(a) \in {"close_before_headers", "truncate_body",
                                            "stream_disconnect", "stream_truncate_chunk"}
=============================================================================
