-------------------------- MODULE RequestLifecycle --------------------------
(***************************************************************************)
(* One request from the handler's answer to the end of its connection:     *)
(* how provider.Handle applies the claimed attempt, when it journals the   *)
(* exchange, what it writes and what the client receives.  The client may  *)
(* leave at any time.  Models Handle after its handler (handle.go), the    *)
(* executor (fault_exec.go) and executeStream (stream.go); net/http is     *)
(* modelled from how they use it.                                          *)
(*                                                                         *)
(* A pause that the request context can cut short is a step of its own:    *)
(* either it elapses or, once the client has left, it is cancelled; when   *)
(* both can happen Go's select takes either.  DelaySkip, under which every *)
(* pause elapses at once, has a subset of these behaviours.                *)
(***************************************************************************)
EXTENDS FaultAttempts

CONSTANTS
    Attempts,   \* the attempts a plan may hand out
    Entries     \* the stream scripts of a provider entry, one per turn

ASSUME ExchangeAssumption ==
    /\ Attempts \subseteq Attempt \cup {NoAttempt}
    /\ \A e \in Entries : e # <<>> /\ \A i \in 1..Len(e) : e[i] \in Script

\* What the profile's handler did: it served the turn, served it outside the
\* fault plan, rejected the request before or after claiming an attempt,
\* returned a stream without a grammar, panicked, or aborted the connection.
Verdicts == {"serve", "optout", "reject", "claimed_reject", "grammarless", "panic", "abort"}

VARIABLES
    req,        \* what this request is: chosen once
    pc,         \* the step Handle is at
    client,     \* "waiting" or "gone"
    resp,       \* the response being executed, with its attempt and outcome
    entry,      \* the journal's entry of this request
    kept,       \* whether a job record exists
    chunk,      \* chunks written so far
    panicking,  \* whether ErrAbortHandler is unwinding
    wire        \* what the client has received

vars == <<req, pc, client, resp, entry, kept, chunk, panicking, wire>>

NoEntry == [exists |-> FALSE, aborted |-> FALSE, bytes |-> 0, state |-> "none", sent |-> 0]

Serves(r) == r.verdict \in {"serve", "optout"}

\* Whether the handler returned a Stream that Handle goes on with.
AsksStream(r) == r.verdict = "serve" /\ r.asks /\ entryPolicy(r.scripts) = "stream"

ChunkCount == chunkCount(req.scripts[req.turn])

-----------------------------------------------------------------------------
(* The handler returns; Handle decides. *)

\* Mutant of Claimed: an attempt claimed before the rejection still runs.
BugClaimed(r) == r.attempt

\* A rejected or opted-out response is stripped of its attempt.
Claimed(r) == IF r.verdict = "serve" THEN r.attempt ELSE NoAttempt

\* An attempt that cannot apply to the transport is dropped with
\* abort_unreachable; a kind the vendor answers before streaming drops the stream.
Decided(r) ==
    LET claimed == Claimed(r)
        what    == Disposition(claimed, AsksStream(r))
        a       == IF what = "unreachable" THEN NoAttempt ELSE claimed
        body    == IF a # NoAttempt THEN faultBody(a)
                   ELSE [len |-> IF Serves(r) THEN BodyLen ELSE ErrorLen, own |-> Serves(r)]
    IN  [attempt |-> a,
         streams |-> AsksStream(r) /\ what # "suppress",
         dropped |-> what = "unreachable",
         status  |-> IF Serves(r) THEN StatusOf(a) ELSE 400,
         body    |-> body,
         aborted |-> ScriptAborts(a),
         bytes   |-> IF a # NoAttempt /\ EffectiveKind(a) = "truncate_body"
                     THEN truncationLen(a) ELSE 0]

\* The journaled outcome of a response as it stands.
Recorded(r, state, sent) ==
    [exists |-> TRUE, aborted |-> r.aborted, bytes |-> r.bytes, state |-> state, sent |-> sent]

\* Handle up to the pre-dispatch delay.  A stream's entry is appended now, open,
\* before its first byte.  A create has already kept or dropped its job.
Respond ==
    /\ pc = "handle"
    /\ resp' = Decided(req)
    /\ kept' = (req.mints /\ req.verdict = "serve" /\ commits(req.attempt))
    /\ entry' = IF resp'.streams THEN Recorded(resp', "open", 0) ELSE entry
    /\ panicking' = (req.verdict = "abort")
    /\ pc' = IF req.verdict = "abort" THEN "unwind" ELSE "delay"
    /\ UNCHANGED <<req, client, chunk, wire>>

-----------------------------------------------------------------------------
(* The pre-dispatch delay and the early record of an aborting fault *)

Delays(a) == a # NoAttempt /\ a.delay /\ EffectiveKind(a) # "stream_stall"

\* truncate_body that hangs after its headers journals itself, later.
DefersRecord(r) ==
    r.attempt # NoAttempt /\ r.attempt.hang /\ EffectiveKind(r.attempt) = "truncate_body"

\* Mutant of Dispatch: a stream's entry is appended a second time.
BugDispatch ==
    /\ pc = "delay"
    /\ entry' = IF resp.aborted /\ ~ DefersRecord(resp) THEN Recorded(resp, "none", 0) ELSE entry
    /\ pc' = IF resp.streams THEN "stream_headers" ELSE "headers"
    /\ UNCHANGED <<req, client, resp, kept, chunk, panicking, wire>>

\* The delay ends, or there is none; an aborting fault is journaled here,
\* before the socket is touched.
Dispatch ==
    /\ pc = "delay"
    /\ entry' = IF resp.aborted /\ ~ resp.streams /\ ~ DefersRecord(resp)
                THEN Recorded(resp, "none", 0) ELSE entry
    /\ pc' = IF resp.streams THEN "stream_headers" ELSE "headers"
    /\ UNCHANGED <<req, client, resp, kept, chunk, panicking, wire>>

\* The client left during the delay: nothing is written.
CancelDelay ==
    /\ pc = "delay" /\ Delays(resp.attempt) /\ client = "gone"
    /\ resp' = [resp EXCEPT !.aborted = @ \/ ~ resp.streams, !.bytes = 0]
    /\ pc' = "unwind"
    /\ UNCHANGED <<req, client, entry, kept, chunk, panicking, wire>>

-----------------------------------------------------------------------------
(* A response that does not stream *)

Is(kind) == resp.attempt # NoAttempt /\ EffectiveKind(resp.attempt) = kind

\* Bytes that reach a client that is still there.
Deliver(w, bytes, own) ==
    IF client = "gone" THEN w
    ELSE [w EXCEPT !.headers = TRUE, !.bytes = @ + bytes, !.own = own]

\* close_before_headers destroys the connection instead of writing.
CloseBeforeHeaders ==
    /\ pc = "headers" /\ Is("close_before_headers")
    /\ wire' = [wire EXCEPT !.end = "abort"]
    /\ panicking' = TRUE
    /\ pc' = "unwind"
    /\ UNCHANGED <<req, client, resp, entry, kept, chunk>>

\* WriteHeader; only a hang flushes the headers now.
WriteHeaders ==
    /\ pc = "headers" /\ ~ Is("close_before_headers")
    /\ wire' = IF resp.attempt.hang THEN Deliver(wire, 0, FALSE) ELSE wire
    /\ pc' = IF resp.attempt.hang THEN "hang" ELSE "body"
    /\ UNCHANGED <<req, client, resp, entry, kept, chunk, panicking>>

HangElapses ==
    /\ pc = "hang"
    /\ pc' = "body"
    /\ UNCHANGED <<req, client, resp, entry, kept, chunk, panicking, wire>>

\* The client left during the after-headers hang.
CancelHang ==
    /\ pc = "hang" /\ client = "gone"
    /\ resp' = [resp EXCEPT !.aborted = TRUE, !.bytes = 0]
    /\ pc' = "unwind"
    /\ UNCHANGED <<req, client, entry, kept, chunk, panicking, wire>>

\* What net/http sends of n body bytes under the response's status.
Sent(n) == IF writesNoBody(resp.status) THEN 0 ELSE n

\* Mutant of RecordTruncation: the entry is left to the deferred record.
BugRecordTruncation ==
    /\ pc = "body" /\ Is("truncate_body")
    /\ pc' = "prefix"
    /\ UNCHANGED <<req, client, resp, entry, kept, chunk, panicking, wire>>

\* truncateBody journals the exchange after its hang, before the destructive
\* write; a no-op when Dispatch already did.
RecordTruncation ==
    /\ pc = "body" /\ Is("truncate_body")
    /\ entry' = IF entry.exists THEN entry ELSE Recorded(resp, "none", 0)
    /\ pc' = "prefix"
    /\ UNCHANGED <<req, client, resp, kept, chunk, panicking, wire>>

\* The prefix and its flush, the RST when one is asked for, and the panic.
TruncateBody ==
    /\ pc = "prefix"
    /\ wire' = [Deliver(wire, Sent(resp.bytes), resp.body.own) EXCEPT
                   !.end = IF resp.attempt.reset THEN "abort" ELSE @]
    /\ panicking' = TRUE
    /\ pc' = "unwind"
    /\ UNCHANGED <<req, client, resp, entry, kept, chunk>>

\* writeOversizedBody: spaces up to the declared size, none past it.
Padding == IF Is("oversized_body") THEN Max({0, resp.attempt.pad - resp.body.len}) ELSE 0

\* Every other writer.  net/http buffers what it is given and may send it at
\* once when it is long; the rest goes out when the handler returns.
WriteBody(flushed) ==
    LET n == Sent(resp.body.len + Padding)
    IN  /\ pc = "body" /\ ~ Is("truncate_body")
        /\ resp' = [resp EXCEPT !.bytes = n]
        /\ wire' = IF flushed THEN Deliver(wire, n, resp.body.own) ELSE wire
        /\ pc' = "unwind"
        /\ UNCHANGED <<req, client, entry, kept, chunk, panicking>>

-----------------------------------------------------------------------------
(* A stream *)

\* Headers and one flush.
WriteStreamHeaders ==
    /\ pc = "stream_headers"
    /\ wire' = Deliver(wire, 0, FALSE)
    /\ pc' = "chunk"
    /\ UNCHANGED <<req, client, resp, entry, kept, chunk, panicking>>

\* Mutant of closeWith: the chunk being cut is counted as sent.
BugCloseWith(state) ==
    entry' = [entry EXCEPT !.bytes = resp.bytes, !.state = state,
                           !.sent = IF state = "aborted" THEN chunk + 1 ELSE chunk]

\* closeWith: the observed half, on the entry the journal already holds.
closeWith(state) ==
    entry' = [entry EXCEPT !.bytes = resp.bytes, !.sent = chunk, !.state = state]

\* stream_disconnect: nothing of this chunk is written.
Disconnect ==
    /\ pc = "chunk" /\ chunk = planStream(resp.attempt).disconnectAt /\ chunk < ChunkCount
    /\ closeWith("aborted")
    /\ pc' = "reset"
    /\ UNCHANGED <<req, client, resp, kept, chunk, panicking, wire>>

\* A pause before this chunk, the script's own or a stall's.
Pauses == req.paced \/ chunk = planStream(resp.attempt).stallAt

Streaming == pc = "chunk" /\ chunk # planStream(resp.attempt).disconnectAt

\* A write succeeds, or fails once the client has left; under a status that
\* carries no body net/http refuses every write.
WriteFails == client = "gone" \/ writesNoBody(resp.status)
WriteLands == ~ writesNoBody(resp.status)

\* One whole chunk and its flush.
WriteChunk ==
    /\ Streaming /\ chunk < ChunkCount /\ chunk # planStream(resp.attempt).truncateAt
    /\ WriteLands
    /\ chunk' = chunk + 1
    /\ resp' = [resp EXCEPT !.bytes = @ + ChunkLen]
    /\ wire' = [Deliver(wire, ChunkLen, TRUE) EXCEPT
                   !.chunks = IF client = "gone" THEN @ ELSE @ + 1]
    /\ UNCHANGED <<req, pc, client, entry, kept, panicking>>

\* stream_truncate_chunk: a part of the chunk and its flush.
WritePartialChunk ==
    /\ Streaming /\ chunk < ChunkCount /\ chunk = planStream(resp.attempt).truncateAt
    /\ WriteLands
    /\ resp' = [resp EXCEPT !.bytes = @ + truncationLenForChunk(resp.attempt)]
    /\ wire' = Deliver(wire, truncationLenForChunk(resp.attempt), TRUE)
    /\ pc' = "truncated"
    /\ UNCHANGED <<req, client, entry, kept, chunk, panicking>>

CloseTruncated ==
    /\ pc = "truncated"
    /\ closeWith("aborted")
    /\ pc' = "reset"
    /\ UNCHANGED <<req, client, resp, kept, chunk, panicking, wire>>

\* The RST of a scripted abort, when it asks for one, and the panic.
ResetStream ==
    /\ pc = "reset"
    /\ wire' = [wire EXCEPT !.end = IF planStream(resp.attempt).reset THEN "abort" ELSE @]
    /\ panicking' = TRUE
    /\ pc' = "unwind"
    /\ UNCHANGED <<req, client, resp, entry, kept, chunk>>

\* The sentinel is no indexed chunk; its bytes count, its write may fail too.
WriteSentinel ==
    /\ Streaming /\ chunk = ChunkCount /\ req.sentinel /\ WriteLands
    /\ resp' = [resp EXCEPT !.bytes = @ + 1]
    /\ wire' = Deliver(wire, 1, TRUE)
    /\ pc' = "complete"
    /\ UNCHANGED <<req, client, entry, kept, chunk, panicking>>

\* The client's departure ends a pause or fails a write.
ClientGone ==
    /\ Streaming /\ (chunk < ChunkCount \/ req.sentinel)
    /\ (client = "gone" /\ Pauses) \/ WriteFails
    /\ closeWith("client_gone")
    /\ pc' = "unwind"
    /\ UNCHANGED <<req, client, resp, kept, chunk, panicking, wire>>

Complete ==
    /\ pc = "complete" \/ (Streaming /\ chunk = ChunkCount /\ ~ req.sentinel)
    /\ closeWith("completed")
    /\ pc' = "unwind"
    /\ UNCHANGED <<req, client, resp, kept, chunk, panicking, wire>>

-----------------------------------------------------------------------------
(* The deferred record, the fallback close and net/http's own end *)

\* Mutant of Unwind: a stream cut short before its first byte stays open.
BugUnwind ==
    /\ pc = "unwind"
    /\ entry' = IF entry.exists THEN entry ELSE Recorded(resp, "none", 0)
    /\ pc' = "finish"
    /\ UNCHANGED <<req, client, resp, kept, chunk, panicking, wire>>

\* record() and the fallback closer are no-ops once they have run.
Unwind ==
    /\ pc = "unwind"
    /\ entry' = IF ~ entry.exists THEN Recorded(resp, "none", 0)
                ELSE IF entry.state = "open"
                     THEN [entry EXCEPT !.state = "client_gone", !.bytes = 0, !.sent = 0]
                ELSE entry
    /\ pc' = "finish"
    /\ UNCHANGED <<req, client, resp, kept, chunk, panicking, wire>>

\* net/http: a panic aborts the connection and discards what is buffered; a
\* return sends it and ends the response.
Finish ==
    /\ pc = "finish"
    /\ wire' = IF panicking THEN [wire EXCEPT !.end = "abort"]
               ELSE [Deliver(wire, IF resp.streams THEN 0 ELSE resp.bytes - wire.bytes,
                             IF resp.streams THEN wire.own ELSE resp.body.own) EXCEPT !.end = "clean"]
    /\ pc' = "done"
    /\ UNCHANGED <<req, client, resp, entry, kept, chunk, panicking>>

\* The client hangs up or times out.
Leave ==
    /\ client = "waiting" /\ pc # "done"
    /\ client' = "gone"
    /\ UNCHANGED <<req, pc, resp, entry, kept, chunk, panicking, wire>>

-----------------------------------------------------------------------------
\* The requests that can arrive: a plan loads with the entry whose turns answer
\* it, a create does not stream, and what only a stream reads is fixed without one.
Requests ==
    UNION {{r \in [attempt : {a \in Attempts : a = NoAttempt \/ LoadsWith(a, e)}, scripts : {e},
                   turn : 1..Len(e), asks : BOOLEAN, paced : BOOLEAN, sentinel : BOOLEAN,
                   mints : BOOLEAN, verdict : Verdicts] :
               /\ r.mints => ~ r.asks /\ r.verdict = "serve"
               /\ r.paced \/ r.sentinel \/ r.asks \/ r.turn > 1 => AsksStream(r)} : e \in Entries}

Init ==
    /\ req \in Requests
    /\ pc = "handle"
    /\ client = "waiting"
    /\ resp = [attempt |-> NoAttempt, streams |-> FALSE, dropped |-> FALSE, status |-> 200,
               body |-> [len |-> 0, own |-> FALSE], aborted |-> FALSE, bytes |-> 0]
    /\ entry = NoEntry
    /\ kept = FALSE
    /\ chunk = 0
    /\ panicking = FALSE
    /\ wire = [headers |-> FALSE, bytes |-> 0, own |-> FALSE, chunks |-> 0, end |-> "open"]

Handle ==
    \/ Respond \/ Dispatch \/ CancelDelay
    \/ CloseBeforeHeaders \/ WriteHeaders \/ HangElapses \/ CancelHang
    \/ RecordTruncation \/ TruncateBody \/ (\E flushed \in BOOLEAN : WriteBody(flushed))
    \/ WriteStreamHeaders \/ Disconnect \/ WriteChunk \/ WritePartialChunk \/ CloseTruncated
    \/ ResetStream \/ WriteSentinel \/ ClientGone \/ Complete
    \/ Unwind \/ Finish

Next == Handle \/ Leave

Spec == Init /\ [][Next]_vars

\* A request's goroutine runs until it returns, and its pauses elapse.
FairSpec == Spec /\ WF_vars(Handle)

-----------------------------------------------------------------------------
(* Properties *)

Streamed == resp.streams
Stayed == client = "waiting"
Ended == pc = "done"

\* Handle, property 3: a client that has seen its connection destroyed, or any
\* part of a stream or of a cut body, reads its entry in the journal; and the
\* entry of a destroyed stream already says how it ended.
JournaledBeforeSeen ==
    /\ wire.end = "abort" \/ (Streamed /\ wire.headers) \/ (Is("truncate_body") /\ wire.bytes > 0)
         => entry.exists
    /\ Streamed /\ wire.end = "abort" => entry.state = "aborted"

\* What the journal says at the end is what happened on the wire, for a client
\* that stayed: aborted means destroyed, a completed stream was received whole,
\* and the counts are the bytes and chunks received.  (Left out: a cut body under a
\* status that carries none is counted as cut, a stream under such a status is
\* reported as left by its client, and a handler that aborts by itself has no
\* scripted outcome.)
EntryTruthful ==
    Ended /\ Stayed /\ req.verdict # "abort" /\ ~ (Streamed /\ writesNoBody(resp.status)) =>
        /\ entry.exists
        /\ entry.aborted = (wire.end = "abort")
        /\ entry.state \in (IF Streamed THEN {"completed", "aborted", "client_gone"} ELSE {"none"})
        /\ entry.state = "aborted" <=> Streamed /\ wire.end = "abort"
        /\ entry.state = "completed" => wire.chunks = ChunkCount /\ wire.end = "clean"
        /\ entry.sent = wire.chunks
        /\ entry.bytes = wire.bytes \/ (Is("truncate_body") /\ writesNoBody(resp.status))

\* An entry is appended once; after that only the observed half of an open
\* stream changes, once.
EntryAmendedOnce ==
    [][entry.exists /\ entry' # entry =>
         /\ entry.state = "open" /\ entry'.state # "open"
         /\ entry'.exists /\ entry'.aborted = entry.aborted]_vars

\* MintJob's prediction: a create's job is kept exactly when its client, having
\* stayed, received the whole identifier-bearing body of a success, or the
\* attempt said the request took effect.  A cut past the end is a whole body.
JobMatchesWire ==
    Ended /\ Stayed /\ req.mints =>
        LET received == wire.own /\ wire.bytes >= BodyLen /\ resp.status < 400
        IN  kept = (req.attempt.accepted \/ (received /\ ~ Is("truncate_body")))

\* A plan the load accepted does what it says on every turn that may answer a
\* streaming request: no attempt is dropped, and a scripted abort or stall
\* falls inside the stream, so a client that stays never gets all of it.
LoadedPlanApplies ==
    /\ AsksStream(req) => ~ resp.dropped
    /\ Ended /\ Stayed /\ Streamed /\ ScriptAborts(resp.attempt) /\ ~ writesNoBody(resp.status)
         => wire.end = "abort" /\ wire.chunks < ChunkCount

\* A response that is not fault-eligible is served as the handler made it,
\* whatever its claimed attempt says.
RejectionUntouched ==
    Ended /\ Stayed /\ req.verdict \in {"optout", "reject", "claimed_reject", "grammarless", "panic"}
        => wire.end = "clean" /\ wire.bytes = (IF Serves(req) THEN BodyLen ELSE ErrorLen)

\* Every request ends, journaled, with its stream closed: no pause, departure
\* or abort leaves an entry out or open.
Settles == <>(Ended /\ entry.exists /\ entry.state # "open")
=============================================================================
