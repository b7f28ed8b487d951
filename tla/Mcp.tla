-------------------------------- MODULE Mcp --------------------------------
(***************************************************************************)
(* The MCP profile: one route, POST /mcp, dispatched on a JSON-RPC         *)
(* envelope.  Models profiles/mcp (handler.go, jsonrpc.go, transport.go,   *)
(* request.go, tools.go, stream.go).                                       *)
(*                                                                         *)
(* Beside the common fields a request has `shape` (of the envelope), `id`  *)
(* (absent for a notification), `call` (the method), `off` (the transport  *)
(* requirements it does not meet), `legacy` (a session header of an older  *)
(* protocol), `params` and `tool` (how the tool named is scripted).        *)
(***************************************************************************)
EXTENDS Exchange

-----------------------------------------------------------------------------
(* The envelope *)

\* decodeEnvelope, then the shape rules: a client sends no response, jsonrpc is
\* "2.0", method a non-empty string, and a present id a string or an integer.
isWellFormed(x) == x.shape = "request" /\ x.id \in {"absent", "string", "integer"}

isNotification(x) == x.id = "absent"

parseEnvelope(x) ==
    IF x.body \in {"too_large", "malformed", "empty", "unread"} THEN "mcp.parse_failed"
    ELSE IF x.body = "array" THEN "mcp.invalid_request"
    ELSE IF x.shape = "response" THEN "mcp.response_not_accepted"
    ELSE IF ~ isWellFormed(x) THEN "mcp.invalid_request"
    ELSE "ok"

-----------------------------------------------------------------------------
(* Transport *)

\* The requirements in the order they are checked.  name_* concern tools/call
\* only; "headers" is a missing protocol-version, method or name header.
TransportChecks == <<"accept", "content_type", "headers", "method_mismatch", "name_chars",
                     "name_mismatch", "meta", "version_mismatch", "unsupported">>

hasModernHeaders(x) == "headers" \notin x.off

\* The first requirement the request does not meet; 0 when it meets all.
checkTransport(x) ==
    LET applies(c) == c \in x.off /\ (c \in {"name_chars", "name_mismatch"} => x.call = "tools/call")
        unmet == {i \in 1..Len(TransportChecks) : applies(TransportChecks[i])}
    IN  IF unmet = {} THEN 0 ELSE CHOOSE i \in unmet : \A j \in unmet : i <= j

\* Observed on every request, and never a gate.
checkLegacyHeaders(x) == When(x.legacy, Warn("mcp.legacy_session"))

\* Optional by default; only a mode that says so requires a credential.  Another
\* scheme than Bearer is warned of and authenticates.
checkAuth(x, policy) ==
    LET accepted  == AcceptedPlacements(policy, {}, {"authorization"})
        presented == {x.creds[i] : i \in {j \in 1..Len(x.creds) : x.creds[j].at \in accepted}}
    IN  IF policy.mode = "reject" THEN FailAt("mcp.auth.mismatch")
        ELSE IF presented = {} THEN When(policy.mode = "required", FailAt("mcp.auth.missing"))
        ELSE When(\E c \in presented : c.at = "authorization" /\ ~ c.bearer,
                  Warn("mcp.auth.wrong_placement"))
             \cup When(policy.expect /\ \A c \in presented : ~ c.good, FailAt("mcp.auth.mismatch"))

-----------------------------------------------------------------------------
(* Methods *)

\* tools/list serves a single page: any cursor is refused.
checkToolsListParams(x) == When(x.params = "cursor", FailAt("mcp.cursor_invalid"))

checkToolsCallParams(x) == When(x.params = "no_name", FailAt("mcp.name_required"))
                               \cup When(x.params = "arguments", FailAt("mcp.arguments_invalid"))

\* The checks a method makes before anything is claimed.
requestChecks(x) ==
    IF x.call = "tools/list" THEN checkToolsListParams(x)
    ELSE IF x.call = "tools/call" THEN checkToolsCallParams(x)
    ELSE When(x.call # "server/discover", FailAt("mcp.method_unknown"))

wantsStream(entry) == entry.declared /\ entry.stream = "stream"

\* A tool neither scripted nor declared is an ordinary outcome, and may carry
\* a fault; one declared without a script is a placeholder.
handleToolsCall(x, entry, checked) ==
    IF x.tool = "unknown" THEN Serve(200, "mcp.unknown_tool", checked \cup Warn("mcp.tool_unknown"))
    ELSE [Serve(200, IF wantsStream(entry) THEN "mcp.stream" ELSE "mcp.ok",
                checked \cup When(x.tool = "unscripted", Warn("mcp.tool_unscripted")))
             EXCEPT !.streams = wantsStream(entry)]

\* Mutant of methodRefusal: the turn was selected before the method's own checks.
BugMethodRefusal(x, findings) == Spent(Answer(200, "error", findings))

\* Nothing is claimed yet: JSON-RPC errors of a known method are a 200.
methodRefusal(x, findings) ==
    Answer(IF x.call \in {"tools/list", "tools/call"} THEN 200 ELSE 404, "error", findings)

\* The whole dispatch.  Every error that is open when the credentials have been
\* read is answered as a missing authorization; a notification is accepted
\* whatever was found.  A turn that is not found keeps its own status.
handleMCP(x, entry, claim) ==
    LET seen   == Arrive(x) \cup checkLegacyHeaders(x)
        auth   == seen \cup checkAuth(x, AuthPolicy(entry, "optional"))
        Refused(status, code) == Answer(status, "error", seen \cup FailAt(code))
    IN  IF parseEnvelope(x) # "ok" THEN Refused(400, parseEnvelope(x))
        ELSE IF isNotification(x) THEN Answer(202, "mcp.notification", seen)
        ELSE IF x.call = "initialize" /\ ~ hasModernHeaders(x) THEN Refused(400, "mcp.header_required")
        ELSE IF checkTransport(x) # 0 THEN Refused(400, TransportChecks[checkTransport(x)])
        ELSE IF Failed(entry.validation, auth) THEN Answer(401, "error", auth)
        ELSE IF requestChecks(x) # {} THEN methodRefusal(x, auth \cup requestChecks(x))
        ELSE IF entry.declared /\ ~ Selects(entry, claim)
             THEN Spent(Answer(200, "error", auth \cup Fail("scenario.no_matching_turn")))
        ELSE IF x.call = "tools/call" THEN handleToolsCall(x, entry, auth)
        ELSE Serve(200, "mcp.ok", auth)

\* renderProgressStream: progress frames only for a request with a token, and
\* the response as the one terminal frame.
renderProgressStream(deltas, token) ==
    (IF token THEN [i \in 1..deltas |-> "progress"] ELSE <<>>) \o <<"terminal">>
=============================================================================
