----------------------------- MODULE MCSurfaces -----------------------------
(***************************************************************************)
(* Small instance of Surfaces: every route's valid request, and what       *)
(* deviates from it in one property, in the body, in the credentials or in *)
(* the namespace; a handful of scenario entries.                           *)
(***************************************************************************)
EXTENDS Surfaces, TLC

Good(at) == [at |-> at, good |-> TRUE, bearer |-> at = "authorization"]
Wrong(at) == [Good(at) EXCEPT !.good = FALSE]
Basic == [Good("authorization") EXCEPT !.bearer = FALSE]

MCCreds == {<<>>, <<Good("authorization")>>, <<Wrong("authorization")>>, <<Good("x-api-key")>>,
            <<Wrong("x-api-key"), Good("authorization")>>, <<Basic>>}

\* The properties of a valid request.
Base(s) ==
    CASE s = "sonar" -> ("model" :> "ok" @@ "messages" :> "ok")
      [] s = "agent" -> ("input" :> "ok" @@ "model" :> "slashed")
      [] s \in {"search", "answer", "run", "tavily"} -> ("query" :> "ok")
      [] s = "findSimilar" -> ("url" :> "ok")
      [] s = "contents" -> ("ids" :> "ok")
      [] s = "extract" -> ("urls" :> "ok")
      [] s = "research" -> ("input" :> "ok")

\* One property, or two that interact, overwritten or added.
Deviations(s) ==
    CASE s = "sonar" -> {("model" :> "removed"), ("messages" :> "item"), ("temperature" :> "bad"),
                         ("max_tokens" :> "bad"), ("search_mode" :> "null"), ("stream_mode" :> "null"),
                         ("stream" :> "true"), ("extra" :> "ok"),
                         ("stream" :> "true" @@ "stream_mode" :> "concise")}
      [] s = "agent" -> {("input" :> "item"), ("model" :> "bare"), ("model" :> "" @@ "preset" :> "ok"),
                         ("model" :> "" @@ "profile" :> "id"), ("model" :> "" @@ "models" :> "blank"),
                         ("model" :> "" @@ "models" :> "chain"), ("models" :> "blank"), ("models" :> "many"),
                         ("model" :> "anthropic"), ("model" :> "bad"), ("profile" :> "id" @@ "preset" :> "ok"),
                         ("max_steps" :> "bad"), ("stream" :> "true"), ("background" :> "true"),
                         ("background" :> "true" @@ "store" :> "false"),
                         ("background" :> "true" @@ "stream" :> "true"), ("extra" :> "ok")}
      [] s = "search" -> {("query" :> "blank"), ("type" :> "neural"), ("numResults" :> "bad"),
                          ("outputSchema" :> "deep"), ("stream" :> "true"), ("livecrawl" :> "ok"),
                          ("contents" :> "odd"), ("extra" :> "ok")}
      [] s = "answer" -> {("query" :> "bad"), ("text" :> "bad"), ("stream" :> "bad"), ("extra" :> "ok")}
      [] s = "findSimilar" -> {("url" :> "short"), ("numResults" :> "bad"), ("startCrawlDate" :> "ok")}
      [] s = "contents" -> {("ids" :> "null"), ("ids" :> "item"), ("urls" :> "ok"), ("text" :> "bad"),
                            ("highlights" :> "odd"), ("livecrawl" :> "ok"), ("subpages" :> "bad")}
      [] s = "run" -> {("effort" :> "bad"), ("budget" :> "duration"), ("budget" :> "cost"),
                       ("effort" :> "ultra" @@ "budget" :> "duration"), ("query" :> "blank")}
      [] s = "tavily" -> {("query" :> "blank"), ("topic" :> "bad"), ("days" :> "ok"), ("api_key" :> "good"),
                          ("api_key" :> "other"), ("country" :> "ok" @@ "topic" :> "news"),
                          ("max_results" :> "bad"), ("extra" :> "ok")}
      [] s = "extract" -> {("urls" :> "none"), ("urls" :> "item"), ("timeout" :> "bad"), ("api_key" :> "good")}
      [] s = "research" -> {("input" :> "bad"), ("model" :> "odd"), ("api_key" :> "good")}

Request(body, f, creds, admitted) ==
    [body |-> body, f |-> f, creds |-> creds, admitted |-> admitted, json |-> TRUE, method |-> "POST",
     found |-> TRUE, stray |-> FALSE]

\* Extra conditions of a valid request: a content type that is not JSON, and
\* what the scripted turn says of the identifiers sent.
Odd(s, x) == {[x EXCEPT !.json = FALSE]} \cup
             (IF s \in {"contents", "extract"} THEN {[x EXCEPT !.stray = TRUE], [x EXCEPT !.found = FALSE]} ELSE {})

RestRequests(s) ==
    LET valid == Request("object", Base(s), <<Good("authorization")>>, TRUE)
        fields == {Base(s)} \cup {d @@ Base(s) : d \in Deviations(s)}
        some == {<<>>, <<Good("authorization")>>, <<Wrong("x-api-key"), Good("authorization")>>}
    IN  {Request("object", f, c, TRUE) : f \in fields, c \in some}
            \cup {Request("object", Base(s), c, a) : c \in MCCreds, a \in BOOLEAN}
            \cup {Request(b, <<>>, c, a) : b \in BodyKinds \ {"object"}, c \in some, a \in BOOLEAN}
            \cup Odd(s, valid)

McpRequest(body, shape, id, call, off, params, tool, creds, admitted) ==
    [body |-> body, shape |-> shape, id |-> id, call |-> call, off |-> off, params |-> params,
     tool |-> tool, creds |-> creds, admitted |-> admitted, legacy |-> FALSE]

McpRequests ==
    LET Call(call, off, params, tool, c, a) ==
            McpRequest("object", "request", "integer", call, off, params, tool, c, a)
        c0 == <<Good("authorization")>>
        call0 == Call("tools/call", {}, "ok", "scripted", c0, TRUE)
    IN  {Call(call, {}, "ok", "scripted", c, a) :
             call \in {"server/discover", "tools/list", "tools/call", "other"}, c \in MCCreds, a \in BOOLEAN}
        \cup {Call("tools/call", {}, "ok", tool, c0, TRUE) : tool \in {"unscripted", "unknown"}}
        \cup {Call("tools/call", {}, p, "scripted", c0, TRUE) : p \in {"no_name", "arguments"}}
        \cup {Call("tools/list", {}, "cursor", "scripted", c0, TRUE), Call("initialize", {"headers"}, "ok", "scripted", c0, TRUE)}
        \cup {Call("tools/call", {M!TransportChecks[i], M!TransportChecks[j]}, "ok", "scripted", c0, TRUE) : i, j \in 1..9}
        \cup {[call0 EXCEPT !.id = "absent", !.admitted = a] : a \in BOOLEAN}
        \cup {[call0 EXCEPT !.id = "null"], [call0 EXCEPT !.shape = "response"], [call0 EXCEPT !.legacy = TRUE]}
        \cup {[call0 EXCEPT !.body = b] : b \in BodyKinds \ {"object"}}

MCRequests(s) == IF s = "mcp" THEN McpRequests ELSE RestRequests(s)

\* A poll or a cancel carries no body.
MCJobRequests ==
    {[Request("empty", <<>>, c, a) EXCEPT !.method = m] :
        c \in {<<Good("authorization")>>, <<>>}, a \in BOOLEAN, m \in {"GET", "HEAD"}}

Entry(policy, auth, stream, serves) ==
    [declared |-> TRUE, auth |-> auth, validation |-> policy, stream |-> stream, serves |-> serves,
     background |-> TRUE, script |-> (0 :> "in_progress" @@ 1 :> "completed"), cancelScript |-> (0 :> "cancelled")]

DefaultAuth == [mode |-> "", headers |-> {}, expect |-> FALSE]
Strict == [NoPolicy EXCEPT !.strict = TRUE]
StrictDemoting == [Strict EXCEPT !.demote = {"request.unknown_field", "request.content_type", "query.empty",
                                            "deprecated", "api_key.in_body"}]
Promoting == [NoPolicy EXCEPT !.promote = {"request.content_type", "stream.unimplemented",
                                           "auth.wrong_placement", "mcp.auth.wrong_placement"}]

\* Serves a namespace over the bound.
Admitting == [NoPolicy EXCEPT !.demote = {"namespace.limit_exceeded", "fault.unknown_key"}]

MCEntries ==
    {Entry(NoPolicy, DefaultAuth, "stream", {-1, 0, 1}),
     Entry(Strict, DefaultAuth, "stream", {-1, 0, 1}),
     Entry(StrictDemoting, DefaultAuth, "warn", {0}),
     Entry(Promoting, [DefaultAuth EXCEPT !.mode = "required", !.expect = TRUE], "reject", {0}),
     Entry(NoPolicy, [mode |-> "required", headers |-> {"x-api-key"}, expect |-> TRUE], "warn", {1}),
     Entry(NoPolicy, [DefaultAuth EXCEPT !.mode = "reject"], "warn", {-1, 0, 1}),
     [Entry(Admitting, DefaultAuth, "warn", {-1, 0, 1}) EXCEPT
         !.script = (-1 :> "queued" @@ 0 :> "in_progress" @@ 1 :> "incomplete")],
     [Entry(NoPolicy, [DefaultAuth EXCEPT !.mode = "optional"], "warn", {}) EXCEPT
         !.script = (0 :> "in_progress"), !.cancelScript = <<>>],
     [Entry(NoPolicy, DefaultAuth, "warn", {}) EXCEPT !.declared = FALSE, !.background = FALSE]}
=============================================================================
