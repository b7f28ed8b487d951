------------------------------- MODULE Tavily -------------------------------
(***************************************************************************)
(* The Tavily profile: the checks and handlers of /search, /extract and    *)
(* /research, the status of a refusal, and how /extract answers each URL.  *)
(* Models profiles/tavily (handler.go, request.go, errors.go, extract.go,  *)
(* research.go).                                                           *)
(***************************************************************************)
EXTENDS Exchange, Ordered

-----------------------------------------------------------------------------
(* Credentials *)

\* A credential is presented when its placement is accepted: the header ones
\* in x.creds, and the body's api_key when it is a non-blank string.
defaultPlacements == {"authorization", "body:api_key"}

bodyCredential(x) ==
    LET Body(good) == {[at |-> "body:api_key", good |-> good, bearer |-> FALSE]}
    IN  When(Is(x, "api_key", "good"), Body(TRUE)) \cup When(Is(x, "api_key", "other"), Body(FALSE))

presentedCredentials(x, accepted) ==
    {c \in {x.creds[i] : i \in 1..Len(x.creds)} \cup bodyCredential(x) : c.at \in accepted}

acceptedPlacements(policy, routeCredentials) ==
    AcceptedPlacements(policy, routeCredentials, defaultPlacements)

\* Any accepted placement with the expected key authenticates, whatever its
\* scheme; x-api-key where it is not accepted is warned of, and so is another
\* scheme than Bearer.
checkAuth(x, policy, routeCredentials) ==
    LET accepted  == acceptedPlacements(policy, routeCredentials)
        presented == presentedCredentials(x, accepted)
    IN  When(\E i \in 1..Len(x.creds) : x.creds[i].at = "x-api-key" /\ "x-api-key" \notin accepted,
             Warn("auth.wrong_header")) \cup
        (IF policy.mode = "reject" THEN FailAt("auth.mismatch")
         ELSE IF presented = {} THEN When(policy.mode # "optional", FailAt("auth.missing"))
         ELSE When(\E c \in presented : c.at = "authorization" /\ ~ c.bearer, Warn("auth.wrong_placement"))
              \cup When(policy.expect /\ \A c \in presented : ~ c.good, FailAt("auth.mismatch")))

-----------------------------------------------------------------------------
(* Requests *)

checkContentType(x) == When(x.body # "empty" /\ ~ x.json, Warn("request.content_type"))

warnUnknownFields(x, known) == When(DOMAIN x.f \ known # {}, Warn("request.unknown_field"))

warnAPIKeyInBody(x) == When(Has(x, "api_key"), Warn("api_key.in_body"))

warnRemovedAndCredentialFields(x) == When(Has(x, "days"), Warn("days.removed")) \cup warnAPIKeyInBody(x)

\* A required property of a body that never parsed is not reported missing on
\* top of the body's own finding.
Required(x, key, code, missing) ==
    IF x.body \notin {"object", "empty"} THEN {}
    ELSE When(~ Has(x, key) \/ x.f[key] \in missing, FailAt(code))

parseQuery(x) == Required(x, "query", "query.missing", {"bad", "blank"})

\* The optional parsers of one key: enum, integer range, boolean or mode,
\* boolean, string, list of domains.  "bad" is present and not acceptable.
parseEnum(x, key) == When(Bad(x, key), FailAt(key))
parseInt(x, key) == When(Bad(x, key), FailAt(key))
parseOption(x, key) == When(Bad(x, key), FailAt(key))
parseBool(x, key) == When(Bad(x, key), FailAt(key))
parseString(x, key) == When(Bad(x, key), FailAt(key))
parseDomains(x, key) == When(Bad(x, key), FailAt(key))

searchFields == {"query", "topic", "max_results", "include_answer", "include_images", "country",
                 "include_domains", "days", "api_key"}

\* country is flagged with any topic but the general one.
parseSearchRequest(x) ==
    checkContentType(x) \cup parseQuery(x) \cup
    IF x.body # "object" THEN {}
    ELSE warnUnknownFields(x, searchFields) \cup warnRemovedAndCredentialFields(x)
         \cup parseEnum(x, "topic") \cup parseInt(x, "max_results")
         \cup parseOption(x, "include_answer") \cup parseBool(x, "include_images")
         \cup parseString(x, "country") \cup parseDomains(x, "include_domains")
         \cup When(Is(x, "country", "ok") /\ Is(x, "topic", "news"), Warn("country.topic"))

\* urls: one string or a non-empty array of strings.
parseExtractURLs(x) ==
    Required(x, "urls", "urls.missing", {"blank", "none"})
        \cup When(Has(x, "urls") /\ x.f["urls"] \in {"bad", "item"}, FailAt("urls.invalid"))

parseFloatRange(x, key) == When(Bad(x, key), FailAt(key))

extractPlacements == {"authorization"}

extractFields == {"urls", "query", "extract_depth", "chunks_per_source", "include_favicon", "timeout",
                  "api_key"}

parseExtractRequest(x) ==
    checkContentType(x) \cup parseExtractURLs(x) \cup
    IF x.body # "object" THEN {}
    ELSE warnUnknownFields(x, extractFields) \cup warnAPIKeyInBody(x) \cup parseString(x, "query")
         \cup parseEnum(x, "extract_depth") \cup parseInt(x, "chunks_per_source")
         \cup parseBool(x, "include_favicon") \cup parseFloatRange(x, "timeout")

\* A research create asks for no content type and reports no unknown field.
validateResearchCreate(x) ==
    When(~ Has(x, "input") \/ Bad(x, "input"), FailAt("input.missing"))
        \cup warnAPIKeyInBody(x) \cup When(Is(x, "model", "odd"), Warn("model.invalid"))

-----------------------------------------------------------------------------
(* Refusals *)

\* Mutant of errorStatus: the size of the body is asked before the credentials.
BugErrorStatus(p, findings) ==
    LET codes == ErrorCodes(p, findings)
    IN  IF "request.body_too_large" \in codes THEN 413
        ELSE IF codes \cap {"auth.missing", "auth.mismatch"} # {} THEN 401
        ELSE IF "scenario.no_matching_turn" \in codes THEN 404
        ELSE IF codes \cap {"namespace.limit_exceeded", "job.limit_reached"} # {} THEN 503
        ELSE IF "job.id_collision" \in codes THEN 500
        ELSE 400

\* The kinds of error in a fixed order, whatever order they were found in.
errorStatus(p, findings) ==
    LET codes == ErrorCodes(p, findings)
    IN  IF codes \cap {"auth.missing", "auth.mismatch"} # {} THEN 401
        ELSE IF "request.body_too_large" \in codes THEN 413
        ELSE IF "scenario.no_matching_turn" \in codes THEN 404
        ELSE IF codes \cap {"namespace.limit_exceeded", "job.limit_reached"} # {} THEN 503
        ELSE IF "job.id_collision" \in codes THEN 500
        ELSE 400

errorResponse(p, findings) == Answer(errorStatus(p, findings), "error", findings)

-----------------------------------------------------------------------------
(* Handlers *)

\* selectProjection: an undeclared entry is an empty success.
selectProjection(entry, claim, checked, label) ==
    IF ~ entry.declared \/ Selects(entry, claim) THEN Serve(200, label, checked)
    ELSE Spent(errorResponse(entry.validation, checked \cup Fail("scenario.no_matching_turn")))

handleSearch(x, entry, claim) ==
    LET checked == Arrive(x) \cup parseSearchRequest(x) \cup checkAuth(x, AuthPolicy(entry, ""), {})
    IN  IF Failed(entry.validation, checked) THEN errorResponse(entry.validation, checked)
        ELSE selectProjection(entry, claim, checked, "tavily.search.ok")

\* x.stray: failed_results names a URL that was not sent; found out after the
\* claim.  The route takes the header alone: a body api_key is only flagged.
handleExtract(x, entry, claim) ==
    LET checked == Arrive(x) \cup parseExtractRequest(x)
                       \cup checkAuth(x, AuthPolicy(entry, ""), extractPlacements)
        served  == selectProjection(entry, claim, checked, "tavily.extract.ok")
    IN  IF Failed(entry.validation, checked) THEN errorResponse(entry.validation, checked)
        ELSE [served EXCEPT !.findings = @ \cup When(served.eligible /\ x.stray,
                                                     Warn("extract.failure_unrequested"))]

\* Mints whether or not the scenario declares the entry.
handleResearchCreate(x, entry, mint) ==
    LET checked == Arrive(x) \cup checkAuth(x, AuthPolicy(entry, ""), {}) \cup validateResearchCreate(x)
    IN  IF Failed(entry.validation, checked) THEN errorResponse(entry.validation, checked)
        ELSE IF mint = "ok" THEN [Serve(201, "created", checked) EXCEPT !.job = "mint"]
        ELSE Spent(errorResponse(entry.validation, checked \cup
                 Fail(IF mint = "limit" THEN "job.limit_reached" ELSE "job.id_collision")))

\* A live task is a 202.
IsTerminal(status) == status \in {"completed", "failed"}

HTTPStatus(status) == IF IsTerminal(status) THEN 200 ELSE 202

\* A poll is served by the call index of the job's lane, and never asks the job
\* record; an undeclared entry is pending for ever.
selectResearchProjection(entry, claim) ==
    IF entry.declared THEN SnapshotAt(entry.script, claim) ELSE "pending"

handleResearchPoll(x, entry, resolves, claim) ==
    LET checked == Arrive(x) \cup checkAuth(x, AuthPolicy(entry, ""), {"authorization"})
        snapshot == selectResearchProjection(entry, claim)
    IN  IF Failed(entry.validation, checked) THEN errorResponse(entry.validation, checked)
        ELSE IF resolves # "resolved"
             THEN Answer(404, "error", checked \cup ResolveJob(resolves) \cup Warn("research.not_found"))
        ELSE IF snapshot = "miss"
             THEN Spent(errorResponse(entry.validation, checked \cup Fail("scenario.no_matching_turn")))
        ELSE Serve(HTTPStatus(snapshot), snapshot, checked)

\* Existence only: no turn, no claim.
handleResearchHead(x, entry, resolves) ==
    LET checked == Arrive(x) \cup checkAuth(x, AuthPolicy(entry, ""), {"authorization"})
    IN  IF Failed(entry.validation, checked) THEN errorResponse(entry.validation, checked)
        ELSE Answer(IF resolves = "resolved" THEN 200 ELSE 404, "head", checked \cup ResolveJob(resolves))

-----------------------------------------------------------------------------
(* /extract: a requested URL is in results or in failed_results *)

\* The overrides that name a requested URL; the last one of a URL has its reason.
extractFailureOverrides(urls, failures) ==
    {failures[i] : i \in {j \in DOMAIN failures : \E k \in DOMAIN urls : urls[k] = failures[j]}}

\* A projected result by URL or by declared id, else a source of the corpus.
resolveExtractTarget(url, results, corpus) ==
    url \in corpus \/ \E r \in results : r.url = url \/ (r.id # "" /\ r.id = url)

renderExtract(urls, failures, results, corpus) ==
    LET forced  == extractFailureOverrides(urls, failures)
        Fails(u) == u \in forced \/ ~ resolveExtractTarget(u, results, corpus)
    IN  [results |-> Kept(urls, {i \in DOMAIN urls : ~ Fails(urls[i])}),
         failed  |-> Kept(urls, {i \in DOMAIN urls : Fails(urls[i])})]
=============================================================================
