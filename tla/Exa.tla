-------------------------------- MODULE Exa --------------------------------
(***************************************************************************)
(* The Exa profile: the checks and handlers of /search, /answer,           *)
(* /contents, /findSimilar and the agent-run routes, the status the first  *)
(* error finding gives a refusal, and how /contents resolves identifiers.  *)
(* Models profiles/exa (handler.go, request.go, errors.go, contents*.go,   *)
(* findsimilar*.go, agentrun_handler.go, agenterror.go).                   *)
(***************************************************************************)
EXTENDS Exchange, Ordered

authHeaders == {"authorization", "x-api-key"}

\* A mismatch is recorded at the header that carried it; a credential in a
\* placement not accepted is warned of only when none was accepted.
authenticate(x, policy, routeCredentials) ==
    LET hit == Accepted(x, AcceptedPlacements(policy, routeCredentials, authHeaders))
    IN  IF policy.mode = "reject" THEN Fail("auth.mismatch")
        ELSE IF hit = 0
             THEN {Finding("warning", "auth.wrong_placement", HeaderRank(x.creds[i].at)) :
                       i \in 1..Len(x.creds)}
                      \cup When(policy.mode # "optional", Fail("auth.missing"))
        ELSE When(policy.expect /\ ~ x.creds[hit].good,
                  {Finding("error", "auth.mismatch", HeaderRank(x.creds[hit].at))})

validateContentType(x) == When(~ x.json, {Finding("warning", "request.content_type", 0)})

validateQuery(x) == When(~ Has(x, "query") \/ Bad(x, "query"), FailAt("query.missing"))
                        \cup When(Is(x, "query", "blank"), FailAt("query.empty"))

\* Optional properties, present and not of the documented type or range.
validateOptional(x, keys) == UNION {When(Bad(x, key), FailAt(key)) : key \in keys}

\* validateSearchType: the legacy value has a code of its own.
validateSearchType(x) == When(Bad(x, "type"), FailAt("type.invalid"))
                             \cup When(Is(x, "type", "neural"), FailAt("type.legacy_neural"))

validateOutputSchema(x) == When(Bad(x, "outputSchema"), FailAt("field_type"))
                               \cup When(Is(x, "outputSchema", "deep"), FailAt("output_schema"))

validateStream(x, policy) ==
    When(Bad(x, "stream"), FailAt("field_type")) \cup
    When(Is(x, "stream", "true"), IF policy = "reject" THEN FailAt("stream.unimplemented")
                                  ELSE Warn("stream.unimplemented"))

\* Accepted and flagged.
validateSearchDeprecations(x) == When(Has(x, "livecrawl") \/ Has(x, "context"), Warn("deprecated"))

\* The walk of contents: another type, or keys that are unknown or deprecated.
validateContents(x) == When(Bad(x, "contents"), FailAt("field_type"))
                           \cup When(Is(x, "contents", "odd"), Warn("request.unknown_field"))

searchFields == {"query", "type", "numResults", "category", "includeDomains", "outputSchema",
                 "stream", "livecrawl", "context", "contents"}

validateUnknownFields(x, known) == When(DOMAIN x.f \ known # {}, Warn("request.unknown_field"))

validateSearch(x, policy) ==
    validateContentType(x) \cup validateQuery(x) \cup validateSearchType(x)
        \cup validateOptional(x, {"numResults", "category", "includeDomains"})
        \cup validateOutputSchema(x) \cup validateStream(x, policy)
        \cup validateSearchDeprecations(x) \cup validateContents(x)
        \cup validateUnknownFields(x, searchFields)

\* text is a plain boolean here.
validateAnswer(x, policy) ==
    validateContentType(x) \cup validateQuery(x) \cup validateOptional(x, {"text"})
        \cup validateOutputSchema(x) \cup validateStream(x, policy)
        \cup validateUnknownFields(x, {"query", "text", "outputSchema", "stream"})

\* ids and urls, by class: "bad" is no array, "range" too few or too many
\* items, "item" an element that is no string; null is absence.
validateContentsTarget(x) ==
    LET sent == {key \in {"ids", "urls"} : Has(x, key) /\ x.f[key] # "null"}
    IN  (UNION {When(x.f[key] = "bad", FailAt("field_type"))
                    \cup When(x.f[key] = "range", FailAt("contents.items_range"))
                    \cup When(x.f[key] = "item", FailAt("contents.item_invalid")) : key \in sent})
            \cup When(sent = {}, Fail("contents.target_missing"))
            \cup When(Cardinality(sent) = 2, {Finding("warning", "contents.ids_and_urls", 0)})

\* Numbers with a range, and the closed compliance enum.
validateContentsBounds(x) == validateOptional(x, {"compliance", "extras", "livecrawlTimeout", "subpages"})

\* text and highlights: a boolean or an object whose members are checked.
validateContentsTextOption(x) ==
    validateOptional(x, {"text", "highlights"}) \cup When(Is(x, "highlights", "odd"), Warn("deprecated"))

\* summary, maxAgeHours, subpageTarget; livecrawl and context are deprecated too.
validateContentsOptions(x) ==
    validateOptional(x, {"summary", "maxAgeHours", "livecrawl", "subpageTarget", "context"})
        \cup When(\E key \in {"livecrawl", "context"} : Is(x, key, "ok"), Warn("deprecated"))

contentsEndpointFields == {"ids", "urls", "compliance", "extras", "livecrawlTimeout", "subpages", "text",
                           "highlights", "summary", "maxAgeHours", "livecrawl", "subpageTarget", "context"}

validateContentsRequest(x) ==
    validateContentType(x) \cup validateContentsTarget(x) \cup validateContentsBounds(x)
        \cup validateContentsTextOption(x) \cup validateContentsOptions(x)
        \cup validateUnknownFields(x, contentsEndpointFields)

validateFindSimilarURL(x) == When(~ Has(x, "url") \/ Bad(x, "url"), FailAt("url.missing"))
                                 \cup When(Is(x, "url", "short"), FailAt("url.length"))

\* The optional properties of /findSimilar: null is absence, dates are flagged.
validateFindSimilarOptions(x) ==
    validateOptional(x, {"numResults", "includeDomains", "endPublishedDate", "contents", "category",
                         "excludeSourceDomain"})
        \cup When(Is(x, "startCrawlDate", "ok"), Warn("deprecated"))

validateFindSimilarRequest(x) ==
    validateContentType(x) \cup validateFindSimilarURL(x) \cup validateFindSimilarOptions(x)
        \cup validateUnknownFields(x, {"url", "numResults", "includeDomains", "endPublishedDate",
                                       "contents", "category", "excludeSourceDomain", "startCrawlDate"})

validateEffort(x) == When(Bad(x, "effort"), FailAt("effort.invalid"))

\* An out-of-range limit is an error only where it applies; effort defaults to
\* auto.  budget, by class: "bad", or which of the two limits is out of range.
validateBudget(x) ==
    LET effort == IF Has(x, "effort") THEN x.f["effort"] ELSE "auto"
        budgetRange(applies, code) == IF applies THEN FailAt(code) ELSE Warn(code)
    IN  When(Bad(x, "budget"), FailAt("field_type"))
            \cup When(Is(x, "budget", "duration"), budgetRange(effort = "ultra", "budget.duration"))
            \cup When(Is(x, "budget", "cost"), budgetRange(effort \in {"auto", "ultra"}, "budget.cost"))

validateAgentRunCreate(x) ==
    validateContentType(x) \cup validateQuery(x) \cup validateEffort(x) \cup validateBudget(x)

-----------------------------------------------------------------------------
(* Refusals *)

\* classifyCode: every code not named is a 400.
classifyCode(code) ==
    IF code \in {"auth.missing", "auth.mismatch"} THEN 401
    ELSE IF code = "scenario.no_matching_turn" THEN 404
    ELSE IF code = "request.body_too_large" THEN 413
    ELSE IF code \in {"job.id_invalid", "exa.projection.invalid", "job.cancel_unscripted",
                      "job.id_collision"} THEN 500
    ELSE IF code \in {"namespace.limit_exceeded", "job.limit_reached"} THEN 503
    ELSE 400

\* The first error in the findings' total order decides; a refusal whose only
\* error was demoted is a 400.
classify(p, findings) ==
    LET errors == Errors(p, findings)
    IN  IF errors = {} THEN 400
        ELSE classifyCode((CHOOSE f \in errors : \A g \in errors : ~ Before(g, f)).code)

rejection(p, findings) == Answer(classify(p, findings), "error", findings)

-----------------------------------------------------------------------------
(* Handlers *)

streamPolicy(entry) == IF entry.declared /\ entry.stream = "reject" THEN "reject" ELSE "warn"

\* selectProjection after the checks: an undeclared entry is an empty success
\* and claims only through Handle.
Project(entry, claim, checked, label) ==
    IF ~ entry.declared THEN Serve(200, label, checked)
    ELSE IF Selects(entry, claim) THEN Serve(200, label, checked)
    ELSE Spent(rejection(entry.validation, checked \cup Fail("scenario.no_matching_turn")))

Authenticated(x, entry) == Arrive(x) \cup authenticate(x, AuthPolicy(entry, ""), authHeaders)

handleSearch(x, entry, claim) ==
    LET checked == Authenticated(x, entry) \cup validateSearch(x, streamPolicy(entry))
    IN  IF Failed(entry.validation, checked) THEN rejection(entry.validation, checked)
        ELSE Project(entry, claim, checked, "exa.search.ok")

handleAnswer(x, entry, claim) ==
    LET checked == Authenticated(x, entry) \cup validateAnswer(x, streamPolicy(entry))
    IN  IF Failed(entry.validation, checked) THEN rejection(entry.validation, checked)
        ELSE Project(entry, claim, checked, "exa.answer.ok")

handleFindSimilar(x, entry, claim) ==
    LET checked == Authenticated(x, entry) \cup validateFindSimilarRequest(x)
    IN  IF Failed(entry.validation, checked) THEN rejection(entry.validation, checked)
        ELSE Project(entry, claim, checked, "exa.find_similar.ok")

\* x.found: some identifier resolves; x.stray: an override names an identifier
\* that was not requested.  Both are found out after the claim, as warnings.
handleContents(x, entry, claim) ==
    LET checked == Authenticated(x, entry) \cup validateContentsRequest(x)
        served  == Project(entry, claim, checked, "exa.contents.ok")
    IN  IF Failed(entry.validation, checked) THEN rejection(entry.validation, checked)
        ELSE IF ~ served.eligible THEN served
        ELSE IF ~ x.found
             THEN Serve(400, "exa.no_content_found", checked \cup Warn("contents.no_content_found"))
        ELSE [served EXCEPT !.findings = @ \cup When(x.stray, Warn("contents.status_unrequested"))]

\* Everything that can refuse runs before MintJob's claim.
handleAgentRunCreate(x, entry, mint) ==
    LET checked == Authenticated(x, entry) \cup validateAgentRunCreate(x)
    IN  IF Failed(entry.validation, checked) THEN rejection(entry.validation, checked)
        ELSE IF ~ entry.declared
             THEN rejection(entry.validation, checked \cup Fail("scenario.no_matching_turn"))
        ELSE IF mint = "ok" THEN [Serve(200, "created", checked) EXCEPT !.job = "mint"]
        ELSE Spent(rejection(entry.validation, checked \cup
                 Fail(IF mint = "limit" THEN "job.limit_reached" ELSE "job.id_collision")))

runNotFound(findings) == Answer(404, "error", findings \cup Warn("exa.agent_run.not_found"))

handleAgentRunPoll(x, entry, resolves, snapshot) ==
    LET checked == Authenticated(x, entry)
    IN  IF Failed(entry.validation, checked) THEN rejection(entry.validation, checked)
        ELSE IF resolves # "resolved" THEN runNotFound(checked \cup ResolveJob(resolves))
        ELSE IF snapshot = "miss"
             THEN [Spent(rejection(entry.validation, checked \cup Fail("scenario.no_matching_turn")))
                      EXCEPT !.job = "poll"]
        ELSE [Serve(200, snapshot, checked) EXCEPT !.job = "poll"]

\* A cancel that has a snapshot answers with it, labelled by the outcome.
handleAgentRunCancel(x, entry, resolves, outcome) ==
    LET checked == Authenticated(x, entry)
        label   == [recorded |-> "cancel.accepted", uncommitted |-> "cancel.unrecorded",
                    terminal |-> "cancel.terminal", already |-> "cancel.repeated"]
    IN  IF Failed(entry.validation, checked) THEN rejection(entry.validation, checked)
        ELSE IF resolves # "resolved" THEN runNotFound(checked \cup ResolveJob(resolves))
        ELSE IF outcome = "failed"
             THEN Spent(rejection(entry.validation, checked \cup Fail("job.cancel_unscripted")))
        ELSE [Serve(200, label[outcome], checked)
                 EXCEPT !.job = IF outcome = "recorded" THEN "cancel" ELSE "none"]

\* Existence only: nothing is claimed and no turn selected.
handleAgentRunHead(x, entry, resolves) ==
    LET checked == Authenticated(x, entry)
    IN  IF Failed(entry.validation, checked) THEN rejection(entry.validation, checked)
        ELSE Answer(IF resolves = "resolved" THEN 200 ELSE 404, "head",
                    checked \cup ResolveJob(resolves))

-----------------------------------------------------------------------------
(* /contents: one status per requested identifier *)

\* An identifier is a result of the turn, a source of the corpus, or unknown.
resolveOneContentsIdentifier(id, index, corpus) ==
    IF id \in index \cup corpus THEN [id |-> id, result |-> TRUE, status |-> "success", tag |-> FALSE]
    ELSE [id |-> id, result |-> FALSE, status |-> "error", tag |-> TRUE]

\* An override that names no status leaves the one there is.
overrideStatus(r, o) == IF o.status # "" THEN o.status ELSE r.status

\* Mutant of applyOneContentsOverride: the result outlives an error status.
BugApplyOneContentsOverride(r, o) ==
    LET status == overrideStatus(r, o)
    IN  [r EXCEPT !.status = status, !.tag = r.tag \/ status # "success"]

\* An override that leaves the identifier failed drops its result and gives it
\* an error tag.
applyOneContentsOverride(r, o) ==
    LET status == overrideStatus(r, o)
    IN  [id |-> r.id, result |-> r.result /\ status = "success", status |-> status,
         tag |-> r.tag \/ status # "success"]

\* A resolution after each of a list of overrides, in scenario order.
overridden(resolution, mine) ==
    LET step[k \in 0..Len(mine)] ==
            IF k = 0 THEN resolution ELSE applyOneContentsOverride(step[k - 1], mine[k])
    IN  step

\* The overrides of an identifier, on every request position that has it.
applyContentsOverrides(resolutions, overrides) ==
    [i \in DOMAIN resolutions |->
        LET mine == Kept(overrides, {k \in DOMAIN overrides : overrides[k].id = resolutions[i].id})
        IN  overridden(resolutions[i], mine)[Len(mine)]]

\* The whole of a 200: resolution, then overrides; "none" is NO_CONTENT_FOUND,
\* judged before the overrides.
renderContentsBody(ids, index, corpus, overrides) ==
    LET resolutions == [i \in DOMAIN ids |-> resolveOneContentsIdentifier(ids[i], index, corpus)]
    IN  IF ids # <<>> /\ \A i \in DOMAIN ids : ~ resolutions[i].result THEN <<>>
        ELSE applyContentsOverrides(resolutions, overrides)
=============================================================================
