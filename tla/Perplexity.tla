----------------------------- MODULE Perplexity -----------------------------
(***************************************************************************)
(* The Perplexity profile: what the Sonar and Agent surfaces check of a    *)
(* request, the status a refusal takes, what each handler does in which    *)
(* order, and the events an Agent stream plays.  Models                    *)
(* profiles/perplexity (handler.go, request.go, agent.go, background.go).  *)
(***************************************************************************)
EXTENDS Exchange

-----------------------------------------------------------------------------
(* Request checks shared by the two surfaces *)

bearerOnly == {"authorization"}

checkContentType(x) == When(x.body # "empty" /\ ~ x.json, Warn("request.content_type"))

\* The walk warns of every credential before the accepted one.
checkAuth(x, policy, routeCredentials) ==
    LET allowed == AcceptedPlacements(policy, routeCredentials, bearerOnly)
        hit     == Accepted(x, allowed)
        misplaced == {i \in 1..Len(x.creds) : hit = 0 \/ i < hit}
    IN  IF policy.mode = "reject" THEN Fail("auth.rejected")
        ELSE When(misplaced # {}, Warn("auth.wrong_placement")) \cup
             (IF hit = 0 THEN When(policy.mode # "optional", Fail("auth.missing"))
              ELSE When(policy.expect /\ ~ x.creds[hit].good, Fail("auth.mismatch")))

bodyUnusable(x) == x.body \in {"malformed", "array", "too_large", "unread"}

checkUnknownFields(x, known) ==
    When(x.body = "object" /\ DOMAIN x.f \ known # {}, Warn("request.unknown_field"))

\* A present value outside the range, or of another type.
validateNumericRange(x, key) == When(Bad(x, key), FailAt(key))

\* stream_mode: an explicit null is no member.
validateEnum(x, key) == When(Has(x, key) /\ x.f[key] \in {"bad", "null"}, FailAt(key))

\* search_mode, reasoning_effort, search_recency_filter: null is absence.
validateNullableEnum(x, key) == When(Bad(x, key), FailAt(key))

-----------------------------------------------------------------------------
(* Sonar requests *)

sonarFields == {"model", "messages", "temperature", "top_p", "max_tokens", "search_mode",
                "reasoning_effort", "search_recency_filter", "stream_mode", "stream"}

validateModel(x) == When(~ Has(x, "model"), FailAt("model.missing"))
                        \cup When(Bad(x, "model"), FailAt("model.invalid"))
                        \cup When(Is(x, "model", "removed"), FailAt("model.removed"))

\* "bad": no array; "empty": no element; "item": an element of the wrong shape.
validateMessages(x) ==
    When(~ Has(x, "messages"), FailAt("messages.missing"))
        \cup When(Has(x, "messages") /\ x.f["messages"] \in {"bad", "empty", "item"},
                  FailAt("messages.invalid"))

validateMaxTokens(x) == When(Bad(x, "max_tokens"), FailAt("max_tokens"))

wantsStream(x) == Is(x, "stream", "true")

validateSonarRequest(x, policy) ==
    IF bodyUnusable(x) THEN {}
    ELSE checkUnknownFields(x, sonarFields) \cup validateModel(x) \cup validateMessages(x)
         \cup validateNumericRange(x, "temperature") \cup validateNumericRange(x, "top_p")
         \cup validateMaxTokens(x)
         \cup validateNullableEnum(x, "search_mode") \cup validateNullableEnum(x, "reasoning_effort")
         \cup validateNullableEnum(x, "search_recency_filter") \cup validateEnum(x, "stream_mode")
         \cup When(wantsStream(x) /\ policy # "stream", Warn("stream.unimplemented"))

-----------------------------------------------------------------------------
(* Agent requests *)

agentFields == {"input", "model", "models", "preset", "profile", "max_output_tokens", "max_steps",
                "temperature", "top_p", "store", "background", "stream"}

\* The items of an input array: "item" is one of the wrong shape or type.
validateInputItems(x) == When(Is(x, "input", "item"), FailAt("input.item"))

\* profile: "id" when valid; it cannot be combined with preset.
validateAgentProfile(x) ==
    When(Has(x, "profile") /\ (Bad(x, "profile") \/ Has(x, "preset")), FailAt("profile.invalid"))

profileOK(x) == validateAgentProfile(x) = {}

\* optionalString: "" selects nothing, another type is an error.
optionalString(x, key) == IF Has(x, key) /\ x.f[key] # "bad" THEN x.f[key] ELSE ""

\* models, by class: "chain" and "anthropic" hold a non-empty entry (the second
\* one of anthropic/*), "blank" only empty strings, "many" exceeds the cap.
validateModelChain(x) ==
    When(Has(x, "models") /\ x.f["models"] \in {"bad", "none"}, FailAt("models.invalid"))
        \cup When(Is(x, "models", "many"), FailAt("models.too_many"))

Chain(x) == IF Has(x, "models") /\ x.f["models"] \in {"chain", "anthropic", "many"}
            THEN x.f["models"] ELSE ""

\* Mutant of EchoedModel: an empty entry of models still takes precedence.
BugEchoedModel(x) ==
    IF Is(x, "models", "blank") THEN ""
    ELSE IF Chain(x) # "" THEN Chain(x)
    ELSE IF optionalString(x, "model") # "" THEN optionalString(x, "model")
    ELSE IF optionalString(x, "preset") # "" THEN "preset"
    ELSE IF Has(x, "profile") /\ profileOK(x) THEN "profile"
    ELSE ""

\* The model to echo: the chain's first, else model, preset, profile.
EchoedModel(x) ==
    IF Chain(x) # "" THEN Chain(x)
    ELSE IF optionalString(x, "model") # "" THEN optionalString(x, "model")
    ELSE IF optionalString(x, "preset") # "" THEN "preset"
    ELSE IF Has(x, "profile") /\ profileOK(x) THEN "profile"
    ELSE ""

\* A request naming none of the four, each of them well formed, is refused.
validateAgentModel(x) ==
    LET selected == \/ optionalString(x, "model") # "" \/ optionalString(x, "preset") # ""
                    \/ Chain(x) # "" \/ (Has(x, "profile") /\ profileOK(x))
        wellFormed == /\ ~ Bad(x, "model") /\ ~ Bad(x, "preset") /\ profileOK(x)
                      /\ ~ (Has(x, "models") /\ x.f["models"] \in {"bad", "none"})
    IN  When(Bad(x, "model") \/ Bad(x, "preset"), FailAt("model.invalid"))
            \cup validateModelChain(x)
            \cup When(optionalString(x, "model") = "bare", Warn("model.format"))
            \cup When(~ selected /\ wellFormed, FailAt("model.required"))

\* The models the request may run on: the chain's, else the single one.
requireMaxOutputTokensForAnthropic(x) ==
    When(/\ ~ Has(x, "max_output_tokens")
         /\ "anthropic" = (IF Chain(x) # "" THEN Chain(x) ELSE optionalString(x, "model")),
         FailAt("max_output_tokens.required"))

wantsBackground(x) == Is(x, "background", "true")

validateAgentRequest(x, policy) ==
    IF bodyUnusable(x) THEN {}
    ELSE checkUnknownFields(x, agentFields)
         \cup When(~ Has(x, "input"), FailAt("input.missing"))
         \cup When(Bad(x, "input"), FailAt("input.invalid")) \cup validateInputItems(x)
         \cup validateAgentProfile(x) \cup validateAgentModel(x)
         \cup requireMaxOutputTokensForAnthropic(x)
         \cup (UNION {validateNumericRange(x, key) : key \in {"temperature", "top_p", "max_steps",
                          "max_output_tokens", "store", "background", "stream"}})
         \cup (IF wantsStream(x) /\ wantsBackground(x) THEN FailAt("background.stream")
               ELSE When(wantsStream(x) /\ policy # "stream", Warn("stream.unimplemented")))

-----------------------------------------------------------------------------
(* Refusals *)

\* Authentication outranks the body's size, which outranks admission.
errorStatus(p, findings) ==
    LET codes == ErrorCodes(p, findings)
    IN  IF codes \cap {"auth.missing", "auth.mismatch", "auth.rejected"} # {} THEN 401
        ELSE IF "request.body_too_large" \in codes THEN 413
        ELSE IF "namespace.limit_exceeded" \in codes THEN 503
        ELSE 422

\* The Agent API documents no 422.
validationResponse(surface, p, findings) ==
    LET status == errorStatus(p, findings)
    IN  Answer(IF status = 422 /\ surface = "agent" THEN 400 ELSE status, "error", findings)

\* The policy is turn 0's; an undeclared entry warns.
streamPolicy(entry) == IF entry.declared THEN entry.stream ELSE "warn"

rejectStream(x, entry) == streamPolicy(entry) = "reject" /\ wantsStream(x)

-----------------------------------------------------------------------------
(* Handlers.  `claim` is the index the lane would hand out next. *)

handleSonar(x, entry, claim) ==
    LET p    == entry.validation
        auth == Arrive(x) \cup checkContentType(x)
                    \cup checkAuth(x, AuthPolicy(entry, ""), bearerOnly)
        checked == auth \cup validateSonarRequest(x, streamPolicy(entry))
        streams == wantsStream(x) /\ streamPolicy(entry) = "stream"
        late    == When(streams /\ Is(x, "stream_mode", "concise"), Warn("stream_mode.concise"))
    IN  IF rejectStream(x, entry)
        THEN validationResponse("sonar", p, auth \cup FailAt("stream.unimplemented"))
        ELSE IF Failed(p, checked) THEN validationResponse("sonar", p, checked)
        ELSE IF entry.declared /\ ~ Selects(entry, claim)
             THEN Spent(Answer(404, "error", checked \cup Fail("scenario.no_matching_turn")))
        ELSE [Serve(200, IF streams THEN "sonar.stream" ELSE "sonar.ok", checked \cup late)
                 EXCEPT !.streams = streams]

\* A create with background: true.  mint is what the job store would answer.
handleAgentBackground(x, entry, checked, mint) ==
    LET unstored == Is(x, "store", "false")
        warned   == checked \cup When(unstored, Warn("background.unstored"))
    IN  IF ~ (entry.declared /\ entry.background)
        THEN Answer(404, "error", checked \cup FailAt("background.unscripted"))
        ELSE IF unstored /\ Failed(entry.validation, warned)
             THEN validationResponse("agent", entry.validation, warned)
        ELSE IF unstored THEN Serve(200, "background.unstored", warned)
        ELSE IF mint = "limit" THEN Spent(Answer(503, "error", checked \cup Fail("job.limit_reached")))
        ELSE IF mint = "collision"
             THEN Spent(Answer(500, "error", checked \cup Fail("job.id_collision")))
        ELSE [Serve(200, "background.created", checked) EXCEPT !.job = "mint"]

handleAgent(x, entry, claim, mint) ==
    LET p    == entry.validation
        auth == Arrive(x) \cup checkContentType(x)
                    \cup checkAuth(x, AuthPolicy(entry, ""), bearerOnly)
        checked == auth \cup validateAgentRequest(x, streamPolicy(entry))
        streams == wantsStream(x) /\ streamPolicy(entry) = "stream"
    IN  IF rejectStream(x, entry)
        THEN validationResponse("agent", p, auth \cup FailAt("stream.unimplemented"))
        ELSE IF Failed(p, checked) THEN validationResponse("agent", p, checked)
        ELSE IF wantsBackground(x) THEN handleAgentBackground(x, entry, checked, mint)
        ELSE IF entry.declared /\ ~ Selects(entry, claim)
             THEN Spent(Answer(404, "error", checked \cup Fail("scenario.no_matching_turn")))
        ELSE [Serve(200, IF streams THEN "agent.stream" ELSE "agent.ok", checked)
                 EXCEPT !.streams = streams]

\* snapshot is the status of the turn SelectPollTurn selects, or "miss".
handleAgentRetrieve(x, entry, resolves, snapshot) ==
    LET checked == Arrive(x) \cup checkAuth(x, AuthPolicy(entry, ""), bearerOnly)
    IN  IF x.method = "HEAD" THEN Answer(405, "error", Arrive(x) \cup Fail("method_not_allowed"))
        ELSE IF Failed(entry.validation, checked)
             THEN validationResponse("agent", entry.validation, checked)
        ELSE IF resolves # "resolved" THEN Answer(404, "error", checked \cup ResolveJob(resolves))
        ELSE IF snapshot = "miss"
             THEN [Spent(Answer(404, "error", checked \cup Fail("scenario.no_matching_turn")))
                      EXCEPT !.job = "poll"]
        ELSE [Serve(200, snapshot, checked) EXCEPT !.job = "poll"]

\* outcome is CancelJob's; next is the status the run's next retrieve serves.
handleAgentCancel(x, entry, resolves, outcome, next) ==
    LET checked == Arrive(x) \cup checkAuth(x, AuthPolicy(entry, ""), bearerOnly)
        Acknowledge(label) == [Serve(200, label, checked) EXCEPT !.job = "cancel"]
    IN  IF Failed(entry.validation, checked)
        THEN validationResponse("agent", entry.validation, checked)
        ELSE IF resolves # "resolved" THEN Answer(404, "error", checked \cup ResolveJob(resolves))
        ELSE IF outcome = "failed"
             THEN Spent(Answer(500, "error", checked \cup Fail("job.cancel_unscripted")))
        ELSE IF outcome = "recorded" THEN Acknowledge("cancel.accepted")
        ELSE IF outcome = "uncommitted" THEN Serve(200, "cancel.unrecorded", checked)
        ELSE IF outcome = "terminal" \/ next = "terminal" THEN Serve(400, "cancel.terminal", checked)
        ELSE Serve(200, "cancel.repeated", checked)

-----------------------------------------------------------------------------
(* Streams: what a turn of a status and n deltas plays *)

statuses == {"", "completed", "failed", "incomplete", "cancelled", "queued", "in_progress", "other"}

effectiveStatus(status) == IF status = "" THEN "completed" ELSE status

\* renderAgentOutput: a failed or cancelled turn has no message item.
renderAgentOutput(status, searched) ==
    (IF searched THEN <<"search_results">> ELSE <<>>)
        \o (IF status \in {"failed", "cancelled"} THEN <<>> ELSE <<"message">>)

\* renderSonarStream: a frame per delta, then the terminal one; the [DONE]
\* sentinel that may follow is no chunk.
renderSonarStream(deltas) == [i \in 1..deltas |-> "delta"] \o <<"terminal">>

renderAgentStream(status, deltas, searched) ==
    LET s == effectiveStatus(status)
        output == renderAgentOutput(s, searched)
        message == \E i \in 1..Len(output) : output[i] = "message"
    IN  <<"created">> \o
        (IF s = "failed" THEN <<"failed">>
         ELSE (IF message THEN <<"item_added">> \o [i \in 1..deltas |-> "delta"]
                                   \o <<"text_done", "item_done">> ELSE <<>>)
              \o <<"completed">>)

\* Mutant of agentChunkCount: the envelope formula for every status.
BugAgentChunkCount(deltas, status) == deltas + 5

\* What load takes the stream's length to be.
agentChunkCount(deltas, status) == IF status \in {"failed", "cancelled"} THEN 2 ELSE deltas + 5

\* validateAgentProjection's errors.
validateAgentProjection(p) ==
    When(p.status = "other", Fail("status.invalid"))
        \cup When(p.status = "failed" /\ ~ p.error, Fail("error.missing"))
        \cup When(p.source = "bad", Fail("source_type.invalid"))
        \cup When(p.first < 0 \/ p.last <= p.first \/ p.last > p.answer, Fail("annotation.range"))
=============================================================================
