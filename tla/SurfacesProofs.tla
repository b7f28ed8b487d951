--------------------------- MODULE SurfacesProofs ---------------------------
(***************************************************************************)
(* Proofs about the four profiles' routes, for every request (any body,    *)
(* any properties, any credentials), every entry and validation policy,    *)
(* and every history of claims, jobs and resets.                           *)
(***************************************************************************)
EXTENDS Surfaces, OperatorLemmas

-----------------------------------------------------------------------------
(* What a handler promises of its answer *)

\* A reply, and the parts of it that a contract is about.
ReplyFields == {"status", "label", "findings", "eligible", "claims", "streams", "job"}

Gives(r, status, label, findings, job) ==
    /\ DOMAIN r = ReplyFields
    /\ r.status = status /\ r.label = label /\ r.findings = findings /\ r.job = job

\* Handle's own finding: the attempt a request had claimed was not applied.
StripCode == "fault.attempt_on_rejection"

\* Codes only found after the claim, or by Handle itself.
LateCodes == {"scenario.no_matching_turn", "job.limit_reached", "job.id_collision",
              "job.cancel_unscripted", StripCode}

\* What the checks before a claim find.
Sound(findings) == \A f \in findings : f.field \in 0..3 /\ f.code \notin LateCodes

\* What says nothing about the credentials or the namespace either.
Plain(findings) ==
    \A f \in findings : f.field \in 0..3
        /\ f.code \notin LateCodes \cup {"auth.missing", "auth.mismatch", "auth.rejected",
                                         "namespace.limit_exceeded"}

\* What an answer may add to its findings once the checks have passed.
Late(findings) ==
    \A f \in findings : f.field \in 0..3
        /\ f.code \notin {"auth.missing", "auth.mismatch", "auth.rejected",
                          "namespace.limit_exceeded", StripCode}

\* The status of an answer follows from the errors among its findings.
StatusOK(s, p, status, findings) ==
    LET errs == ErrorCodes(p, findings)
    IN  /\ (IF s \in ExaSurfaces THEN "auth.missing" \in errs ELSE errs \cap AuthCodes # {}) => status = 401
        /\ status = 401 => errs \cap AuthCodes # {}
        /\ errs = {"namespace.limit_exceeded"} => status = 503

\* The answer is a reply whose own findings do not claim that an attempt was
\* stripped, and a refusal that names nothing late took nothing.
Blameless(r) ==
    /\ DOMAIN r = ReplyFields /\ r.eligible \in BOOLEAN /\ r.claims \in BOOLEAN
    /\ \A f \in r.findings : f.code # StripCode
    /\ r.label = "error" /\ ~ HasFinding(r.findings, AfterClaim)
           => ~ r.claims /\ ~ r.eligible /\ r.job = "none"

\* An answer to which no attempt and no job belongs.
Untaken(r) == ~ r.eligible /\ ~ r.claims /\ r.job = "none"

Explains(s, e, r) == s # "mcp" /\ r.status # 405 => StatusOK(s, e.validation, r.status, r.findings)

\* Only the entry's own policy decides what is refused before the claim.
Heeds(e, r) ==
    (\A f \in r.findings : f.code \in e.validation.demote) /\ ~ HasFinding(r.findings, AfterClaim)
        => r.label # "error"

-----------------------------------------------------------------------------
(* Replies and findings *)

\* Findings fail a request exactly when one is an error under its policy.
LEMMA Failing ==
    ASSUME NEW p, NEW F
    PROVE  Failed(p, F) <=> ErrorCodes(p, F) # {}
BY DEF Failed, ErrorCodes, Errors

\* Findings every one of which is demoted fail nothing.
LEMMA DemotedPasses ==
    ASSUME NEW p, NEW F, \A f \in F : f.code \in p.demote
    PROVE  ~ Failed(p, F)
BY DEF Failed, effectiveSeverity

\* What is found once the checks have passed leaves only the late errors.
LEMMA LateErrors ==
    ASSUME NEW p, NEW F, NEW L, ~ Failed(p, F), Late(L)
    PROVE  \A c \in ErrorCodes(p, F \cup L) :
               c \notin AuthCodes /\ c # "namespace.limit_exceeded"
BY DEF Failed, ErrorCodes, Errors, Late, AuthCodes

\* Once the checks have passed, what an answer adds late calls for no status of its own.
LEMMA PassedStatus ==
    ASSUME NEW s, NEW p, NEW F, NEW L, ~ Failed(p, F), Late(L), NEW st, st # 401
    PROVE  StatusOK(s, p, st, F \cup L)
<1>1. \A c \in ErrorCodes(p, F \cup L) : c \notin AuthCodes /\ c # "namespace.limit_exceeded"
  BY LateErrors
<1> QED
  BY <1>1 DEF StatusOK, AuthCodes

\* Two checks that say nothing about credentials say nothing together.
LEMMA PlainUnion == \A F, G : Plain(F) /\ Plain(G) => Plain(F \cup G)
BY DEF Plain

\* Two checks before the claim are together one.
LEMMA SoundUnion == \A F, G : Sound(F) /\ Sound(G) => Sound(F \cup G)
BY DEF Sound

\* A plain finding may come before the claim or after it.
LEMMA PlainIsLate ==
    ASSUME NEW F, Plain(F)
    PROVE  Sound(F) /\ Late(F)
BY DEF Plain, Sound, Late, LateCodes

-----------------------------------------------------------------------------
(* The three ways to answer *)

\* A refusal of what the checks found.
LEMMA Refuses ==
    ASSUME NEW s, NEW e, NEW st, NEW F, Sound(F),
           StatusOK(s, e.validation, st, F), NEW r, Gives(r, st, "error", F, "none"),
           r.eligible = FALSE, r.claims = FALSE
    PROVE  Blameless(r) /\ Explains(s, e, r) /\ (Failed(e.validation, F) => Heeds(e, r)) /\ Untaken(r)
<1>1. DOMAIN r = ReplyFields /\ r.status = st /\ r.label = "error" /\ r.findings = F /\ r.job = "none"
  BY DEF Gives
<1>2. Blameless(r)
  BY <1>1 DEF Blameless, Sound, LateCodes
<1>3. Explains(s, e, r)
  BY <1>1 DEF Explains
<1>4. Failed(e.validation, F) => Heeds(e, r)
  BY <1>1, DemotedPasses DEF Heeds
<1> QED
  BY <1>1, <1>2, <1>3, <1>4 DEF Untaken

\* A refusal whose reason was found once the checks had passed.
LEMMA ComesTooLate ==
    ASSUME NEW s, NEW e, NEW st, st # 401, NEW F, Sound(F), ~ Failed(e.validation, F),
           NEW L, Late(L), HasFinding(L, AfterClaim), NEW j,
           NEW r, Gives(r, st, "error", F \cup L, j), r.eligible = FALSE, r.claims \in BOOLEAN
    PROVE  Blameless(r) /\ Explains(s, e, r) /\ Heeds(e, r)
<1>1. DOMAIN r = ReplyFields /\ r.status = st /\ r.findings = F \cup L
  BY DEF Gives
<1>2. HasFinding(r.findings, AfterClaim)
  BY <1>1 DEF HasFinding
<1>3. Blameless(r)
  BY <1>1, <1>2 DEF Blameless, Sound, Late, LateCodes
<1>4. Explains(s, e, r)
  <2>1. StatusOK(s, e.validation, st, F \cup L)
    BY PassedStatus
  <2> QED
    BY <1>1, <2>1 DEF Explains
<1>5. Heeds(e, r)
  BY <1>2 DEF Heeds
<1> QED
  BY <1>3, <1>4, <1>5

\* An answer that is no refusal.
LEMMA Serves ==
    ASSUME NEW s, NEW e, NEW st, st # 401, NEW F, Sound(F), ~ Failed(e.validation, F),
           NEW L, Late(L), NEW l, l # "error", NEW j,
           NEW r, Gives(r, st, l, F \cup L, j), r.eligible \in BOOLEAN, r.claims \in BOOLEAN
    PROVE  Blameless(r) /\ Explains(s, e, r) /\ Heeds(e, r)
<1>1. DOMAIN r = ReplyFields /\ r.status = st /\ r.findings = F \cup L /\ r.label = l
  BY DEF Gives
<1>2. Blameless(r)
  BY <1>1 DEF Blameless, Sound, Late, LateCodes
<1>3. Explains(s, e, r)
  <2>1. StatusOK(s, e.validation, st, F \cup L)
    BY PassedStatus
  <2> QED
    BY <1>1, <2>1 DEF Explains
<1> QED
  BY <1>1, <1>2, <1>3 DEF Heeds

\* A request that passed its checks and is not refused keeps the contract.
LEMMA ServesChecked ==
    ASSUME NEW s, NEW e, NEW st, st # 401, NEW F, Sound(F), ~ Failed(e.validation, F),
           NEW l, l # "error", NEW j,
           NEW r, Gives(r, st, l, F, j), r.eligible \in BOOLEAN, r.claims \in BOOLEAN
    PROVE  Blameless(r) /\ Explains(s, e, r) /\ Heeds(e, r)
<1>1. Late({}) /\ F \cup {} = F
  BY DEF Late
<1>2. Gives(r, st, l, F \cup {}, j)
  BY <1>1
<1> QED
  BY <1>1, <1>2, Serves

\* A refusal the checks did not ask for and that took nothing.
LEMMA TurnsAway ==
    ASSUME NEW s, NEW e, NEW st, st # 401, NEW F, Sound(F), ~ Failed(e.validation, F),
           NEW L, Late(L), NEW r, r = Answer(st, "error", F \cup L)
    PROVE  Blameless(r) /\ Explains(s, e, r) /\ Untaken(r)
<1> DEFINE G == F \cup L
<1> HIDE DEF G
<1>1. /\ DOMAIN r = ReplyFields /\ r.status = st /\ r.findings = G /\ r.job = "none"
      /\ r.eligible = FALSE /\ r.claims = FALSE
  BY DEF Answer, ReplyFields, G
<1>2. Blameless(r)
  BY <1>1 DEF Blameless, Sound, Late, LateCodes, G
<1>3. Explains(s, e, r)
  <2>1. StatusOK(s, e.validation, st, F \cup L)
    BY PassedStatus
  <2> QED
    BY <1>1, <2>1 DEF Explains, G
<1> QED
  BY <1>1, <1>2, <1>3 DEF Untaken

\* Where the findings the handlers make belong, by their code.
LEMMA LateFindings ==
    /\ \A code : code \notin LateCodes => Sound(Fail(code)) /\ Sound(FailAt(code)) /\ Sound(Warn(code))
    /\ \A code : code \notin AuthCodes \cup {"namespace.limit_exceeded", StripCode}
                    => Late(Fail(code)) /\ Late(FailAt(code)) /\ Late(Warn(code))
    /\ \A code : code \in AfterClaim => HasFinding(Fail(code), AfterClaim)
    /\ Late({})
BY DEF Fail, FailAt, Warn, Finding, Sound, Late, HasFinding, AuthCodes

\* A refusal for want of a turn or a job, spent or not, keeps the contract.
LEMMA SpendsLate ==
    ASSUME NEW s, NEW e, NEW st, st # 401, NEW F, Sound(F), ~ Failed(e.validation, F),
           NEW code \in AfterClaim, NEW r,
           \/ r = Answer(st, "error", F \cup Fail(code))
           \/ r = Spent(Answer(st, "error", F \cup Fail(code)))
    PROVE  Blameless(r) /\ Explains(s, e, r) /\ Heeds(e, r) /\ r.job = "none"
<1>1. Late(Fail(code)) /\ HasFinding(Fail(code), AfterClaim)
  BY LateFindings DEF AuthCodes, StripCode, AfterClaim
<1> DEFINE G == F \cup Fail(code)
<1> HIDE DEF G
<1>2. Gives(r, st, "error", G, "none") /\ r.eligible = FALSE /\ r.claims \in BOOLEAN
  <2>1. CASE r = Spent(Answer(st, "error", G))
    <3>1. Gives(r, st, "error", G, "none") /\ r.eligible = FALSE /\ r.claims = TRUE
      BY <2>1 DEF Answer, Spent, Gives, ReplyFields
    <3> QED
      BY <3>1
  <2>2. CASE r = Answer(st, "error", G)
    <3>1. Gives(r, st, "error", G, "none") /\ r.eligible = FALSE /\ r.claims = FALSE
      BY <2>2 DEF Answer, Gives, ReplyFields
    <3> QED
      BY <3>1
  <2> QED
    BY <2>1, <2>2 DEF G
<1>3. Gives(r, st, "error", F \cup Fail(code), "none") /\ r.claims \in BOOLEAN
  BY <1>2 DEF G
<1>4. Blameless(r) /\ Explains(s, e, r) /\ Heeds(e, r)
  BY <1>1, <1>2, <1>3, ComesTooLate
<1>5. r.job = "none"
  BY <1>3 DEF Gives
<1> QED
  BY <1>4, <1>5

\* A poll whose turn is not found.
LatePoll(r, st, F, code) == r = [Spent(Answer(st, "error", F \cup Fail(code))) EXCEPT !.job = "poll"]

\* A poll that finds no turn keeps the contract, though it has advanced its job.
LEMMA PollsLate ==
    ASSUME NEW s, NEW e, NEW st, st # 401, NEW F, Sound(F), ~ Failed(e.validation, F),
           NEW code, code \in AfterClaim, NEW r, LatePoll(r, st, F, code)
    PROVE  Blameless(r) /\ Explains(s, e, r) /\ r.job = "poll"
<1>1. Late(Fail(code)) /\ HasFinding(Fail(code), AfterClaim)
  BY LateFindings DEF AuthCodes, StripCode, AfterClaim
<1> DEFINE G == F \cup Fail(code)
<1> HIDE DEF G
<1>2. Gives(r, st, "error", G, "poll") /\ r.eligible = FALSE /\ r.claims = TRUE
  BY DEF LatePoll, Answer, Spent, Gives, ReplyFields, G
<1>3. Gives(r, st, "error", F \cup Fail(code), "poll") /\ r.claims \in BOOLEAN
  BY <1>2 DEF G
<1>4. Blameless(r) /\ Explains(s, e, r)
  BY <1>1, <1>2, <1>3, ComesTooLate
<1>5. r.job = "poll"
  BY <1>3 DEF Gives
<1> QED
  BY <1>4, <1>5

\* A response, in the fault plan or outside it.
Replies(r, st, l, F, L) == r = Serve(st, l, F \cup L) \/ r = Answer(st, l, F \cup L)

\* An answer that adds late warnings, in the fault plan or outside it, keeps the contract.
LEMMA ServesPlain ==
    ASSUME NEW s, NEW e, NEW st, st # 401, NEW F, Sound(F), ~ Failed(e.validation, F),
           NEW L, Late(L), NEW l, l # "error",
           NEW r, Replies(r, st, l, F, L)
    PROVE  Blameless(r) /\ Explains(s, e, r) /\ Heeds(e, r) /\ r.job = "none"
<1> DEFINE G == F \cup L
<1> HIDE DEF G
<1>1. Gives(r, st, l, G, "none") /\ r.eligible \in BOOLEAN /\ r.claims \in BOOLEAN
  <2>1. CASE r = Serve(st, l, G)
    <3>1. Gives(r, st, l, G, "none") /\ r.eligible = TRUE /\ r.claims = TRUE
      BY <2>1 DEF Answer, Serve, Gives, ReplyFields
    <3> QED
      BY <3>1
  <2>2. CASE r = Answer(st, l, G)
    <3>1. Gives(r, st, l, G, "none") /\ r.eligible = FALSE /\ r.claims = FALSE
      BY <2>2 DEF Answer, Gives, ReplyFields
    <3> QED
      BY <3>1
  <2> QED
    BY <2>1, <2>2 DEF Replies, G
<1>2. Gives(r, st, l, F \cup L, "none") /\ r.eligible \in BOOLEAN /\ r.claims \in BOOLEAN
  BY <1>1 DEF G
<1>3. r.job = "none"
  BY <1>2 DEF Gives
<1> QED
  BY <1>2, <1>3, Serves

\* An answer of existence alone takes nothing.
LEMMA ShowsOnly ==
    ASSUME NEW s, NEW e, NEW st, st # 401, NEW F, Sound(F), ~ Failed(e.validation, F),
           NEW L, Late(L), NEW l, l # "error", NEW r, r = Answer(st, l, F \cup L)
    PROVE  Blameless(r) /\ Explains(s, e, r) /\ Untaken(r)
<1> DEFINE G == F \cup L
<1> HIDE DEF G
<1>1. Gives(r, st, l, G, "none") /\ r.eligible = FALSE /\ r.claims = FALSE
  BY DEF Answer, Gives, ReplyFields, G
<1>2. Gives(r, st, l, F \cup L, "none") /\ r.eligible \in BOOLEAN /\ r.claims \in BOOLEAN
  BY <1>1 DEF G
<1>3. Untaken(r)
  BY <1>1 DEF Gives, Untaken
<1> QED
  BY <1>2, <1>3, Serves

\* A response that touches a job.
ServedJob(r, st, l, F, j) == r = [Serve(st, l, F) EXCEPT !.job = j]

\* An answer that mints or touches a job keeps the contract.
LEMMA ServesJob ==
    ASSUME NEW s, NEW e, NEW st, st # 401, NEW F, Sound(F), ~ Failed(e.validation, F),
           NEW l, l # "error", NEW j, NEW r, ServedJob(r, st, l, F, j)
    PROVE  Blameless(r) /\ Explains(s, e, r) /\ Heeds(e, r) /\ r.job = j
<1>1. Gives(r, st, l, F, j) /\ r.eligible = TRUE /\ r.claims = TRUE
  BY DEF ServedJob, Answer, Serve, Gives, ReplyFields
<1>2. Late({}) /\ F \cup {} = F
  BY DEF Late
<1>3. Gives(r, st, l, F \cup {}, j) /\ r.eligible \in BOOLEAN /\ r.claims \in BOOLEAN
  BY <1>1, <1>2
<1>4. r.job = j
  BY <1>1 DEF Gives
<1> QED
  BY <1>2, <1>3, <1>4, Serves

\* What a request to a job's route promises: whatever it takes, it takes for a job
\* that resolved.
Handled(s, e, r, how) ==
    /\ Blameless(r) /\ Explains(s, e, r)
    /\ r.job \in {"none", "poll", "cancel"}
    /\ how # "resolved" => Untaken(r)

-----------------------------------------------------------------------------
(* Perplexity *)

\* The profile's copy of Exchange is Exchange.
LEMMA PSame ==
    /\ \A p, F : P!Failed(p, F) <=> Failed(p, F)
    /\ \A p, F : P!ErrorCodes(p, F) = ErrorCodes(p, F)
    /\ \A st, l, F : P!Answer(st, l, F) = Answer(st, l, F) /\ P!Serve(st, l, F) = Serve(st, l, F)
    /\ \A a : P!Spent(a) = Spent(a)
    /\ \A c : P!Fail(c) = Fail(c) /\ P!FailAt(c) = FailAt(c) /\ P!Warn(c) = Warn(c)
    /\ \A how : P!ResolveJob(how) = ResolveJob(how)
<1>1. /\ \A p, F : P!Failed(p, F) <=> Failed(p, F)
      /\ \A p, F : P!ErrorCodes(p, F) = ErrorCodes(p, F)
  BY DEF P!Failed, P!ErrorCodes, P!Errors, P!effectiveSeverity, Failed, ErrorCodes, Errors, effectiveSeverity
<1>2. \A st, l, F : P!Answer(st, l, F) = Answer(st, l, F)
  BY Zenon DEF P!Answer, Answer
<1>3. \A st, l, F : P!Serve(st, l, F) = Serve(st, l, F)
  BY Zenon DEF P!Serve, Serve, P!Answer, Answer
<1>4. \A a : P!Spent(a) = Spent(a)
  BY Zenon DEF P!Spent, Spent
<1>5. \A c : P!Fail(c) = Fail(c) /\ P!FailAt(c) = FailAt(c) /\ P!Warn(c) = Warn(c)
  BY DEF P!Fail, P!FailAt, P!Warn, P!Finding, Fail, FailAt, Warn, Finding
<1>6. \A how : P!ResolveJob(how) = ResolveJob(how)
  BY DEF P!ResolveJob, ResolveJob, P!When, When, P!Warn, P!Finding, Warn, Finding
<1> QED
  BY <1>1, <1>2, <1>3, <1>4, <1>5, <1>6

\* What the head of Handle, the content type and the credentials give.
LEMMA PArrives ==
    ASSUME NEW x, NEW policy, NEW creds
    PROVE  /\ Sound(P!Arrive(x)) /\ Sound(P!checkContentType(x))
           /\ Sound(P!checkAuth(x, policy, creds))
<1>1. Sound(P!Arrive(x)) /\ Sound(P!checkContentType(x))
  BY DEF P!Arrive, P!readRequest, P!checkContentType, P!When, P!Fail, P!Warn, P!Finding, Sound, LateCodes, StripCode
<1>2. Sound(P!checkAuth(x, policy, creds))
  BY DEF P!checkAuth, P!When, P!Fail, P!Warn, P!Finding, Sound, LateCodes, StripCode
<1> QED
  BY <1>1, <1>2

\* Sonar's own checks say nothing about credentials.
LEMMA PSonarChecks == \A x, policy : Plain(P!validateSonarRequest(x, policy))
BY DEF P!validateSonarRequest, P!checkUnknownFields, P!validateModel, P!validateMessages,
       P!validateNumericRange, P!validateMaxTokens, P!validateNullableEnum, P!validateEnum, P!When,
       P!Fail, P!FailAt, P!Warn, P!Finding, Plain, LateCodes, StripCode

\* The Agent API's own checks say nothing about credentials.
LEMMA PAgentChecks == \A x, policy : Plain(P!validateAgentRequest(x, policy))
<1> SUFFICES ASSUME NEW x, NEW policy PROVE Plain(P!validateAgentRequest(x, policy))
  OBVIOUS
<1>1. Plain(P!validateAgentModel(x))
  <2>1. P!validateAgentModel(x) \subseteq
            P!FailAt("model.invalid") \cup P!FailAt("models.invalid") \cup P!FailAt("models.too_many")
                \cup P!Warn("model.format") \cup P!FailAt("model.required")
    BY Zenon DEF P!validateAgentModel, P!validateModelChain, P!When
  <2> QED
    BY <2>1 DEF P!FailAt, P!Warn, P!Finding, Plain, LateCodes, StripCode
<1>2. \A key \in {"temperature", "top_p", "max_steps", "max_output_tokens", "store", "background",
                  "stream"} : Plain(P!validateNumericRange(x, key))
  BY DEF P!validateNumericRange, P!When, P!FailAt, P!Finding, Plain, LateCodes, StripCode
<1>3. Plain(P!checkUnknownFields(x, P!agentFields)) /\ Plain(P!validateInputItems(x))
  BY DEF P!checkUnknownFields, P!validateInputItems, P!When, P!FailAt, P!Warn, P!Finding, Plain, LateCodes, StripCode
<1>5. Plain(P!validateAgentProfile(x))
  BY DEF P!validateAgentProfile, P!When, P!FailAt, P!Finding, Plain, LateCodes, StripCode
<1>6. Plain(P!requireMaxOutputTokensForAnthropic(x))
  <2>1. P!requireMaxOutputTokensForAnthropic(x) \subseteq P!FailAt("max_output_tokens.required")
    BY Zenon DEF P!requireMaxOutputTokensForAnthropic, P!When
  <2> QED
    BY <2>1 DEF P!FailAt, P!Finding, Plain, LateCodes, StripCode
<1>4. /\ Plain(P!When(~ P!Has(x, "input"), P!FailAt("input.missing")))
      /\ Plain(P!When(P!Bad(x, "input"), P!FailAt("input.invalid")))
  BY DEF P!When, P!FailAt, P!Finding, Plain, LateCodes, StripCode
<1> DEFINE ranges == UNION {P!validateNumericRange(x, key) :
                               key \in {"temperature", "top_p", "max_steps", "max_output_tokens",
                                        "store", "background", "stream"}}
           stream == IF P!wantsStream(x) /\ P!wantsBackground(x) THEN P!FailAt("background.stream")
                     ELSE P!When(P!wantsStream(x) /\ policy # "stream", P!Warn("stream.unimplemented"))
<1>7. Plain(ranges)
  BY <1>2 DEF Plain
<1>8. Plain(stream)
  BY DEF P!When, P!FailAt, P!Warn, P!Finding, Plain, LateCodes, StripCode
<1>9. P!validateAgentRequest(x, policy) =
        IF P!bodyUnusable(x) THEN {}
        ELSE P!checkUnknownFields(x, P!agentFields)
             \cup P!When(~ P!Has(x, "input"), P!FailAt("input.missing"))
             \cup P!When(P!Bad(x, "input"), P!FailAt("input.invalid")) \cup P!validateInputItems(x)
             \cup P!validateAgentProfile(x) \cup P!validateAgentModel(x)
             \cup P!requireMaxOutputTokensForAnthropic(x) \cup ranges \cup stream
  BY Zenon DEF P!validateAgentRequest
<1> HIDE DEF ranges, stream
<1> QED
  BY <1>1, <1>3, <1>4, <1>5, <1>6, <1>7, <1>8, <1>9 DEF Plain

\* A refusal's status: authentication, size, admission, anything else.
LEMMA PStatus ==
    ASSUME NEW s, s \notin ExaSurfaces, NEW surf, NEW p, NEW F
    PROVE  \E st : /\ StatusOK(s, p, st, F)
                   /\ P!validationResponse(surf, p, F) = Answer(st, "error", F)
<1> DEFINE st == IF P!errorStatus(p, F) = 422 /\ surf = "agent" THEN 400 ELSE P!errorStatus(p, F)
<1>1. StatusOK(s, p, st, F)
  BY PSame DEF P!errorStatus, StatusOK, AuthCodes
<1>2. P!validationResponse(surf, p, F) = Answer(st, "error", F)
  BY PSame DEF P!validationResponse
<1> QED
  BY <1>1, <1>2

\* Perplexity's refusal is an error when and only when the findings fail the request.
LEMMA PRefuses ==
    ASSUME NEW s, s \notin ExaSurfaces, NEW surf, NEW e, NEW F, Sound(F),
           NEW r, r = P!validationResponse(surf, e.validation, F)
    PROVE  Blameless(r) /\ Explains(s, e, r) /\ (Failed(e.validation, F) => Heeds(e, r)) /\ Untaken(r)
<1>1. PICK st : /\ StatusOK(s, e.validation, st, F)
                /\ P!validationResponse(surf, e.validation, F) = Answer(st, "error", F)
  BY PStatus
<1>2. Gives(r, st, "error", F, "none") /\ r.eligible = FALSE /\ r.claims = FALSE
  BY <1>1 DEF Answer, Gives, ReplyFields
<1> QED
  BY <1>1, <1>2, Refuses

\* The two surfaces of Perplexity are no surfaces of Exa.
LEMMA NotExa == "sonar" \notin ExaSurfaces /\ "agent" \notin ExaSurfaces
BY DEF ExaSurfaces

\* handleSonar, every exit.
LEMMA SonarAnswers ==
    ASSUME NEW x, NEW e, NEW claim, NEW r, r = P!handleSonar(x, e, claim)
    PROVE  Blameless(r) /\ Explains("sonar", e, r) /\ (e.stream # "reject" => Heeds(e, r)) /\ r.job = "none"
<1> DEFINE auth == P!Arrive(x) \cup P!checkContentType(x)
                       \cup P!checkAuth(x, P!AuthPolicy(e, ""), P!bearerOnly)
           checked == auth \cup P!validateSonarRequest(x, P!streamPolicy(e))
           streams == P!wantsStream(x) /\ P!streamPolicy(e) = "stream"
           late == P!When(streams /\ P!Is(x, "stream_mode", "concise"), P!Warn("stream_mode.concise"))
           label == IF streams THEN "sonar.stream" ELSE "sonar.ok"
<1>1. Sound(auth)
  BY PArrives, SoundUnion
<1>2. Sound(checked)
  BY <1>1, PSonarChecks, PlainIsLate, SoundUnion
<1>3. Late(late)
  BY PSame, LateFindings DEF P!When, AuthCodes, StripCode
<1>4. label # "error"
  OBVIOUS
<1>5. r = IF P!rejectStream(x, e)
          THEN P!validationResponse("sonar", e.validation, auth \cup P!FailAt("stream.unimplemented"))
          ELSE IF P!Failed(e.validation, checked) THEN P!validationResponse("sonar", e.validation, checked)
          ELSE IF e.declared /\ ~ P!Selects(e, claim)
               THEN P!Spent(P!Answer(404, "error", checked \cup P!Fail("scenario.no_matching_turn")))
          ELSE [P!Serve(200, label, checked \cup late) EXCEPT !.streams = streams]
  BY Zenon DEF P!handleSonar
<1> HIDE DEF auth, checked, streams, late, label
<1>6. CASE P!rejectStream(x, e)
  <2>1. Sound(auth \cup P!FailAt("stream.unimplemented"))
    BY <1>1, PSame, LateFindings, SoundUnion DEF LateCodes, StripCode
  <2>2. e.stream = "reject"
    BY <1>6 DEF P!rejectStream, P!streamPolicy
  <2> QED
    BY <1>5, <1>6, <2>1, <2>2, PRefuses, NotExa DEF Untaken
<1>7. CASE ~ P!rejectStream(x, e) /\ Failed(e.validation, checked)
  BY <1>2, <1>5, <1>7, PSame, PRefuses, NotExa DEF Untaken
<1>8. CASE ~ P!rejectStream(x, e) /\ ~ Failed(e.validation, checked) /\ e.declared /\ ~ P!Selects(e, claim)
  <2>1. r = Spent(Answer(404, "error", checked \cup Fail("scenario.no_matching_turn")))
    BY <1>5, <1>8, PSame
  <2>2. r.job = "none"
    BY <2>1 DEF Spent, Answer
  <2>3. "scenario.no_matching_turn" \in AfterClaim
    BY DEF AfterClaim
  <2> QED
    BY <1>2, <1>8, <2>1, <2>2, <2>3, SpendsLate, SMTT(30)
<1>9. CASE ~ P!rejectStream(x, e) /\ ~ Failed(e.validation, checked) /\ ~ (e.declared /\ ~ P!Selects(e, claim))
  <2> DEFINE found == checked \cup late
  <2>1. r = [Serve(200, label, found) EXCEPT !.streams = streams]
    BY <1>5, <1>9, PSame
  <2> HIDE DEF found
  <2>2. Gives(r, 200, label, found, "none") /\ r.eligible = TRUE /\ r.claims = TRUE
    BY <2>1 DEF Answer, Serve, Gives, ReplyFields
  <2>3. Gives(r, 200, label, checked \cup late, "none") /\ r.eligible \in BOOLEAN /\ r.claims \in BOOLEAN
    BY <2>2 DEF found
  <2>4. r.job = "none"
    BY <2>2 DEF Gives
  <2> QED
    BY <1>2, <1>3, <1>4, <1>9, <2>3, <2>4, Serves
<1> QED
  BY <1>6, <1>7, <1>8, <1>9

\* handleAgentBackground, every exit: it mints or leaves the jobs alone.
LEMMA AgentBackgroundAnswers ==
    ASSUME NEW x, NEW e, NEW F, Sound(F), ~ Failed(e.validation, F), NEW mint,
           NEW r, r = P!handleAgentBackground(x, e, F, mint)
    PROVE  Blameless(r) /\ Explains("agent", e, r) /\ r.job \in {"none", "mint"}
<1> DEFINE unstored == P!Is(x, "store", "false")
           late == P!When(unstored, P!Warn("background.unstored"))
<1>1. Late(late) /\ Sound(late)
  BY PSame, LateFindings DEF P!When, AuthCodes, StripCode, LateCodes, Sound
<1>2. r = IF ~ (e.declared /\ e.background)
          THEN P!Answer(404, "error", F \cup P!FailAt("background.unscripted"))
          ELSE IF unstored /\ P!Failed(e.validation, F \cup late)
               THEN P!validationResponse("agent", e.validation, F \cup late)
          ELSE IF unstored THEN P!Serve(200, "background.unstored", F \cup late)
          ELSE IF mint = "limit" THEN P!Spent(P!Answer(503, "error", F \cup P!Fail("job.limit_reached")))
          ELSE IF mint = "collision"
               THEN P!Spent(P!Answer(500, "error", F \cup P!Fail("job.id_collision")))
          ELSE [P!Serve(200, "background.created", F) EXCEPT !.job = "mint"]
  BY Zenon DEF P!handleAgentBackground
<1>3. {"job.limit_reached", "job.id_collision"} \subseteq AfterClaim
  BY DEF AfterClaim
<1> HIDE DEF unstored, late
<1>4. CASE ~ (e.declared /\ e.background)
  <2> DEFINE L == FailAt("background.unscripted")
  <2>1. Late(L)
    BY LateFindings DEF AuthCodes, StripCode
  <2>2. r = Answer(404, "error", F \cup L)
    BY <1>2, <1>4, PSame
  <2> HIDE DEF L
  <2>3. Blameless(r) /\ Explains("agent", e, r) /\ Untaken(r)
    BY <2>1, <2>2, TurnsAway
  <2> QED
    BY <2>3 DEF Untaken
<1>5. CASE e.declared /\ e.background /\ unstored /\ Failed(e.validation, F \cup late)
  BY <1>1, <1>2, <1>5, PSame, PRefuses, NotExa, SoundUnion DEF Untaken
<1>6. CASE e.declared /\ e.background /\ unstored /\ ~ Failed(e.validation, F \cup late)
  <2>1. Replies(r, 200, "background.unstored", F, late)
    BY <1>2, <1>6, PSame DEF Replies
  <2> QED
    BY <1>1, <2>1, ServesPlain
<1>7. CASE e.declared /\ e.background /\ ~ unstored /\ mint = "limit"
  <2>1. r = Spent(Answer(503, "error", F \cup Fail("job.limit_reached")))
    BY <1>2, <1>7, PSame
  <2>2. r.job = "none"
    BY <2>1 DEF Spent, Answer
  <2> QED
    BY <1>3, <2>1, <2>2, SpendsLate
<1>8. CASE e.declared /\ e.background /\ ~ unstored /\ mint = "collision"
  <2>1. r = Spent(Answer(500, "error", F \cup Fail("job.id_collision")))
    BY <1>2, <1>8, PSame
  <2>2. r.job = "none"
    BY <2>1 DEF Spent, Answer
  <2> QED
    BY <1>3, <2>1, <2>2, SpendsLate
<1>9. CASE e.declared /\ e.background /\ ~ unstored /\ mint \notin {"limit", "collision"}
  <2>1. ServedJob(r, 200, "background.created", F, "mint")
    BY <1>2, <1>9, PSame DEF ServedJob
  <2> QED
    BY <2>1, ServesJob
<1> QED
  BY <1>4, <1>5, <1>6, <1>7, <1>8, <1>9

\* A request that no error finding refuses names a model.
LEMMA AgentNames ==
    ASSUME NEW x, NEW policy, NEW p, p.demote = {}, NEW F, ~ Failed(p, F),
           P!Arrive(x) \subseteq F, P!validateAgentRequest(x, policy) \subseteq F
    PROVE  P!EchoedModel(x) # ""
<1>1. \A f \in F : f.sev # "error"
  BY DEF Failed, effectiveSeverity
<1>2. ~ P!bodyUnusable(x)
  <2>1. P!Arrive(x) = P!readRequest(x) \cup P!When(~ x.admitted, P!Fail("namespace.limit_exceeded"))
    BY DEF P!Arrive
  <2>2. \A c : P!Fail(c) \subseteq F => FALSE
    BY <1>1 DEF P!Fail, P!Finding
  <2>3. P!bodyUnusable(x) => \E c : P!Fail(c) \subseteq P!readRequest(x)
    BY DEF P!bodyUnusable, P!readRequest, P!When
  <2> QED
    BY <2>1, <2>2, <2>3
<1>3. P!validateAgentModel(x) \subseteq F /\ P!validateAgentProfile(x) \subseteq F
  <2>1. P!validateAgentModel(x) \subseteq P!validateAgentRequest(x, policy)
    BY <1>2, Zenon DEF P!validateAgentRequest
  <2>2. P!validateAgentProfile(x) \subseteq P!validateAgentRequest(x, policy)
    BY <1>2, Zenon DEF P!validateAgentRequest
  <2> QED
    BY <2>1, <2>2
<1>4. \A c : ~ (P!FailAt(c) \subseteq F)
  BY <1>1 DEF P!FailAt, P!Finding
<1> DEFINE selected == \/ P!optionalString(x, "model") # "" \/ P!optionalString(x, "preset") # ""
                       \/ P!Chain(x) # "" \/ (P!Has(x, "profile") /\ P!profileOK(x))
           listed == P!Has(x, "models") /\ x.f["models"] \in {"bad", "none"}
           wellFormed == /\ ~ P!Bad(x, "model") /\ ~ P!Bad(x, "preset") /\ P!profileOK(x)
                         /\ ~ listed
<1>5. P!validateAgentModel(x) =
          P!When(P!Bad(x, "model") \/ P!Bad(x, "preset"), P!FailAt("model.invalid"))
              \cup P!validateModelChain(x)
              \cup P!When(P!optionalString(x, "model") = "bare", P!Warn("model.format"))
              \cup P!When(~ selected /\ wellFormed, P!FailAt("model.required"))
  BY Zenon DEF P!validateAgentModel
<1>6. P!profileOK(x)
  <2>1. P!validateAgentProfile(x) \in {{}, P!FailAt("profile.invalid")}
    BY DEF P!validateAgentProfile, P!When
  <2> QED
    BY <1>3, <1>4, <2>1 DEF P!profileOK
<1>7. ~ P!Bad(x, "model") /\ ~ P!Bad(x, "preset")
  BY <1>3, <1>4, <1>5 DEF P!When
<1>8. ~ listed
  <2>1. listed => P!FailAt("models.invalid") \subseteq P!validateModelChain(x)
    BY DEF P!validateModelChain, P!When
  <2> QED
    BY <1>3, <1>4, <1>5, <2>1
<1>9. selected
  <2>1. ~ selected /\ wellFormed => P!FailAt("model.required") \subseteq P!validateAgentModel(x)
    BY <1>5 DEF P!When
  <2> QED
    BY <1>3, <1>4, <1>6, <1>7, <1>8, <2>1
<1> QED
  BY <1>9 DEF P!EchoedModel

\* handleAgent, every exit; one whose attempt stands names the model it ran on.
LEMMA AgentAnswers ==
    ASSUME NEW x, NEW e, NEW claim, NEW mint, NEW r, r = P!handleAgent(x, e, claim, mint)
    PROVE  /\ Blameless(r) /\ Explains("agent", e, r) /\ r.job \in {"none", "mint"}
           /\ r.eligible /\ e.validation.demote = {} => P!EchoedModel(x) # ""
<1> DEFINE auth == P!Arrive(x) \cup P!checkContentType(x)
                       \cup P!checkAuth(x, P!AuthPolicy(e, ""), P!bearerOnly)
           checked == auth \cup P!validateAgentRequest(x, P!streamPolicy(e))
           streams == P!wantsStream(x) /\ P!streamPolicy(e) = "stream"
           label == IF streams THEN "agent.stream" ELSE "agent.ok"
<1>1. Sound(auth)
  BY PArrives, SoundUnion
<1>2. Sound(checked)
  BY <1>1, PAgentChecks, PlainIsLate, SoundUnion
<1>3. ~ Failed(e.validation, checked) /\ e.validation.demote = {} => P!EchoedModel(x) # ""
  BY AgentNames
<1>4. label # "error"
  OBVIOUS
<1>5. r = IF P!rejectStream(x, e)
          THEN P!validationResponse("agent", e.validation, auth \cup P!FailAt("stream.unimplemented"))
          ELSE IF P!Failed(e.validation, checked) THEN P!validationResponse("agent", e.validation, checked)
          ELSE IF P!wantsBackground(x) THEN P!handleAgentBackground(x, e, checked, mint)
          ELSE IF e.declared /\ ~ P!Selects(e, claim)
               THEN P!Spent(P!Answer(404, "error", checked \cup P!Fail("scenario.no_matching_turn")))
          ELSE [P!Serve(200, label, checked) EXCEPT !.streams = streams]
  BY Zenon DEF P!handleAgent
<1>6. \A F : ~ P!validationResponse("agent", e.validation, F).eligible
  BY DEF P!validationResponse, P!Answer
<1> HIDE DEF auth, checked, streams, label
<1>7. CASE P!rejectStream(x, e)
  <2>1. Sound(auth \cup P!FailAt("stream.unimplemented"))
    BY <1>1, PSame, LateFindings, SoundUnion DEF LateCodes, StripCode
  <2> QED
    BY <1>5, <1>6, <1>7, <2>1, PRefuses, NotExa DEF Untaken
<1>8. CASE ~ P!rejectStream(x, e) /\ Failed(e.validation, checked)
  BY <1>2, <1>5, <1>6, <1>8, PSame, PRefuses, NotExa DEF Untaken
<1>9. CASE ~ P!rejectStream(x, e) /\ ~ Failed(e.validation, checked) /\ P!wantsBackground(x)
  <2>1. r = P!handleAgentBackground(x, e, checked, mint)
    BY <1>5, <1>9, PSame
  <2> QED
    BY <1>2, <1>3, <1>9, <2>1, AgentBackgroundAnswers
<1>10. CASE /\ ~ P!rejectStream(x, e) /\ ~ Failed(e.validation, checked) /\ ~ P!wantsBackground(x)
            /\ e.declared /\ ~ P!Selects(e, claim)
  <2>1. r = Spent(Answer(404, "error", checked \cup Fail("scenario.no_matching_turn")))
    BY <1>5, <1>10, PSame
  <2>2. r.job = "none"
    BY <2>1 DEF Spent, Answer
  <2>3. "scenario.no_matching_turn" \in AfterClaim
    BY DEF AfterClaim
  <2>4. Blameless(r) /\ Explains("agent", e, r)
    BY <1>2, <1>10, <2>1, <2>3, SpendsLate
  <2> QED
    BY <1>3, <1>10, <2>2, <2>4
<1>11. CASE /\ ~ P!rejectStream(x, e) /\ ~ Failed(e.validation, checked) /\ ~ P!wantsBackground(x)
            /\ ~ (e.declared /\ ~ P!Selects(e, claim))
  <2>1. r = [Serve(200, label, checked) EXCEPT !.streams = streams]
    BY <1>5, <1>11, PSame
  <2>2. Gives(r, 200, label, checked, "none") /\ r.eligible = TRUE /\ r.claims = TRUE
    BY <2>1 DEF Answer, Serve, Gives, ReplyFields
  <2>3. Gives(r, 200, label, checked, "none") /\ r.eligible \in BOOLEAN /\ r.claims \in BOOLEAN
    BY <2>2
  <2>4. r.job = "none"
    BY <2>2 DEF Gives
  <2>5. Blameless(r) /\ Explains("agent", e, r)
    BY <1>2, <1>4, <1>11, <2>3, ServesChecked
  <2> QED
    BY <1>3, <1>11, <2>4, <2>5
<1> QED
  BY <1>7, <1>8, <1>9, <1>10, <1>11

\* What ResolveJob finds is no matter of credentials.
LEMMA ResolveIsLate == \A how : Late(ResolveJob(how))
BY DEF ResolveJob, When, Warn, Finding, Late, StripCode

\* handleAgentRetrieve, every exit: it polls a job that it resolved, or none.
LEMMA AgentRetrieveAnswers ==
    ASSUME NEW x, NEW e, NEW how, NEW snapshot, snapshot # "error",
           NEW r, r = P!handleAgentRetrieve(x, e, how, snapshot)
    PROVE  Handled("agent", e, r, how)
<1> DEFINE checked == P!Arrive(x) \cup P!checkAuth(x, P!AuthPolicy(e, ""), P!bearerOnly)
<1>1. Sound(checked) /\ Sound(P!Arrive(x))
  BY PArrives, SoundUnion
<1>2. r = IF x.method = "HEAD" THEN P!Answer(405, "error", P!Arrive(x) \cup P!Fail("method_not_allowed"))
          ELSE IF P!Failed(e.validation, checked)
               THEN P!validationResponse("agent", e.validation, checked)
          ELSE IF how # "resolved" THEN P!Answer(404, "error", checked \cup P!ResolveJob(how))
          ELSE IF snapshot = "miss"
               THEN [P!Spent(P!Answer(404, "error", checked \cup P!Fail("scenario.no_matching_turn")))
                        EXCEPT !.job = "poll"]
          ELSE [P!Serve(200, snapshot, checked) EXCEPT !.job = "poll"]
  BY Zenon DEF P!handleAgentRetrieve
<1> HIDE DEF checked
<1>3. CASE x.method = "HEAD"
  <2> DEFINE found == P!Arrive(x) \cup Fail("method_not_allowed")
  <2>1. r = Answer(405, "error", found)
    BY <1>2, <1>3, PSame
  <2>2. Sound(found)
    BY <1>1, LateFindings, SoundUnion DEF LateCodes, StripCode
  <2> HIDE DEF found
  <2>3. /\ DOMAIN r = ReplyFields /\ r.status = 405 /\ r.findings = found /\ r.job = "none"
        /\ r.eligible = FALSE /\ r.claims = FALSE
    BY <2>1 DEF Answer, ReplyFields
  <2> QED
    BY <2>2, <2>3 DEF Handled, Untaken, Blameless, Explains, Sound, LateCodes
<1>4. CASE x.method # "HEAD" /\ Failed(e.validation, checked)
  BY <1>1, <1>2, <1>4, PSame, PRefuses, NotExa DEF Handled, Untaken
<1>5. CASE x.method # "HEAD" /\ ~ Failed(e.validation, checked) /\ how # "resolved"
  <2>1. r = Answer(404, "error", checked \cup ResolveJob(how))
    BY <1>2, <1>5, PSame
  <2>2. Late(ResolveJob(how))
    BY ResolveIsLate
  <2>3. Blameless(r) /\ Explains("agent", e, r) /\ Untaken(r)
    BY <1>1, <1>5, <2>1, <2>2, TurnsAway
  <2> QED
    BY <2>3 DEF Handled, Untaken
<1>6. CASE x.method # "HEAD" /\ ~ Failed(e.validation, checked) /\ how = "resolved" /\ snapshot = "miss"
  <2>1. LatePoll(r, 404, checked, "scenario.no_matching_turn")
    BY <1>2, <1>6, PSame DEF LatePoll
  <2>2. "scenario.no_matching_turn" \in AfterClaim
    BY DEF AfterClaim
  <2>3. Blameless(r) /\ Explains("agent", e, r) /\ r.job = "poll"
    BY <1>1, <1>6, <2>1, <2>2, PollsLate
  <2> QED
    BY <1>6, <2>3 DEF Handled
<1>7. CASE x.method # "HEAD" /\ ~ Failed(e.validation, checked) /\ how = "resolved" /\ snapshot # "miss"
  <2>1. ServedJob(r, 200, snapshot, checked, "poll")
    BY <1>2, <1>7, PSame DEF ServedJob
  <2> QED
    BY <1>1, <1>7, <2>1, ServesJob DEF Handled
<1> QED
  BY <1>3, <1>4, <1>5, <1>6, <1>7

\* handleAgentCancel, every exit: it cancels a job that it resolved, or none.
LEMMA AgentCancelAnswers ==
    ASSUME NEW x, NEW e, NEW how, NEW outcome, NEW next,
           NEW r, r = P!handleAgentCancel(x, e, how, outcome, next)
    PROVE  Handled("agent", e, r, how)
<1> DEFINE checked == P!Arrive(x) \cup P!checkAuth(x, P!AuthPolicy(e, ""), P!bearerOnly)
<1>1. Sound(checked)
  BY PArrives, SoundUnion
<1>2. r = IF P!Failed(e.validation, checked) THEN P!validationResponse("agent", e.validation, checked)
          ELSE IF how # "resolved" THEN P!Answer(404, "error", checked \cup P!ResolveJob(how))
          ELSE IF outcome = "failed"
               THEN P!Spent(P!Answer(500, "error", checked \cup P!Fail("job.cancel_unscripted")))
          ELSE IF outcome = "recorded" THEN [P!Serve(200, "cancel.accepted", checked) EXCEPT !.job = "cancel"]
          ELSE IF outcome = "uncommitted" THEN P!Serve(200, "cancel.unrecorded", checked)
          ELSE IF outcome = "terminal" \/ next = "terminal" THEN P!Serve(400, "cancel.terminal", checked)
          ELSE P!Serve(200, "cancel.repeated", checked)
  BY Zenon DEF P!handleAgentCancel
<1> HIDE DEF checked
<1>3. CASE Failed(e.validation, checked)
  BY <1>1, <1>2, <1>3, PSame, PRefuses, NotExa DEF Handled, Untaken
<1>4. CASE ~ Failed(e.validation, checked) /\ how # "resolved"
  <2>1. r = Answer(404, "error", checked \cup ResolveJob(how))
    BY <1>2, <1>4, PSame
  <2>2. Late(ResolveJob(how))
    BY ResolveIsLate
  <2>3. Blameless(r) /\ Explains("agent", e, r) /\ Untaken(r)
    BY <1>1, <1>4, <2>1, <2>2, TurnsAway
  <2> QED
    BY <2>3 DEF Handled, Untaken
<1>5. CASE ~ Failed(e.validation, checked) /\ how = "resolved" /\ outcome = "failed"
  <2>1. r = Spent(Answer(500, "error", checked \cup Fail("job.cancel_unscripted")))
    BY <1>2, <1>5, PSame
  <2>2. "job.cancel_unscripted" \in AfterClaim
    BY DEF AfterClaim
  <2>3. r.job = "none"
    BY <2>1 DEF Spent, Answer
  <2> QED
    BY <1>1, <1>5, <2>1, <2>2, <2>3, SpendsLate DEF Handled
<1>6. CASE ~ Failed(e.validation, checked) /\ how = "resolved" /\ outcome = "recorded"
  <2>1. ServedJob(r, 200, "cancel.accepted", checked, "cancel")
    BY <1>2, <1>6, PSame DEF ServedJob
  <2>2. Blameless(r) /\ Explains("agent", e, r) /\ r.job = "cancel"
    BY <1>1, <1>6, <2>1, ServesJob
  <2> QED
    BY <1>6, <2>2 DEF Handled
<1>7. CASE ~ Failed(e.validation, checked) /\ how = "resolved" /\ outcome \notin {"failed", "recorded"}
  <2>1. \E st \in {200, 400}, l \in {"cancel.unrecorded", "cancel.terminal", "cancel.repeated"} :
            r = Serve(st, l, checked)
    BY <1>2, <1>7, PSame
  <2>2. PICK st \in {200, 400}, l \in {"cancel.unrecorded", "cancel.terminal", "cancel.repeated"} :
            r = Serve(st, l, checked)
    BY <2>1
  <2>3. Gives(r, st, l, checked, "none") /\ r.eligible = TRUE /\ r.claims = TRUE
    BY <2>2 DEF Answer, Serve, Gives, ReplyFields
  <2>4. r.job = "none"
    BY <2>3 DEF Gives
  <2>5. r.eligible \in BOOLEAN /\ r.claims \in BOOLEAN
    BY <2>3
  <2>7. st # 401 /\ l # "error"
    OBVIOUS
  <2>6. Blameless(r) /\ Explains("agent", e, r)
    BY <1>1, <1>7, <2>3, <2>5, <2>7, ServesChecked
  <2> QED
    BY <1>7, <2>4, <2>6 DEF Handled
<1> QED
  BY <1>3, <1>4, <1>5, <1>6, <1>7

-----------------------------------------------------------------------------
(* Exa *)

\* Exa builds its answers with the framework's helpers.
LEMMA ESame ==
    /\ \A p, F : E!Failed(p, F) <=> Failed(p, F)
    /\ \A p, F : E!Errors(p, F) = Errors(p, F)
    /\ \A st, l, F : E!Answer(st, l, F) = Answer(st, l, F) /\ E!Serve(st, l, F) = Serve(st, l, F)
    /\ \A a : E!Spent(a) = Spent(a)
    /\ \A c : E!Fail(c) = Fail(c) /\ E!FailAt(c) = FailAt(c) /\ E!Warn(c) = Warn(c)
    /\ \A how : E!ResolveJob(how) = ResolveJob(how)
<1>1. /\ \A p, F : E!Failed(p, F) <=> Failed(p, F)
      /\ \A p, F : E!Errors(p, F) = Errors(p, F)
  BY DEF E!Failed, E!Errors, E!effectiveSeverity, Failed, Errors, effectiveSeverity
<1>2. \A st, l, F : E!Answer(st, l, F) = Answer(st, l, F)
  BY Zenon DEF E!Answer, Answer
<1>3. \A st, l, F : E!Serve(st, l, F) = Serve(st, l, F)
  BY Zenon DEF E!Serve, Serve, E!Answer, Answer
<1>4. \A a : E!Spent(a) = Spent(a)
  BY Zenon DEF E!Spent, Spent
<1>5. \A c : E!Fail(c) = Fail(c) /\ E!FailAt(c) = FailAt(c) /\ E!Warn(c) = Warn(c)
  BY DEF E!Fail, E!FailAt, E!Warn, E!Finding, Fail, FailAt, Warn, Finding
<1>6. \A how : E!ResolveJob(how) = ResolveJob(how)
  BY DEF E!ResolveJob, ResolveJob, E!When, When, E!Warn, E!Finding, Warn, Finding
<1> QED
  BY <1>1, <1>2, <1>3, <1>4, <1>5, <1>6

\* A missing credential is reported at no field.
NoField(findings) == \A f \in findings : f.code = "auth.missing" => f.field = 0

\* Exa's table of ranks puts the codes about credentials first.
LEMMA ERanks ==
    /\ \A c : E!CodeRank(c) \in 1..12
    /\ \A c : E!CodeRank(c) <= 2 => c \in {"auth.mismatch", "auth.missing"}
    /\ E!CodeRank("auth.missing") = 2
<1>1. Len(E!CodeOrder) = 11 /\ E!CodeOrder[1] = "auth.mismatch" /\ E!CodeOrder[2] = "auth.missing"
  BY DEF E!CodeOrder
<1>2. ASSUME NEW c
      PROVE  /\ E!CodeRank(c) \in 1..12
             /\ E!CodeRank(c) # 12 => E!CodeOrder[E!CodeRank(c)] = c
  <2>1. CASE \E i \in 1..Len(E!CodeOrder) : E!CodeOrder[i] = c
    <3>1. E!CodeRank(c) = CHOOSE i \in 1..Len(E!CodeOrder) : E!CodeOrder[i] = c
      BY <2>1 DEF E!CodeRank
    <3> QED
      BY <1>1, <2>1, <3>1
  <2>2. CASE ~ \E i \in 1..Len(E!CodeOrder) : E!CodeOrder[i] = c
    BY <1>1, <2>2 DEF E!CodeRank
  <2> QED
    BY <2>1, <2>2
<1>3. \A i \in 1..11 : E!CodeOrder[i] = "auth.missing" => i = 2
  BY DEF E!CodeOrder
<1>4. E!CodeRank("auth.missing") # 12
  BY <1>1 DEF E!CodeRank
<1> QED
  BY <1>1, <1>2, <1>3, <1>4

\* The order of the errors has a first one.
LEMMA EFirst ==
    ASSUME NEW errors, errors # {}, \A f \in errors : f.field \in 0..3
    PROVE  \E f \in errors : /\ f = CHOOSE h \in errors : \A g \in errors : ~ E!Before(g, h)
                             /\ \A g \in errors : ~ E!Before(g, f)
<1> DEFINE Key(f) == 100 * f.field + E!CodeRank(f.code)
           keys == {Key(f) : f \in errors}
<1>1. \A f \in errors : Key(f) \in Nat
  BY ERanks
<1>2. Min(keys) \in keys /\ \A y \in keys : Min(keys) <= y
  <2>1. keys \subseteq Nat /\ keys # {}
    BY <1>1
  <2> HIDE DEF keys
  <2> QED
    BY <2>1, MinInSet
<1>3. PICK f \in errors : Key(f) = Min(keys)
  BY <1>2
<1>4. ASSUME NEW g \in errors, E!Before(g, f)
      PROVE  FALSE
  <2>1. Key(f) <= Key(g)
    BY <1>2, <1>3
  <2>2. g.field < f.field \/ (g.field = f.field /\ E!CodeRank(g.code) < E!CodeRank(f.code))
    BY <1>4 DEF E!Before
  <2>3. /\ f.field \in 0..3 /\ g.field \in 0..3
        /\ E!CodeRank(f.code) \in 1..12 /\ E!CodeRank(g.code) \in 1..12
    BY ERanks
  <2> QED
    BY <2>1, <2>2, <2>3
<1> QED
  BY <1>4

\* The status classify gives is the one the errors call for: it goes by the first of them.
LEMMA EStatus ==
    ASSUME NEW s \in ExaSurfaces, NEW p, NEW F, NoField(F), \A f \in F : f.field \in 0..3
    PROVE  StatusOK(s, p, E!classify(p, F), F)
<1> DEFINE errors == Errors(p, F)
<1>1. CASE errors = {}
  BY <1>1, ESame DEF E!classify, StatusOK, ErrorCodes
<1>2. CASE errors # {}
  <2>1. \A f \in errors : f \in F /\ f.field \in 0..3
    BY DEF Errors
  <2>2. PICK f \in errors : /\ f = CHOOSE h \in errors : \A g \in errors : ~ E!Before(g, h)
                            /\ \A g \in errors : ~ E!Before(g, f)
    BY <1>2, <2>1, EFirst
  <2>3. E!classify(p, F) = E!classifyCode(f.code)
    BY <1>2, <2>2, ESame DEF E!classify
  <2>4. f.code \in ErrorCodes(p, F)
    BY DEF ErrorCodes
  <2>5. "auth.missing" \in ErrorCodes(p, F) => f.code \in {"auth.mismatch", "auth.missing"}
    <3>1. SUFFICES ASSUME NEW m \in errors, m.code = "auth.missing"
                   PROVE  f.code \in {"auth.mismatch", "auth.missing"}
      BY DEF ErrorCodes
    <3>2. m.field = 0 /\ f.field \in 0..3
      BY <2>1, <3>1 DEF NoField
    <3>3. ~ (m.field < f.field) /\ ~ (m.field = f.field /\ E!CodeRank(m.code) < E!CodeRank(f.code))
      BY <2>2 DEF E!Before
    <3> QED
      BY <3>1, <3>2, <3>3, ERanks
  <2> QED
    BY <2>3, <2>4, <2>5 DEF E!classifyCode, StatusOK, AuthCodes
<1> QED
  BY <1>1, <1>2

\* No late refusal is a 401.
LEMMA ELateStatus ==
    ASSUME NEW p, NEW F, Sound(F), ~ Failed(p, F), NEW L, Late(L)
    PROVE  E!classify(p, F \cup L) # 401
<1> DEFINE errors == Errors(p, F \cup L)
<1>1. CASE errors = {}
  BY <1>1, ESame DEF E!classify
<1>2. CASE errors # {}
  <2>1. \A f \in errors : f.field \in 0..3
    BY DEF Errors, Sound, Late
  <2>2. PICK f \in errors : f = CHOOSE h \in errors : \A g \in errors : ~ E!Before(g, h)
    BY <1>2, <2>1, EFirst
  <2>3. E!classify(p, F \cup L) = E!classifyCode(f.code)
    BY <1>2, <2>2, ESame DEF E!classify
  <2>4. f.code \in ErrorCodes(p, F \cup L)
    BY DEF ErrorCodes
  <2>5. f.code \notin AuthCodes
    BY <2>4, LateErrors
  <2> QED
    BY <2>3, <2>5 DEF E!classifyCode, AuthCodes
<1> QED
  BY <1>1, <1>2

\* Exa's credentials and namespace checks come before the claim and name no field.
LEMMA EArrives ==
    ASSUME NEW x, NEW e
    PROVE  Sound(E!Authenticated(x, e)) /\ NoField(E!Authenticated(x, e))
<1>1. Sound(E!Arrive(x)) /\ NoField(E!Arrive(x))
  BY DEF E!Arrive, E!readRequest, E!When, E!Fail, E!Finding, Sound, NoField, LateCodes, StripCode
<1>2. ASSUME NEW policy, NEW creds
      PROVE  Sound(E!authenticate(x, policy, creds)) /\ NoField(E!authenticate(x, policy, creds))
  <2>1. \A at : E!HeaderRank(at) \in 0..3
    BY DEF E!HeaderRank
  <2> QED
    BY <2>1 DEF E!authenticate, E!When, E!Fail, E!Finding, Sound, NoField, LateCodes, StripCode
<1> QED
  BY <1>1, <1>2 DEF E!Authenticated, Sound, NoField

\* Exa's rejection is an error when and only when the findings fail the request.
LEMMA ERefuses ==
    ASSUME NEW s \in ExaSurfaces, NEW e, NEW F, Sound(F), NoField(F),
           NEW r, r = E!rejection(e.validation, F)
    PROVE  Blameless(r) /\ Explains(s, e, r) /\ (Failed(e.validation, F) => Heeds(e, r)) /\ Untaken(r)
<1> DEFINE st == E!classify(e.validation, F)
<1>1. StatusOK(s, e.validation, st, F)
  BY EStatus DEF Sound
<1>2. r = Answer(st, "error", F)
  BY ESame DEF E!rejection
<1> HIDE DEF st
<1>3. Gives(r, st, "error", F, "none") /\ r.eligible = FALSE /\ r.claims = FALSE
  BY <1>2 DEF Answer, Gives, ReplyFields
<1> QED
  BY <1>1, <1>3, Refuses

\* What a search-like handler does once the checks have passed.
LEMMA EProjects ==
    ASSUME NEW s, NEW e, NEW F, Sound(F), ~ Failed(e.validation, F), NEW claim, NEW l, l # "error",
           NEW r, r = E!Project(e, claim, F, l)
    PROVE  /\ Blameless(r) /\ Explains(s, e, r) /\ Heeds(e, r) /\ r.job = "none"
           /\ r.eligible => r = Serve(200, l, F)
<1>1. CASE r = Serve(200, l, F)
  <2>1. Gives(r, 200, l, F, "none") /\ r.eligible = TRUE /\ r.claims = TRUE
    BY <1>1 DEF Answer, Serve, Gives, ReplyFields
  <2>2. r.eligible \in BOOLEAN /\ r.claims \in BOOLEAN
    BY <2>1
  <2>3. r.job = "none"
    BY <2>1 DEF Gives
  <2>4. Blameless(r) /\ Explains(s, e, r) /\ Heeds(e, r)
    BY <2>1, <2>2, ServesChecked
  <2> QED
    BY <1>1, <2>3, <2>4
<1>2. CASE r # Serve(200, l, F)
  <2> DEFINE st == E!classify(e.validation, F \cup Fail("scenario.no_matching_turn"))
  <2>1. r = Spent(Answer(st, "error", F \cup Fail("scenario.no_matching_turn")))
    BY <1>2, ESame DEF E!Project, E!rejection
  <2>2. st # 401
    BY LateFindings, ELateStatus DEF AuthCodes, StripCode
  <2> HIDE DEF st
  <2>3. "scenario.no_matching_turn" \in AfterClaim
    BY DEF AfterClaim
  <2>4. Blameless(r) /\ Explains(s, e, r) /\ Heeds(e, r)
    BY <2>1, <2>2, <2>3, SpendsLate
  <2>5. r.job = "none" /\ ~ r.eligible
    BY <2>1 DEF Spent, Answer
  <2> QED
    BY <2>4, <2>5
<1> QED
  BY <1>1, <1>2

\* Exa's checks of optional properties report the keys they were asked about.
LEMMA EOptional ==
    ASSUME NEW x, NEW keys,
           \A key \in keys : key \notin LateCodes \cup {"auth.missing", "auth.mismatch", "auth.rejected",
                                                        "namespace.limit_exceeded"}
    PROVE  Plain(E!validateOptional(x, keys))
BY DEF E!validateOptional, E!When, E!FailAt, E!Finding, Plain

\* The checks of Exa's requests say nothing about credentials.
LEMMA EChecks ==
    ASSUME NEW x, NEW policy
    PROVE  /\ Plain(E!validateSearch(x, policy)) /\ Plain(E!validateAnswer(x, policy))
           /\ Plain(E!validateFindSimilarRequest(x)) /\ Plain(E!validateContentsRequest(x))
           /\ Plain(E!validateAgentRunCreate(x))
<1>1. /\ Plain(E!validateContentType(x)) /\ Plain(E!validateQuery(x)) /\ Plain(E!validateSearchType(x))
      /\ Plain(E!validateOutputSchema(x)) /\ Plain(E!validateSearchDeprecations(x))
      /\ Plain(E!validateContents(x)) /\ \A known : Plain(E!validateUnknownFields(x, known))
      /\ Plain(E!validateFindSimilarURL(x)) /\ Plain(E!validateEffort(x))
  BY DEF E!validateContentType, E!validateQuery, E!validateSearchType, E!validateOutputSchema,
         E!validateSearchDeprecations, E!validateContents, E!validateUnknownFields,
         E!validateFindSimilarURL, E!validateEffort,
         E!When, E!FailAt, E!Warn, E!Finding, Plain, LateCodes, StripCode
<1>2. Plain(E!validateStream(x, policy))
  <2>1. E!validateStream(x, policy) \subseteq
            E!FailAt("field_type") \cup E!FailAt("stream.unimplemented") \cup E!Warn("stream.unimplemented")
    BY Zenon DEF E!validateStream, E!When
  <2> QED
    BY <2>1 DEF E!FailAt, E!Warn, E!Finding, Plain, LateCodes, StripCode
<1>3. Plain(E!validateSearch(x, policy))
  <2>1. Plain(E!validateOptional(x, {"numResults", "category", "includeDomains"}))
    BY EOptional DEF LateCodes, StripCode
  <2> QED
    BY <1>1, <1>2, <2>1, PlainUnion DEF E!validateSearch
<1>4. Plain(E!validateAnswer(x, policy))
  <2>1. Plain(E!validateOptional(x, {"text"}))
    BY EOptional DEF LateCodes, StripCode
  <2> QED
    BY <1>1, <1>2, <2>1, PlainUnion DEF E!validateAnswer
<1>5. Plain(E!validateFindSimilarRequest(x))
  <2>1. Plain(E!validateOptional(x, {"numResults", "includeDomains", "endPublishedDate", "contents",
                                     "category", "excludeSourceDomain"}))
    BY EOptional DEF LateCodes, StripCode
  <2>2. Plain(E!When(E!Is(x, "startCrawlDate", "ok"), E!Warn("deprecated")))
    BY DEF E!When, E!Warn, E!Finding, Plain, LateCodes, StripCode
  <2>3. Plain(E!validateFindSimilarOptions(x))
    BY <2>1, <2>2, PlainUnion DEF E!validateFindSimilarOptions
  <2> QED
    BY <1>1, <2>3, PlainUnion DEF E!validateFindSimilarRequest
<1>6. Plain(E!validateContentsRequest(x))
  <2>1. Plain(E!validateContentsTarget(x))
    BY DEF E!validateContentsTarget, E!When, E!Fail, E!FailAt, E!Finding, Plain, LateCodes, StripCode
  <2>2. Plain(E!validateContentsBounds(x))
    BY EOptional DEF E!validateContentsBounds, LateCodes, StripCode
  <2>3. Plain(E!validateContentsTextOption(x))
    <3>1. Plain(E!validateOptional(x, {"text", "highlights"}))
      BY EOptional DEF LateCodes, StripCode
    <3>2. Plain(E!When(E!Is(x, "highlights", "odd"), E!Warn("deprecated")))
      BY DEF E!When, E!Warn, E!Finding, Plain, LateCodes, StripCode
    <3> QED
      BY <3>1, <3>2, PlainUnion DEF E!validateContentsTextOption
  <2>4. Plain(E!validateContentsOptions(x))
    <3>1. Plain(E!validateOptional(x, {"summary", "maxAgeHours", "livecrawl", "subpageTarget", "context"}))
      BY EOptional DEF LateCodes, StripCode
    <3>2. Plain(E!When(\E key \in {"livecrawl", "context"} : E!Is(x, key, "ok"), E!Warn("deprecated")))
      BY DEF E!When, E!Warn, E!Finding, Plain, LateCodes, StripCode
    <3> QED
      BY <3>1, <3>2, PlainUnion DEF E!validateContentsOptions
  <2> QED
    BY <1>1, <2>1, <2>2, <2>3, <2>4, PlainUnion DEF E!validateContentsRequest
<1>7. Plain(E!validateAgentRunCreate(x))
  <2>1. Plain(E!validateBudget(x))
    <3>1. E!validateBudget(x) \subseteq E!FailAt("field_type") \cup E!FailAt("budget.duration")
              \cup E!Warn("budget.duration") \cup E!FailAt("budget.cost") \cup E!Warn("budget.cost")
      BY Zenon DEF E!validateBudget, E!When
    <3> QED
      BY <3>1 DEF E!FailAt, E!Warn, E!Finding, Plain, LateCodes, StripCode
  <2> QED
    BY <1>1, <2>1, PlainUnion DEF E!validateAgentRunCreate
<1> QED
  BY <1>3, <1>4, <1>5, <1>6, <1>7

\* What the checks of a request find: its arrival, its credentials, itself.
LEMMA EChecked ==
    ASSUME NEW x, NEW e, NEW C, Plain(C)
    PROVE  Sound(E!Authenticated(x, e) \cup C) /\ NoField(E!Authenticated(x, e) \cup C)
BY EArrives, PlainIsLate DEF Sound, NoField, Plain

\* The promise of a create that can only be refused, answered or projected.
Prompt(s, e, r) == Blameless(r) /\ Explains(s, e, r) /\ Heeds(e, r) /\ r.job = "none"

\* The shape that Exa's search, answer and findSimilar handlers share.
LEMMA ESearches ==
    ASSUME NEW s \in ExaSurfaces, NEW x, NEW e, NEW claim, NEW C, Plain(C), NEW l, l # "error",
           NEW checked, checked = E!Authenticated(x, e) \cup C, NEW r,
           r = IF E!Failed(e.validation, checked) THEN E!rejection(e.validation, checked)
               ELSE E!Project(e, claim, checked, l)
    PROVE  Prompt(s, e, r)
<1>1. Sound(checked) /\ NoField(checked)
  BY EChecked
<1>2. CASE Failed(e.validation, checked)
  BY <1>1, <1>2, ESame, ERefuses DEF Prompt, Untaken
<1>3. CASE ~ Failed(e.validation, checked)
  <2>1. r = E!Project(e, claim, checked, l)
    BY <1>3, ESame
  <2> QED
    BY <1>1, <1>3, <2>1, EProjects DEF Prompt
<1> QED
  BY <1>2, <1>3

\* handleSearch, handleAnswer and handleFindSimilar, every exit.
LEMMA ESearchAnswers ==
    ASSUME NEW x, NEW e, NEW claim
    PROVE  /\ Prompt("search", e, E!handleSearch(x, e, claim))
           /\ Prompt("answer", e, E!handleAnswer(x, e, claim))
           /\ Prompt("findSimilar", e, E!handleFindSimilar(x, e, claim))
<1>1. {"search", "answer", "findSimilar"} \subseteq ExaSurfaces
  BY DEF ExaSurfaces
<1>2. Prompt("search", e, E!handleSearch(x, e, claim))
  <2> DEFINE checked == E!Authenticated(x, e) \cup E!validateSearch(x, E!streamPolicy(e))
  <2>1. E!handleSearch(x, e, claim) =
            IF E!Failed(e.validation, checked) THEN E!rejection(e.validation, checked)
            ELSE E!Project(e, claim, checked, "exa.search.ok")
    BY Zenon DEF E!handleSearch
  <2>2. checked = E!Authenticated(x, e) \cup E!validateSearch(x, E!streamPolicy(e))
    OBVIOUS
  <2>3. Plain(E!validateSearch(x, E!streamPolicy(e)))
    BY EChecks
  <2> HIDE DEF checked
  <2> QED
    BY <1>1, <2>1, <2>2, <2>3, ESearches
<1>3. Prompt("answer", e, E!handleAnswer(x, e, claim))
  <2> DEFINE checked == E!Authenticated(x, e) \cup E!validateAnswer(x, E!streamPolicy(e))
  <2>1. E!handleAnswer(x, e, claim) =
            IF E!Failed(e.validation, checked) THEN E!rejection(e.validation, checked)
            ELSE E!Project(e, claim, checked, "exa.answer.ok")
    BY Zenon DEF E!handleAnswer
  <2>2. checked = E!Authenticated(x, e) \cup E!validateAnswer(x, E!streamPolicy(e))
    OBVIOUS
  <2>3. Plain(E!validateAnswer(x, E!streamPolicy(e)))
    BY EChecks
  <2> HIDE DEF checked
  <2> QED
    BY <1>1, <2>1, <2>2, <2>3, ESearches
<1>4. Prompt("findSimilar", e, E!handleFindSimilar(x, e, claim))
  <2> DEFINE checked == E!Authenticated(x, e) \cup E!validateFindSimilarRequest(x)
  <2>1. E!handleFindSimilar(x, e, claim) =
            IF E!Failed(e.validation, checked) THEN E!rejection(e.validation, checked)
            ELSE E!Project(e, claim, checked, "exa.find_similar.ok")
    BY Zenon DEF E!handleFindSimilar
  <2>2. checked = E!Authenticated(x, e) \cup E!validateFindSimilarRequest(x)
    OBVIOUS
  <2>3. Plain(E!validateFindSimilarRequest(x))
    BY EChecks
  <2> HIDE DEF checked
  <2> QED
    BY <1>1, <2>1, <2>2, <2>3, ESearches
<1> QED
  BY <1>2, <1>3, <1>4

\* handleContents, every exit, an unrequested status included.
LEMMA EContentsAnswers ==
    ASSUME NEW x, NEW e, NEW claim, NEW r, r = E!handleContents(x, e, claim)
    PROVE  Prompt("contents", e, r)
<1> DEFINE checked == E!Authenticated(x, e) \cup E!validateContentsRequest(x)
           served == E!Project(e, claim, checked, "exa.contents.ok")
           late == E!When(x.stray, E!Warn("contents.status_unrequested"))
<1>1. Sound(checked) /\ NoField(checked)
  BY EChecked, EChecks
<1>2. r = IF E!Failed(e.validation, checked) THEN E!rejection(e.validation, checked)
          ELSE IF ~ served.eligible THEN served
          ELSE IF ~ x.found
               THEN E!Serve(400, "exa.no_content_found", checked \cup E!Warn("contents.no_content_found"))
          ELSE [served EXCEPT !.findings = @ \cup late]
  BY Zenon DEF E!handleContents
<1>3. Late(late) /\ Late(Warn("contents.no_content_found"))
  BY ESame, LateFindings DEF E!When, AuthCodes, StripCode
<1>4. "contents" \in ExaSurfaces
  BY DEF ExaSurfaces
<1> HIDE DEF checked, late
<1>5. CASE Failed(e.validation, checked)
  BY <1>1, <1>2, <1>4, <1>5, ESame, ERefuses DEF Prompt, Untaken
<1>6. CASE ~ Failed(e.validation, checked)
  <2>1. /\ Prompt("contents", e, served)
        /\ served.eligible => served = Serve(200, "exa.contents.ok", checked)
    BY <1>1, <1>6, EProjects DEF Prompt
  <2> HIDE DEF served
  <2>2. CASE ~ served.eligible
    BY <1>2, <1>6, <2>1, <2>2, ESame
  <2>3. CASE served.eligible /\ ~ x.found
    <3>1. Replies(r, 400, "exa.no_content_found", checked, Warn("contents.no_content_found"))
      BY <1>2, <1>6, <2>3, ESame DEF Replies
    <3> QED
      BY <1>1, <1>3, <1>6, <3>1, ServesPlain DEF Prompt
  <2>4. CASE served.eligible /\ x.found
    <3>1. r = [Serve(200, "exa.contents.ok", checked) EXCEPT !.findings = @ \cup late]
      BY <1>2, <1>6, <2>1, <2>4, ESame
    <3>2. Gives(r, 200, "exa.contents.ok", checked \cup late, "none") /\ r.eligible = TRUE /\ r.claims = TRUE
      BY <3>1 DEF Serve, Answer, Gives, ReplyFields
    <3>3. r.eligible \in BOOLEAN /\ r.claims \in BOOLEAN
      BY <3>2
    <3>4. r.job = "none"
      BY <3>2 DEF Gives
    <3>5. Blameless(r) /\ Explains("contents", e, r) /\ Heeds(e, r)
      BY <1>1, <1>3, <1>6, <3>2, <3>3, Serves
    <3> QED
      BY <3>4, <3>5 DEF Prompt
  <2> QED
    BY <2>2, <2>3, <2>4
<1> QED
  BY <1>5, <1>6

\* handleAgentRunCreate, every exit: it mints or leaves the jobs alone.
LEMMA ERunCreateAnswers ==
    ASSUME NEW x, NEW e, NEW mint, NEW r, r = E!handleAgentRunCreate(x, e, mint)
    PROVE  Blameless(r) /\ Explains("run", e, r) /\ Heeds(e, r) /\ r.job \in {"none", "mint"}
<1> DEFINE checked == E!Authenticated(x, e) \cup E!validateAgentRunCreate(x)
           code == IF mint = "limit" THEN "job.limit_reached" ELSE "job.id_collision"
<1>1. Sound(checked) /\ NoField(checked)
  BY EChecked, EChecks
<1>2. r = IF E!Failed(e.validation, checked) THEN E!rejection(e.validation, checked)
          ELSE IF ~ e.declared
               THEN E!rejection(e.validation, checked \cup E!Fail("scenario.no_matching_turn"))
          ELSE IF mint = "ok" THEN [E!Serve(200, "created", checked) EXCEPT !.job = "mint"]
          ELSE E!Spent(E!rejection(e.validation, checked \cup E!Fail(code)))
  BY Zenon DEF E!handleAgentRunCreate
<1>3. "run" \in ExaSurfaces
  BY DEF ExaSurfaces
<1>4. code \in AfterClaim /\ "scenario.no_matching_turn" \in AfterClaim
  BY DEF AfterClaim
<1>5. \A c \in AfterClaim : ~ Failed(e.validation, checked)
                                => E!classify(e.validation, checked \cup Fail(c)) # 401
  BY <1>1, LateFindings, ELateStatus DEF AuthCodes, AfterClaim, StripCode
<1> HIDE DEF checked, code
<1>6. CASE Failed(e.validation, checked)
  BY <1>1, <1>2, <1>3, <1>6, ESame, ERefuses DEF Untaken
<1>7. CASE ~ Failed(e.validation, checked) /\ ~ e.declared
  <2> DEFINE st == E!classify(e.validation, checked \cup Fail("scenario.no_matching_turn"))
  <2>1. r = Answer(st, "error", checked \cup Fail("scenario.no_matching_turn"))
    BY <1>2, <1>7, ESame DEF E!rejection
  <2>2. st # 401
    BY <1>4, <1>5, <1>7
  <2> HIDE DEF st
  <2>3. Blameless(r) /\ Explains("run", e, r) /\ Heeds(e, r) /\ r.job = "none"
    BY <1>1, <1>4, <1>7, <2>1, <2>2, SpendsLate
  <2> QED
    BY <2>3
<1>8. CASE ~ Failed(e.validation, checked) /\ e.declared /\ mint = "ok"
  <2>1. ServedJob(r, 200, "created", checked, "mint")
    BY <1>2, <1>8, ESame DEF ServedJob
  <2>2. Blameless(r) /\ Explains("run", e, r) /\ Heeds(e, r) /\ r.job = "mint"
    BY <1>1, <1>8, <2>1, ServesJob
  <2> QED
    BY <2>2
<1>9. CASE ~ Failed(e.validation, checked) /\ e.declared /\ mint # "ok"
  <2> DEFINE st == E!classify(e.validation, checked \cup Fail(code))
  <2>1. r = Spent(Answer(st, "error", checked \cup Fail(code)))
    BY <1>2, <1>9, ESame DEF E!rejection
  <2>2. st # 401
    BY <1>4, <1>5, <1>9
  <2> HIDE DEF st
  <2>3. Blameless(r) /\ Explains("run", e, r) /\ Heeds(e, r) /\ r.job = "none"
    BY <1>1, <1>4, <1>9, <2>1, <2>2, SpendsLate
  <2> QED
    BY <2>3
<1> QED
  BY <1>6, <1>7, <1>8, <1>9

\* A run that is not this entry's is a 404 with two warnings.
LEMMA ENotFound ==
    ASSUME NEW s, NEW e, NEW F, Sound(F), ~ Failed(e.validation, F), NEW how,
           NEW r, r = E!runNotFound(F \cup E!ResolveJob(how))
    PROVE  Handled(s, e, r, how)
<1> DEFINE L == ResolveJob(how) \cup Warn("exa.agent_run.not_found")
<1>1. Late(L)
  BY ResolveIsLate, LateFindings DEF Late, AuthCodes, StripCode
<1>2. r = Answer(404, "error", F \cup L)
  <2>1. r = Answer(404, "error", (F \cup ResolveJob(how)) \cup Warn("exa.agent_run.not_found"))
    BY ESame DEF E!runNotFound
  <2>2. (F \cup ResolveJob(how)) \cup Warn("exa.agent_run.not_found") = F \cup L
    OBVIOUS
  <2> QED
    BY <2>1, <2>2
<1> HIDE DEF L
<1>3. Blameless(r) /\ Explains(s, e, r) /\ Untaken(r)
  BY <1>1, <1>2, TurnsAway
<1> QED
  BY <1>3 DEF Handled, Untaken

\* handleAgentRunPoll, every exit: it polls a job that it resolved, or none.
LEMMA ERunPollAnswers ==
    ASSUME NEW x, NEW e, NEW how, NEW snapshot, snapshot # "error",
           NEW r, r = E!handleAgentRunPoll(x, e, how, snapshot)
    PROVE  Handled("run", e, r, how)
<1> DEFINE checked == E!Authenticated(x, e)
           st == E!classify(e.validation, checked \cup Fail("scenario.no_matching_turn"))
<1>1. Sound(checked) /\ NoField(checked)
  BY EArrives
<1>2. r = IF E!Failed(e.validation, checked) THEN E!rejection(e.validation, checked)
          ELSE IF how # "resolved" THEN E!runNotFound(checked \cup E!ResolveJob(how))
          ELSE IF snapshot = "miss"
               THEN [E!Spent(E!rejection(e.validation, checked \cup E!Fail("scenario.no_matching_turn")))
                        EXCEPT !.job = "poll"]
          ELSE [E!Serve(200, snapshot, checked) EXCEPT !.job = "poll"]
  BY Zenon DEF E!handleAgentRunPoll
<1>3. "run" \in ExaSurfaces
  BY DEF ExaSurfaces
<1> HIDE DEF checked
<1>4. CASE Failed(e.validation, checked)
  BY <1>1, <1>2, <1>3, <1>4, ESame, ERefuses DEF Handled, Untaken
<1>5. CASE ~ Failed(e.validation, checked) /\ how # "resolved"
  BY <1>1, <1>2, <1>5, ESame, ENotFound
<1>6. CASE ~ Failed(e.validation, checked) /\ how = "resolved" /\ snapshot = "miss"
  <2>1. LatePoll(r, st, checked, "scenario.no_matching_turn")
    BY <1>2, <1>6, ESame DEF LatePoll, E!rejection
  <2>2. st # 401
    BY <1>1, <1>6, LateFindings, ELateStatus DEF AuthCodes, StripCode
  <2> HIDE DEF st
  <2>3. "scenario.no_matching_turn" \in AfterClaim
    BY DEF AfterClaim
  <2>4. Blameless(r) /\ Explains("run", e, r) /\ r.job = "poll"
    BY <1>1, <1>6, <2>1, <2>2, <2>3, PollsLate
  <2> QED
    BY <1>6, <2>4 DEF Handled
<1>7. CASE ~ Failed(e.validation, checked) /\ how = "resolved" /\ snapshot # "miss"
  <2>1. ServedJob(r, 200, snapshot, checked, "poll")
    BY <1>2, <1>7, ESame DEF ServedJob
  <2>2. Blameless(r) /\ Explains("run", e, r) /\ r.job = "poll"
    BY <1>1, <1>7, <2>1, ServesJob
  <2> QED
    BY <1>7, <2>2 DEF Handled
<1> QED
  BY <1>4, <1>5, <1>6, <1>7

\* handleAgentRunCancel, every exit: it cancels a job that it resolved, or none.
LEMMA ERunCancelAnswers ==
    ASSUME NEW x, NEW e, NEW how, NEW outcome \in {"failed", "recorded", "uncommitted", "terminal", "already"},
           NEW r, r = E!handleAgentRunCancel(x, e, how, outcome)
    PROVE  Handled("run", e, r, how)
<1> DEFINE checked == E!Authenticated(x, e)
           st == E!classify(e.validation, checked \cup Fail("job.cancel_unscripted"))
           labels == [recorded |-> "cancel.accepted", uncommitted |-> "cancel.unrecorded",
                      terminal |-> "cancel.terminal", already |-> "cancel.repeated"]
           label == labels[outcome]
           job == IF outcome = "recorded" THEN "cancel" ELSE "none"
<1>1. Sound(checked) /\ NoField(checked)
  BY EArrives
<1>2. r = IF E!Failed(e.validation, checked) THEN E!rejection(e.validation, checked)
          ELSE IF how # "resolved" THEN E!runNotFound(checked \cup E!ResolveJob(how))
          ELSE IF outcome = "failed"
               THEN E!Spent(E!rejection(e.validation, checked \cup E!Fail("job.cancel_unscripted")))
          ELSE [E!Serve(200, label, checked) EXCEPT !.job = job]
  BY Zenon DEF E!handleAgentRunCancel
<1>3. "run" \in ExaSurfaces
  BY DEF ExaSurfaces
<1>4. outcome # "failed" => label # "error"
  OBVIOUS
<1>5. job \in {"none", "cancel"}
  OBVIOUS
<1> HIDE DEF checked, labels, label, job
<1>6. CASE Failed(e.validation, checked)
  BY <1>1, <1>2, <1>3, <1>6, ESame, ERefuses DEF Handled, Untaken
<1>7. CASE ~ Failed(e.validation, checked) /\ how # "resolved"
  BY <1>1, <1>2, <1>7, ESame, ENotFound
<1>8. CASE ~ Failed(e.validation, checked) /\ how = "resolved" /\ outcome = "failed"
  <2>1. r = Spent(Answer(st, "error", checked \cup Fail("job.cancel_unscripted")))
    BY <1>2, <1>8, ESame DEF E!rejection
  <2>2. st # 401
    BY <1>1, <1>8, LateFindings, ELateStatus DEF AuthCodes, StripCode
  <2> HIDE DEF st
  <2>3. "job.cancel_unscripted" \in AfterClaim
    BY DEF AfterClaim
  <2>4. Blameless(r) /\ Explains("run", e, r) /\ r.job = "none"
    BY <1>1, <1>8, <2>1, <2>2, <2>3, SpendsLate
  <2> QED
    BY <1>8, <2>4 DEF Handled
<1>9. CASE ~ Failed(e.validation, checked) /\ how = "resolved" /\ outcome # "failed"
  <2>1. ServedJob(r, 200, label, checked, job)
    BY <1>2, <1>9, ESame DEF ServedJob
  <2>2. Blameless(r) /\ Explains("run", e, r) /\ r.job = job
    BY <1>1, <1>4, <1>9, <2>1, ServesJob
  <2> QED
    BY <1>5, <1>9, <2>2 DEF Handled
<1> QED
  BY <1>6, <1>7, <1>8, <1>9

\* handleAgentRunHead, every exit: it touches no job.
LEMMA ERunHeadAnswers ==
    ASSUME NEW x, NEW e, NEW how, NEW r, r = E!handleAgentRunHead(x, e, how)
    PROVE  Handled("run", e, r, how)
<1> DEFINE checked == E!Authenticated(x, e)
           st == IF how = "resolved" THEN 200 ELSE 404
<1>1. Sound(checked) /\ NoField(checked)
  BY EArrives
<1>2. r = IF E!Failed(e.validation, checked) THEN E!rejection(e.validation, checked)
          ELSE E!Answer(st, "head", checked \cup E!ResolveJob(how))
  BY Zenon DEF E!handleAgentRunHead
<1>3. "run" \in ExaSurfaces /\ st # 401
  BY DEF ExaSurfaces
<1> HIDE DEF checked, st
<1>4. CASE Failed(e.validation, checked)
  BY <1>1, <1>2, <1>3, <1>4, ESame, ERefuses DEF Handled, Untaken
<1>5. CASE ~ Failed(e.validation, checked)
  <2>1. r = Answer(st, "head", checked \cup ResolveJob(how))
    BY <1>2, <1>5, ESame
  <2>2. Blameless(r) /\ Explains("run", e, r) /\ Untaken(r)
    BY <1>1, <1>3, <1>5, <2>1, ResolveIsLate, ShowsOnly
  <2> QED
    BY <2>2 DEF Handled, Untaken
<1> QED
  BY <1>4, <1>5

-----------------------------------------------------------------------------
(* Tavily *)

\* Tavily builds its answers with the framework's helpers.
LEMMA TSame ==
    /\ \A p, F : T!Failed(p, F) <=> Failed(p, F)
    /\ \A p, F : T!ErrorCodes(p, F) = ErrorCodes(p, F)
    /\ \A st, l, F : T!Answer(st, l, F) = Answer(st, l, F) /\ T!Serve(st, l, F) = Serve(st, l, F)
    /\ \A a : T!Spent(a) = Spent(a)
    /\ \A c : T!Fail(c) = Fail(c) /\ T!FailAt(c) = FailAt(c) /\ T!Warn(c) = Warn(c)
    /\ \A how : T!ResolveJob(how) = ResolveJob(how)
<1>1. /\ \A p, F : T!Failed(p, F) <=> Failed(p, F)
      /\ \A p, F : T!ErrorCodes(p, F) = ErrorCodes(p, F)
  BY DEF T!Failed, T!ErrorCodes, T!Errors, T!effectiveSeverity, Failed, ErrorCodes, Errors, effectiveSeverity
<1>2. \A st, l, F : T!Answer(st, l, F) = Answer(st, l, F)
  BY Zenon DEF T!Answer, Answer
<1>3. \A st, l, F : T!Serve(st, l, F) = Serve(st, l, F)
  BY Zenon DEF T!Serve, Serve, T!Answer, Answer
<1>4. \A a : T!Spent(a) = Spent(a)
  BY Zenon DEF T!Spent, Spent
<1>5. \A c : T!Fail(c) = Fail(c) /\ T!FailAt(c) = FailAt(c) /\ T!Warn(c) = Warn(c)
  BY DEF T!Fail, T!FailAt, T!Warn, T!Finding, Fail, FailAt, Warn, Finding
<1>6. \A how : T!ResolveJob(how) = ResolveJob(how)
  BY DEF T!ResolveJob, ResolveJob, T!When, When, T!Warn, T!Finding, Warn, Finding
<1> QED
  BY <1>1, <1>2, <1>3, <1>4, <1>5, <1>6

\* Tavily reports a rejected credential as a mismatch.
NoRejected(findings) == \A f \in findings : f.code # "auth.rejected"

\* Tavily's credentials and namespace checks come before the claim.
LEMMA TArrives ==
    ASSUME NEW x
    PROVE  /\ Sound(T!Arrive(x)) /\ NoRejected(T!Arrive(x))
           /\ \A policy, creds : Sound(T!checkAuth(x, policy, creds)) /\ NoRejected(T!checkAuth(x, policy, creds))
<1>1. Sound(T!Arrive(x)) /\ NoRejected(T!Arrive(x))
  BY DEF T!Arrive, T!readRequest, T!When, T!Fail, T!Finding, Sound, NoRejected, LateCodes, StripCode
<1>2. ASSUME NEW policy, NEW creds
      PROVE  Sound(T!checkAuth(x, policy, creds)) /\ NoRejected(T!checkAuth(x, policy, creds))
  <2>1. T!checkAuth(x, policy, creds) \subseteq
            T!Warn("auth.wrong_header") \cup T!Warn("auth.wrong_placement")
                \cup T!FailAt("auth.mismatch") \cup T!FailAt("auth.missing")
    BY Zenon DEF T!checkAuth, T!When
  <2> QED
    BY <2>1 DEF T!FailAt, T!Warn, T!Finding, Sound, NoRejected, LateCodes, StripCode
<1> QED
  BY <1>1, <1>2

\* The checks of Tavily's requests say nothing about credentials.
LEMMA TChecks ==
    ASSUME NEW x
    PROVE  /\ Plain(T!parseSearchRequest(x)) /\ Plain(T!parseExtractRequest(x))
           /\ Plain(T!validateResearchCreate(x))
<1>1. \A key, code, missing :
          code \notin LateCodes \cup {"auth.missing", "auth.mismatch", "auth.rejected", "namespace.limit_exceeded"}
              => Plain(T!Required(x, key, code, missing))
  BY DEF T!Required, T!When, T!FailAt, T!Finding, Plain
<1>2. Plain(T!checkContentType(x)) /\ Plain(T!warnAPIKeyInBody(x)) /\ Plain(T!warnRemovedAndCredentialFields(x))
      /\ \A known : Plain(T!warnUnknownFields(x, known))
  BY DEF T!checkContentType, T!warnAPIKeyInBody, T!warnRemovedAndCredentialFields, T!warnUnknownFields,
         T!When, T!Warn, T!Finding, Plain, LateCodes, StripCode
<1>3. \A key : key \notin LateCodes \cup {"auth.missing", "auth.mismatch", "auth.rejected", "namespace.limit_exceeded"}
          => /\ Plain(T!parseEnum(x, key)) /\ Plain(T!parseInt(x, key)) /\ Plain(T!parseOption(x, key))
             /\ Plain(T!parseBool(x, key)) /\ Plain(T!parseString(x, key)) /\ Plain(T!parseDomains(x, key))
             /\ Plain(T!parseFloatRange(x, key))
  BY DEF T!parseEnum, T!parseInt, T!parseOption, T!parseBool, T!parseString, T!parseDomains,
         T!parseFloatRange, T!When, T!FailAt, T!Finding, Plain
<1>4. Plain(T!parseSearchRequest(x))
  <2> DEFINE fields == T!warnUnknownFields(x, T!searchFields) \cup T!warnRemovedAndCredentialFields(x)
                           \cup T!parseEnum(x, "topic") \cup T!parseInt(x, "max_results")
                           \cup T!parseOption(x, "include_answer") \cup T!parseBool(x, "include_images")
                           \cup T!parseString(x, "country") \cup T!parseDomains(x, "include_domains")
                           \cup T!When(T!Is(x, "country", "ok") /\ T!Is(x, "topic", "news"), T!Warn("country.topic"))
  <2>1. Plain(T!When(T!Is(x, "country", "ok") /\ T!Is(x, "topic", "news"), T!Warn("country.topic")))
    BY DEF T!When, T!Warn, T!Finding, Plain, LateCodes, StripCode
  <2>2. /\ Plain(T!parseEnum(x, "topic")) /\ Plain(T!parseInt(x, "max_results"))
        /\ Plain(T!parseOption(x, "include_answer")) /\ Plain(T!parseBool(x, "include_images"))
        /\ Plain(T!parseString(x, "country")) /\ Plain(T!parseDomains(x, "include_domains"))
    BY <1>3 DEF LateCodes, StripCode
  <2>3. Plain(fields)
    BY <1>2, <2>1, <2>2 DEF Plain
  <2>4. Plain(T!parseQuery(x))
    BY <1>1 DEF T!parseQuery, LateCodes, StripCode
  <2>5. T!parseSearchRequest(x) = T!checkContentType(x) \cup T!parseQuery(x)
                                      \cup (IF x.body # "object" THEN {} ELSE fields)
    BY Zenon DEF T!parseSearchRequest
  <2> HIDE DEF fields
  <2> QED
    BY <1>2, <2>3, <2>4, <2>5 DEF Plain
<1>5. Plain(T!parseExtractRequest(x))
  <2> DEFINE fields == T!warnUnknownFields(x, T!extractFields) \cup T!warnAPIKeyInBody(x)
                           \cup T!parseString(x, "query")
                           \cup T!parseEnum(x, "extract_depth") \cup T!parseInt(x, "chunks_per_source")
                           \cup T!parseBool(x, "include_favicon") \cup T!parseFloatRange(x, "timeout")
  <2>1. /\ Plain(T!parseString(x, "query")) /\ Plain(T!parseEnum(x, "extract_depth"))
        /\ Plain(T!parseInt(x, "chunks_per_source")) /\ Plain(T!parseBool(x, "include_favicon"))
        /\ Plain(T!parseFloatRange(x, "timeout"))
    BY <1>3 DEF LateCodes, StripCode
  <2>2. Plain(fields)
    BY <1>2, <2>1 DEF Plain
  <2>3. Plain(T!parseExtractURLs(x))
    <3>1. Plain(T!Required(x, "urls", "urls.missing", {"blank", "none"}))
      BY <1>1 DEF LateCodes, StripCode
    <3>2. Plain(T!When(T!Has(x, "urls") /\ x.f["urls"] \in {"bad", "item"}, T!FailAt("urls.invalid")))
      BY DEF T!When, T!FailAt, T!Finding, Plain, LateCodes, StripCode
    <3> QED
      BY <3>1, <3>2, PlainUnion DEF T!parseExtractURLs
  <2>4. T!parseExtractRequest(x) = T!checkContentType(x) \cup T!parseExtractURLs(x)
                                       \cup (IF x.body # "object" THEN {} ELSE fields)
    BY Zenon DEF T!parseExtractRequest
  <2> HIDE DEF fields
  <2> QED
    BY <1>2, <2>2, <2>3, <2>4 DEF Plain
<1>6. Plain(T!validateResearchCreate(x))
  BY DEF T!validateResearchCreate, T!warnAPIKeyInBody, T!When, T!FailAt, T!Warn, T!Finding, Plain, LateCodes, StripCode
<1> QED
  BY <1>4, <1>5, <1>6

\* The status errorStatus gives is the one the errors call for.
LEMMA TStatus ==
    ASSUME NEW s, s \notin ExaSurfaces, NEW p, NEW F, NoRejected(F)
    PROVE  StatusOK(s, p, T!errorStatus(p, F), F)
<1>1. "auth.rejected" \notin ErrorCodes(p, F)
  BY DEF NoRejected, ErrorCodes, Errors
<1> QED
  BY <1>1, TSame DEF T!errorStatus, StatusOK, AuthCodes

\* A late finding never makes Tavily answer 401.
LEMMA TLateStatus ==
    ASSUME NEW p, NEW F, ~ Failed(p, F), NEW L, Late(L)
    PROVE  T!errorStatus(p, F \cup L) # 401
<1>1. \A c \in ErrorCodes(p, F \cup L) : c \notin AuthCodes
  BY LateErrors
<1> QED
  BY <1>1, TSame DEF T!errorStatus, AuthCodes

\* Tavily's refusal is an error when and only when the findings fail the request.
LEMMA TRefuses ==
    ASSUME NEW s, s \notin ExaSurfaces, NEW e, NEW F, Sound(F), NoRejected(F),
           NEW r, r = T!errorResponse(e.validation, F)
    PROVE  Blameless(r) /\ Explains(s, e, r) /\ (Failed(e.validation, F) => Heeds(e, r)) /\ Untaken(r)
<1> DEFINE st == T!errorStatus(e.validation, F)
<1>1. StatusOK(s, e.validation, st, F)
  BY TStatus
<1>2. r = Answer(st, "error", F)
  BY TSame DEF T!errorResponse
<1> HIDE DEF st
<1>3. Gives(r, st, "error", F, "none") /\ r.eligible = FALSE /\ r.claims = FALSE
  BY <1>2 DEF Answer, Gives, ReplyFields
<1> QED
  BY <1>1, <1>3, Refuses

\* selectProjection answers, or refuses what it has claimed.
Projected(r, F, l) ==
    \/ r = Serve(200, l, F)
    \/ \E st : st # 401 /\ r = Spent(Answer(st, "error", F \cup Fail("scenario.no_matching_turn")))

\* selectProjection serves the turn, or refuses for want of one.
LEMMA TProjects ==
    ASSUME NEW e, NEW F, ~ Failed(e.validation, F), NEW claim, NEW l, NEW r,
           r = T!selectProjection(e, claim, F, l)
    PROVE  Projected(r, F, l)
<1> DEFINE st == T!errorStatus(e.validation, F \cup Fail("scenario.no_matching_turn"))
<1>1. st # 401
  BY LateFindings, TLateStatus DEF AuthCodes, StripCode
<1>2. r = Serve(200, l, F) \/ r = Spent(Answer(st, "error", F \cup Fail("scenario.no_matching_turn")))
  BY TSame DEF T!selectProjection, T!errorResponse
<1> QED
  BY <1>1, <1>2 DEF Projected

\* Tavily's handleSearch, every exit.
LEMMA TSearchAnswers ==
    ASSUME NEW x, NEW e, NEW claim, NEW r, r = T!handleSearch(x, e, claim)
    PROVE  Prompt("tavily", e, r)
<1> DEFINE checked == T!Arrive(x) \cup T!parseSearchRequest(x) \cup T!checkAuth(x, T!AuthPolicy(e, ""), {})
<1>1. Sound(checked) /\ NoRejected(checked)
  BY TArrives, TChecks, PlainIsLate DEF Sound, NoRejected, Plain
<1>2. r = IF T!Failed(e.validation, checked) THEN T!errorResponse(e.validation, checked)
          ELSE T!selectProjection(e, claim, checked, "tavily.search.ok")
  BY Zenon DEF T!handleSearch
<1>3. "tavily" \notin ExaSurfaces
  BY DEF ExaSurfaces
<1> HIDE DEF checked
<1>4. CASE Failed(e.validation, checked)
  BY <1>1, <1>2, <1>3, <1>4, TSame, TRefuses DEF Prompt, Untaken
<1>5. CASE ~ Failed(e.validation, checked) /\ r = Serve(200, "tavily.search.ok", checked)
  <2>1. Gives(r, 200, "tavily.search.ok", checked, "none") /\ r.eligible = TRUE /\ r.claims = TRUE
    BY <1>5 DEF Answer, Serve, Gives, ReplyFields
  <2>2. r.eligible \in BOOLEAN /\ r.claims \in BOOLEAN
    BY <2>1
  <2>3. r.job = "none"
    BY <2>1 DEF Gives
  <2>4. Blameless(r) /\ Explains("tavily", e, r) /\ Heeds(e, r)
    BY <1>1, <1>5, <2>1, <2>2, ServesChecked
  <2> QED
    BY <2>3, <2>4 DEF Prompt
<1>6. CASE ~ Failed(e.validation, checked) /\ r # Serve(200, "tavily.search.ok", checked)
  <2>1. r = T!selectProjection(e, claim, checked, "tavily.search.ok")
    BY <1>2, <1>6, TSame
  <2>5. Projected(r, checked, "tavily.search.ok")
    BY <1>6, <2>1, TProjects
  <2>2. PICK st : st # 401 /\ r = Spent(Answer(st, "error", checked \cup Fail("scenario.no_matching_turn")))
    BY <1>6, <2>5 DEF Projected
  <2>3. "scenario.no_matching_turn" \in AfterClaim
    BY DEF AfterClaim
  <2>4. Blameless(r) /\ Explains("tavily", e, r) /\ Heeds(e, r) /\ r.job = "none"
    BY <1>1, <1>6, <2>2, <2>3, SpendsLate
  <2> QED
    BY <2>4 DEF Prompt
<1> QED
  BY <1>4, <1>5, <1>6

\* handleExtract, every exit, an unrequested failure included.
LEMMA TExtractAnswers ==
    ASSUME NEW x, NEW e, NEW claim, NEW r, r = T!handleExtract(x, e, claim)
    PROVE  Prompt("extract", e, r)
<1> DEFINE checked == T!Arrive(x) \cup T!parseExtractRequest(x)
                          \cup T!checkAuth(x, T!AuthPolicy(e, ""), T!extractPlacements)
           served == T!selectProjection(e, claim, checked, "tavily.extract.ok")
           late == T!When(served.eligible /\ x.stray, T!Warn("extract.failure_unrequested"))
<1>1. Sound(checked) /\ NoRejected(checked)
  BY TArrives, TChecks, PlainIsLate DEF Sound, NoRejected, Plain
<1>2. r = IF T!Failed(e.validation, checked) THEN T!errorResponse(e.validation, checked)
          ELSE [served EXCEPT !.findings = @ \cup late]
  BY Zenon DEF T!handleExtract
<1>3. "extract" \notin ExaSurfaces
  BY DEF ExaSurfaces
<1>4. Late(late) /\ (~ served.eligible => late = {})
  BY TSame, LateFindings DEF T!When, AuthCodes, StripCode
<1> HIDE DEF checked, served, late
<1>5. CASE Failed(e.validation, checked)
  BY <1>1, <1>2, <1>3, <1>5, TSame, TRefuses DEF Prompt, Untaken
<1>6. CASE ~ Failed(e.validation, checked) /\ served = Serve(200, "tavily.extract.ok", checked)
  <2>1. r = [Serve(200, "tavily.extract.ok", checked) EXCEPT !.findings = @ \cup late]
    BY <1>2, <1>6, TSame
  <2>2. Gives(r, 200, "tavily.extract.ok", checked \cup late, "none") /\ r.eligible = TRUE /\ r.claims = TRUE
    BY <2>1 DEF Answer, Serve, Gives, ReplyFields
  <2>3. r.eligible \in BOOLEAN /\ r.claims \in BOOLEAN
    BY <2>2
  <2>4. r.job = "none"
    BY <2>2 DEF Gives
  <2>5. Blameless(r) /\ Explains("extract", e, r) /\ Heeds(e, r)
    BY <1>1, <1>4, <1>6, <2>2, <2>3, Serves
  <2> QED
    BY <2>4, <2>5 DEF Prompt
<1>7. CASE ~ Failed(e.validation, checked) /\ served # Serve(200, "tavily.extract.ok", checked)
  <2> DEFINE L == Fail("scenario.no_matching_turn")
  <2>9. Projected(served, checked, "tavily.extract.ok")
    BY <1>7, TProjects DEF served
  <2>1. PICK st : st # 401 /\ served = Spent(Answer(st, "error", checked \cup L))
    BY <1>7, <2>9 DEF Projected
  <2>2. Late(L) /\ HasFinding(L, AfterClaim)
    BY LateFindings DEF AuthCodes, StripCode, AfterClaim
  <2> HIDE DEF L
  <2>3. ~ served.eligible
    BY <2>1 DEF Spent, Answer
  <2>4. r = [Spent(Answer(st, "error", checked \cup L)) EXCEPT !.findings = @ \cup {}]
    BY <1>2, <1>4, <1>7, <2>1, <2>3, TSame
  <2>5. Gives(r, st, "error", checked \cup L, "none") /\ r.eligible = FALSE /\ r.claims = TRUE
    BY <2>4 DEF Answer, Spent, Gives, ReplyFields
  <2>6. r.claims \in BOOLEAN
    BY <2>5
  <2>7. r.job = "none"
    BY <2>5 DEF Gives
  <2>8. Blameless(r) /\ Explains("extract", e, r) /\ Heeds(e, r)
    BY <1>1, <1>7, <2>1, <2>2, <2>5, <2>6, ComesTooLate
  <2> QED
    BY <2>7, <2>8 DEF Prompt
<1> QED
  BY <1>5, <1>6, <1>7

\* handleResearchCreate, every exit: it mints or leaves the jobs alone.
LEMMA ResearchCreateAnswers ==
    ASSUME NEW x, NEW e, NEW mint, NEW r, r = T!handleResearchCreate(x, e, mint)
    PROVE  Blameless(r) /\ Explains("research", e, r) /\ Heeds(e, r) /\ r.job \in {"none", "mint"}
<1> DEFINE checked == T!Arrive(x) \cup T!checkAuth(x, T!AuthPolicy(e, ""), {}) \cup T!validateResearchCreate(x)
           code == IF mint = "limit" THEN "job.limit_reached" ELSE "job.id_collision"
           st == T!errorStatus(e.validation, checked \cup Fail(code))
<1>1. Sound(checked) /\ NoRejected(checked)
  BY TArrives, TChecks, PlainIsLate DEF Sound, NoRejected, Plain
<1>2. r = IF T!Failed(e.validation, checked) THEN T!errorResponse(e.validation, checked)
          ELSE IF mint = "ok" THEN [T!Serve(201, "created", checked) EXCEPT !.job = "mint"]
          ELSE T!Spent(T!errorResponse(e.validation, checked \cup T!Fail(code)))
  BY Zenon DEF T!handleResearchCreate
<1>3. "research" \notin ExaSurfaces
  BY DEF ExaSurfaces
<1>4. code \in AfterClaim
  BY DEF AfterClaim
<1> HIDE DEF checked, code
<1>5. CASE Failed(e.validation, checked)
  BY <1>1, <1>2, <1>3, <1>5, TSame, TRefuses DEF Untaken
<1>6. CASE ~ Failed(e.validation, checked) /\ mint = "ok"
  <2>1. ServedJob(r, 201, "created", checked, "mint")
    BY <1>2, <1>6, TSame DEF ServedJob
  <2>2. Blameless(r) /\ Explains("research", e, r) /\ Heeds(e, r) /\ r.job = "mint"
    BY <1>1, <1>6, <2>1, ServesJob
  <2> QED
    BY <2>2
<1>7. CASE ~ Failed(e.validation, checked) /\ mint # "ok"
  <2>1. r = Spent(Answer(st, "error", checked \cup Fail(code)))
    BY <1>2, <1>7, TSame DEF T!errorResponse
  <2>2. st # 401
    BY <1>4, <1>7, LateFindings, TLateStatus DEF AuthCodes, AfterClaim, StripCode
  <2> HIDE DEF st
  <2>3. Blameless(r) /\ Explains("research", e, r) /\ Heeds(e, r) /\ r.job = "none"
    BY <1>1, <1>4, <1>7, <2>1, <2>2, SpendsLate
  <2> QED
    BY <2>3
<1> QED
  BY <1>5, <1>6, <1>7

\* handleResearchPoll, every exit: it polls a job that it resolved, or none.
LEMMA ResearchPollAnswers ==
    ASSUME NEW x, NEW e, NEW how, NEW claim, T!selectResearchProjection(e, claim) # "error",
           NEW r, r = T!handleResearchPoll(x, e, how, claim)
    PROVE  Handled("research", e, r, how)
<1> DEFINE checked == T!Arrive(x) \cup T!checkAuth(x, T!AuthPolicy(e, ""), {"authorization"})
           snapshot == T!selectResearchProjection(e, claim)
           st == T!errorStatus(e.validation, checked \cup Fail("scenario.no_matching_turn"))
<1>1. Sound(checked) /\ NoRejected(checked)
  BY TArrives DEF Sound, NoRejected
<1>2. r = IF T!Failed(e.validation, checked) THEN T!errorResponse(e.validation, checked)
          ELSE IF how # "resolved"
               THEN T!Answer(404, "error", checked \cup T!ResolveJob(how) \cup T!Warn("research.not_found"))
          ELSE IF snapshot = "miss"
               THEN T!Spent(T!errorResponse(e.validation, checked \cup T!Fail("scenario.no_matching_turn")))
          ELSE T!Serve(T!HTTPStatus(snapshot), snapshot, checked)
  BY Zenon DEF T!handleResearchPoll
<1>3. "research" \notin ExaSurfaces /\ snapshot # "error"
  BY DEF ExaSurfaces
<1> HIDE DEF checked, snapshot
<1>4. CASE Failed(e.validation, checked)
  BY <1>1, <1>2, <1>3, <1>4, TSame, TRefuses DEF Handled, Untaken
<1>5. CASE ~ Failed(e.validation, checked) /\ how # "resolved"
  <2> DEFINE L == ResolveJob(how) \cup Warn("research.not_found")
  <2>1. r = Answer(404, "error", (checked \cup ResolveJob(how)) \cup Warn("research.not_found"))
    BY <1>2, <1>5, TSame
  <2>2. (checked \cup ResolveJob(how)) \cup Warn("research.not_found") = checked \cup L
    OBVIOUS
  <2>3. Late(L)
    BY ResolveIsLate, LateFindings DEF Late, AuthCodes, StripCode
  <2>4. r = Answer(404, "error", checked \cup L)
    BY <2>1, <2>2
  <2> HIDE DEF L
  <2>5. Blameless(r) /\ Explains("research", e, r) /\ Untaken(r)
    BY <1>1, <1>5, <2>3, <2>4, TurnsAway
  <2> QED
    BY <2>5 DEF Handled, Untaken
<1>6. CASE ~ Failed(e.validation, checked) /\ how = "resolved" /\ snapshot = "miss"
  <2>1. r = Spent(Answer(st, "error", checked \cup Fail("scenario.no_matching_turn")))
    BY <1>2, <1>6, TSame DEF T!errorResponse
  <2>2. st # 401
    BY <1>6, LateFindings, TLateStatus DEF AuthCodes, StripCode
  <2> HIDE DEF st
  <2>3. "scenario.no_matching_turn" \in AfterClaim
    BY DEF AfterClaim
  <2>4. Blameless(r) /\ Explains("research", e, r) /\ r.job = "none"
    BY <1>1, <1>6, <2>1, <2>2, <2>3, SpendsLate
  <2> QED
    BY <1>6, <2>4 DEF Handled
<1>7. CASE ~ Failed(e.validation, checked) /\ how = "resolved" /\ snapshot # "miss"
  <2> DEFINE status == T!HTTPStatus(snapshot)
  <2>1. r = Serve(status, snapshot, checked)
    BY <1>2, <1>7, TSame
  <2>2. status # 401
    BY DEF T!HTTPStatus
  <2> HIDE DEF status
  <2>3. Replies(r, status, snapshot, checked, {}) /\ Late({})
    BY <2>1, LateFindings DEF Replies
  <2>4. Blameless(r) /\ Explains("research", e, r) /\ r.job = "none"
    BY <1>1, <1>3, <1>7, <2>2, <2>3, ServesPlain
  <2> QED
    BY <1>7, <2>4 DEF Handled
<1> QED
  BY <1>4, <1>5, <1>6, <1>7

\* handleResearchHead, every exit: it touches no job.
LEMMA ResearchHeadAnswers ==
    ASSUME NEW x, NEW e, NEW how, NEW r, r = T!handleResearchHead(x, e, how)
    PROVE  Handled("research", e, r, how)
<1> DEFINE checked == T!Arrive(x) \cup T!checkAuth(x, T!AuthPolicy(e, ""), {"authorization"})
           st == IF how = "resolved" THEN 200 ELSE 404
<1>1. Sound(checked) /\ NoRejected(checked)
  BY TArrives DEF Sound, NoRejected
<1>2. r = IF T!Failed(e.validation, checked) THEN T!errorResponse(e.validation, checked)
          ELSE T!Answer(st, "head", checked \cup T!ResolveJob(how))
  BY Zenon DEF T!handleResearchHead
<1>3. "research" \notin ExaSurfaces /\ st # 401
  BY DEF ExaSurfaces
<1> HIDE DEF checked, st
<1>4. CASE Failed(e.validation, checked)
  BY <1>1, <1>2, <1>3, <1>4, TSame, TRefuses DEF Handled, Untaken
<1>5. CASE ~ Failed(e.validation, checked)
  <2>1. r = Answer(st, "head", checked \cup ResolveJob(how))
    BY <1>2, <1>5, TSame
  <2>2. Blameless(r) /\ Explains("research", e, r) /\ Untaken(r)
    BY <1>1, <1>3, <1>5, <2>1, ResolveIsLate, ShowsOnly
  <2> QED
    BY <2>2 DEF Handled, Untaken
<1> QED
  BY <1>4, <1>5

-----------------------------------------------------------------------------
(* Mcp: of its answers only what they take *)

\* The MCP profile builds its answers with the framework's helpers.
LEMMA MSame ==
    /\ \A p, F : M!Failed(p, F) <=> Failed(p, F)
    /\ \A st, l, F : M!Answer(st, l, F) = Answer(st, l, F) /\ M!Serve(st, l, F) = Serve(st, l, F)
    /\ \A a : M!Spent(a) = Spent(a)
    /\ \A c : M!Fail(c) = Fail(c) /\ M!FailAt(c) = FailAt(c) /\ M!Warn(c) = Warn(c)
<1>1. \A p, F : M!Failed(p, F) <=> Failed(p, F)
  BY DEF M!Failed, M!effectiveSeverity, Failed, effectiveSeverity
<1>2. \A st, l, F : M!Answer(st, l, F) = Answer(st, l, F)
  BY Zenon DEF M!Answer, Answer
<1>3. \A st, l, F : M!Serve(st, l, F) = Serve(st, l, F)
  BY Zenon DEF M!Serve, Serve, M!Answer, Answer
<1>4. \A a : M!Spent(a) = Spent(a)
  BY Zenon DEF M!Spent, Spent
<1>5. \A c : M!Fail(c) = Fail(c) /\ M!FailAt(c) = FailAt(c) /\ M!Warn(c) = Warn(c)
  BY DEF M!Fail, M!FailAt, M!Warn, M!Finding, Fail, FailAt, Warn, Finding
<1> QED
  BY <1>1, <1>2, <1>3, <1>4, <1>5

\* No finding says that an attempt was stripped.
Unstripped(findings) == \A f \in findings : f.code # StripCode

\* A refusal or a notification took nothing; an answer, or a turn that is not
\* found, may have.
Taken(r, st, l, F) ==
    \/ r = Answer(st, l, F)
    \/ l # "error" /\ r = Serve(st, l, F)
    \/ HasFinding(F, AfterClaim) /\ r = Spent(Answer(st, l, F))

\* An MCP answer that took no job keeps the contract.
LEMMA MBlameless ==
    ASSUME NEW st, NEW l, NEW F, Unstripped(F), NEW r, Taken(r, st, l, F)
    PROVE  Blameless(r) /\ r.job = "none"
<1>1. CASE r = Answer(st, l, F)
  <2>1. /\ DOMAIN r = ReplyFields /\ r.findings = F /\ r.job = "none"
        /\ r.eligible = FALSE /\ r.claims = FALSE
    BY <1>1 DEF Answer, ReplyFields
  <2> QED
    BY <2>1 DEF Blameless, Unstripped
<1>2. CASE l # "error" /\ r = Serve(st, l, F)
  <2>1. /\ DOMAIN r = ReplyFields /\ r.findings = F /\ r.job = "none" /\ r.label = l
        /\ r.eligible = TRUE /\ r.claims = TRUE
    BY <1>2 DEF Serve, Answer, ReplyFields
  <2> QED
    BY <1>2, <2>1 DEF Blameless, Unstripped
<1>3. CASE HasFinding(F, AfterClaim) /\ r = Spent(Answer(st, l, F))
  <2>1. /\ DOMAIN r = ReplyFields /\ r.findings = F /\ r.job = "none"
        /\ r.eligible = FALSE /\ r.claims = TRUE
    BY <1>3 DEF Spent, Answer, ReplyFields
  <2> QED
    BY <1>3, <2>1 DEF Blameless, Unstripped
<1> QED
  BY <1>1, <1>2, <1>3 DEF Taken

\* No check of the MCP profile reports a stripped attempt.
LEMMA MFindings ==
    ASSUME NEW x
    PROVE  /\ Unstripped(M!Arrive(x)) /\ Unstripped(M!checkLegacyHeaders(x)) /\ Unstripped(M!requestChecks(x))
           /\ \A policy : Unstripped(M!checkAuth(x, policy))
           /\ M!parseEnvelope(x) # StripCode
           /\ M!checkTransport(x) # 0 => M!TransportChecks[M!checkTransport(x)] # StripCode
<1>1. Unstripped(M!Arrive(x)) /\ Unstripped(M!checkLegacyHeaders(x))
  BY DEF M!Arrive, M!readRequest, M!checkLegacyHeaders, M!When, M!Fail, M!Warn, M!Finding, Unstripped, StripCode
<1>2. Unstripped(M!requestChecks(x))
  BY DEF M!requestChecks, M!checkToolsListParams, M!checkToolsCallParams, M!When, M!FailAt, M!Finding,
         Unstripped, StripCode
<1>3. ASSUME NEW policy PROVE Unstripped(M!checkAuth(x, policy))
  <2>1. M!checkAuth(x, policy) \subseteq
            M!FailAt("mcp.auth.mismatch") \cup M!FailAt("mcp.auth.missing") \cup M!Warn("mcp.auth.wrong_placement")
    BY Zenon DEF M!checkAuth, M!When
  <2> QED
    BY <2>1 DEF M!FailAt, M!Warn, M!Finding, Unstripped, StripCode
<1>4. M!parseEnvelope(x) # StripCode
  BY DEF M!parseEnvelope, StripCode
<1>5. ASSUME M!checkTransport(x) # 0
      PROVE  M!TransportChecks[M!checkTransport(x)] # StripCode
  <2> DEFINE applies(c) == c \in x.off /\ (c \in {"name_chars", "name_mismatch"} => x.call = "tools/call")
             unmet == {i \in 1..Len(M!TransportChecks) : applies(M!TransportChecks[i])}
  <2>1. M!checkTransport(x) = IF unmet = {} THEN 0 ELSE CHOOSE i \in unmet : \A j \in unmet : i <= j
    BY Zenon DEF M!checkTransport
  <2>2. unmet \subseteq 1..9
    BY DEF M!TransportChecks
  <2> HIDE DEF unmet
  <2>3. unmet # {} /\ unmet \subseteq Nat
    BY <1>5, <2>1, <2>2
  <2>4. \E i \in unmet : \A j \in unmet : i <= j
    BY <2>3, MinInSet
  <2>5. M!checkTransport(x) \in 1..9
    BY <2>1, <2>2, <2>3, <2>4
  <2> QED
    BY <2>5 DEF M!TransportChecks, StripCode
<1> QED
  BY <1>1, <1>2, <1>3, <1>4, <1>5

\* handleToolsCall, every exit.
LEMMA MToolsCall ==
    ASSUME NEW x, NEW e, NEW F, Unstripped(F), NEW r, r = M!handleToolsCall(x, e, F)
    PROVE  Blameless(r) /\ r.job = "none"
<1> DEFINE streams == M!wantsStream(e)
           label == IF streams THEN "mcp.stream" ELSE "mcp.ok"
           late == M!When(x.tool = "unscripted", M!Warn("mcp.tool_unscripted"))
           unknown == M!Warn("mcp.tool_unknown")
           found == F \cup late
           foundUnknown == F \cup unknown
<1>1. Unstripped(found) /\ Unstripped(foundUnknown)
  BY DEF M!When, M!Warn, M!Finding, Unstripped, StripCode
<1>2. r = IF x.tool = "unknown" THEN M!Serve(200, "mcp.unknown_tool", foundUnknown)
          ELSE [M!Serve(200, label, found) EXCEPT !.streams = streams]
  BY Zenon DEF M!handleToolsCall
<1>3. label # "error"
  OBVIOUS
<1> HIDE DEF streams, label, late, unknown, found, foundUnknown
<1>4. CASE x.tool = "unknown"
  <2>1. Taken(r, 200, "mcp.unknown_tool", foundUnknown)
    BY <1>2, <1>4, MSame DEF Taken
  <2> QED
    BY <1>1, <2>1, MBlameless
<1>5. CASE x.tool # "unknown"
  <2>1. r = [Serve(200, label, found) EXCEPT !.streams = streams]
    BY <1>2, <1>5, MSame
  <2>2. /\ DOMAIN r = ReplyFields /\ r.findings = found /\ r.job = "none" /\ r.label = label
        /\ r.eligible = TRUE /\ r.claims = TRUE
    BY <2>1 DEF Serve, Answer, ReplyFields
  <2> QED
    BY <1>1, <1>3, <2>2 DEF Blameless, Unstripped
<1> QED
  BY <1>4, <1>5

\* handleMCP, every exit.
LEMMA McpAnswers ==
    ASSUME NEW x, NEW e, NEW claim, NEW r, r = M!handleMCP(x, e, claim)
    PROVE  Blameless(r) /\ r.job = "none"
<1> DEFINE seen == M!Arrive(x) \cup M!checkLegacyHeaders(x)
           auth == seen \cup M!checkAuth(x, M!AuthPolicy(e, "optional"))
           envelope == seen \cup M!FailAt(M!parseEnvelope(x))
           header == seen \cup M!FailAt("mcp.header_required")
           transport == seen \cup M!FailAt(M!TransportChecks[M!checkTransport(x)])
           method == auth \cup M!requestChecks(x)
           missed == auth \cup M!Fail("scenario.no_matching_turn")
           refusal == IF x.call \in {"tools/list", "tools/call"} THEN 200 ELSE 404
<1>1. Unstripped(seen) /\ Unstripped(auth) /\ Unstripped(method)
  BY MFindings DEF Unstripped
<1>2. /\ Unstripped(envelope) /\ Unstripped(header)
      /\ M!checkTransport(x) # 0 => Unstripped(transport)
      /\ Unstripped(missed) /\ HasFinding(missed, AfterClaim)
  <2>1. ASSUME NEW F, Unstripped(F), NEW c, c # StripCode
        PROVE  Unstripped(F \cup M!FailAt(c)) /\ Unstripped(F \cup M!Fail(c))
    BY <2>1 DEF M!FailAt, M!Fail, M!Finding, Unstripped
  <2>2. HasFinding(missed, AfterClaim)
    <3>1. HasFinding(M!Fail("scenario.no_matching_turn"), AfterClaim)
      BY DEF M!Fail, M!Finding, HasFinding, AfterClaim
    <3> HIDE DEF auth
    <3> QED
      BY <3>1 DEF HasFinding
  <2>3. "mcp.header_required" # StripCode /\ "scenario.no_matching_turn" # StripCode
    BY DEF StripCode
  <2> HIDE DEF seen, auth
  <2> QED
    BY <1>1, <2>1, <2>2, <2>3, MFindings
<1>3. r = IF M!parseEnvelope(x) # "ok" THEN M!Answer(400, "error", envelope)
          ELSE IF M!isNotification(x) THEN M!Answer(202, "mcp.notification", seen)
          ELSE IF x.call = "initialize" /\ ~ M!hasModernHeaders(x) THEN M!Answer(400, "error", header)
          ELSE IF M!checkTransport(x) # 0 THEN M!Answer(400, "error", transport)
          ELSE IF M!Failed(e.validation, auth) THEN M!Answer(401, "error", auth)
          ELSE IF M!requestChecks(x) # {} THEN M!Answer(refusal, "error", method)
          ELSE IF e.declared /\ ~ M!Selects(e, claim)
               THEN M!Spent(M!Answer(200, "error", missed))
          ELSE IF x.call = "tools/call" THEN M!handleToolsCall(x, e, auth)
          ELSE M!Serve(200, "mcp.ok", auth)
  BY Zenon DEF M!handleMCP, M!methodRefusal
<1> HIDE DEF seen, auth, envelope, header, transport, method, missed, refusal
<1>4. \/ Taken(r, 400, "error", envelope)
      \/ Taken(r, 202, "mcp.notification", seen)
      \/ Taken(r, 400, "error", header)
      \/ M!checkTransport(x) # 0 /\ Taken(r, 400, "error", transport)
      \/ Taken(r, 401, "error", auth)
      \/ Taken(r, refusal, "error", method)
      \/ Taken(r, 200, "error", missed)
      \/ r = M!handleToolsCall(x, e, auth)
      \/ Taken(r, 200, "mcp.ok", auth)
  BY <1>2, <1>3, MSame, ZenonT(60) DEF Taken
<1> QED
  BY <1>1, <1>2, <1>4, MBlameless, MToolsCall

-----------------------------------------------------------------------------
(* The machine *)

JobRecords == [live : BOOLEAN, polls : Nat, cancelled : BOOLEAN, cancelAt : Nat]

SurfacesTypeOK ==
    /\ surface \in AllSurfaces /\ entry \in Entries
    /\ calls \in [Lanes -> Nat] /\ entries \in [Lanes -> Nat]
    /\ jobs \in [JobIDs -> JobRecords]
    /\ answer.pending \in BOOLEAN /\ (answer.pending => answer.lane \in Lanes)

\* The surfaces whose creates DemotionHolds speaks of.
Checked == ExaSurfaces \cup TavilySurfaces \cup {"sonar"}

\* What the handlers promise of a create, and of the answer Handle makes of it.
Promised(x, r) ==
    /\ surface \in Checked /\ entry.stream # "reject" => Heeds(entry, r)
    /\ surface = "agent" /\ r.eligible /\ entry.validation.demote = {} => P!EchoedModel(x) # ""

\* The answer under way keeps what its handler promised.
AnswerKept ==
    answer.pending =>
        /\ Explains(surface, entry, answer.resp)
        /\ answer.lane = CreateLane => Promised(answer.x, answer.resp)

SurfacesInv == SurfacesTypeOK /\ ClaimsAccounted /\ OwnJobsOnly /\ AnswerKept

\* Each create handler keeps its promises.
CreateOK(x, r) ==
    Blameless(r) /\ Explains(surface, entry, r) /\ Promised(x, r) /\ r.job \in {"none", "mint"}

ServeCreate ==
    \/ ServeSonar \/ ServeAgent \/ ServeSearch \/ ServeAnswer \/ ServeFindSimilar
    \/ ServeContents \/ ServeRun \/ ServeTavily \/ ServeExtract \/ ServeResearch \/ ServeMCP

\* A create is served by a handler that keeps its promises, whichever the route.
LEMMA CreatesKeepPromises ==
    ASSUME ServeCreate
    PROVE  \E x, r : Arrives(x) /\ CreateOK(x, r) /\ Create(x, r)
<1> USE DEF Called
<1>1. ASSUME ServeSonar PROVE \E x, r : Arrives(x) /\ CreateOK(x, r) /\ Create(x, r)
  <2>1. PICK x : surface = "sonar" /\ Arrives(x) /\ Create(x, P!handleSonar(x, entry, Claim(x)))
    BY <1>1 DEF ServeSonar
  <2> DEFINE r == P!handleSonar(x, entry, Claim(x))
  <2>2. Blameless(r) /\ Explains("sonar", entry, r) /\ (entry.stream # "reject" => Heeds(entry, r)) /\ r.job = "none"
    BY SonarAnswers
  <2> HIDE DEF r
  <2>3. CreateOK(x, r)
    BY <2>1, <2>2 DEF CreateOK, Promised
  <2> QED
    BY <2>1, <2>3 DEF r
<1>2. ASSUME ServeAgent PROVE \E x, r : Arrives(x) /\ CreateOK(x, r) /\ Create(x, r)
  <2>1. PICK x : surface = "agent" /\ Arrives(x) /\ Create(x, P!handleAgent(x, entry, Claim(x), Mint(x)))
    BY <1>2 DEF ServeAgent
  <2> DEFINE r == P!handleAgent(x, entry, Claim(x), Mint(x))
  <2>2. /\ Blameless(r) /\ Explains("agent", entry, r) /\ r.job \in {"none", "mint"}
        /\ r.eligible /\ entry.validation.demote = {} => P!EchoedModel(x) # ""
    BY AgentAnswers
  <2> HIDE DEF r
  <2>3. CreateOK(x, r)
    BY <2>1, <2>2 DEF CreateOK, Promised, Checked, ExaSurfaces, TavilySurfaces
  <2> QED
    BY <2>1, <2>3 DEF r
<1>3. ASSUME ServeSearch PROVE \E x, r : Arrives(x) /\ CreateOK(x, r) /\ Create(x, r)
  <2>1. PICK x : surface = "search" /\ Arrives(x) /\ Create(x, E!handleSearch(x, entry, Claim(x)))
    BY <1>3 DEF ServeSearch
  <2> DEFINE r == E!handleSearch(x, entry, Claim(x))
  <2>2. Prompt("search", entry, r)
    BY ESearchAnswers
  <2> HIDE DEF r
  <2>3. CreateOK(x, r)
    BY <2>1, <2>2 DEF CreateOK, Promised, Prompt
  <2> QED
    BY <2>1, <2>3 DEF r
<1>4. ASSUME ServeAnswer PROVE \E x, r : Arrives(x) /\ CreateOK(x, r) /\ Create(x, r)
  <2>1. PICK x : surface = "answer" /\ Arrives(x) /\ Create(x, E!handleAnswer(x, entry, Claim(x)))
    BY <1>4 DEF ServeAnswer
  <2> DEFINE r == E!handleAnswer(x, entry, Claim(x))
  <2>2. Prompt("answer", entry, r)
    BY ESearchAnswers
  <2> HIDE DEF r
  <2>3. CreateOK(x, r)
    BY <2>1, <2>2 DEF CreateOK, Promised, Prompt
  <2> QED
    BY <2>1, <2>3 DEF r
<1>5. ASSUME ServeFindSimilar PROVE \E x, r : Arrives(x) /\ CreateOK(x, r) /\ Create(x, r)
  <2>1. PICK x : surface = "findSimilar" /\ Arrives(x) /\ Create(x, E!handleFindSimilar(x, entry, Claim(x)))
    BY <1>5 DEF ServeFindSimilar
  <2> DEFINE r == E!handleFindSimilar(x, entry, Claim(x))
  <2>2. Prompt("findSimilar", entry, r)
    BY ESearchAnswers
  <2> HIDE DEF r
  <2>3. CreateOK(x, r)
    BY <2>1, <2>2 DEF CreateOK, Promised, Prompt
  <2> QED
    BY <2>1, <2>3 DEF r
<1>6. ASSUME ServeContents PROVE \E x, r : Arrives(x) /\ CreateOK(x, r) /\ Create(x, r)
  <2>1. PICK x : surface = "contents" /\ Arrives(x) /\ Create(x, E!handleContents(x, entry, Claim(x)))
    BY <1>6 DEF ServeContents
  <2> DEFINE r == E!handleContents(x, entry, Claim(x))
  <2>2. Prompt("contents", entry, r)
    BY EContentsAnswers
  <2> HIDE DEF r
  <2>3. CreateOK(x, r)
    BY <2>1, <2>2 DEF CreateOK, Promised, Prompt
  <2> QED
    BY <2>1, <2>3 DEF r
<1>7. ASSUME ServeRun PROVE \E x, r : Arrives(x) /\ CreateOK(x, r) /\ Create(x, r)
  <2>1. PICK x : surface = "run" /\ Arrives(x) /\ Create(x, E!handleAgentRunCreate(x, entry, Mint(x)))
    BY <1>7 DEF ServeRun
  <2> DEFINE r == E!handleAgentRunCreate(x, entry, Mint(x))
  <2>2. Blameless(r) /\ Explains("run", entry, r) /\ Heeds(entry, r) /\ r.job \in {"none", "mint"}
    BY ERunCreateAnswers
  <2> HIDE DEF r
  <2>3. CreateOK(x, r)
    BY <2>1, <2>2 DEF CreateOK, Promised
  <2> QED
    BY <2>1, <2>3 DEF r
<1>8. ASSUME ServeTavily PROVE \E x, r : Arrives(x) /\ CreateOK(x, r) /\ Create(x, r)
  <2>1. PICK x : surface = "tavily" /\ Arrives(x) /\ Create(x, T!handleSearch(x, entry, Claim(x)))
    BY <1>8 DEF ServeTavily
  <2> DEFINE r == T!handleSearch(x, entry, Claim(x))
  <2>2. Prompt("tavily", entry, r)
    BY TSearchAnswers
  <2> HIDE DEF r
  <2>3. CreateOK(x, r)
    BY <2>1, <2>2 DEF CreateOK, Promised, Prompt
  <2> QED
    BY <2>1, <2>3 DEF r
<1>9. ASSUME ServeExtract PROVE \E x, r : Arrives(x) /\ CreateOK(x, r) /\ Create(x, r)
  <2>1. PICK x : surface = "extract" /\ Arrives(x) /\ Create(x, T!handleExtract(x, entry, Claim(x)))
    BY <1>9 DEF ServeExtract
  <2> DEFINE r == T!handleExtract(x, entry, Claim(x))
  <2>2. Prompt("extract", entry, r)
    BY TExtractAnswers
  <2> HIDE DEF r
  <2>3. CreateOK(x, r)
    BY <2>1, <2>2 DEF CreateOK, Promised, Prompt
  <2> QED
    BY <2>1, <2>3 DEF r
<1>10. ASSUME ServeResearch PROVE \E x, r : Arrives(x) /\ CreateOK(x, r) /\ Create(x, r)
  <2>1. PICK x : surface = "research" /\ Arrives(x) /\ Create(x, T!handleResearchCreate(x, entry, Mint(x)))
    BY <1>10 DEF ServeResearch
  <2> DEFINE r == T!handleResearchCreate(x, entry, Mint(x))
  <2>2. Blameless(r) /\ Explains("research", entry, r) /\ Heeds(entry, r) /\ r.job \in {"none", "mint"}
    BY ResearchCreateAnswers
  <2> HIDE DEF r
  <2>3. CreateOK(x, r)
    BY <2>1, <2>2 DEF CreateOK, Promised
  <2> QED
    BY <2>1, <2>3 DEF r
<1>11. ASSUME ServeMCP PROVE \E x, r : Arrives(x) /\ CreateOK(x, r) /\ Create(x, r)
  <2>1. PICK x : surface = "mcp" /\ Arrives(x) /\ Create(x, M!handleMCP(x, entry, Claim(x)))
    BY <1>11 DEF ServeMCP
  <2> DEFINE r == M!handleMCP(x, entry, Claim(x))
  <2>2. Blameless(r) /\ r.job = "none"
    BY McpAnswers
  <2> HIDE DEF r
  <2>3. CreateOK(x, r)
    BY <2>1, <2>2 DEF CreateOK, Promised, Explains, Checked, ExaSurfaces, TavilySurfaces
  <2> QED
    BY <2>1, <2>3 DEF r
<1> QED
  BY <1>1, <1>2, <1>3, <1>4, <1>5, <1>6, <1>7, <1>8, <1>9, <1>10, <1>11 DEF ServeCreate

\* A job's status is one loading accepts, so it is not the label of a refusal.
LEMMA SnapshotsAreServed ==
    ASSUME SurfacesTypeOK, NEW x, NEW id
    PROVE  /\ PollTurn(x, id) # "error"
           /\ \A claim : T!selectResearchProjection(entry, claim) # "error"
<1>1. "error" \notin JobStatuses \cup {"miss", "pending"}
  BY DEF JobStatuses
<1>2. \A script \in {entry.script, entry.cancelScript} :
          \A index \in DOMAIN script : script[index] \in JobStatuses
  BY EntriesAssumption DEF SurfacesTypeOK
<1>3. /\ \A script \in {entry.script, entry.cancelScript} : \A index : SnapshotAt(script, index) # "error"
      /\ \A script \in {entry.script, entry.cancelScript} : \A index : T!SnapshotAt(script, index) # "error"
  BY <1>1, <1>2 DEF SnapshotAt, T!SnapshotAt
<1>4. \A index : Snapshot(id, index) # "error"
  BY <1>3 DEF Snapshot
<1> QED
  BY <1>1, <1>3, <1>4 DEF PollTurn, T!selectResearchProjection

\* A poll is served by a handler that keeps its promises, whichever the route.
LEMMA PollsKeepPromises ==
    ASSUME SurfacesTypeOK, PollJob
    PROVE  \E x, r : \E id \in JobIDs :
               Arrives(x) /\ Handled(surface, entry, r, Resolves(id)) /\ Poll(x, id, r)
<1> DEFINE Reply(x, id) ==
        CASE surface = "agent" -> P!handleAgentRetrieve(x, entry, Resolves(id), PollTurn(x, id))
          [] surface = "run" /\ x.method = "GET" -> E!handleAgentRunPoll(x, entry, Resolves(id), PollTurn(x, id))
          [] surface = "run" -> E!handleAgentRunHead(x, entry, Resolves(id))
          [] surface = "research" /\ x.method = "GET" ->
                 T!handleResearchPoll(x, entry, Resolves(id), CallIndex(x, PollLane(id)))
          [] OTHER -> T!handleResearchHead(x, entry, Resolves(id))
<1>1. PICK x \in JobRequests, id \in JobIDs : Arrives(x) /\ Poll(x, id, Reply(x, id))
  BY Zenon DEF PollJob
<1>2. surface \in JobSurfaces
  BY DEF PollJob
<1>3. /\ PollTurn(x, id) # "error"
      /\ T!selectResearchProjection(entry, CallIndex(x, PollLane(id))) # "error"
  BY SnapshotsAreServed
<1>4. CASE surface = "agent"
  <2>1. Reply(x, id) = P!handleAgentRetrieve(x, entry, Resolves(id), PollTurn(x, id))
    BY <1>4
  <2> HIDE DEF Reply
  <2>2. Handled("agent", entry, Reply(x, id), Resolves(id))
    BY <1>3, <2>1, AgentRetrieveAnswers
  <2> QED
    BY <1>1, <1>4, <2>2
<1>5. CASE surface = "run"
  <2>1. \/ Reply(x, id) = E!handleAgentRunPoll(x, entry, Resolves(id), PollTurn(x, id))
        \/ Reply(x, id) = E!handleAgentRunHead(x, entry, Resolves(id))
    BY <1>5
  <2> HIDE DEF Reply
  <2>2. Handled("run", entry, Reply(x, id), Resolves(id))
    BY <1>3, <2>1, ERunPollAnswers, ERunHeadAnswers
  <2> QED
    BY <1>1, <1>5, <2>2
<1>6. CASE surface = "research"
  <2>1. \/ Reply(x, id) = T!handleResearchPoll(x, entry, Resolves(id), CallIndex(x, PollLane(id)))
        \/ Reply(x, id) = T!handleResearchHead(x, entry, Resolves(id))
    BY <1>6
  <2> HIDE DEF Reply
  <2>2. Handled("research", entry, Reply(x, id), Resolves(id))
    BY <1>3, <2>1, ResearchPollAnswers, ResearchHeadAnswers
  <2> QED
    BY <1>1, <1>6, <2>2
<1> QED
  BY <1>2, <1>4, <1>5, <1>6 DEF JobSurfaces

\* A cancel is served by a handler that keeps its promises, whichever the route.
LEMMA CancelsKeepPromises ==
    ASSUME CancelJob
    PROVE  \E x, r : \E id \in JobIDs :
               Arrives(x) /\ Handled(surface, entry, r, Resolves(id)) /\ Cancel(x, id, r)
<1> DEFINE Reply(x, id) ==
        IF surface = "agent"
        THEN P!handleAgentCancel(x, entry, Resolves(id), CancelOutcome(id),
                 IF Terminal(NextTurn(id)) THEN "terminal" ELSE "live")
        ELSE E!handleAgentRunCancel(x, entry, Resolves(id), CancelOutcome(id))
<1>1. PICK x \in JobRequests, id \in JobIDs : Arrives(x) /\ Cancel(x, id, Reply(x, id))
  BY Zenon DEF CancelJob
<1>2. surface \in {"agent", "run"}
  BY DEF CancelJob
<1>3. CancelOutcome(id) \in {"failed", "recorded", "uncommitted", "terminal", "already"}
  BY DEF CancelOutcome
<1>4. CASE surface = "agent"
  <2> DEFINE next == IF Terminal(NextTurn(id)) THEN "terminal" ELSE "live"
  <2>1. Reply(x, id) = P!handleAgentCancel(x, entry, Resolves(id), CancelOutcome(id), next)
    BY <1>4
  <2> HIDE DEF Reply, next
  <2>2. Handled("agent", entry, Reply(x, id), Resolves(id))
    BY <2>1, AgentCancelAnswers
  <2> QED
    BY <1>1, <1>4, <2>2
<1>5. CASE surface = "run"
  <2>1. Reply(x, id) = E!handleAgentRunCancel(x, entry, Resolves(id), CancelOutcome(id))
    BY <1>5
  <2> HIDE DEF Reply
  <2>2. Handled("run", entry, Reply(x, id), Resolves(id))
    BY <1>3, <2>1, ERunCancelAnswers
  <2> QED
    BY <1>1, <1>5, <2>2
<1> QED
  BY <1>2, <1>4, <1>5

\* Handle's answer carries the handler's, and says whether it cost an attempt.
LEMMA FinishTells ==
    ASSUME NEW x, NEW lane, NEW r, Blameless(r), Finish(x, lane, r)
    PROVE  \E a : /\ answer' = [pending |-> TRUE, x |-> x, lane |-> lane, resp |-> a]
                  /\ a.status = r.status /\ a.label = r.label /\ a.eligible = r.eligible
                  /\ a.findings = r.findings \cup ClaimFindings(x, r)
                  /\ Shows(x, a) <=> Claims(x, r)
                  /\ a.label = "error" /\ ~ HasFinding(a.findings, AfterClaim)
                         => ~ Claims(x, r) /\ r.job = "none"
<1> DEFINE added == ClaimFindings(x, r)
           a == [r EXCEPT !.findings = @ \cup added]
<1>1. answer' = [pending |-> TRUE, x |-> x, lane |-> lane, resp |-> a]
  BY Zenon DEF Finish
<1>2. /\ Stripped(x, r) => HasFinding(added, {StripCode})
      /\ ~ Stripped(x, r) => ~ HasFinding(added, {StripCode})
      /\ x.admitted /\ ~ Stripped(x, r) => added = {}
  <2>1. /\ Stripped(x, r) => Warn(StripCode) \subseteq added
        /\ ~ Stripped(x, r) => added \subseteq Warn("fault.unknown_key")
        /\ x.admitted /\ ~ Stripped(x, r) => added = {}
    BY Zenon DEF ClaimFindings, When, StripCode
  <2>2. HasFinding(Warn(StripCode), {StripCode}) /\ ~ HasFinding(Warn("fault.unknown_key"), {StripCode})
    BY DEF HasFinding, Warn, Finding, StripCode
  <2> HIDE DEF added
  <2> QED
    BY <2>1, <2>2 DEF HasFinding
<1> HIDE DEF added
<1>3. /\ a.status = r.status /\ a.label = r.label /\ a.eligible = r.eligible
      /\ a.findings = r.findings \cup added
  BY DEF Blameless, ReplyFields
<1> HIDE DEF a
<1>4. HasFinding(a.findings, {StripCode}) <=> HasFinding(added, {StripCode})
  BY <1>3 DEF Blameless, HasFinding
<1>5. Stands(a) => Stands(r)
  BY <1>3 DEF Stands, Failed
<1>6. Shows(x, a) <=> Claims(x, r)
  <2>1. CASE Stripped(x, r)
    BY <1>2, <1>4, <2>1 DEF Shows, Stripped, StripCode
  <2>2. CASE ~ Stripped(x, r) /\ x.admitted
    <3>1. Stands(a) <=> Stands(r)
      BY <1>2, <1>3, <2>2 DEF Stands
    <3> QED
      BY <1>2, <1>4, <2>2, <3>1 DEF Shows, Stripped, Claims, StripCode
  <2>3. CASE ~ Stripped(x, r) /\ ~ x.admitted
    BY <1>2, <1>4, <2>3 DEF Shows, Claims, StripCode
  <2> QED
    BY <2>1, <2>2, <2>3
<1>7. a.label = "error" /\ ~ HasFinding(a.findings, AfterClaim) => ~ Claims(x, r) /\ r.job = "none"
  <2>1. ~ HasFinding(a.findings, AfterClaim) => ~ HasFinding(r.findings, AfterClaim)
    BY <1>3 DEF HasFinding
  <2>2. ~ r.claims /\ ~ r.eligible => ~ Claims(x, r)
    BY DEF Claims, Stands
  <2> QED
    BY <1>3, <2>1, <2>2 DEF Blameless
<1> QED
  BY <1>1, <1>3, <1>6, <1>7 DEF added

\* What the handler promised survives the findings Handle may add.
LEMMA StripKeeps ==
    ASSUME NEW s, NEW e, NEW x, NEW r, NEW a, a.status = r.status, a.label = r.label,
           a.findings = r.findings \cup ClaimFindings(x, r)
    PROVE  /\ Explains(s, e, r) => Explains(s, e, a)
           /\ Heeds(e, r) => Heeds(e, a)
<1> DEFINE extra == {StripCode, "fault.unknown_key"}
<1>1. /\ r.findings \subseteq a.findings
      /\ \A f \in a.findings : f \in r.findings \/ f.code \in extra
  BY DEF ClaimFindings, When, Warn, Finding, StripCode
<1> DEFINE errs == ErrorCodes(e.validation, r.findings)
           all == ErrorCodes(e.validation, a.findings)
<1>2. errs \subseteq all /\ all \subseteq errs \cup extra
  BY <1>1 DEF ErrorCodes, Errors
<1>6. extra \cap (AuthCodes \cup {"namespace.limit_exceeded"}) = {}
  BY DEF StripCode, AuthCodes
<1> HIDE DEF errs, all, extra
<1>3. StatusOK(s, e.validation, r.status, r.findings) => StatusOK(s, e.validation, r.status, a.findings)
  <2>2. errs \cap AuthCodes = all \cap AuthCodes /\ ("auth.missing" \in errs <=> "auth.missing" \in all)
    BY <1>2, <1>6 DEF AuthCodes
  <2>3. all = {"namespace.limit_exceeded"} => errs = {"namespace.limit_exceeded"} \/ errs = {}
    BY <1>2
  <2>4. errs = {} => all \subseteq extra
    BY <1>2
  <2>5. all = {"namespace.limit_exceeded"} => errs = {"namespace.limit_exceeded"}
    BY <1>6, <2>3, <2>4
  <2> QED
    BY <2>2, <2>5 DEF StatusOK, errs, all
<1>4. HasFinding(r.findings, AfterClaim) => HasFinding(a.findings, AfterClaim)
  BY <1>1 DEF HasFinding
<1> QED
  BY <1>1, <1>3, <1>4 DEF Explains, Heeds

\* What every answered request leaves, on whatever lane.
LEMMA FinishKeeps ==
    ASSUME SurfacesInv, NEW x, NEW lane \in Lanes, NEW r, Blameless(r), Explains(surface, entry, r),
           lane = CreateLane => Promised(x, r),
           Arrives(x), Finish(x, lane, r), UNCHANGED <<surface, entry, entries, resets>>
    PROVE  /\ calls' \in [Lanes -> Nat] /\ answer'.pending = TRUE /\ answer'.lane \in Lanes
           /\ ClaimsAccounted' /\ AnswerKept'
<1>1. PICK a : /\ answer' = [pending |-> TRUE, x |-> x, lane |-> lane, resp |-> a]
               /\ a.status = r.status /\ a.label = r.label /\ a.eligible = r.eligible
               /\ a.findings = r.findings \cup ClaimFindings(x, r)
               /\ Shows(x, a) <=> Claims(x, r)
  BY FinishTells
<1>2. answer'.pending = TRUE /\ answer'.x = x /\ answer'.lane = lane /\ answer'.resp = a
  BY <1>1
<1>3. /\ calls \in [Lanes -> Nat] /\ entries \in [Lanes -> Nat]
      /\ \A l \in Lanes : calls[l] = entries[l]
  BY DEF SurfacesInv, SurfacesTypeOK, ClaimsAccounted, Arrives
<1>4. calls' = IF Claims(x, r) THEN [calls EXCEPT ![lane] = @ + 1] ELSE calls
  BY DEF Finish
<1>5. calls' \in [Lanes -> Nat]
  BY <1>3, <1>4
<1>6. Shows(answer.x, answer.resp)' <=> Claims(x, r)
  <2>1. Shows(answer.x, answer.resp)' <=> Shows(x, a)
    BY <1>2 DEF Shows, Stands
  <2> QED
    BY <1>1, <2>1
<1>7. ClaimsAccounted'
  <2>1. ASSUME NEW l \in Lanes
        PROVE  calls'[l] = entries'[l]
                   + (IF answer'.pending /\ answer'.lane = l /\ Shows(answer.x, answer.resp)' THEN 1 ELSE 0)
    <3>1. entries' = entries
      OBVIOUS
    <3>2. calls'[l] = entries[l] + (IF lane = l /\ Claims(x, r) THEN 1 ELSE 0)
      BY <1>3, <1>4
    <3> QED
      BY <1>2, <1>6, <3>1, <3>2
  <2> QED
    BY <2>1 DEF ClaimsAccounted
<1>8. AnswerKept'
  <2>1. Explains(surface, entry, a) /\ (Heeds(entry, r) => Heeds(entry, a))
    BY <1>1, StripKeeps
  <2>2. lane = CreateLane => Promised(x, a)
    BY <1>1, <2>1 DEF Promised
  <2>3. surface' = surface /\ entry' = entry
    OBVIOUS
  <2>4. Explains(surface, entry, answer.resp)' <=> Explains(surface, entry, a)
    BY <1>2, <2>3
  <2>5. Promised(answer.x, answer.resp)' <=> Promised(x, a)
    BY <1>2, <2>3 DEF Promised
  <2> QED
    BY <1>2, <2>1, <2>2, <2>4, <2>5 DEF AnswerKept
<1> QED
  BY <1>2, <1>5, <1>7, <1>8

\* A request to a job's route takes of that job's own lane at most, and nothing
\* unless the job resolved.
LEMMA TakesItsOwn ==
    ASSUME SurfacesTypeOK, NEW x, NEW lane \in Lanes, NEW r, NEW id \in JobIDs,
           Handled(surface, entry, r, Resolves(id)), Finish(x, lane, r)
    PROVE  /\ \A l \in Lanes : l # lane => calls'[l] = calls[l]
           /\ Resolves(id) # "resolved" => calls' = calls /\ r.job = "none"
           /\ Resolves(id) = "resolved" => jobs[id].live /\ id # Foreign
<1>1. calls' = IF Claims(x, r) THEN [calls EXCEPT ![lane] = @ + 1] ELSE calls
  BY DEF Finish
<1>2. Resolves(id) # "resolved" => ~ Claims(x, r) /\ r.job = "none"
  BY DEF Handled, Untaken, Claims, Stands
<1>3. Resolves(id) = "resolved" => jobs[id].live /\ id # Foreign
  BY DEF Resolves
<1> QED
  BY <1>1, <1>2, <1>3 DEF SurfacesTypeOK

\* A job's lanes are its own, and none of them is the create route's.
LEMMA LanesApart ==
    /\ CreateLane \in Lanes
    /\ \A id \in JobIDs : PollLane(id) \in Lanes /\ CancelLane(id) \in Lanes
    /\ \A id, other : PollLane(id) # CreateLane /\ CancelLane(id) # CreateLane /\ PollLane(id) # CancelLane(other)
    /\ \A id, other : PollLane(id) = PollLane(other) \/ CancelLane(id) = CancelLane(other) => id = other
BY DEF CreateLane, PollLane, CancelLane, Lanes

\* The part of OwnJobsOnly that is about one job.
Touched(id) == jobs[id].polls > 0 \/ jobs[id].cancelled \/ calls[PollLane(id)] > 0 \/ calls[CancelLane(id)] > 0

\* The invariant holds of every history of requests and resets.
LEMMA SurfacesHold == Spec => []SurfacesInv
<1>1. Init => SurfacesInv
  <2> SUFFICES ASSUME Init PROVE SurfacesInv
    OBVIOUS
  <2>1. answer.pending = FALSE
    BY DEF Init, Idle
  <2>2. NoJob \in JobRecords /\ NoJob.polls = 0 /\ NoJob.cancelled = FALSE
    BY DEF NoJob, JobRecords
  <2>4. SurfacesTypeOK
    BY <2>1, <2>2 DEF Init, SurfacesTypeOK
  <2>5. ClaimsAccounted
    BY <2>1 DEF Init, ClaimsAccounted
  <2>6. OwnJobsOnly
    BY <2>2, LanesApart DEF Init, OwnJobsOnly
  <2> QED
    BY <2>1, <2>4, <2>5, <2>6 DEF SurfacesInv, AnswerKept
<1>2. SurfacesInv /\ [Next]_vars => SurfacesInv'
  <2> SUFFICES ASSUME SurfacesInv, [Next]_vars
               PROVE  SurfacesInv'
    OBVIOUS
  <2>0. /\ calls \in [Lanes -> Nat] /\ jobs \in [JobIDs -> JobRecords]
        /\ \A id \in JobIDs : Touched(id) => jobs[id].live /\ id # Foreign
    BY DEF SurfacesInv, SurfacesTypeOK, OwnJobsOnly, Touched
  <2>1. CASE ServeCreate
    <3>1. PICK x, r : Arrives(x) /\ CreateOK(x, r) /\ Create(x, r)
      BY <2>1, CreatesKeepPromises
    <3>2. Finish(x, CreateLane, r) /\ UNCHANGED <<surface, entry, entries, resets>>
      BY <3>1 DEF Create
    <3>3. /\ calls' \in [Lanes -> Nat] /\ answer'.pending = TRUE /\ answer'.lane \in Lanes
          /\ ClaimsAccounted' /\ AnswerKept'
      BY <3>1, <3>2, FinishKeeps, LanesApart DEF CreateOK
    <3>4. \A l \in Lanes : l # CreateLane => calls'[l] = calls[l]
      BY <2>0, <3>2 DEF Finish
    <3>5. PICK index : jobs' = jobs \/ jobs' = [jobs EXCEPT ![index].live = TRUE]
      BY <3>1 DEF Create
    <3>6. jobs' \in [JobIDs -> JobRecords]
      BY <2>0, <3>5 DEF JobRecords
    <3>7. \A id \in JobIDs : /\ jobs'[id].polls = jobs[id].polls /\ jobs'[id].cancelled = jobs[id].cancelled
                             /\ jobs[id].live => jobs'[id].live
      BY <2>0, <3>5 DEF JobRecords
    <3>8. OwnJobsOnly'
      BY <2>0, <3>4, <3>7, LanesApart DEF OwnJobsOnly, Touched
    <3> QED
      BY <3>2, <3>3, <3>6, <3>8 DEF SurfacesInv, SurfacesTypeOK
  <2>2. CASE PollJob
    <3>1. PICK x, r, id : id \in JobIDs /\
              Arrives(x) /\ Handled(surface, entry, r, Resolves(id)) /\ Poll(x, id, r)
      BY <2>2, PollsKeepPromises DEF SurfacesInv
    <3> DEFINE lane == PollLane(id)
    <3>2. Finish(x, lane, r) /\ UNCHANGED <<surface, entry, entries, resets>> /\ lane \in Lanes /\ lane # CreateLane
      BY <3>1, LanesApart DEF Poll
    <3> HIDE DEF lane
    <3>3. /\ calls' \in [Lanes -> Nat] /\ answer'.pending = TRUE /\ answer'.lane \in Lanes
          /\ ClaimsAccounted' /\ AnswerKept'
      BY <3>1, <3>2, FinishKeeps DEF Handled
    <3>4. /\ \A l \in Lanes : l # lane => calls'[l] = calls[l]
          /\ Resolves(id) # "resolved" => calls' = calls /\ r.job = "none"
          /\ Resolves(id) = "resolved" => jobs[id].live /\ id # Foreign
      BY <3>1, <3>2, TakesItsOwn DEF SurfacesInv
    <3>5. \/ jobs' = jobs
          \/ \E polls \in Nat : jobs' = [jobs EXCEPT ![id].polls = polls] /\ r.job = "poll"
      <4>1. \A index : jobs[id].polls <= index /\ index \in Int => index + 1 \in Nat
        BY <2>0, <3>1 DEF JobRecords
      <4>2. CallIndex(x, PollLane(id)) \in Int
        BY <2>0, LanesApart, <3>1 DEF CallIndex
      <4> QED
        BY <3>1, <4>1, <4>2 DEF Poll
    <3>6. /\ jobs' \in [JobIDs -> JobRecords]
          /\ \A other \in JobIDs : /\ jobs'[other].live = jobs[other].live
                                   /\ jobs'[other].cancelled = jobs[other].cancelled
                                   /\ other # id \/ r.job = "none" => jobs'[other].polls = jobs[other].polls
      BY <2>0, <3>1, <3>5 DEF JobRecords
    <3>7. ASSUME NEW other \in JobIDs, Touched(other)'
          PROVE  jobs'[other].live /\ other # Foreign
      <4>1. CASE other = id /\ Resolves(id) = "resolved"
        BY <3>4, <3>6, <4>1
      <4>2. CASE other # id \/ Resolves(id) # "resolved"
        <5>1. calls'[PollLane(other)] = calls[PollLane(other)] /\ calls'[CancelLane(other)] = calls[CancelLane(other)]
          BY <3>4, <4>2, LanesApart DEF lane
        <5>2. jobs'[other].polls = jobs[other].polls
          BY <3>4, <3>6, <4>2
        <5> QED
          BY <2>0, <3>6, <3>7, <5>1, <5>2 DEF Touched
      <4> QED
        BY <4>1, <4>2
    <3>8. OwnJobsOnly'
      BY <3>7 DEF OwnJobsOnly, Touched
    <3> QED
      BY <3>2, <3>3, <3>6, <3>8 DEF SurfacesInv, SurfacesTypeOK
  <2>3. CASE CancelJob
    <3>1. PICK x, r, id : id \in JobIDs /\
              Arrives(x) /\ Handled(surface, entry, r, Resolves(id)) /\ Cancel(x, id, r)
      BY <2>3, CancelsKeepPromises
    <3> DEFINE lane == CancelLane(id)
    <3>2. Finish(x, lane, r) /\ UNCHANGED <<surface, entry, entries, resets>> /\ lane \in Lanes /\ lane # CreateLane
      BY <3>1, LanesApart DEF Cancel
    <3> HIDE DEF lane
    <3>3. /\ calls' \in [Lanes -> Nat] /\ answer'.pending = TRUE /\ answer'.lane \in Lanes
          /\ ClaimsAccounted' /\ AnswerKept'
      BY <3>1, <3>2, FinishKeeps DEF Handled
    <3>4. /\ \A l \in Lanes : l # lane => calls'[l] = calls[l]
          /\ Resolves(id) # "resolved" => calls' = calls /\ r.job = "none"
          /\ Resolves(id) = "resolved" => jobs[id].live /\ id # Foreign
      BY <3>1, <3>2, TakesItsOwn DEF SurfacesInv
    <3>5. \/ jobs' = jobs
          \/ /\ jobs' = [jobs EXCEPT ![id] = [jobs[id] EXCEPT !.cancelled = TRUE, !.cancelAt = jobs[id].polls]]
             /\ r.job = "cancel"
      <4>1. \/ jobs' = jobs
            \/ /\ jobs' = [jobs EXCEPT ![id].cancelled = TRUE, ![id].cancelAt = jobs[id].polls]
               /\ r.job = "cancel"
        BY <3>1 DEF Cancel
      <4> QED
        BY <2>0, <3>1, <4>1
    <3>6. /\ jobs' \in [JobIDs -> JobRecords]
          /\ \A other \in JobIDs : /\ jobs'[other].live = jobs[other].live
                                   /\ jobs'[other].polls = jobs[other].polls
                                   /\ other # id \/ r.job = "none" => jobs'[other].cancelled = jobs[other].cancelled
      <4>1. CASE jobs' = jobs
        BY <2>0, <4>1
      <4>2. CASE jobs' = [jobs EXCEPT ![id] = [jobs[id] EXCEPT !.cancelled = TRUE, !.cancelAt = jobs[id].polls]]
                 /\ r.job = "cancel"
        <5> DEFINE record == [jobs[id] EXCEPT !.cancelled = TRUE, !.cancelAt = jobs[id].polls]
        <5>1. record \in JobRecords /\ record.live = jobs[id].live /\ record.polls = jobs[id].polls
          BY <2>0, <3>1 DEF JobRecords
        <5>2. jobs' = [jobs EXCEPT ![id] = record] /\ r.job # "none"
          BY <4>2
        <5> HIDE DEF record
        <5> QED
          BY <2>0, <3>1, <5>1, <5>2
      <4> QED
        BY <3>5, <4>1, <4>2
    <3>7. ASSUME NEW other \in JobIDs, Touched(other)'
          PROVE  jobs'[other].live /\ other # Foreign
      <4>1. CASE other = id /\ Resolves(id) = "resolved"
        BY <3>4, <3>6, <4>1
      <4>2. CASE other # id \/ Resolves(id) # "resolved"
        <5>1. calls'[PollLane(other)] = calls[PollLane(other)] /\ calls'[CancelLane(other)] = calls[CancelLane(other)]
          BY <3>4, <4>2, LanesApart DEF lane
        <5>2. jobs'[other].cancelled = jobs[other].cancelled
          BY <3>4, <3>6, <4>2
        <5> QED
          BY <2>0, <3>6, <3>7, <5>1, <5>2 DEF Touched
      <4> QED
        BY <4>1, <4>2
    <3>8. OwnJobsOnly'
      BY <3>7 DEF OwnJobsOnly, Touched
    <3> QED
      BY <3>2, <3>3, <3>6, <3>8 DEF SurfacesInv, SurfacesTypeOK
  <2>4. CASE Record
    <3>1. answer.pending /\ answer.lane \in Lanes /\ answer'.pending = FALSE
      BY <2>4 DEF Record, Idle, SurfacesInv, SurfacesTypeOK
    <3>2. entries' \in [Lanes -> Nat]
      BY <2>4, <3>1 DEF Record, SurfacesInv, SurfacesTypeOK
    <3>3. \A l \in Lanes : calls'[l] = entries'[l]
      BY <2>4, <3>1 DEF Record, SurfacesInv, SurfacesTypeOK, ClaimsAccounted
    <3>4. ClaimsAccounted'
      BY <3>1, <3>2, <3>3 DEF ClaimsAccounted
    <3> QED
      BY <2>4, <3>1, <3>2, <3>4 DEF Record, SurfacesInv, SurfacesTypeOK, OwnJobsOnly, AnswerKept
  <2>5. CASE CreateElsewhere
    <3>1. jobs' \in [JobIDs -> JobRecords]
      BY <2>5 DEF CreateElsewhere, SurfacesInv, SurfacesTypeOK, JobRecords
    <3>2. \A id \in JobIDs : /\ jobs'[id].polls = jobs[id].polls /\ jobs'[id].cancelled = jobs[id].cancelled
                             /\ jobs[id].live => jobs'[id].live
      BY <2>0, <2>5 DEF CreateElsewhere, JobRecords
    <3>3. ~ answer.pending /\ UNCHANGED <<surface, entry, calls, answer, entries, resets>>
      BY <2>5 DEF CreateElsewhere
    <3>4. ClaimsAccounted'
      BY <3>3 DEF SurfacesInv, ClaimsAccounted
    <3> QED
      BY <3>1, <3>2, <3>3, <3>4 DEF SurfacesInv, SurfacesTypeOK, OwnJobsOnly, AnswerKept
  <2>6. CASE ResetCursors
    <3>1. ~ answer.pending /\ answer' = answer /\ jobs' = jobs /\ surface' = surface /\ entry' = entry
      BY <2>6 DEF ResetCursors
    <3>2. calls' = [l \in Lanes |-> 0] /\ entries' = [l \in Lanes |-> 0]
      BY <2>6 DEF ResetCursors
    <3>3. ClaimsAccounted'
      BY <3>1, <3>2 DEF ClaimsAccounted
    <3>4. OwnJobsOnly'
      BY <2>0, <3>1, <3>2, LanesApart DEF OwnJobsOnly, Touched
    <3> QED
      BY <3>1, <3>2, <3>3, <3>4 DEF SurfacesInv, SurfacesTypeOK, AnswerKept
  <2>7. CASE UNCHANGED vars
    <3>1. UNCHANGED <<surface, entry, calls, jobs, answer, entries, resets>>
      BY <2>7 DEF vars
    <3>2. SurfacesTypeOK' /\ OwnJobsOnly'
      BY <3>1 DEF SurfacesInv, SurfacesTypeOK, OwnJobsOnly
    <3>3. Shows(answer.x, answer.resp)' <=> Shows(answer.x, answer.resp)
      BY <3>1 DEF Shows, Stands
    <3>4. ClaimsAccounted'
      BY <3>1, <3>3 DEF SurfacesInv, ClaimsAccounted
    <3>5. AnswerKept'
      BY <3>1 DEF SurfacesInv, AnswerKept, Promised
    <3> QED
      BY <3>2, <3>4, <3>5 DEF SurfacesInv
  <2> QED
    BY <2>1, <2>2, <2>3, <2>4, <2>5, <2>6, <2>7 DEF Next, ServeCreate
<1> QED
  BY <1>1, <1>2, PTL DEF Spec

-----------------------------------------------------------------------------
(* What the runs check *)

\* No route ever polls or cancels a record that another entry minted, nor takes an
\* attempt of a lane whose job did not resolve: whatever a handler of a job's route
\* takes, it takes after ResolveJob has answered "resolved".
THEOREM EntriesAreApart == Spec => []OwnJobsOnly
<1>1. SurfacesInv => OwnJobsOnly
  BY DEF SurfacesInv
<1> QED
  BY <1>1, SurfacesHold, PTL

\* Whatever the profile, the policy and the history, each claim of a lane is in the
\* journal once: as the attempt served, or as the finding that it was stripped.
THEOREM ClaimsAreAccounted == Spec => []ClaimsAccounted
<1>1. SurfacesInv => ClaimsAccounted
  BY DEF SurfacesInv
<1> QED
  BY <1>1, SurfacesHold, PTL

\* On the research profiles the status of an answer is the one its errors call for,
\* for every request and every policy.
THEOREM StatusesNameTheCause == Spec => []StatusNamesTheCause
<1>1. SurfacesInv => StatusNamesTheCause
  BY DEF SurfacesInv, AnswerKept, Explains, StatusOK, StatusNamesTheCause, AuthDecides, Errs
<1> QED
  BY <1>1, SurfacesHold, PTL

\* No create refuses a request for findings the entry has demoted, but for a turn or
\* a job that cannot be had.
THEOREM DemotionsHold == Spec => []DemotionHolds
<1>1. SurfacesInv => DemotionHolds
  BY DEF SurfacesInv, AnswerKept, Promised, Checked, Heeds, DemotionHolds
<1> QED
  BY <1>1, SurfacesHold, PTL

\* Under a policy that demotes nothing, an Agent request that is served names the
\* model it ran on.
THEOREM ServedModelsAreNamed == Spec => []ServedModelNamed
<1>1. SurfacesInv => ServedModelNamed
  BY DEF SurfacesInv, AnswerKept, Promised, ServedModelNamed
<1> QED
  BY <1>1, SurfacesHold, PTL

\* A refusal for what the request is changes no counter and no job, whichever
\* handler gave it.
THEOREM RefusalsSpendNothing == Spec => RefusalSpendsNothing
<1> DEFINE Refused == /\ ~ answer.pending /\ answer'.pending /\ answer'.resp.label = "error"
                      /\ ~ HasFinding(answer'.resp.findings, AfterClaim)
<1>1. SurfacesInv /\ [Next]_vars => [Refused => UNCHANGED <<calls, jobs>>]_vars
  <2> SUFFICES ASSUME SurfacesInv, Next, Refused
               PROVE  UNCHANGED <<calls, jobs>>
    OBVIOUS
  <2>1. ASSUME NEW x, NEW lane, NEW r, Blameless(r), Finish(x, lane, r)
        PROVE  calls' = calls /\ r.job = "none"
    <3>1. PICK a : /\ answer' = [pending |-> TRUE, x |-> x, lane |-> lane, resp |-> a]
                   /\ a.label = "error" /\ ~ HasFinding(a.findings, AfterClaim)
                          => ~ Claims(x, r) /\ r.job = "none"
      BY <2>1, FinishTells
    <3>2. answer'.resp = a
      BY <3>1
    <3> QED
      BY <2>1, <3>1, <3>2 DEF Finish
  <2>2. CASE ServeCreate
    <3>1. PICK x, r : CreateOK(x, r) /\ Create(x, r)
      BY <2>2, CreatesKeepPromises
    <3> QED
      BY <2>1, <3>1 DEF CreateOK, Create
  <2>3. CASE PollJob
    <3>1. PICK x, r, id : id \in JobIDs /\ Handled(surface, entry, r, Resolves(id)) /\ Poll(x, id, r)
      BY <2>3, PollsKeepPromises DEF SurfacesInv
    <3> QED
      BY <2>1, <3>1 DEF Handled, Poll
  <2>4. CASE CancelJob
    <3>1. PICK x, r, id : id \in JobIDs /\ Handled(surface, entry, r, Resolves(id)) /\ Cancel(x, id, r)
      BY <2>4, CancelsKeepPromises
    <3> QED
      BY <2>1, <3>1 DEF Handled, Cancel
  <2>5. CASE Record \/ CreateElsewhere \/ ResetCursors
    BY <2>5 DEF Record, Idle, CreateElsewhere, ResetCursors
  <2> QED
    BY <2>2, <2>3, <2>4, <2>5 DEF Next, ServeCreate
<1> QED
  BY <1>1, SurfacesHold, PTL DEF Spec, RefusalSpendsNothing
=============================================================================
