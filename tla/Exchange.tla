------------------------------ MODULE Exchange ------------------------------
(***************************************************************************)
(* What every profile's handler reads a request through: the findings it   *)
(* records and the validation policy that promotes and demotes them, the   *)
(* credential policy, the shared body checks and namespace admission.      *)
(* Models provider/exchange.go and the head of Handle (provider/handle.go).*)
(*                                                                         *)
(* A request is a record: `body` says how its body read, `f` maps the      *)
(* top-level properties it carries to the class of their value, `creds` is *)
(* the sequence of credentials presented (where, whether with the expected *)
(* key, whether with the Bearer scheme), `admitted` whether its namespace  *)
(* has, or can get, a seat.  Texts are left out; a finding's field is the  *)
(* rank of its name in the sort order, since one classifier reads it.      *)
(***************************************************************************)
EXTENDS Integers, Sequences, FiniteSets

BodyKinds == {"object", "empty", "malformed", "array", "too_large", "unread"}

\* A field is its rank where names sort: 0 the empty one, 1 the Authorization
\* header, 2 a body property, 3 the X-API-Key header.
Finding(sev, code, field) == [sev |-> sev, code |-> code, field |-> field]
Fail(code) == {Finding("error", code, 0)}
FailAt(code) == {Finding("error", code, 2)}
Warn(code) == {Finding("warning", code, 2)}
When(cond, findings) == IF cond THEN findings ELSE {}

Has(x, key) == key \in DOMAIN x.f
Is(x, key, class) == Has(x, key) /\ x.f[key] = class
Bad(x, key) == Is(x, key, "bad")

-----------------------------------------------------------------------------
(* Severities after the entry's validation policy *)

NoPolicy == [strict |-> FALSE, promote |-> {}, demote |-> {}]

\* Mutant of effectiveSeverity: strict outranks an explicit demotion.
BugEffectiveSeverity(p, f) ==
    IF p.strict \/ f.code \in p.promote THEN "error"
    ELSE IF f.code \in p.demote THEN "warning"
    ELSE f.sev

\* Demotion is applied last.
effectiveSeverity(p, f) ==
    IF f.code \in p.demote THEN "warning"
    ELSE IF p.strict \/ f.code \in p.promote THEN "error"
    ELSE f.sev

Failed(p, findings) == \E f \in findings : effectiveSeverity(p, f) = "error"

HasFinding(findings, codes) == \E f \in findings : f.code \in codes

\* Findings: the errors a classifier walks.
Errors(p, findings) == {f \in findings : effectiveSeverity(p, f) = "error"}

ErrorCodes(p, findings) == {f.code : f \in Errors(p, findings)}

\* journalFindings' total order, on the errors: field, then code.  CodeOrder is
\* the order in which the codes of the empty field sort.
CodeOrder == <<"auth.mismatch", "auth.missing", "auth.rejected", "contents.ids_and_urls",
               "contents.target_missing", "namespace.limit_exceeded",
               "request.body_not_object", "request.body_read", "request.body_too_large",
               "request.content_type", "request.malformed_json">>

CodeRank(code) ==
    IF \E i \in 1..Len(CodeOrder) : CodeOrder[i] = code
    THEN CHOOSE i \in 1..Len(CodeOrder) : CodeOrder[i] = code ELSE Len(CodeOrder) + 1

Before(f, g) == f.field < g.field \/ (f.field = g.field /\ CodeRank(f.code) < CodeRank(g.code))

-----------------------------------------------------------------------------
(* The head of Handle: what is recorded before the profile's handler runs *)

\* readRequest: at most one finding about the body; an empty one is no error.
readRequest(x) ==
    When(x.body = "too_large", Fail("request.body_too_large"))
        \cup When(x.body = "unread", Fail("request.body_read"))
        \cup When(x.body = "array", Fail("request.body_not_object"))
        \cup When(x.body = "malformed", Fail("request.malformed_json"))

\* Admission is asked before the handler runs, so a refusal takes its envelope.
Arrive(x) == readRequest(x) \cup When(~ x.admitted, Fail("namespace.limit_exceeded"))

-----------------------------------------------------------------------------
(* Credentials *)

\* AcceptedPlacements: the scenario's headers, else the route's, else the
\* profile's default.
AcceptedPlacements(policy, routeCredentials, default) ==
    IF policy.headers # {} THEN policy.headers
    ELSE IF routeCredentials # {} THEN routeCredentials
    ELSE default

\* AuthPolicy: the entry's own policy, an unset mode being the profile's default.
AuthPolicy(entry, defaultAuth) ==
    LET mode == IF defaultAuth = "" THEN "required" ELSE defaultAuth
    IN  IF entry.declared /\ entry.auth.mode # "" THEN entry.auth
        ELSE IF entry.declared THEN [entry.auth EXCEPT !.mode = mode]
        ELSE [mode |-> mode, headers |-> {}, expect |-> FALSE]

\* The credential the request authenticates with: the first in an accepted
\* placement; 0 when there is none.
Accepted(x, allowed) ==
    LET hits == {i \in 1..Len(x.creds) : x.creds[i].at \in allowed}
    IN  IF hits = {} THEN 0 ELSE CHOOSE i \in hits : \A j \in hits : i <= j

HeaderRank(at) == IF at = "authorization" THEN 1 ELSE IF at = "x-api-key" THEN 3 ELSE 2

-----------------------------------------------------------------------------
(* Turns, jobs and responses *)

\* SelectTurnFor: a turn for this call, or scenario.no_matching_turn.  A turn
\* without conditions also serves call -1, of a request that claims nothing.
Selects(entry, claim) == claim \in entry.serves

\* selectTurn over a script of snapshots: the status at a call, or "miss".
SnapshotAt(script, index) == IF index \in DOMAIN script THEN script[index] ELSE "miss"

\* ResolveJob: an identifier of another entry, or unknown beside live jobs, is
\* warned of; only "resolved" goes on.
ResolveJob(resolves) ==
    When(resolves \in {"wrong_entry", "foreign"}, Warn("job.foreign_id"))

\* How a handler answers: status, journal label, every finding recorded,
\* whether the response is fault-eligible, whether the handler claimed the
\* lane's next attempt itself, whether it streams, and what it did to a job.
Answer(status, label, findings) ==
    [status |-> status, label |-> label, findings |-> findings, eligible |-> FALSE,
     claims |-> FALSE, streams |-> FALSE, job |-> "none"]

Serve(status, label, findings) ==
    [Answer(status, label, findings) EXCEPT !.eligible = TRUE, !.claims = TRUE]

\* A refusal that comes after the claim.
Spent(answer) == [answer EXCEPT !.claims = TRUE]
=============================================================================
