----------------------------- MODULE Validation -----------------------------
(***************************************************************************)
(* What a scenario must satisfy before anything is served from it: parsing *)
(* and envelope validation (scenario/load.go, scenario/validate.go,        *)
(* scenario/resolve.go) and the checks of the registered profiles          *)
(* (provider/validate.go).  A report is a set of findings                  *)
(* <<severity, code>>; paths and messages are left out.                    *)
(*                                                                         *)
(* A scenario is a record: version, syntax ("ok", "yaml", "fields"), name, *)
(* sources, refs (the source identifiers its bodies cite), entries.  An    *)
(* entry: name, kind, stray, faultWithTurns, auth, turnKey, create,        *)
(* cancel, background, turns, and body, what the profile's own projection  *)
(* validator reports.  A block that is absent is Absent.                   *)
(***************************************************************************)
EXTENDS Profiles, FaultAttempts

SchemaVersion == 1
Absent == [present |-> FALSE]

Error(code) == <<"error", code>>
Warning(code) == <<"warning", code>>
When(condition, finding) == IF condition THEN {finding} ELSE {}

\* Report.OK
Accepted(report) == \A f \in report : f[1] # "error"

versionSupported(v) == v \in 1..SchemaVersion

-----------------------------------------------------------------------------
(* The envelope *)

\* Only a name that cannot resolve to a paid API is unremarkable.
validateSource(sources, i) ==
    LET src == sources[i]
    IN  When(src.id = "", Error("source.id.missing"))
          \cup When(src.id # "" /\ \E j \in 1..(i - 1) : sources[j].id = src.id,
                    Error("source.id.duplicate"))
          \cup When(src.url = "missing", Error("source.url.missing"))
          \cup When(src.url = "real", Warning("source.url.not_reserved"))
          \cup When(~ src.title, Error("source.title.missing"))
          \cup When(~ src.claimIds, Error("claim.id.missing"))

validateFault(f) ==
    IF ~ f.present THEN {}
    ELSE When(f.attempts = <<>>, Error("fault.attempts.empty"))
           \cup When(f.after \notin {"", "success", "repeat_last"}, Error("fault.after.unknown"))
           \cup When(\E i \in 1..Len(f.attempts) : ~ validateFaultAttempt(f.attempts[i]),
                     Error("fault.attempt"))

validateTurn(turn) ==
    When(~ turn.mapping, Error("turn.respond.not_mapping"))
      \cup When(turn.when.set /\ (turn.when.blankKey \/ \E n \in turn.when.callIndex : n < 0),
                Error("turn.when.invalid"))
      \cup validateFault(turn.fault)

\* A turn without a when that is not last hides the ones after it.
validateTurns(turns) ==
    (UNION {validateTurn(turns[i]) : i \in 1..Len(turns)})
      \cup When(\E i \in 1..(Len(turns) - 1) : ~ turns[i].when.set, Error("turn.unreachable"))

validateTurnKey(turnKey) ==
    When(\E i \in 1..Len(turnKey) :
           \/ turnKey[i].form \notin {"route", "body", "header"}
           \/ turnKey[i].form # "route" /\ turnKey[i].name = "",
         Error("turn_key.invalid"))

validateCancel(c) == IF ~ c.present THEN {} ELSE validateFault(c.fault) \cup validateTurns(c.turns)

validateProvider(e) ==
    When(e.kind = "", Error("provider.kind.empty"))
      \cup When(e.stray, Error("provider.body_with_turns"))
      \cup When(e.faultWithTurns, Error("provider.fault_with_turns"))
      \cup When(e.auth \notin {"", "required", "optional", "reject"}, Error("auth.mode.unknown"))
      \cup validateTurnKey(e.turnKey)
      \cup (IF e.create.present THEN validateFault(e.create.fault) ELSE {})
      \cup validateCancel(e.cancel)
      \cup (IF ~ e.background.present THEN {}
            ELSE When(e.background.turns = <<>>, Error("background.turns.empty"))
                   \cup validateTurns(e.background.turns)
                   \cup validateCancel(e.background.cancel))
      \cup When(e.turns = <<>>, Error("provider.turns.empty"))
      \cup validateTurns(e.turns)

\* Scenario.Validate
validateEnvelope(s) ==
    When(~ versionSupported(s.version), Error("version.unsupported"))
      \cup When(s.name = "", Error("name.missing"))
      \cup (UNION {validateSource(s.sources, i) : i \in 1..Len(s.sources)})
      \cup (UNION {validateProvider(s.entries[i]) : i \in 1..Len(s.entries)})

\* ResolveRefs: a citation names a declared source.
Resolve(s) ==
    When(\E r \in s.refs : \A i \in 1..Len(s.sources) : s.sources[i].id # r, Error("resolve.failed"))

\* Parse stops at the first stage that fails; the stages' reports never mix.
Parse(s) ==
    IF s.syntax = "yaml" THEN {Error("version.unreadable")}
    ELSE IF ~ versionSupported(s.version) THEN {Error("version.unsupported")}
    ELSE IF s.syntax = "fields" THEN {Error("decode.failed")}
    ELSE validateEnvelope(s)
           \cup IF Accepted(validateEnvelope(s)) THEN Resolve(s) ELSE {}

-----------------------------------------------------------------------------
(* The registered profiles *)

\* A when.route must name a route its provider serves.
validateTurnRoutes(turns, routes) ==
    When(/\ routes # {}
         /\ \E i \in 1..Len(turns) :
              /\ turns[i].when.set /\ turns[i].when.route # ""
              /\ \A rt \in routes : turns[i].when.route # rt.name,
         Error("turn.route_unknown"))

\* An entry whose kind no enabled profile serves is warned about and not looked
\* at further; a block its kind has no lifecycle for is an error.
validateEntry(e, handlers) ==
    LET kind == IF e.kind = "" THEN e.name ELSE e.kind
        may  == handlers[kind]
    IN  IF kind \notin DOMAIN handlers THEN {Warning("provider.unimplemented")}
        ELSE When(e.cancel.present /\ ~ may.cancel, Error("cancel_unsupported"))
               \cup When(e.background.present /\ ~ may.background, Error("background_unsupported"))
               \cup When(e.background.present /\ may.background
                           /\ e.background.cancel.present /\ ~ may.backgroundCancel,
                         Error("background_cancel_unsupported"))
               \cup validateTurnRoutes(e.turns, may.routes)
               \cup (IF e.cancel.present /\ may.cancel
                     THEN validateTurnRoutes(e.cancel.turns, may.routes) ELSE {})
               \cup e.body

ValidateScenario(s, handlers) ==
    UNION {validateEntry(s.entries[i], handlers) : i \in 1..Len(s.entries)}

\* The opposite direction: an enabled profile the scenario scripts nothing for.
profileHasAScriptedBlock(s, p) ==
    \E i \in 1..Len(s.entries) :
        \/ s.entries[i].name = p.name
        \/ s.entries[i].name \in p.validators \ {effectiveKind(p)}

unscriptedProfileFindings(s, ps, enabled) ==
    When(\E i \in 1..Len(ps) : ps[i].name \in enabled /\ ~ profileHasAScriptedBlock(s, ps[i]),
         Warning("profile.unscripted"))
=============================================================================
