# A TLA+ model of servicesim

servicesim is one process that answers as if it were several HTTP APIs, from
scripted scenarios, for tests. Tests share it: each one names a namespace (`/n/<ns>/`)
and a scenario (`/x/<name>/`) and expects its own deterministic replies, its own
journal of requests and its own asynchronous jobs, however many other tests run
beside it. What is hard is exactly that sharing. This directory models it.

## 1. The system and its parts

| part | source | state | operations |
|---|---|---|---|
| turn selection | `provider/turn.go`, `scenario/model.go` | none | `selectTurn`, `Match.Matches`, `TerminalRegressions` |
| job store | `internal/jobs` | records per namespace, bounded | `Create`, `Lookup`, `Advance`, `MarkCancel`, `ResetIn`, `Reset` |
| job protocol | `provider/jobs.go`, `provider/cancel.go` | none of its own | `MintJob`, `ResolveJob`, `SelectPollTurn`, `CancelJob` |
| fault engine | `provider/fault_engine.go`, `provider/lane.go` | a cursor per lane, admitted namespaces | `Next`, `AdmitNamespace`, `ResetIn`, `Reset` |
| journal | `internal/journal` | a ring and a sequence per namespace, bounded twice | `NextIn`, `Append`, `CloseStream`, `Snapshot`, `ResetIn`, `Reset` |
| request handling | `provider/handle.go`, `exchange.go` | one exchange per request | `Handle`, with record and close |
| fault execution, streaming | `provider/fault_exec.go`, `stream.go` | bytes and chunks sent | `execute`, `executeStream` |
| admin API | `internal/admin` | none of its own | reset of one namespace or of all, reads |
| server | `internal/server` | listeners, readiness, one engine per scenario | `New`, `Run`, `Shutdown`, routing |
| profile framework | `provider/{profile,mux,validate,exchange,lane}.go` | the registered set | `AddProfile`, routes and mux, lanes, findings and their policy |
| profiles | `profiles/*` | none | per route: validate, claim, mint, poll, cancel, render |
| scenario files | `scenario` | none after load | load, validate, resolve |
| configuration | `internal/config`, `cmd` | none | flags, environment, defaults, scenario directory |
| the rest | `internal/{redact,httpx,ids,wire}`, `testkit`, `contracts` | none shared | parsing, rendering, test helpers |

How they meet. A request is a goroutine. The router picks a scenario's handler;
`Handle` claims a sequence number in the journal, asks the scenario's engine to
admit the namespace, runs the profile's handler, which claims a call index
from the engine and may read or write the job store, and finally appends its
journal entry, which a stream completes later. Each store has its own
lock, so a request is a sequence of atomic accesses with other requests in
between. An admin reset is three more accesses, one store after another:
journal, engines (one per scenario), jobs.

What is hard, and which property is about it, is the `hazards` list of
`PROJECT.json`. In short:

* a position claimed in one store and recorded in another, out of order;
* a cancel that reads a job, judges it and writes, while polls move the job;
* resets that are several steps wide, with requests inside them;
* two stores that count namespaces on their own and must agree;
* an entry found again later by a name or a number that may since mean another;
* a claim taken before a refusal, and a prediction made before the bytes are written;
* a client that leaves while a fault, a delay or a stall is under way;
* the same fact computed twice: at load and at dispatch, by the router and by the lane;
* a shutdown that meets a bind, a failing listener, a hanging client or another shutdown.

What makes each part correct:

* turn selection: the load-time check misses no script that un-completes a job;
* jobs: positions are never shared, completion wins over cancel, a cancel's answer
  is what the next poll is served, the bound holds, no cancel spins for ever;
* journal: each namespace sees a queue of its own newest entries, with honest counters;
* namespaces: the bounds hold, the stores agree, no request silently loses its fault
  plan or its entry;
* requests: every request is journaled once, before an abort can be observed, and its
  entry says what happened on the wire; streams are closed by their own request;
* profiles: a refusal spends no attempt of any lane and touches no job, its status
  follows from its findings, and a create whose findings are all demoted is refused
  only for a turn or a job that cannot be had;
* loading: an accepted fault plan does what it says on every turn it can meet;
* server: it starts whole or not at all, routes a request where its lane says, and
  stops within its grace period leaving nothing open.

## 2. Modules

| module | models |
|---|---|
| `TurnSelection` | selection and the load-time check, as pure operators |
| `JobRegistry` | the job store: each method an operator on one namespace's records |
| `AsyncJobs` | concurrent creates, polls, cancels and resets over `JobRegistry` and `TurnSelection` |
| `JobLifecycle` | the abstract job store, every operation atomic |
| `JournalRing` | the journal: each method an operator on the map of lanes |
| `NamespaceStores` | requests and resets over the journal and the engines, at the namespace bound |
| `JournalQueue` | the abstract journal: a bounded queue per namespace |
| `JournalReader` | a client paging the journal with `since` and `limit` while requests end |
| `FaultAttempts` | one scripted fault attempt: its kind, what loading refuses, what it does to a response |
| `RequestLifecycle` | one request from its handler's answer to its last byte, and its client |
| `Exchange` | findings, validation policy, credentials, body checks, common to every handler |
| `Perplexity`, `Exa`, `Tavily`, `Mcp` | each profile's handlers and checks, as operators on a request |
| `Surfaces` | the routes of the four profiles as a machine: requests, claims, jobs, entries |
| `Lanes` | prefixes, namespace header, extractors, the string key of a lane and its parse |
| `Profiles` | registration, kinds and instances, derived routes, the mux |
| `Validation` | what loading a scenario reports |
| `Config` | flags over environment over defaults, validity, the scenario directory |
| `Server` | the process from command line to exit, over `Lanes`, `Validation` and `Config` |
| `MCAlgorithms` | pure algorithms of `TurnSelection`, `Lanes`, `FaultAttempts` and the profiles against references |
| `Ordered` | sequences taken from a set of positions in ascending order, used by `Lanes`, `Config` and the profiles |
| `OperatorLemmas` | minimum and maximum, sequences, and the theorems on turn selection |
| `LaneLemmas` | the key of a lane, how it reads back, what a reset drops |
| `AsyncJobsProofs` | theorems on `AsyncJobs`: types, cancel, bound, refinement, positions, answers |
| `NamespaceStoresProofs` | theorems on the journal, the admissions and the requests that use them |
| `RequestLifecycleProofs`, `ServerProofs`, `SurfacesProofs` | theorems on one exchange, on a process, on the routes |
| `AlgorithmsProofs` | theorems on `MCAlgorithms`: lane keys, walks, batches, streams |
| `MC*` | instances for TLC |

The `map` of `PROJECT.json` gives the lines each definition translates.
Definitions named `Bug...` are mutations of the operator they precede, used to
show that each property can fail; nothing else refers to them.

### AsyncJobs

`jobs[ns]` is `Registry.jobs`; `creates` and `polled` are the engine's cursors of
the create lanes and of the job's poll lane; `req[r]` is a request between two
accesses to shared state. `MintJob` is `ClaimCreate` and `StoreCreate`;
`SelectPollTurn` is `ClaimPoll` and `AdvancePoll`; `CancelJob` is `ClaimCancel`,
`LookupCancel` and as many `WriteCancel` as its loop needs. A claim chooses freely
whether the fault attempt commits, which stands for every fault plan.
`ResetCursors` and `ResetJobs` are the two steps of an admin reset that matter to
jobs. The refusals that change nothing (a 404, an invalid identifier) are not
actions; the job store's `Near` warning is left out. Every namespace is one the engine
admitted; the request it did not admit is in `Surfaces`.

A cancel's request keeps `first`, the number of polls on the record it read first, so that
`RetryMeansPollLanded` counts the polls that landed since: one for each retry made, and one
more before a write can be refused.

`served` and `answered` are histories: what each poll was served and what each
cancel said the next poll would be. `straddled` records the namespaces in which a
request overlapped a reset; the code calls what happens there undefined
(`jobs.Store`), so the properties about positions and identifiers are claimed for
the others (`Settled`) and become applicable again after a clean reset.
`BoundHeld`, `CancelSound` and `ImplementsLifecycle` are claimed everywhere.

### NamespaceStores

`lanes` is `Ring.lanes`; `live[s]` the namespaces the engine of scenario `s` has
admitted; a client sends one request or one reset at a time. A request is
`Arrive` (route, number), `AdmitNamespace`, `Serve` (handler and claim), `Record`
and, for a stream, `Close`. The refusal of an unknown scenario goes from `Arrive`
straight to `Record`, as its `Deps` hold no engine. So does a request the engine does not
admit, unless the scenario demotes `namespace.limit_exceeded`: the error is then a
warning, the handler runs and claims, and without a slot the answer is served without its
fault plan. `admitted` tells that request from one that lost its slot to a reset, which is
what `PlanLostOnlyToReset` is about. A reset is `ResetJournal` and
then one `ResetEngine` per scenario; a reset of everything keeps the engines'
admissions, as the code does.

Each method of the Go `Ring` looks its lane up under one lock and works on it under
another. It is one step here: a reset between the two leaves the method working
on an unreachable lane, which is indistinguishable from the reset having come
after it. `torn`, `cut`, `stale` and `apart` are histories used by properties.

### RequestLifecycle

`Init` picks an entry's stream scripts, the turn that answers, the claimed attempt
(any that loading accepts, or none) and what the handler does. Then `Handle` goes on:
the claim is applied or stripped, the entry of an abort is recorded before the
socket is touched (`Dispatch`), or after the headers for a cut body with a hang
(`RecordTruncation`), a stream's entry is recorded open and amended by its close,
and `Unwind` is the deferred function that covers every other way out, a panic
included. The client may `Leave` at any step; a pause then elapses or is cancelled.
`net/http` is external and kept to three facts the code relies on: bytes under a
status that carries none are not sent, a hijacked or aborted connection is destroyed,
and writes after the client left are lost.

### Surfaces and the profiles

A handler is an operator from a request (a record of how its body read, which
properties it has and of which class, its credentials and whether its namespace is
admitted) to a response: findings, status, whether it claimed, whether a fault may
apply. `Surfaces` calls one route again and again, counts the claims of its create lane
and of each job's poll and cancel lanes, keeps the jobs, and journals each entry. A job
minted by another entry may appear (`Foreign`). A reset of the cursors alone stands for the
first half of an admin reset, after which identifiers repeat and a job's lane and
its record are at different positions.

Each route says where a credential may come: `/search` and a research create take a body
`api_key`; `/extract` and the research polls take the `Authorization` header alone and only
flag the other. A poll of the Agent API or of a run is served by `SelectPollTurn`, which
asks the record for a cancel; a research poll by `SelectTurnFor`, which looks at
the lane's call index and never at the record. A request that a demotion let through
without a seat reads call index -1, takes nothing from any lane and is journaled with
`fault.unknown_key`; it can still mint a job. It may be sent only while no lane has counted,
since a namespace whose lanes have counted has its seat.

### Server

`main` registers the profiles, reads the configuration, reads and validates each
scenario, binds listeners one by one (each with its `Serve` goroutine), becomes ready
and waits. Signals, failing listeners, requests that hang and a `Shutdown` called
from elsewhere can come at any time. `drain[c]` is where the `Shutdown` of caller
`c` is in its backward walk; `expired` the callers whose context has ended.

## 3. Runs

| run | instance | states | shows |
|---|---|---|---|
| `jobs_race` | 3 requests, 2 entries (one with a script that runs out and no cancel script), 4 calls per lane | 935 k | positions, completion, cancel answers, retries |
| `jobs_reset` | 2 requests, 2 admins, 2 calls per lane | 702 k | bound, cursor against record, identifiers, refinement of `JobLifecycle` |
| `jobs_live` | 2 requests, 1 admin, fairness | 7 k | every request ends |
| `stores` | 2 clients, default and two named namespaces, bound 1, capacity 2, 3 requests, any reset, `namespace.limit_exceeded` demoted or not | 443 k | bounds, counters, agreement, streams, refinement of `JournalQueue` |
| `exchange` | every fault kind with up to two modifiers, 3 entries, 7 kinds of handler, a client that may leave | 415 k | recording before visibility, truthful entries, jobs against the wire, plans that apply, every request settles |
| `surfaces` | the 11 create routes and their job routes, requests deviating from a valid one in one property, body, credentials or namespace, 8 entries, 2 creates, 2 polls and 2 cancels | 1 239 k | claims, statuses, demotion, job ownership, the echoed model |
| `server` | two listeners of one kind beside the admin one; sound and broken profiles, flags, directories; every way to stop | 204 k | start, routing, drain and exit |
| `algorithms` | scripts of up to 3 turns over call_index in {-1, 0, 1, 3}; lanes with separators and credentials in their values; stream scripts of up to 2 deltas and 2 turns; batches with repeats and overrides | 200 k | load-time checks and parsers against references |
| `stores_misrouted`, `stores_zero_seq`, `journal_pager`, `mcp_streams` | the smallest instances that show it | | four disagreements between comments and code, below |

Why the bounds suffice. The job script needs two pending snapshots and a terminal
one for a cancel to be overtaken by completion, so four polls; three requests let
two polls and a cancel race; two tries of the compare-and-set exercise both the
retry and the giving up. With two calls per lane and two admins a reset can meet a
create, a poll or a cancel at each of its steps and another reset halfway. A
capacity of 2 wraps with 3 requests; one slot and two named namespaces put the bound
within reach of the first requests. `MaxCalls` and `MaxRequests` bound the claims of
a lane (in `surfaces` those of all creates, of all polls and of all cancels) and the requests
sent; they are model bounds, the code's counters have none.
In `exchange` a stream has up to three chunks, so a fault can fall before, between and
after all of them on a longer and on a shorter turn; a body of 4 bytes can be cut
inside and at its end. In `surfaces` a second call of a lane meets the next turn, a
script that ran out, a full job store (two jobs) or a repeated identifier. Requests
deviate in one property, or in two that a check reads together, because the handlers
check properties one by one; pairs that meet in the ranking of errors come from the
credentials and the body, which vary together. In `server` two instances of one kind
are what it takes for keys to clash, and three listeners for one to fail between two others.
Symmetry permutes requests, clients and named namespaces, which no definition
tells apart.

Fairness. `FairSpec` assumes weak fairness of each request's next step: the Go
scheduler runs every runnable goroutine and no step of a request waits for
another request (locks are held for a bounded time). New requests and resets
are not assumed to come or to stop coming. In `exchange` `WF_vars(Handle)` says the
same of the one request, pauses included, since each is a timer the code selects on; its
client is free to stay or leave. In `server` the process's own steps are weakly fair and
the grace timer fires once set; nothing makes a client finish, a listener fail or a
signal come. `ShutdownIsBounded` needs a positive grace period: with 0 the code sets no
deadline and a hanging client can hold the process for ever.

Deadlock is checked where a client can always go on (`jobs_reset`, `jobs_live`,
`stores`); `jobs_race`, `surfaces` and `algorithms` stop at their bounds, `exchange` and
`server` when the request or the process is over.

### What the violation runs show

* `stores_misrouted`: `namedLanesLocked` says the journal and the engine must agree
  on the admitted namespaces, or a journal that refused alone "would drop a live
  test's entries with no log line anywhere". A request to an unknown scenario takes
  a journal lane and no engine slot, so at the bound that is what happens. A second
  way there needs no misrouted request: a reset of everything drops the journal's
  lanes and keeps the engines' admissions, a namespace the engine refuses has taken
  a journal lane by then, and the one the engine kept goes unrecorded. `Ring.ResetIn`'s comment says that divergence "leans the safe way".
* `stores_zero_seq`: `Journal.Next` says a zero `Seq` means never journaled. A
  request refused a number is appended with `Seq` 0 if a slot is freed meanwhile.
* `journal_pager`: `filter.limit` calls `since` plus `limit` "a correct forward pager".
  Numbers are drawn at arrival and entries appended at the end, so a pager that has
  read number 2 never gets number 1 when request 1 ends later. (A read without
  `?namespace=` mixes lanes that number from 1 each, and skips even without overlap.)
* `mcp_streams`: loading bounds a stream fault by the chunks the shortest turn plays, so
  that no fault "silently does nothing". An MCP stream plays its progress frames only
  for a request with a progress token; without one the accepted fault never happens.

`StoresAgree` states what does hold: used sequentially, with one scenario, no
misrouted request and only scoped resets, the two stores admit the same namespaces.
`StreamsClosed` makes a similar exception, for lanes holding an entry whose number
came from a lane since dropped: such an entry can absorb another stream's close.

### Smaller observations

Met while translating; no run is about them, and the model follows the code.

* An oversized body on Exa's `POST /contents` is answered 400, where
  `docs/package-design.md` and the contract's README say 413.
* A warning recorded after the claim (Perplexity's concise `stream_mode`, Exa's
  unrequested content status, Tavily's unrequested failure) that strict mode
  promotes leaves the answer 200 and strips its attempt.
* `CodeNamespaceLimit`'s comment says that a request over the namespace bound is refused, as
  serving it with a 200 was worse (`provider/handle.go:40-47`). `validation.demote` takes any
  code, this one too: the request is then served with a 200, without its fault plan, and
  without an entry when the journal has no lane for it either.
* A research poll follows its lane's cursor alone, so a reset of the cursors starts a task
  over while its record stays, and a task of an undeclared entry is pending for ever.
* The MCP profile answers a refused namespace with 401, not the 503 of the README.
* A stream under status 204 or 304 is journaled as left by its client.
* `Shutdown` from elsewhere while `Run` is binding is overtaken by `ready` being stored
  true; every listener then stops, so readiness is wrong only until `Run` returns.
* `--shutdown-grace 0`: `Config.ShutdownGrace` says "Zero closes listeners immediately".
  `Run` sets no deadline then, so the listeners stop accepting but a request that never
  ends holds the process; `ShutdownIsBounded` therefore assumes a positive grace.
* `--providers ""` enables no listener, while scenario validation runs with every profile.
* A `|` inside an extractor's value can make two lanes' keys equal (`LaneRecovered`
  claims the route and the namespace, which survive).

## 4. Proofs

TLC checks every property on the instances above; the theorems below state them for
every value of the constants. `PROJECT.json` lists them with the property each states.

### Assumptions

TLC evaluates each of these in the runs of the module that declares it.

* `RegistryAssumption`, `JobsAssumption`: positive bounds, at least one entry and
  namespace, scripts with a length.
* `ScriptsAssumption`: every poll script and cancel script loads (`ScriptLoads`: each
  turn's status is known and `TerminalRegressions` finds nothing). The three profiles
  that have poll scripts report both as errors when a scenario is validated, and a
  scenario with errors is not served.
* `RingAssumption`, `StoresAssumption`: finitely many namespaces including the default,
  a positive namespace bound, any capacity including 0.
* `ExchangeAssumption`: attempts are attempts, an entry has at least one turn, and each
  turn a stream script. Which attempts a plan may hand out is checked by the model, not
  assumed. `LengthsAssumption`: a body, an error envelope and a chunk are not empty.
* `InputsAssumption`, `RequestsAssumption` (`Server`): profiles, a directory's files, a
  request's path and the values its extractors find are sequences. Nothing is assumed of
  their number, of ports, flags, scenarios or directories.
* `KeysAssumption` (`Server`): in a registration that `NewSet` accepts, a route's fault key
  is its kind, a colon and a name without `|`, as all the built-in profiles write it
  (`profiles/exa/handler.go:25`), and routes that share a key belong to one plan entry
  (`fault_engine.go:90`). `NewSet` does not enforce the form: a profile registered by an
  embedder with a `|` in its key is outside the routing theorem.
* `LanesAssumption`, `BoundsAssumption` (`MCAlgorithms`): the secret is a credential and no
  digest is itself hidden; bounds are naturals and call indices lie in the walked range.
* `SurfacesAssumption`, `EntriesAssumption`: bounds are numbers; a poll turn's status
  and the answer a cancel is scripted are among those loading accepts (`JobStatuses`).
  Requests are arbitrary: any body, any properties, any credentials.

### Turn selection and jobs (`OperatorLemmas`, `AsyncJobsProofs`)

* `SamplingIsExact`: `TerminalRegressions` looks at poll 0, each `call_index` and its
  successor. Between two neighbouring samples every turn matches the same polls, so each
  poll selects what the last sample at or before it selects; hence the polls of a walk
  and the samples meet the same turns, first at the same poll. `LoadedScriptAbsorbs`
  follows: a script that loads is never served a pending turn after a terminal one.
* `TypeCorrect`: `TypeOK` is inductive; `SelectTurnRange` types every snapshot.
* `CancelIsSound`: `CancelSound` alone is not inductive, since the write of a cancel
  relies on a judgement made earlier. `CancelInv` adds `MarkJudged`: a request about
  to write holds a record judged cancellable at its position. The compare-and-set
  carries the judgement to the stored record, and polls only move positions up.
* `BoundIsHeld`: the same for the bound, through one lemma per store method.
* `LifecycleIsImplemented`: the mapping forgets cursors, requests and histories and
  keeps of each record what a client can tell. The write of a poll is the abstract
  poll, whatever landed since its claim; the write of a cancel is the abstract cancel
  because `CancelInv` says that it was judged at the position it is written at.
* Positions and retries (`PollsMatchClaims`, `OnePollPerPosition`, `NoCollision`,
  `RetryMeansPollLanded`, `CancelAnswersNextPoll`, `TerminalAbsorbs`) share one
  invariant, `PositionsInv`, claimed of the namespaces that no reset overlaps. `InOrder`
  says of such a namespace that a claimed index is held by one poll and was not served,
  that every index between the record's count and the lane's is held, that an identifier
  being minted has a claim of its own and no record yet, that a reading about to be
  written is not from the future and exceeds the cancel's first one by at least a poll for each retry, and that what a poll was served or a cancel answered
  is still what the record selects at that position. `ResetStill` is the state between
  the two halves of a clean reset; without it the second half could not give back a
  namespace that is in order. `TerminalAbsorbs` adds `LoadedScriptAbsorbs`, for the poll
  script and, beyond the cancel, for the cancel script.

### Journal, engines and requests (`NamespaceStoresProofs`)

* `StoresTyped`, `RetentionIsHonest`: proved together, because the position `Store`
  overwrites is within the buffer only if the counters are honest (a full lane has
  exactly `Capacity` entries and its head is below it), and the counters are natural
  numbers only by type.
* `NamespacesAreBounded`: each admission adds at most one namespace and only below
  the bound; resets only remove.
* `QueueIsImplemented`: the mapping reads each lane from its head on (`snapshot`). An
  append to a full ring overwrites at the head and advances it, which in that reading is
  dropping the first and appending; the arithmetic modulo the capacity is done once, in
  lemmas about one lane. `Missing` (a lane that is not in the map reads as empty) makes
  the creation of a lane a stutter.
* `PlansAreLostToResets`: `Seated` says that a request between its admission and its
  claim keeps its seat in its engine until a reset takes it and is then marked. It says so
  of the admitted ones only; a request that was demoted into service has no seat to keep.
* `StreamsAreClosed`: `StreamsInv` says of every lane without a foreign number that its
  entries carry different numbers the lane handed out, that an entry carrying the number
  of a request under way is the one that request recorded, and that an open entry has a
  request that will close it.
* `StoresAreTogether`: `AgreeInv` says where the two stores stand at each step of the
  one request or reset under way; they differ in between.

### One exchange (`RequestLifecycleProofs`)

`JournaledBeforeSeen`, `EntryAmendedOnce`, `RejectionUntouched`, `LoadedPlanApplies`,
`EntryTruthful` and `JobMatchesWire` come from one invariant, `Account`: the decision
`Handle` took stands, the journal is ahead of the wire at every step (whatever the client
does), and, for a client that stays, wire, entry and counters agree step by step: one
account for a plain response and one for a stream. Bodies, envelopes and chunks have any
length, plans any attempts, streams any number of chunks.

### A process (`ServerProofs`)

`ReturnSettles` and `ProbeOutlivesDrain` come from `Settled`: each socket follows its
`Serve` goroutine, each `Shutdown` goes backward and leaves behind only listeners that
are through, and `Run` is where its phase says, with every cut request accounted for.
Any number of listeners, either caller of `Shutdown`, at any time.

* `StartIsWhole` adds `ReadInOrder` and `Whole`. `ReadInOrder` says of the registry that, until
  something fails, it holds as many scenarios as sources were read, each one a source's,
  under distinct names; `Whole` says of each phase what was accepted before it, so that a
  bound listener implies that everything was. The listeners are the enabled profiles and a directory's
  sources its YAML files, each enumerated by its rank among the positions kept
  (`Ordered`), which makes "as many" and "distinct" statements about cardinalities.
* `RequestsAreRouted` adds `Answered`: what the router served is the answer of a
  registered profile to a request, read from a registry that no longer changes. The rest is one
  request: the prefix parsers return the scenario and the namespace the path names,
  whatever follows them, and the plan of the matched instance is found by its key.

### Lanes (`LaneLemmas`, `AlgorithmsProofs`)

A cursor key is the namespace and `/` (nothing for the default one), the route's key, and a
`|` and a value for each extractor. `LaneResolves` says what reading it back gives: the namespace is what
precedes the first `/`, and the plan is the one whose key is the first part up to a `|`, which
no other registrable key is. Values may hold separators, credentials or
nothing. `ResetIsExact` follows for a set of lanes. For `LaneKeysClean`, consider the first
extractor after which a hidden token is in the key: it appended a value that hides
nothing, or a digest. `LanesInv` carries this through a
behaviour: the engine's keys are exactly those of the lanes that were claimed since their
namespace was last reset.

### Walks, batches and streams (`AlgorithmsProofs`)

* `WalksAgree` lifts `SamplingIsExact` to a client that polls one position after another.
  `WalkInv` says that what it has found so far are the regressions of the polls walked,
  and that the terminal turn it remembers is the first it met.
* `TargetsAreAnswered` rests on `ContentsAnswered` and `ExtractPartitions`, which hold for
  batches and overrides of any length, repeats included.
* `FaultsLand`: `FramesAreCounted` equates the count made at load with the frames rendered,
  `AcceptedFaultHasChunk` puts an accepted fault inside each turn's stream, and `StreamInv` counts the
  faults of the calls made so far against those that were planned. Its hypothesis, `Streams
  \subseteq {"sonar", "agent"}`, leaves out MCP, for which the claim is false (`mcp_streams`).
  A plan of the instance is a stream fault, once or repeated, alone or after a call left
  alone; the fold that expands a plan is unfolded for those two lengths. The number of
  deltas and of calls is any.

### The routes (`SurfacesProofs`)

Each handler is shown to keep a contract, on every one of its exits: a refusal that is not
for want of a turn or a job claims nothing and touches no job (`Blameless`), the status
follows from the errors (`Explains`), only the entry's policy refuses (`Heeds`), and a
lane is claimed from, and a job polled or cancelled, only if the job was resolved (`Handled`). The status of Exa's
refusals is that of the first error in its order of fields and codes, so the
lemma `EStatus` is about the minimum of that order. `SurfacesInv` then relates the
machine to the contracts: `SurfacesTypeOK`, `ClaimsAccounted`, `OwnJobsOnly`, and the answer under
way keeps what its handler promised through `Handle`'s own finish, strip included.
From it follow `StatusNamesTheCause`, `DemotionHolds`, `ServedModelNamed` and
`RefusalSpendsNothing`.

### What the proofs changed

`DemotionHolds` now names the refusals it leaves out (no turn, no job) by their findings.
`RetryMeansPollLanded` counts from the cancel's first reading, which the request has to carry.
`PlanLostOnlyToReset` asks whether the engine admitted the request, since one let through by
a demotion never had a plan. `OwnJobsOnly` speaks of each job's lanes, `ClaimsAccounted` of
each lane.
`RoutedToItsScript` says whose plan a route draws on: its instance's if the profile is
instanced and the scenario declares it, else its kind's. The server's listeners and sources, and the keys of
a lane, became functions of positions instead of recursive walks, so that they hold for any
number of them and can be reasoned about.

### Only model-checked

* Liveness (`RequestsFinish`, `Settles`, `ShutdownIsBounded`): fairness and ENABLED are outside the prover.
* The four properties whose violation is the point of a run.

## 5. Not modelled

* The text of what is rendered, parsed or masked: bodies, headers, YAML, identifiers,
  redaction. Where text decides control it is a class of values (a property is "bad", a
  lane value is a credential).
* Predicates of a turn over a request's body: an opaque truth value.
* The vendors' projection bodies: `Validation` takes what their checks report as given.
* The read-only admin endpoints other than the journal, `healthcheck`, logging, clocks.
* Handlers registered by an embedder, and stores other than the built-in ones.
* Several engines over one job store, and `Snapshot` and `Reset` walking their lanes one by one
  (hazards with a note in `PROJECT.json`).
* The test kit, bundled scenarios and contracts, which are clients and data.

## 6. What is left

Modelled, in this order: turn selection, job store and protocol, journal and namespace
admission; then the request's lifecycle and faults, the profiles, lanes, registration,
loading, configuration, the server, and the journal's reader. Proved: every safety and
action property the passing runs check, and both refinements. What could follow:

1. A second scenario's engine over the one job store: identifiers minted by both collide,
   which the identifier lemmas of `AsyncJobsProofs` would have to tell apart by scenario.
2. `Snapshot` and `Reset` lane by lane, beside appends and claims: what a reader or a
   request that spans two lanes can see halfway.
3. Plans of more than two attempts in `FaultsLand`: the unfolding of the plan's fold is
   by its length, and needs an argument about the fold itself.
4. The scenario files of MCP streams, once loading counts their progress frames.
