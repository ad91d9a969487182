# Verification of the CFI federation

The repository turns failures of AI agents into *causal failure invariants*
(CFIs): packages a contributor extracts from an incident, generalizes, passes
through a release gate and signs; that a registry stores, reviews and moves
through a lifecycle; that recipients compile into local tests; and whose
prevalence a federation measures under a privacy budget.  This directory holds
TLA+ modules translated from that code, TLC configurations that check them on
small instances, and theorems checked by TLAPS for every value of the
constants.

Paths below are relative to `src/`; `db.py` is
`packages/cfi_registry/src/cfi_registry/db.py`.  `PROJECT.json` holds the map
from definitions to lines, the hazards and the list of theorems.

## 1. Inventory

| Component | State it keeps | Operations | Hard part |
|---|---|---|---|
| Lifecycle rules (`cfi_governance/__init__.py`) | none; mutates the `ArtifactRecord` it is given | `transition`, `supersede`, `revoke` | mutation in place: the caller's record moves before the caller uses it |
| `PostgresRegistryStore` (`db.py`) behind FastAPI (`cfi_registry/__init__.py`) | seven tables: packages, artifact rows, tickets, lifecycle history, supersession chain, manifests, audit | register, transition, review decision, supersede, publish cohort | one request is a sequence of transactions; endpoints overlap on a thread pool; the process may die in between |
| Audit export (`audit_sink.py`, `audit_watermark.py`, `audit_idempotency.py`, `audit_worm.py`, `flush_audit_sink`) | watermark in memory and on disk, ledger, sink file, webhook | flush | overlapping flushes, crashes inside a flush, retries with lost answers |
| In-memory `RegistryStore` | the same as dictionaries of shared objects | the same | objects are mutated before checks; log lost but watermark kept on restart |
| Privacy accountant and aggregator (`accountant.py`, `services/aggregator/main.py`) | spent epsilon, release history, in memory | `/aggregate` | charge before refusal; a restart restores the budget |
| Consortium coordinator (`consortium.py`, `services/coordinator/main.py`) | one round's submissions | admit, drop out, collect, release | caps per organisation, thresholds, a fresh accountant per round |
| Secret sharing (`cfi_federation/__init__.py`) | none | share, recover, clip | arithmetic modulo a prime |
| Causal-core minimizer (`minimizer.py`) | candidate set and granularity of a loop | minimize | termination and local minimality for every oracle |
| Release gate, packager, contributor pipeline | none between runs | run gate, package, extract | order of refusals; the pipeline replaces a refusal by an approval |
| Corpus ingest and publish | manifest file | ingest, publish | partial failure of a batch, repeated publication |
| Recipient compiler, sandbox, mitigation | none between runs; promotion status | compile, evaluate, promote | abstain rather than compile on any doubt |
| Canonicalizer, embedding | none | rename roles | stable naming |
| Middleware (`middleware.py`) | hits per client | allow | window boundary, refused hits |
| Evidence, graph, causal scores, replay, adversaries | none | normalise, replay, score | a replay may be a live agent that answers differently each time |
| Field study (`field_study.py`) | none | simulate the study | which release counts as the first to find a recipient |
| Clients and CLI (`cfi_cli/__init__.py`, `pipeline_runner.py`) | package files, exit codes | every role's commands, the full pipeline | calls that fail after they were served; a pipeline that dies half way |
| Evaluation tools (`tools/evaluation`, red team, pilots, benchmarks) | reports | baselines, harness, rounds, verifications | numbers taken by position |
| Console | none | renders answers | none |

**Interaction.**  The contributor pipeline calls minimizer, gate and packager
and hands a signed package to the registry's `register`.  The registry's review
decision calls its own `transition_lifecycle`, which calls the lifecycle rules
on a record read from the table.  Every write of the registry ends with an
audit row; `POST /audit/sink` exports those rows.  The coordinator calls the
recipient's compiler for each tenant, then the accountant, then the
aggregation.  The aggregator calls accountant and aggregation with no common
transaction.  The command line drives all of them: a full pipeline publishes,
assesses, aggregates, runs a consortium round and probes the replay hooks, each
over the network.

**What makes each part correct.**

* Registry: an artifact's history explains its state; a registration leaves a
  prefix of its writes; the three logs of a move agree; a decision audited is a
  move made; a decided ticket stays decided; overlapping requests may lose moves
  but invent none; alone, the store is a serial lifecycle.
* Audit export: no event below the watermark is missing from the file but one that
  a higher id's export overtook before its commit; a batch the ledger skips was written; the hash chain is a chain; every event committed
  before an export reaches the file, once while nothing dies.
* Federation: spent budget is the sum of the releases and is never above the
  total; no release below either threshold; at most the cap of admitted tenants per
  family; a tenant dropped or refused contributes nothing.
* Algorithms: the minimizer ends in a core that fails, none of whose elements can
  go; shares recover the secret from any threshold-many and not from fewer; the
  limiter admits at most its maximum per window.
* In-memory store: at rest, the maps, the objects and the log agree; a flush
  leaves out no event of its process.
* Pipeline: whatever the gate answers, what leaves a contributor is signed, lints
  clean and may be shared; it compiles at every recipient whose map is complete
  and typed; a pipeline tried again is charged once; what a command reports as done is
  so; every command ends.

## 2. Plan

Modules in the order of importance; all steps are done.

| Step | Modules | Abstract specification | Runs | Theorems |
|---|---|---|---|---|
| 1 | `LifecycleRules`, `RegistryStore`, `RegistryVersions` | `LifecycleSerial`, `LifecycleVersions` | RegistryOverlap, RegistrySerial, RegistryChainLost, RegistryHistoryRow | types, registration order, history, chain, logs, decisions, both refinements |
| 2 | `AuditExport` | none; the covered-cursor invariant says it | AuditOverlap, AuditLone, AuditUnsent, AuditFork | types, ledger and watermark cover the file, the lone flusher's chain and order |
| 3 | `PrivacyAccountant`, `RateLimit`, `Aggregator` composed of the two, `ConsortiumRound` | `SlidingLimit` | AggregatorService, ConsortiumRounds | types, the books and the budget, remaining budget, the limiter's refinement |
| 4 | `RegistryMemory`, on `LifecycleRules` | none; the log is what the maps are held against | RegistryMemoryOverlap | no flush leaves an event out; the quiet maps are logged |
| 5 | `Minimizer`; `CfiPackage`, `IncidentEvidence`, `ReplayHooks`, composed with it in `Contributor`; `Recipient`, `SecretSharing`, `FieldStudy`, `Evaluation`; all composed in `Workflow` | local minimality for every oracle; the other modules are operators | Workflow | core and log of the minimizer |
| 6 | `ConsortiumRoundProofs` | none | ConsortiumRounds | all five properties of the round |
| 7 | `WorkflowProofs` | `Minimizer`, which every job implements | Workflow | types, clean releases that compile, one charge, minimal cores, recovery from shares |

Theorems go to one proof module per component.  Modules that are proved about hold
no RECURSIVE operator; a sum over a history is a fold.

## 3. The registry (`RegistryStore`)

**State.**  One variable for each table of `db.py:23-95`; `pc` and `job` are the
place and locals of the request each thread of the pool serves.  `manifests`
keeps the invariant of each epoch.  An artifact row is its `record_json`: state,
history and supersession chain.  Actor, reason, time and package contents are
not told apart, since no property needs them; validation, signature and leakage
checks of a package happen before the first session and refuse without writing.

**Steps.**  Each `with self._session()` block is one transaction and one action.

| Route | Actions in order |
|---|---|
| `register` | `RegisterCfi`, `RegisterArtifact`, `EnqueueReview`, `AuditRegister` |
| `transition_lifecycle` | `BeginTransition` (read, check and move the copy), `SaveArtifact`, `AppendLifecycleEvent`, `AuditTransition` |
| `review_decision` | `BeginDecision`, `SaveReviewTicket`, then `DecideTransition` and the actions of a transition unless the status is `needs_generalization`, then `AuditDecision` |
| `supersede` | `BeginSupersede` (successor looked up), `ReadForSupersede`, `SaveArtifact`, `AppendLifecycleEvent`, `AppendSupersession`, `AuditSupersede` |
| `publish_cohort` | `InsertManifest`, `AuditPublish` |

A request refused in its first session writes nothing and is not a step.  One
refused later (a decision whose move the graph lacks, a supersession of a record
that is not active) has an action with that outcome.  `BeginTransition` joins
the read of the row with the check and move of the copy: both are local
to the thread after the read.  `Crash` empties every thread and keeps every table.

The endpoints are plain `def` functions, which the web framework runs on threads;
this is the external assumption that requests overlap.  Every session is one
atomic step: two transactions that insert the same key do not both commit, and
each write session modelled touches a single row.

**Abstract specifications.**  `LifecycleSerial` is what a lone client sees: a
row is published once and moves by whole legal moves.  `LifecycleVersions` is
what remains under overlap: a row is overwritten by one legal move from *some*
version it has held.  `RegistryVersions` adds a history variable `versions`
that only watches the row, to state and prove the second refinement; it states the
first as well, for the instances with one thread.

**Behaviour recorded without a run.**  The lifecycle route lets an operator move
an artifact to active while its ticket is pending or rejected: register, then
`POST /lifecycle` with `active`.  Rejecting an artifact still in `reviewed`
saves the ticket as rejected, and the move to revoked is then refused, because
the graph has no such edge: the answer is an error, the ticket stays decided and
there is no audit event.  `AuditedDecisionMoved` is stated so as to cover it.

## 4. The audit export (`AuditExport`)

**State.**  `allocated`, `pending` and `committed` are the audit table under
concurrent inserts: ids given out, rows not yet committed, rows visible.
`watermark` is the value in memory and `onDisk` its file; `ledger` is the
idempotency ledger (memory and file change in one call); `file` is the sink's
file; `accepted` is what the webhook's receiver took.

**Steps of a flush.**  `ReadWatermark`, `Export`, `CheckLedger`, then
`ReadHead` and `AppendLine` for each line, `PostWebhook` for each attempt,
`RecordBatch`, `AdvanceWatermark`, `PersistWatermark`.  The switches of the
environment (`Signed`, `Worm`, `Idempotent`, `MaxRetries`) are constants.
`PostWebhook` chooses whether the receiver took the batch and whether an answer
below 500 came back, independently: a lost answer is a batch taken and an
error.  A 4xx ends the retries as a 2xx does.  `AdvanceWatermark` sets memory
and truncates the file, `PersistWatermark` writes it, because
`write_text` opens for writing before it writes.

**Data.**  An event is its id.  A batch id digests the events, and the
watermark in a signed batch; digests are taken to be equal only for equal
contents.  A line's `chain_hash` stands for its place in the file: two lines have
different hashes, so the hash a line carries names one predecessor.  One
line's append is a single step.  Two writes of the watermark's file are each
a whole, which is exact for values of equal length; bytes of
different lengths mixed by overlap are not modelled.  Ids of rolled-back inserts
are not given out again, which no property can tell from their being reused.

**Writers.**  With `SingleWriter` FALSE (a database that lets writers overlap,
such as the Postgres the deployment guide recommends) ids become visible in the order of the
commits: id 2 commits and is exported, then id 1 commits, below the watermark ever
after, and the sink never has it.  `overtaken` is a history variable, which no action reads: the ids
that were inserted and not committed when a flush exported past them.
`WatermarkCoversFile` says that this is the *only* way to miss an event, and
`OneWriterLosesNone` that a database of one writer (SQLite) has no such event.

**Behaviour recorded without a run.**  Overlapping flushes let the watermark go back, and
with it write an event twice; a signed batch has its watermark in its digest, so
the ledger does not recognise it.

## 5. The federation

**The aggregation service (`Aggregator`).**  `POST /aggregate` behind
`RateLimitMiddleware`.  `spent` and `history` are the accountant's fields, shared
by all threads of the pool with no lock; `pc` and `job` are the place and locals
of each thread's request; `hits` are the limiter's deques.

| Code | Action |
|---|---|
| `dispatch` and `_allow`, on the event loop | `Receive` (a hit is entered, a thread starts), `TurnAway` |
| `verify_circuit_attestation` | `VerifyAttestation`: none or valid goes on, invalid is a 400 |
| `request_release` to the charge | `RequestRelease` |
| `_history.append` | `AppendEntry` |
| the verdict, which reads `_spent` again | `Verdict` |
| `secure_aggregate` and the answer | `SecureAggregate` |

`Wait` is a tick of the clock; `Crash` loses accountant, deques and requests
under way, as all of them live in memory.  `admitted` and `answers` are history
variables that no action reads.  The check of the budget and the charge after it
are one step, because the interpreter the services run on switches threads at
calls and backward jumps, and there are none between the two statements.  The
append is a call, so another thread may charge between charge, entry and verdict.

**Data.**  Epsilon counts in units that add exactly: the code's floats are
taken where their sums do not round.  It may be zero, for which the noise's
scale `1/epsilon` raises after the charge; a negative one, which nothing in
the service refuses, is left out.  A request's contributions are their number, and
the noise and the prevalence are not told apart.  Time is a natural number, and
two hits may fall on one tick.

**`SlidingLimit`** is what the limiter promises, told without its deque: a
request is answered exactly when that makes no more than `MaxPerWindow`
admissions in any `Window` seconds.  The deque implements it with the
identity as refinement mapping: what it forgets is stale for good.  A refused
request is not counted against its client.

**The consortium (`ConsortiumRound`).**  A coordinator is one object used by one
caller, so its loops run in order: `AdmitTenant`, `SimulateDropout` and
`CollectContribution` are the bodies of the three loops, `EndLoop` leaves one
for the next, `Release` is the end of `run_round` with its refusals in order.
Who applies, verified or not, whom the generator drops, which compilation
abstains and how many failures a local evaluation counts are free choices.
`NewCoordinator` is the coordination service, which makes a coordinator, and with
it an accountant, for each request; `BeginRound` without it is a caller
of the library, who may run many rounds on one.  `minimum_k` is the request's;
the accountant's own threshold is not, and may lie on either side of it.

An identity is its place in the list: the code compares no tenant ids, so one listed
twice counts twice.  `domains` is assumed not empty and epsilon positive, as the
service gives them.

**Behaviour recorded without a run.**  A release refused for its cohort
(`below_threshold`) stays charged, as does one whose noise raised; a restart
gives the whole budget back, so `ReleasesWithinBudget` is about one run of the
process.  An outlier cannot occur with the service's values, since its
contributions are clipped to 10 before they are compared with a cap of 50; the
run takes a cap below the clipping bound.

## 6. The in-memory registry (`RegistryMemory`)

The same endpoints on `RegistryStore`, which keeps dictionaries of objects and
takes no lock.  What matters here is what the Postgres store does not have:
two threads may hold one `ArtifactRecord`, and each changes it in place.

**State.**  `cfis`, `records`, `tickets`, `manifests` are the dictionaries; a record
or ticket is an object, named by the request that made it, and its contents are
in `heap` and `statuses`.  `log` is the audit log, `watermark` and `onDisk` the
watermark and its file, `sent` the places of the log that the sink has.  `base`
only remembers the watermark the process began with.

**Steps.**  A step is one statement that reads or changes what is shared.

| Code | Actions in order |
|---|---|
| `register` | `CheckDuplicate`, `PutPackage`, `PutRecord`, `EnqueueReview`, `AuditRegister` |
| `transition_lifecycle` | `GetLifecycle`, `CheckMove`, `BuildEvent`, `AppendHistory`, `SetState`, `PutBack`, `AuditTransition` |
| `review_decision` | `GetTicket`, `SetStatus`, `GetDecided` and the steps of a transition from `CheckMove` on, `AuditDecision` |
| `supersede` | `CheckSuccessor`, `GetForSupersede`, `AppendToChain`, then the same steps of a transition |
| `publish_cohort` | `CheckInvariant`, `PutManifest`, `AuditPublish` |
| `flush_audit_sink` | `ReadWatermark`, `Export`, `Send`, `AdvanceWatermark`, `PersistWatermark` |

`Restart` loses all but the watermark's file.  `Send` is the sink of `AuditExport`
as its caller meets it: written or not, answered or raised.

**Behaviour recorded without a run.**  Two transitions of one record may both
pass the check and then both move it, so that its history need not be a walk of the
graph nor end in its state; this is why the property compares maps and log and
no walk is claimed.  Two registrations of one id both go well, and the first's
record is an object no id has.  A refused supersession leaves its successor in
the chain, as the append comes before the check.  A manifest overwrites
the one its epoch has, where the Postgres store refuses it.  After a restart the log is empty and the watermark is not:
the pending count is `max(0, ...)` and reads zero, while every new event is at
or below the old watermark, and none is exported until the log has passed it.  `MissedIsHidden`
says that this is the *only* way to miss an event.

## 7. Contributor, recipient and the command line (`Workflow`)

**The minimizer (`Minimizer`).**  `typed_causal_core_minimization` as a loop of
queries: `BeginSweep` deals the core over `n` partitions in the order of cost,
`Accept` and `Reject` are the two answers to the heaviest partition not asked
yet, `EndSweep` makes the partitions finer or ends, `StopSmall` is the loop's
condition.  The answers come from the caller, and may differ from one query to the
next, because they may come from a live agent.

**From evidence to a package.**  `IncidentEvidence` has the adapter, the order of
events and the incident graph; `ReplayHooks` the structural replay, the HTTP
providers, profiles and environment variables, the sandbox services, the
counterfactual scores and the probes; `CfiPackage` validation, the linter, alpha
renaming, the release gate, the packager and the signature.  Digests and
signatures are what they were made of.  A text is the set of the kinds of content the
code's patterns look for.  A role with a domain noun is one of two: `refund_lost`, which has
it as a token and so fails validation, and `refunds_lost`, which has it within a word and so fails
the linter where it is an outcome's.  `alpha_rename` numbers nodes by their place, so
that two of one id get an id each, and the edges follow the last.  An oracle's expression is
empty or not, which decides the seventh property of an embedding.

**Jobs (`Contributor`).**  `ingest-corpus`, `ingest-publish`, `extract`, `publish` and
the pipeline's publication are one process each, and its locals are in `job`:

| Code | Actions |
|---|---|
| `ingest_directory`, per bundle | `LoadBundle`, `ScoreCandidates`, the queries of `Minimize` or `ReplayRaises`, `WritePackage`; `EndIngest` |
| `publish_packages`, per file | `StartPublishing`, `PublishFile`, `EndPublishing` |
| `publish_remote` | `PublishOne` |

A network call fails before it is served or after (`RegisterCall`).  `Crash` is the
end of the process at any step and may cut off the file being written.  The other
commands are one step each, since each changes at most one file or the
registry.

**Recipient and federation.**  `Recipient` is the compiler with its contexts and
embeddings, the sandbox, verdicts, mitigation and metrics; `SecretSharing` the
clipping, the shares and the envelope over a small prime field and the
attestation; `FieldStudy` the study, with every random draw an argument;
`Evaluation` the baselines, harness, benchmarks, rounds, red team and pipeline matrix.

**Composition (`Workflow`).**  One registry and one aggregation service, as their
clients see them; `RegistryStore` and `Aggregator` are the services themselves.
After its publication a full pipeline goes through `PipelineAssesses`, `PipelineAggregates`,
`PipelineRunsConsortium`, `PipelineProbesHooks` and `PipelineSummarizes`, and may raise
at each; `charged` counts the releases the service has charged.  `OtherContributor`
registers a package of the same id at any time.  The commands of the recipient, the
aggregator, the tools and the verification scripts complete `Commands`.

**Behaviour recorded without a run.**

* The full pipeline is not retriable: the second registration is a duplicate, and
  the pipeline stops there.  `PipelineChargesOnce` holds because of it; the budget of a
  pipeline that failed after its aggregation stays spent.
* The contributor's pipeline and the commands make an approval of whatever the gate
  refuses (`Overridden`); `ReleasedIsClean` says what the linter and the packager
  still guarantee.  The golden invariant is never plainly approved: its linkability
  is 46 % against a threshold of 40, so that the gate restricts its distribution.
  The coordinator's, the pilot's and the golden path's packages put an approval in the
  place of that restriction.
* `failure_preserving` replays the whole graph whatever elements it is given.  With
  structural replay a core has therefore two elements (or all of fewer) where the
  graph has a policy lookup, and all of them where it has none.  Over HTTP the
  sandbox answers 0.5 for that case, which counts as a failure, so that one bundle
  minimizes differently by provider.
* `if not delta: continue` in the minimizer is never reached: `PartsAreFilled` proves
  that no partition of a sweep is empty.
* Two events of one sequence index become one node of the incident graph.
* A package says `attested` exactly if the minimizer's log has entries.
* The registry rejects every package that contains `prompt` or `api_key` in any field.
* Two roles of one type that a context maps to one entity still compile; negative
  controls always pass; a mitigation of kind permissions is never accepted.
* `attempt_smuggle` fails for text the linter matches, and for no other.
* `recipient contribute` sends one contribution, and so is always suppressed.  The
  attestation clips the sum, and the aggregator compares it with no total.
* `ingest-corpus` writes no package file; `publish_packages` takes files of earlier
  runs too; package files are written in place.
* An environment variable that holds the empty string is a value, for which every
  replay and probe raises.  A probe's check of its replay is always true.
* The coordinator's service answers an error where a round is not released.  The
  golden path asks for ten of ten tenants and so fails on any dropout.
* In the field study a release's day of evaluation is below every incident's, so
  a recipient found at all is found before; the day taken is that of the first
  release in the organisations' order, which need not be the earliest.
* The harness seals no list of baselines, takes the mitigation's delta by its place
  in the results, and other values of its report from no result.
* The red team's collusion counts any recovered number as success.

## 8. Runs

| Run | Instance | What it shows |
|---|---|---|
| RegistryOverlap | 2 threads, 2 ids, 4 requests, 1 crash; 1 epoch; symmetry of threads and of ids | registration order, histories, chain, logs, decided tickets, orphans and the refinement of `LifecycleVersions` |
| RegistrySerial | 1 thread, 2 ids, 4 requests, 2 crashes, fairness | refinement of `LifecycleSerial`; a package registered gets its ticket unless the process dies |
| RegistryChainLost | 2 threads, 1 id, 4 requests | violation: the supersession chain is not append-only |
| RegistryHistoryRow | 1 thread, 1 id, 2 requests | violation: `from_state` of a history row is the new state |
| AuditOverlap | 2 flushers, several writers, unsigned, ledger, 3 events, 4 flushes, 1 crash; symmetry of flushers (717,513 states) | watermark and ledger cover the file, but for the events a higher id's export overtook |
| AuditLone | 1 flusher, WORM, ledger, 2 posts, 3 events, 4 flushes, 1 crash, fairness | each event once and in order until a crash, the hash chain, every exported event written |
| AuditUnsent | 1 flusher, 1 event, no ledger | violation: the watermark passes a batch that the webhook never took |
| AuditFork | 2 flushers, WORM, 2 events | violation: two lines carry the same predecessor |
| AggregatorService | 2 threads, 1 client, 3 requests, 2 ticks, 1 crash; epsilon 0, 1 or 2 of 3; symmetry of threads | the books balance in every interleaving, releases stay within the budget, an answer's remaining budget is stale in one direction only, the limiter implements `SlidingLimit` |
| ConsortiumRounds | 4 tenants of 2 families, 2 rounds, `minimum_k` on both sides of the accountant's threshold; symmetry of families | caps, thresholds, rejected tenants and charges |
| RegistryMemoryOverlap | 2 threads, 2 ids, 1 epoch, 4 requests, 1 restart; symmetry of threads and of ids (461,903 states) | at rest the maps agree with the log; only a restart hides an event from the sink |
| Workflow | 2 directories, one with a bundle of three events, one with a bundle the schema refuses before one whose events share an index; 5 invariants of a library; 2 releases of budget; fairness (134,093 states) | local minimality, what is released is clean and compiles where it should, one charge per pipeline, what is reported is so, shares recover, commands end |

**Bounds.**  `MaxRequests`, `MaxCrashes`, `MaxEvents`, `MaxFlushes` bound
counters that exist only for the bounds.  Four requests are what the longest of
these stories takes: register, activate, and two overlapping moves of the same
artifact; also register a, register b, supersede a by b, and one overlapping
move, or two registrations of one id with a decision and a crash.  Two ids
separate an artifact from its successor; a third would only repeat one of
them.  Two threads suffice for every pairwise race, and the theorems hold for
any number.  Three events and four flushes let one
flush export a prefix of what an overlapping one exports, a third start
after both ended and a fourth after a crash, with an event overtaken by either; they let a
lone flusher repeat a batch after its crash and then go on.  Three requests of epsilon up to 2 on a budget of 3 give every
order of a release that fits, one that does not and one that fits after a restart,
and a limit of 2 in 1 tick has all three hits meet one window or two; the
sizes lie on both sides of both thresholds.  Four tenants of two families with
a cap of 2 exceed it with one to spare for a dropout, an abstention or an
outlier, and the second round finds the budget spent.

In RegistryMemoryOverlap four requests on two threads are two overlapping
registrations of one id, or a register and two overlapping moves, with one request to
spare for the flush or for the successor; one restart gives a process that begins
with an older watermark.  Workflow needs no bound on its commands: the
package files, the registry, the charge and the job are finite, so that the run explores
command lines of any length.  Its directories have bundles that fail by structural
replay and by the sandbox's and one that fails validation before one that does not;
its library has an invariant for each refusal of linter, gate and registry, one of
them with two nodes of one id;
two trained scores lie on both sides of the gate's thresholds; with the prime 5, three shares
and two values each every choice of coefficients is tried; a budget of two releases
lets a second charge happen if the code allowed it.

`CHECK_DEADLOCK FALSE` is given where the bounds
end every behaviour: a state with all requests spent and all threads idle has
no successor, and is no fault of the code.  Workflow checks deadlock: there is
always a command to give, or an end of the one under way.

**Symmetry.**  Used only in runs without liveness.  Threads, families, and ids among
themselves, occur in no definition by name.

**Fairness.**  Weak fairness of `Continue` for each thread: a thread in an
endpoint keeps executing, since nothing in the code waits for another request.
Weak fairness of the commit of an open transaction.  No fairness on starting a
request, a flush or an insert, and none on a crash.  `RegistrationReachesQueue`
and `FlushExports` need exactly these.  In Workflow, weak fairness of a job's next
step: the process of a command runs on, and a network call ends, by an answer or an
error; nothing makes anyone start a command.  `CommandsEnd` needs it, and with it
the minimizer's termination for an oracle that answers as it likes.

**Findings.**  The four violation runs; each quotes the line it disagrees with in
`PROJECT.json`.

1. `supersede` and `transition_lifecycle` write back a whole record read in an
   earlier session.  An overlapping move replaces the row by one without the
   supersession, though the documentation calls the chain append-only.
2. `transition_lifecycle` passes `record.state.value` as `from_state` after the
   lifecycle manager has moved that same object.
3. A flush counts as flushed when every post of it failed, and the watermark, which
   the status route says tracks what was exported, passes it.
4. The head of the WORM chain is read and the next line appended with no lock, so
   overlapping flushes fork the chain.

## 9. Proofs

All hold for every finite or infinite set of ids, threads and epochs, and every value of
the bounds and switches.  The assumptions on constants are, for the registry, `NoIdAssumption`
and `BoundsAssumption`; for the export `SwitchesAssumption`, `RetriesAssumption` and
`ExportBoundsAssumption`; for the aggregator `LimitAssumption`, `AccountantAssumption`,
`RequestAssumption` and `ServiceBoundsAssumption`; for the consortium `RoundAssumption`;
for the in-memory store `MemoryBoundsAssumption`; for the minimizer `CostAssumption`; for the
command line `CorporaAssumption`, `TrainedAssumption`, `LibraryAssumption`, `EpsilonAssumption`
and `PrimeAssumption`: that bundles are sequences whose nodes are numbers, that a trained score is a
percentage and that there is one, that an invariant the packager is given was admitted by the schema, that the budget
is a number of releases, and that the field's prime is odd and above the number of shares.  `SharesRecover`
is stated for an odd number above 3 rather than a prime, because the only inverses two of three shares
ask for are those of 1, 2 and their negatives.
`OneWriterLosesNone` assumes `SingleWriter` besides, `LoneChainIsIntact` and
`LoneFlusherWritesOnce` assume `OneFlusher`, and `LoneThreadImplementsSerial` assumes
`SingleThread`, and `ReleasesCompile` assumes of the library what is said there.

* `RegistryStoreProofs`.  `TypeCorrect` is inductive as stated because the
  type invariant says, for each label, which locals a request has by then
  (`JobFits`).  `RegistrationIsOrdered` is not inductive alone: that
  a ticket is inserted after its artifact row is known only to the thread that
  does it.  The strengthening is `RequestsInStep`: a thread at
  `register.ticket` has an artifact row, one at `register.audit` a ticket, and
  two threads never register one id, since the package row is inserted under
  its primary key.  The conjunction is inductive.
* `RegistryHistoryProofs`.  `HistoryIsAlwaysAWalk` needs that the *copies* in
  flight are walks as well (`WalkInv`), and the lemma that a move of a walk is a
  walk.  `DecidedTicketsStayDecided` and `OrphansStayOrphaned` are action
  properties that follow from `RequestsInStep`: a thread that would enqueue has
  seen no ticket, and the only thread that would insert an artifact row is
  the one an orphan lacks.  `AuditedDecisionsMoved` strengthens its property with
  what a decision's thread has written at each label.
  `ChainsAreAlwaysBacked` needs of the copies in flight what it says of the rows
  (`ChainInv`).  `LogsAlwaysTrail` and `QuietLogsAlwaysAgree` count rows of
  sequences; the counts are cardinalities of sets of places (`Hits`), with one
  lemma for an append and one for a thread that leaves one label for another, so
  that no induction over a sequence is needed.  The invariant `LogInv` has three
  layers: only finitely many threads are in a request; per id, the logs' counts
  differ by exactly the requests between two writes, or by more after a crash
  (`LogCounts`); and a copy about to be saved remembers at most one move more than
  the log has and the requests on their way to it bring (`MoveFits`).  `QueueInv`
  adds that a package without a ticket has a thread on its way to insert it, unless
  there was a crash.
  In the same module, since its proofs need the walks: `CopiesAreAlwaysMoves`, that a copy about to be written is
  one move from a version of the same row, is stable because versions
  only grow.  `OverlapImplementsVersions`: every write of a row is then a step
  of `LifecycleVersions`, every other step a stutter.  With one thread more holds
  (`LoneThreadImplementsSerial`): the copy it is about to save is a move of the row
  as it *is* (`SerialInv`), since nobody else wrote the row after it was read, so
  each save is a step of `LifecycleSerial`; a crash only drops a copy.
* `AuditExportProofs`.  `LedgerIsCovered` from the invariant `Written`: past the
  append loop all events of a flush are in the file, within it all but
  `rest`.  `WatermarkIsCovered` from `CursorsCovered`: every cursor, be it the
  watermark, its file, or a flush's `before` or `after`, has all
  *live* events (committed or pending) at or below it in the file or overtaken.  Pending
  events must be counted, since they will be committed later: an export passes them over, and
  that is what enters them in `overtaken`.  With one writer the pending event is the last
  one allocated, above everything exported, so that nothing is overtaken
  (`NoneOvertaken`).
  With one flusher, the head a flush has read is still the hash of the last line
  when it appends (`LoneChainIsIntact`), and while nothing has died all on file
  lies below the watermark or the batch's `rest` (`LoneFlusherWritesOnce`).  The
  lemmas at the head of the module say what `Min` and `Max` of the community modules
  return for a set of naturals.
* `AggregatorProofs`.  `HitsStayRecent` and `ServiceImplementsLimit` from
  `LimiterInv`: for each client the deque is a suffix of the admissions, no
  longer than the limit, everything before it is stale, and admissions are in order of
  time.  `PurgedSplit` says that purging the front drops exactly a stale prefix,
  and `FullIsFull` that the deque is full when the last window is.
  `ServiceTypeCorrect` and `RemainingStaysHonest` from `AccountInv`: a thread that
  has charged knows that its epsilon is part of `spent`, and `spent` only
  grows until a crash clears the answers with it.  `OneThread` reduces every
  action of a thread to what its one label and locals must satisfy.
  `BooksAlwaysBalance` and `ReleasesStayWithinBudget` add up.  The sums are those of the community
  module `Functions` over the places of a sequence or a set of threads, so that an entry or an
  answer more is one more place, and no induction over the history is needed; the lemmas say what
  a sum gains when its set gains one member or one function value changes.  `BooksInv` adds to the
  property that the threads between charge and answer are finitely many, and what
  `AccountInv` knows of them; the budget follows, because releases are among the
  answers charged for.
* `ConsortiumRoundProofs`.  All five properties from `RoundInv`: whoever contributes is
  eligible, behind the loop's position, no outlier, and counted once
  (`Standing`); the admitted of a family are as many as its count says
  (`Admissions`), which `MarkingKeepsCounts` shows a dropout or a rejection to leave
  as it is; the last result is what the loops left (`LastResult`); and what
  is paid is released.  Families may be any set, and their members any number.
* `RegistryMemoryProofs`.  `MissedIsAlwaysHidden` from `ExportInv`: every cursor, be
  it the watermark or a flush's `before` or `after`, is `Covered`, which is
  to say that the log has grown to it and everything above `base` up to it is
  sent.  A covered cursor stays so, because within a process `log` and `sent` only
  grow (`CoveredIsStable`), so a watermark set back by an overlapping flush is
  covered as well.  `QuietMapsAlwaysLogged` speaks only of moments without a request
  under way, so it needs `MapsInv`, which says of each dictionary what requests
  still owe it: a registered id lacks its record, ticket or log entry only while a
  thread is on its way to give it (`RegisteredFits`), a manifest its entry only
  until its thread logs it.  Of the moves it counts: an object's history holds no
  more moves to a state than the log has for its id, plus the requests between
  `AppendHistory` and their log entry (`MovesFit`).  That count is per object and not
  per id, because two registrations of one id make two objects and either may be the
  one that stays; `OneClaim` says that no object ever serves two ids, and
  `ClaimsKept` that a request comes to an object only by making or looking it up.
* `MinimizerProofs`.  `CoreIsLocallyMinimal` holds for every set of elements, cost and
  oracle, one that contradicts itself included.  The invariant `Settled` says that a
  partition the sweep has come to was refused with the core as it is, or the sweep
  began anew; when each partition holds one element (`SingletonParts`), all of
  them were refused.  `LogIsAuditable`: the log's accepted parts and the core make
  up the candidate, disjointly.  `MinimizerDescends` says why a call ends, for an oracle
  that answers as it likes: each step shrinks the core, or deals the same core over
  more partitions (never more than it has elements), or goes on with the sweep.

* `WorkflowProofs`.  The theorems of the command line, for every corpus, library, field and
  budget.  `JobsImplementMinimizer` is the composition's refinement: each action of each command is a step of
  the minimizer's specification or leaves its variables alone; with `JobInv` (the minimizer runs
  only while a job is at its bundle, on the nodes of that bundle's graph) it carries
  `CoreIsLocallyMinimal` over to the cores a job extracts (`ExtractedCoresAreMinimal`).
  `PipelineAlwaysChargesOnce` from `ChargeInv`: nothing is charged before the registry has a
  package, a pipeline past its publication found the registry empty, and only one that is still before
  its aggregation has charged nothing; with it, that the registry never replaces a package
  (`RegistryNeverReplaces`).  `OnlyPackagedLeaves` and `ReleasedStaysClean` from `PackagesInv`: what a
  file or the registry holds is one of `ReleasablePackages`, each of which is clean, because the
  packager lints *after* it renames and projects, and a signature covers the result; the lemmas follow the release
  path operator by operator (validation, renaming, projection, gate, override, signature).
  `WorkflowStaysTyped` needs `ReportInv` and `JobIsTyped`; its hard part is that all metrics of the
  harness and the red team lie between 0 and 100, which comes down to how often the golden invariant compiles.
  `CompilesExactly` says of every package and context when the compiler gives a test: the roles are there,
  nodes that share an entity have one type, and a temporal constraint's roles are those of the last node
  on their entity, and the oracle has an expression.  `ReleasesCompile` proves `ReleasedCompiles` from it.  Its hypothesis is
  `MapsLikeGolden` of each invariant of the library: an invariant with two nodes of one role does not
  compile, so that not every library has the property; `LibraryMapsLikeGolden` in `MCWorkflow`
  has TLC evaluate the hypothesis for the library of the run.  A release is a renamed and canonical
  form of a library's invariant; renaming is injective (`RenamingIsInjective`), both keep what
  `CompilesExactly` asks for (`CanonicalMapsLikeGolden`), and the contexts differ only in an unapproved
  role and in entities that roles share.  The verification scripts go because the golden package is always
  published.
  `ReportedStaysThere` from `ReportedInv`: a job has said of its bundles and files no more than what
  is in them.  A crash cuts off only the file being written, of a job that reports nothing any
  more; and what a success names stays until the next command clears the report.
  `ContributionsAlwaysRecover` from `SharesRecover`, that any two of three shares of any value give it back,
  by arithmetic modulo the prime, and `ContributionsAreSmall`.

**Only model-checked.**  Each safety and action property of a passing run is stated by a theorem.
`RegistrationReachesQueue`, `FlushExports` and `CommandsEnd` are liveness
properties, which are beyond the prover; `MinimizerDescends` is the part of the
last that is not about fairness.

## 10. Not modelled

What is left of the implementation keeps no state that a property could relate,
or computes with numbers a model checker cannot enumerate.

* `verify_dod.py` asks whether files exist and runs the other tools' smokes;
  `run_cfi_sim.py` is floating-point statistics and plots; severity, the noise of a
  release and embeddings are floating point as well.
* Scripts that drive containers, charts, certificates and continuous integration;
  deployment; the console and the review page; TLS and URL helpers; rendering,
  tracing and metrics.
* Code without a caller in a service or command: the OpenTelemetry adapter, the
  callable replay provider, `run_federation_round`, `revoke` of the lifecycle manager.
* Commands that print profiles or endpoints, start a service, or export and verify
  the audit log; the option `max_bundles`; the report files that nothing reads.
* What a live agent's scores are, and what the trained adversary has learnt: both
  answer nondeterministically.  Cryptography is idealised; the signed audit export and
  the release manifests sign and verify as a package does.
* Commands on a file that a crash has cut off: the parse raises, and nothing changes.
* Hazards without a property, with the reason for each, are in `PROJECT.json`:
  the lifecycle route that activates a rejected artifact, two overlapping
  writes of the watermark's file, an identity listed twice, a negative epsilon,
  reads that iterate a dictionary while it grows, a chain that a refused supersession
  has left longer, a manifest that the in-memory store overwrites, and the budgets that a
  restart and a new coordinator begin anew.  For these last four the code states nothing to hold
  it against.  Others have a property that covers them only in part, and their note says
  which part: two registrations of one id in memory, a lost answer
  reported as a failure, and the mitigation's place in the results.
