# SENTINEL in TLA+

SENTINEL is an incident agent: an alert webhook starts an *Investigation*, a
phase controller lets a model plan read-only tool calls, collects evidence,
derives a diagnosis, asks a human approver for one remediation, carries it out
once, and writes a post-mortem. This directory models the parts of it that
decide *whether and when production is changed* and *what the durable record
says about it*, checks them with TLC and proves the central safety properties
with TLAPS.

Paths below are relative to the repository (`sentinel/orchestrator.py` and so on);
`PROJECT.json` maps every definition to its lines.

## 1. The system

| Component | State it keeps | Operations | Talks to |
|---|---|---|---|
| Webhook receiver (`webapp.py`) | none of its own; background tasks live in the memory of the server process | `POST /webhooks/pagerduty`, `/webhooks/generic`, `/live/run/{id}`, `/investigations/{id}/approval` | store, run, gate |
| Investigation store (`store.py`, `postgres_store.py`) | one JSON document per investigation, idempotency keys, audit events, tool calls, OAuth tokens and states | whole-document save and load, insert-or-report a key, append | every other part |
| Investigation run (`orchestrator.py`) | the in-memory `InvestigationState`, checkpointed whole after every tool call and phase change | the eight phases of `STATE_MACHINE`, four workflows (rollback, slow query, replayed scenario, Watch) | tools, planner, subagents, store |
| Approval gate and remediation (`orchestrator.py`) | `approval_request`, `approval_command`, `remediation_result` in that record; approval and remediation keys | submit, reject, recheck, execute, verify, conclude | store, remediation tool, clock |
| Tool registry and executor (`tools.py`) | contracts (immutable) | `invoke`: scope, phase and approval checks, then the tool; a row per call | live tools or replay |
| Subagents (`subagents.py`) | an isolated context per call | service investigator, blast radius, remediation readiness | executor with a scoped registry |
| Model planner (`model_client.py`) | last decision | `plan_tools`: the model's answer filtered by the phase, or a deterministic plan | model endpoint |
| Live tools (`real_tools.py`) | none | retry loop with backoff, failure classification | provider clients |
| Provider clients (`live_clients.py`, `circuit_breaker.py`, `rate_limiters.py`) | breakers shared by the runs of a process (closed, open, half open), a rate counter in Redis, or one in the memory of a run | HTTP calls, pagination | providers |
| OAuth and credentials (`oauth.py`, `credentials.py`) | one-time states, encrypted tokens | install, callback, refresh | store, providers |
| Slow-query workload (`slow_query.py`) | a demonstration SQLite database | seed, run, add index | the index remediation |
| Managed store (`webapp.py`) | the store object of the application and its one connection | pinged by every request, closed and replaced after a failed ping | every request |

Replay payloads, scenarios, the evaluation, time windows, configuration,
connectivity probes and the scripts have no control of their own to speak of;
`PROJECT.json` lists them with the reason they are left out.

### What is hard

* **Threads.** FastAPI serves the approval endpoint and the background runs from
  a thread pool. `resume_with_approval` loads the record, checks it, and much
  later saves all of it: no lock, no version. Everything between a load and a
  save can interleave with another handler.
* **Several processes.** With Postgres several receivers share one store, so that
  even the webhook handlers, which never yield inside one event loop,
  interleave between store accesses.
* **Death in the middle.** A run, a background task or a handler dies and leaves
  a spent key, a running record, or a changed production without a result.
* **Time.** `expires_at` is compared with the clock at three places; a command
  may be in time at one and late at the next.
* **A model in the loop.** Tool plans may repeat, reorder or drop tools, and
  tools fail or succeed without a useful answer.
* **Shared protection objects** (breakers, the Redis counter, refresh tokens)
  touched by concurrent runs, and answers that reach them late.
* **Lost answers.** A write may have been carried out when its answer does not
  arrive; the retry loop then runs the whole tool again.
* **A world that moves between two requests.** Listings grow and shrink between
  their pages, files come and go, other people edit the runbook, rename the
  channel, deploy and undo; the rollback target is read long before it is used.

### What makes each part correct

* *Gate*: production is changed at most once, only for a recorded approve command
  of an authorised approver that arrived before the expiry; the record does not
  claim more than the providers confirmed; a decision is carried through.
* *Receiver*: one investigation per trigger however often it is delivered; an
  answer names a durable record; what was accepted ends in a status that tells the
  operator what to do.
* *Run*: a request rests on evidence and goes to the approver on call for the
  incident; no call is outside its phase, scope or approval; every run settles.
* *Live calls*: only outages open a circuit, an open one sheds load and
  recovers; a rate counter always starts over; a successful tool call did all
  of its requests.
* *Evidence*: a listing that is taken for whole is whole, and its items belong to
  what was asked for; an answer comes from one provider; an outage is never taken
  for an absence.
* *Records*: nobody's note is overwritten; what a caller is told is what was
  published; one incident has one channel.
* *Cluster*: a rollback deploys the template that the approver was shown; a retry
  does not undo it; verified means that it is what runs.
* *Credentials*: a state and its code are spent once; the stored token stays
  refreshable whoever refreshes it at the same time.
* *Managed store*: after any outage the application gets back to a store that
  works, whatever the threads that replace it do to each other.

## 2. The modules

| Module | Role |
|---|---|
| `ApprovalGate` | detailed model of the gate: threads with private copies over one stored record |
| `OneShotRemediation` | abstract specification of what the gate promises |
| `ApprovalGateProofs` | inductive invariant, safety theorems, refinement and the serial case, for TLAPS |
| `WebhookIngest` | webhook handlers on several servers, keys, background runs, crashes |
| `ToolContracts` | phases, allowlists, scopes, the executor's decision (no variables) |
| `IncidentRun` | one run of each workflow, phase by phase, under every tool plan |
| `InvestigationLifecycle` | abstract specification of what the record of a run promises its readers |
| `LiveApi` | a live tool's attempts and requests, the shared circuit breaker, the Redis rate counter |
| `ManagedStore` | the shared Postgres connection, its transactions, and its replacement |
| `OAuthInstall` | install, callback and refresh by threads over `ManagedStore`, which it extends |
| `ProviderReads` | every paged read, its end and its limit, and what is refused of an answer |
| `EvidenceTools` | the tools of several reads: fallback, candidates, inferred pull request |
| `IncidentRecords` | runbook note, issue, message and channel, retried by racing calls |
| `ClusterChanges` | rollback and the other writes of the Kubernetes client among other people's |
| `...Proofs` | `WebhookIngest`, `IncidentRun`, `LiveApi`, `OAuthInstall`, `EvidenceTools`, `IncidentRecords`, `ClusterChanges`: inductive invariants and theorems, for TLAPS. `LiveApiProofs` has those of `ProviderReads` too, since both are the client of the live providers |
| `MC...` | constants of the small instances |

A definition whose comment begins with *Faulty* is not part of a model. It is the
definition below it with a plausible bug, and belongs to the `mutants` of
`PROJECT.json`: substituted for the right one it must break the property named
there, which shows that the property can fail at all.

### ApprovalGate

`saved` is the document in the store, `keys` the idempotency keys, `audit` the
approval events. Each process, a handler thread or the `Runner` that posts the
request, has a program counter `pc`, the command it serves and its own `copy`
of the record. `Checkpoint` replaces the stored document with the copy, exactly
as `_checkpoint` does. **One action is one access to the store, one look at the
clock or one tool call**, because these are the points where another thread may
act. The labels follow the code:

| Label | Code |
|---|---|
| `load`, `check`, `reject`, `remember`, `record` | `resume_with_approval`, `_approval_command_rejection_reason`, `_reject_approval_command` |
| `recheck`, `transition` | head of `_continue_after_approval` |
| `execute`, `claim`, `invoke`, `receipt`, `verify` | `_execute_remediation` and `_execute_add_index_remediation`, with the checkpoint that `_invoke_tool` makes after each call |
| `report`, `conclude`, `publish`, `complete` | tail of `_continue_after_approval` |
| `post`, `park`, `unnotified` | end of `_run_incident`: the request is on record before it is posted, the status changes after |
| `close`, `raised`, `mark` | `_run_live_investigation` closing its clients and `_run_live_investigation_safely`, which loads the record and saves it as failed, when handlers may already be at work on it |

`Expire` moves the clock past `expires_at`, `Abort` kills a call, `RunRaises` has
the run or the closing of its clients raise. Keys of commands may collide with each
other and with the remediation key, and `SpendElsewhere` has another investigation
spend one of `SharedKeys`. History variables
(`performed`, `performedFor`, `confirmed`, `late`) record what happened to
production and which commands were late on arrival; no action reads them as a
guard. The scope check at the end of the rejection reasons reads only what the
run fixed before the request existed, so it cannot fail and is left out.

### WebhookIngest

Each server has one `loop` entry, the handler its event loop is executing: a
handler never yields between reading the body and answering, so one server
serves one webhook at a time and only *other* servers, the thread pool and crashes
interleave with it. `keys` maps a trigger, a source and an incident, to the
investigation it was spent for; `records` holds the status of each document;
`run` is the background task of each investigation. Which payloads are
actionable is modelled on items with an event type and an incident id. Three
values stand for more of the code's: `received` is a running record in the
received phase, `ended` is any status in which the run returned by itself, and
the answers that create nothing (bad signature, test event, not ready) leave no
trace, so they are not actions.

### ToolContracts and IncidentRun

A run is sequential, so a step is one tool call (`Invoke`) or one decision of the
phase controller, and `pending` holds the calls a phase still owes:
`free` calls of the model's choice, `todo` required calls in the model's order,
and a `script` in the code's order. An answer is free: failed, successful and
useful, or successful and useless; `Learned` keeps what
`_collect_artifacts_from_result` and the diagnosis use of it. `Permitted` is the
executor's and the tool's own check. Everything after the request that
needs threads is left to `ApprovalGate`: `Decide` is the decision it lets through.

`InvestigationLifecycle` has no tools, evidence or controller, only what a reader of
the record sees: `current_state`, the status, the request, the decision, and how
often production was changed. Its phases go forward, remediation is entered by a
decision and in no other way, nothing moves while the record waits, production is
changed once after an approval, and an end is final. Nothing in the code enforces
this in one place: `_transition` refuses only unknown names, so that it is up to
the three workflows, their early ends and the continuation to keep the order. The
refinement is the projection: variables of the same names, and calls that change
nothing are stuttering steps.

### LiveApi

The callers are the runs of one process on one provider. `call[c]` is a tool
call: the attempt of `RealTool`, the request of its handler, and where that
request is: `admit` (the breaker is read under its lock), `incr`, `ttl`, `expire`
(the commands of `RedisRateLimitBackend.hit`, one step each because other
processes and a death come in between), `send`, and `settle` (the breaker
records, the exception or the answer reaches `RealTool`, which goes on, tries
again or returns). `breaker` is the object of `shared_circuit_breaker`; its clock is the
flag `cooled`, which `Cool` sets when the recovery time has passed and a
recorded failure takes back. `counter` is the Redis key.

Answers are the classes that the clients distinguish: an outage (timeout,
transport error, 5xx) may have been carried out, throttled and refused requests
were not, a malformed answer was. An unconfirmed answer passes the breaker as a
success and is rejected by the handler. In calm weather every request is answered;
`Weather` changes it at any time, and the process may die (`Restart`) in bad
weather. Several requests stand for every multi-request handler: pages,
`rollout undo` and `rollout status`, a lookup and an update. The in-memory
limiter is built per run, so nothing is shared in it, and is left out.

### ManagedStore and OAuthInstall

`ManagedStore` is `_get_app_store` cut where another thread may act: read the
shared store, ping it, build another, close the old one, put the new one in its
place, with the commands that a thread runs on the store it got. A command is
atomic, its lock is held; what it leaves behind is not: a failed statement leaves
the transaction aborted (`conn`), which every later command of any thread
meets until a rollback. Store 0 is `_UnavailableInvestigationStore`. A store
that nobody holds may be built again, which keeps the set small.

`OAuthInstall` adds the jobs of the threads: `health`, `install` (remember the
state, then the verifier), `callback` (look up, spend, fetch the verifier,
exchange, save) and `run` (check readiness, load, refresh if due, save,
load again, use). `states` are the three keys of a one-time state and its age.
The provider either keeps refresh tokens or replaces them (`rotates`) and
`valid` are the ones it accepts; any of its answers may be lost, and the answer to a
code may have no refresh token in it: `credentials.py:120` then stores none, a later run
is not ready once the token is due (214), and the callback tells the operator
(`refresh_token_received`, `webapp.py:291`). `bare` remembers that the last installation
was of this kind, `lost` that a new token never reached the store, which nothing in the
code can repair.

### ProviderReads

A read is a loop of `Fetch`. Eight paging styles stand for the twenty-six
endpoints of the six clients, and `Style` says which client method uses which;
`Refuses` lists per endpoint which flaws of an item end the read, on the page
or after the last one. Two flaws are kept apart: a `foreign` item is of another
repository, an `other` one is not the object that was asked for. Of a file only the
path is checked (`live_clients.py:2325-2344`), so a foreign file passes. The combined
status of a commit is read in one request though GitHub pages it, its `total_count` is
not looked at (772-775), nor of which commit it is: style `newest`, as Loki's query
with its limit. The page is cut from the listing as it is at that moment:
keyset reads continue after the last item they hold, the others skip
`page * PageSize` items of a listing that may have moved. `signal` is what the
answer says of further pages, true when it says anything, absent or malformed when
the provider leaves it out or garbles it.

### EvidenceTools

A call is `work`: its kind, attempt, the provider it asks, the candidate path it
tries, the numbers it still has to look at. `RealTool` starts the handler again
from its first request. `steady` remembers which candidates existed, and could be
seen, all through the attempt: `visible` is whether the token may see the repository,
and for a hidden one GitHub answers 404, which `_is_missing_github_resource`
(`real_tools.py:834`) cannot tell from a missing file. `Needed` tells which
kinds take two reads, so that a fallback can come between the halves of an answer.
Prometheus' answer to a dashboard repeats `dashboard_id` (566-571), which is
counted as a record (1412-1427), so it is live evidence with nothing on it
(`Labelled`). `matching` are the pull requests that `_pull_request_matches_commit`
accepts: one that holds a commit of the window, and also one whose base is such a
commit (700).

### IncidentRecords

A request is confirmed, refused for good, or ends in an error that is retried,
and in the last case may have been carried out (`lost` counts those). The
runbook is how often it holds the note of each author; equal contents have
equal shas, so a write with a stale sha is one whose `read` differs from
`file`. `Bearers` are the channels that have the incident's name; creation fails when
there is one, and the call looks it up instead.

### ClusterChanges

The first half of the module is the cluster as the client uses it, external and
free: `Renumber`, `Observe` and `RolloutCompletes` are the controller, `Deploy`,
`Meddle` and `Prune` everybody else. The second half is the client: `ReadTarget` in
the investigation, `Approved` at the tool, then one action per kubectl command
(`Undo`, `Restart`, `Change`; `Status`; `Readback`), each of which may be
carried out and yet time out. Only the rollback is offered to tools and retried.
`overtaken` remembers that someone deployed after the tool was called, which is
slightly before the command is sent.

## 3. What is checked

| Run | Instance | What it shows |
|---|---|---|
| `gate_concurrent` | 2 handler threads (symmetric), 2 approvals with different keys, a rejection that reuses one of them, a stranger; 1 death or exception, of the run too after it parked; expiry anywhere. 3.5 million states | `AtMostOneRemediation`, `ChangeIsApproved`, `NoChangeOnLateCommand`, `ExecutedIsConfirmed`, and `RemediatesOnce`: the gate implements `OneShotRemediation` |
| `gate_serial` | 1 handler, six commands, one of which carries the remediation key, any number of times; 2 keys that others may spend; 1 death or exception. 68 thousand states | with commands one at a time: `ResultTellsTheChange` and `DecisionSettles` |
| `gate_result_replaced` | 2 handlers, 2 approvals | **violated** `DuplicateKeepsResult` |
| `webhook_ingest` | 2 servers, 4 kinds of delivery, 1 operator run, 1 crash, 1 failure that cannot be recorded. 30 thousand states | `OneInvestigationPerTrigger`, `AcceptedSettles` |
| `webhook_crash` | 1 server, 1 trigger, 1 crash | **violated** `DuplicateReturnsInvestigation` |
| `incident_run` | all four workflows, 1 or 2 services, PagerDuty or generic webhook, model plans of up to 3 calls, 1 repeated call. 125 thousand states | `RequestIsGrounded`, `ApproverIsOnIncident`, `CallsAreAllowed`, `RunSettles`, and `FollowsLifecycle`: the run implements `InvestigationLifecycle` |
| `live_api` | 2 callers, 2 requests, 2 attempts, threshold 2, 1 request per window. 428 thousand states | `SuccessIsComplete`, `OnlyOutagesOpen`, `OpenSheds`, `Recovers` |
| `oauth_install` | 2 threads, 1 state, 1 fault of the database, 3 refresh tokens, a provider that replaces them or not, and may leave one out of its answer to a code. 687 thousand states | `StateSpentOnce`, `StaysRefreshable`, `StoreHeals` |
| `provider_reads` | all 26 endpoints, 4 items, pages of 2, limits of 1 and 2, cuts allowed or not, one flawed item. 2.6 million states | `CompleteOrRefused`, `EvidenceIsNamed` |
| `evidence_tools` | 8 kinds of tool, 4 configurations, 3 candidates, 2 pull requests and an issue, 3 attempts, 3 changes of the repository or of the access to it. 405 thousand states | `OneProviderAnswers`, `AnswerIsReal` |
| `incident_records` | 2 racing calls of 4 kinds, 8 configurations, 2 channels, 3 attempts, 2 edits by others. 573 thousand states | `ToldWhatWasWritten`, `SameChannel`, `NotesSurvive` |
| `cluster_changes` | 3 templates, 5 revisions, 2 attempts. 2.3 million states | `RetryIsHarmless`, `VerifiedIsLive`, `ApprovedTemplateDeployed` |

Every passing run checks the `TypeOK` of its module besides.

`gate_serial` states what fails with two threads on purpose: the split shows which
promises rest on the one-at-a-time habit of human approvers and which, the
safety of production, do not.

### What the violated runs show

1. **A stored executed result can be replaced by "skipped".** Two approvals with
   different keys both load the waiting record and pass both checks. The second
   execution finds the remediation key taken, puts `skipped` into *its* stale
   copy and saves that over the `executed` one. CONTEXT.md says that a duplicate
   execution returns the existing result. A run whose clients raise while they are
   closed loses the result in another way, with one handler as well: its background
   task loads the parked record, and saves it as failed after the approval was executed.
2. **A spent webhook key without a record.** The key is inserted before the
   received record is saved; a death in between makes every later delivery a
   duplicate of an investigation that never exists.

### What the exceptions in the properties say

A property names what it does not promise, and each exception in a formula is there because
TLC finds the property violated without it:

* `StaysRefreshable` excepts `lost`: a provider that replaces refresh tokens has
  forgotten the old one when the answer or the save of the new one fails. It excepts
  `bare` too: an installation that brought no refresh token leaves none, even in the
  place of one that could be refreshed.
* `OneProviderAnswers` excepts Prometheus' dashboards, which are evidence when empty.
* `AnswerIsReal` is about files that could be seen: a repository that the token
  may not see is reported like one without the file. It says nothing of the inferred
  pull request, which may merely branch from a commit of the incident, merged or not.
* `EvidenceIsNamed` excepts files, of which the repository is not checked, and
  `CompleteOrRefused` the reads of style `newest`.
* `CompleteOrRefused` excepts removals for the reads that skip items from
  the start: an item that disappears from an earlier page moves the next one by
  one, and an item is never seen. The reads with a cursor do not have this.
* `RetryIsHarmless` and `VerifiedIsLive` except `overtaken`: `rollout status` and
  the retried `rollout undo` are about the deployment, not about the command. A
  deployment between the call of the tool and the first command is excused as well.
* `SameChannel` excepts `renamed`; `ToldWhatWasWritten` counts lost answers,
  because `RealTool` posts an issue or message again when it cannot know that the
  first one arrived.
* `AcceptedSettles` and `DecisionSettles` except deaths: nothing looks for
  records that a dead process left running.

### Bounds, and why they are enough

* *Handlers = 2*: every conflict in the gate is between two accesses to the same
  document or key; a third thread meets the first two in no new way. The theorems
  of section 4 hold for any set of handlers.
* *Commands*: one per way a check can go (valid, valid with another key, reject,
  wrong approver, wrong request), and per way keys can collide: a rejection with the key
  of an approval, an approval with the key of the remediation. Resubmission of the
  same key is the same command again.
* *SharedKeys*: the key of one command and the key of the remediation in `gate_serial`;
  none in `gate_concurrent`, where the other handler is already one who spends them.
* *MaxAborts = 1*, *MaxCrashes = 1*, *MaxOutages = 1*: each death is already
  placed at every step; a second one would only cut a later call short.
* *Servers = 2, Ids = 2, MaxRuns = 1*: one investigation for the only trigger and
  one for the operator. `webhook_ingest` uses deliveries of one trigger because
  distinct triggers share nothing; the batch and the ping are there to be
  turned away.
* *MaxPlanned = 3*: no decision of a run depends on more than two calls of one phase
  (a failed one and a repetition of it, and one that brings a change
  artifact). *MaxServices = 2* has both "no investigator" and "one per service".
* *Callers = 2, Requests = 2, MaxAttempts = 2, Threshold = 2, Limit = 1* in
  `live_api`: enough for a late success or failure of one caller to meet the
  open, half open or closed breaker of the other, for a failure on the last and
  on an earlier attempt and request, for failures below and at the threshold, and for
  a refused hit. Failures, hits and outages above their limits are not told
  apart, so no bound cuts a behaviour off.
* *Threads = 2, OAuthStates = 1, MaxGrants = 3* in `oauth_install`: racing callbacks
  of one state, then two refreshes at once, the second of which can find its token
  replaced, and one thread closing the store that the other uses. A state is
  exchanged once, so there is one installation: that a refresh meets another
  one, with or without a refresh token, is beyond this run, which liveness makes
  expensive, and left to the theorem `TokensStayRefreshable`, which holds for any
  number of states. *MaxFaults = 1*: one fault breaks a connection, or aborts a
  transaction that the other thread meets. When the tokens are used up the provider
  only refuses, so the bound cuts no wait short.
* *Items = 4, PageSize = 2, MaxPages = 2*: a short page, a full last page, a page
  limit that is reached with and without more behind it, and an item that moves
  across a page boundary in either direction.
* *LastCandidate = 3, MaxChanges = 3*: a file that moves from a later to an earlier
  name behind the search, or away in front of it, or access that is lost and
  comes back, in one attempt or between two.
* *Calls = 2, Channels = 2, MaxEdits = 2*: a racing call and an edit of somebody
  else between the read and the write; a channel that was renamed beside one
  that bears the name.
* *Templates = 3, MaxRevision = 5, MaxAttempts = 2* in `cluster_changes`: the
  template that is deployed, the target and one that overtakes it; two
  renumberings more than the first rollback needs.
* Deadlock is not checked in `incident_run` and `incident_records`, because a
  returned run or call has no step, which is what returning means.

### Fairness, and why the code justifies it

A thread of the pool that has begun a call goes on with it: weak fairness on the
steps of each handler and of the run. Nothing is assumed of humans
(`SubmitApproval`, `Decide`), of the clock or of crashes.
`WebhookIngest!FairSpec` lets senders deliver again, as PagerDuty
does. In `LiveApi` the threads go on, and recovery time and windows pass; calls
beginning again and calm weather are premises of `Recovers`, not
assumptions of the specification. In `OAuthInstall` the threads go on, a database
that is down comes back, and the health check of the container asks again and
again, which is what makes `StoreHeals` true: the store is only looked at when
someone asks for it. Each liveness property names the excuses it accepts (`expired`,
`aborts > 0`, `crashes > 0`, `outages > 0`), so that no failure is assumed away.

## 4. What is proved

All theorems hold for every value of the constants, from the assumption that each
module names for its own (bounds are numbers, "none" values are not members,
every command carries a decision, and the like). Each rests on the module's
`Invariance`: `Spec => []IInv`, with one lemma per action and one step per part of
the invariant that the action can disturb.

| Module | Theorem | Property |
|---|---|---|
| `ApprovalGateProofs` | `TypeCorrectness` | `TypeOK` |
| | `RemediatedAtMostOnce` | `AtMostOneRemediation` |
| | `ChangesAreApproved` | `ChangeIsApproved` |
| | `LateCommandsChangeNothing` | `NoChangeOnLateCommand` |
| | `ExecutedResultsAreConfirmed` | `ExecutedIsConfirmed` |
| | `GateImplementsOneShot` | `RemediatesOnce`, the refinement |
| | `SerialResultTells` | `ResultTellsTheChange`, for a single handler |
| `WebhookIngestProofs` | `TypeCorrectness` | `TypeOK` |
| | `TriggersHaveOneInvestigation` | `OneInvestigationPerTrigger` |
| `LiveApiProofs` | `TypeCorrectness` | `TypeOK` |
| | `SuccessesAreComplete` | `SuccessIsComplete` |
| | `CircuitsOpenOnOutages` | `OnlyOutagesOpen` |
| | `OpenCircuitsShed` | `OpenSheds` |
| | `ReadTypeCorrectness` | `ReadTypeOK` |
| | `ReadsAreComplete` | `CompleteOrRefused` |
| | `EvidenceCanBeCited` | `EvidenceIsNamed` |
| `IncidentRunProofs` | `TypeCorrectness` | `TypeOK` |
| | `RequestsAreGrounded` | `RequestIsGrounded` |
| | `ApproversAreOnIncident` | `ApproverIsOnIncident` |
| | `NoCallIsRefused` | `CallsAreAllowed` |
| | `RunImplementsLifecycle` | `FollowsLifecycle`, the refinement |
| `OAuthInstallProofs` | `TypeCorrectness` | `TypeOK` |
| | `StatesAreSpentOnce` | `StateSpentOnce` |
| | `TokensStayRefreshable` | `StaysRefreshable` |
| `EvidenceToolsProofs` | `TypeCorrectness` | `TypeOK` |
| | `AnswersAreOfOneProvider` | `OneProviderAnswers` |
| | `AnswersAreReal` | `AnswerIsReal` |
| `IncidentRecordsProofs` | `TypeCorrectness` | `TypeOK` |
| | `CallersAreToldWhatWasWritten` | `ToldWhatWasWritten` |
| | `RacingCallsShareTheChannel` | `SameChannel` |
| | `NotesAreKept` | `NotesSurvive`, an action property |
| `ClusterChangesProofs` | `TypeCorrectness` | `TypeOK` |
| | `RetriedRollbackIsHarmless` | `RetryIsHarmless` |
| | `VerifiedChangesAreLive` | `VerifiedIsLive` |
| | `OnlyTheApprovedTemplate` | `ApprovedTemplateDeployed`, an action property |

### ApprovalGate

`AtMostOneRemediation` alone is not
inductive: a handler at `invoke` in a state with `performed = 1` would break it.
`IInv` adds what rules this out:

* `CommandHeld`: a busy handler holds a command, and once recorded its copy of
  the document holds the same one, so that checks made on the copy are checks
  of the command.
* `DecisionJustified`: the label a handler has reached tells which checks its
  command passed and what was written for it: the request and the approver
  match, it was not late, its key is spent, the audit table holds it.
* `ClaimIsExclusive`: only one handler can be at `invoke`, it has claimed the
  remediation key, and nothing was performed before. This is where the
  atomicity of `remember_idempotency_key` carries the whole argument: the
  stale copies do not matter, because the right to change production is never
  taken from a copy.
* `VerifiesAChange`: a handler that verifies has invoked.

The refinement maps `received` to the commands whose receipt is in the audit
table, `spent` to the presence of the remediation key, `times` to `performed`;
`RecordCommand` maps to `Receive`, `ClaimRemediation` to `Spend`,
`InvokeRemediation` to `Change`, and every other step stutters. `IInv` supplies
the guards of `Change`: the key is spent, nothing was done yet, and the
command is a received approval.

`ResultTellsTheChange` fails with two handlers, and `SerialResultTells` assumes one, as
`gate_serial` has: `Handlers = {h}`, for any set of commands, whatever their keys, and
any number of deaths. Its invariant, `Serial(h)`, says who writes the record when. Until
the run has parked or raised it is the writer, and `h` gets no further than the check;
after that a record that waits was never executed, and from the claim on the record
is running, or marked failed by the run's background task with what it had loaded
before, until `h` completes it with a result that tells the change. Only `h` completes
it, and a death at any label leaves it running or failed, so nothing false is ever
completed. The mark may bury an executed result, but never under a completed record.

### WebhookIngest

`KeyIsHeld`: a handler that is saving or accepting holds the id its trigger's key
was spent for. So a key that is still free has no creator, and the server that
spends it is the only one (`OneCreator`); answers name what the key holds
(`AnswersAreKeys`), and keys never change. `SavedFirst` is the order of the two
writes, which makes true that whoever is told of a creation finds its record
(`NewIsDurable`, a part of `OneInvestigationPerTrigger`).

### LiveApi

`Progress`: the requests before the one under way were carried out, in this
attempt or an earlier one. `UnderWay`: a caller past `admit` has sent nothing
since the breaker opened, so at most its one request is added. `Tally`
is the interesting one: the breaker hears of an outage later than the provider
had it, and a success in between resets the count; what is invariant is that,
below the threshold, its failures *plus the number of callers whose counted error
it has not heard of* do not exceed the outages. That is a cardinality of a finite
set that `Send` adds a caller to and `Settle` takes one from.

### ProviderReads

The model keeps what was collected as a set and cuts a page by the *rank* of an item,
the number of newer ones, so that pages are a matter of cardinalities. `Collecting`: an
item that was there all along is collected or still ahead, unless a removal moved
the items behind it. A few lemmas carry it over a page. `FirstFull`: if anything comes
after the first n items, these are exactly n; so what is not on a page lies at least
a page further on (`RankBehind`, `StillAhead`), and a page that is not full was the
last one (`PageFull`). `RankGrows`: an item never moves to an earlier place when
the listing grows. `StopsAtEnd` then goes through the paging styles: a client that
stops without cutting has seen all there was. `Whole` and `LookedAt` keep the two
results while the statuses of deployments are fetched. The least element and the first
item past a rank come from the well-foundedness of inclusion on finite sets, since
induction over data is out of reach.

### IncidentRun

`CallsAreAllowed` needs to know why a call that is due is allowed in the phase it
is made in: `PendingFits` says that plans are made only in the first three phases,
that required tools are those of the phase, and that every call of a script is
one the executor lets pass; `Allowlists` works out the contracts of all tools, of
which the phase is a part. `PlaceFits` ties the controller's `step` to phase,
workflow, status and request. `GroundsHold` is what the diagnosis establishes and
nothing later undoes: no call after it is a trace, approvers are only ever those of
the incident (the first one stays, and an account-wide answer makes nobody one),
and facts only grow. Without the clause that scripts hold no traces, a step of
remediation could take the ground of the request away; without `correlated` having
an empty script, so could a leftover call between the diagnosis and the request.

The refinement of `InvestigationLifecycle` needs `CourseFits` beside it: a controller
that is at work has the record running, so that an end is never left again; there is
no decision before remediation; and a change still to be made is the first of its
script and of the run, which is why a second one is never due. Each action is then a
step of the life cycle (`AdvanceCourse` and `FinishCourse` are the two ways on that most
of them take) or leaves all that the reader sees as it was (`CallChanges`).

### OAuthInstall

`SpentByOne`: the thread past the spending of a state is alone with it, and nothing was
sent for it; the key of the state is inserted atomically, which again carries the
argument whatever the threads read before. `StaysRefreshable` is not inductive: the
token on its way might be that of an installation, which loses nothing that was
stored if its save fails, but would then leave the stored token without a
successor. `WasGranted` and `Carrier` tell a token that carries a refresh token from
one without, which replaces nothing on its way. `SuccessorArrives` says more: the successor of a stored token that is
accepted no more is held by a thread *that refreshed it* and is about to save it.
`CarriedAlone` has a replaced token in one pair of hands, so that no refresh of
another thread can spend it on its way.
`TypeOK` says that a thread which replaces the managed store always finds a store to
build. That is a counting argument: each thread holds at most one and has built at
most another, and there are 2n + 1 for n threads (`AnotherStore`); it is why
`ManagedStoreAssumption` has the threads finite, which those of a process are.

### EvidenceTools

`KindOfPlace` ties the label of a call to what it looks for. `Gathered`: while a provider is
asked, all that was gathered is of that provider and not yet enough, so that the
answer that completes it is of one provider; the fallback keeps this only because it
starts over. `TriedBefore`: at a candidate, every file that was there since the
attempt began has this name or a later one, since a name is left only on a 404;
with the last name gone no such file remains. A retry forgets both and begins with
`steady` as it then is.

### IncidentRecords

`UnderWay` bounds lost answers by the attempts before this one; `Tally` says that, while a
call is under way, only lost answers stand for what it published, so that one
confirmed write makes the difference that `ToldWhatWasWritten` states; `OneBearer`:
at most one channel has the name and every channel handed out is that one.
`NotesSurvive` needs no more than that a write has read what it replaces.

### ClusterChanges

`TargetMeansShown`: until the rollback is sent, the number of the target means the
template that was shown or, pruned or renumbered, nothing any more, because the
controller only gives out numbers above `latest`. `TargetIsSpent`: once it was
carried out, and unless someone deploys, only the deployed template can still
have that number, so the second attempt is skipped by kubectl. `SentIsDeployed`
carries the template through the status and the read-back. `Previous` is a
`CHOOSE` of a maximum; that it exists (`LargestExists`) is proved from the
well-foundedness of the natural numbers.

### Only model-checked

The liveness properties: `DecisionSettles`, `AcceptedSettles`, `RunSettles`, `Recovers` and
`StoreHeals` rest on fairness and `ENABLED`, which are out of the prover's reach. Every
other property of a passing run is proved. `ResultTellsTheChange` is proved for one
handler because it is false for two, as `gate_result_replaced` shows for the stored
result. The two claims of the documents that the code does not meet are refuted by TLC's
counterexamples.

## 5. What is not modelled

* The composition of the gate with `LiveApi` and `ClusterChanges`: the gate takes a
  call of the remediation tool as one step with a free result.
* The delay between attempts.
* Payloads, evidence contents, time windows, messages, redaction, Slack and
  Discord formatting; Loki's line limit, of which no caller is told. An answer to a
  refresh whose `refresh_token` is there and null, which would replace the stored one.
* The scopes of the on-call lookup, of which `IncidentRun` has what decides; the
  SQLite index tool and the demonstration database (`slow_query.py`).
* Signature checks, subscriptions, readiness pages and the demonstration endpoints:
  they answer before the modelled part begins and change nothing.
* The table of tool calls, which is only written; the schema and its migrations.
* Nothing is said of a store that loses or reorders writes: SQLite and Postgres
  are taken to be atomic per statement, as the code does.
* A crash of the process is in `ApprovalGate`, `WebhookIngest` and `LiveApi`; in the
  other modules it would only end a call early, as a failure does.
* Replay payloads, scenarios, evaluation, configuration, connectivity probes and
  scripts: `PROJECT.json` gives the reason for each.

### Divergences from the documents that have no run

* ADR 0020 says that worker restarts resume existing work. After a death past the
  remediation checkpoint the record is running, approvals are answered 409, and
  nothing looks for such records at start-up.
* CONTEXT.md:359 asks for facts that the state supports. The slow-query
  post-mortem states the change as a fact even if it was rejected, because its
  text looks at neither decision nor result.
* ISSUES.md:101 asks for one durable investigation per external incident id. The
  two webhooks and the operator's run make their keys differently, and
  `run_live_incident` ignores whether the key it inserts was taken.
* ISSUES.md:280 says that retries do not execute the rollback twice. `RealTool` runs the
  handler again after a timeout of `rollout undo` or `rollout status`; the second
  command is sent, and by `RetryIsHarmless` does nothing unless someone else deployed.
* ADR 0037 caps the service investigators at the top three services and records
  gaps for the rest, while the code investigates every affected service
  (`_should_spawn_service_investigators`).
* ADR 0019 lets failures of tools lower the confidence, while `_derive_diagnosis`
  looks only at the traces and `_reconcile_evidence` at the subagents.

## 6. Plan

Done: the gate with its abstraction and proofs, the receiver, the run, the live
API, credentials and managed store, paged reads, evidence tools, incident records,
cluster changes, and the proofs of all safety properties. The gate has the run
that raises after it parked its record (`webapp.py:1222`) and keys that collide. What
could come next: `SlowQueryDb`, the seeding of the demonstration database under the
index, and a remediation step in the gate that is `ClusterChanges`' rollback.
