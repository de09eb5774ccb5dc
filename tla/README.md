# SentinelLLM in TLA+

SentinelLLM is a gateway in front of language models. An API process answers
`/generate` and records a trace of every request in Postgres; worker processes
evaluate the traces asynchronously (a Redis list is the queue) and run periodic
loops that judge what the traces show: the health of models, progressive
rollouts of models and of prompt versions, regressions, alerts. Every process is
replicated, and what keeps the replicas apart is Postgres: row locks, unique
indexes, advisory locks. Clients register prompts, datasets and API keys, submit and
label traces, and run experiments that gate what goes to production. The modules of
this directory model these mechanisms, check them with TLC, and prove the core
invariants with TLAPS.

Source paths below are relative to `src/src/sentinellm/`.

## 1. Inventory

| component | state it keeps | operations | hard part | what makes it correct |
|---|---|---|---|---|
| Rollout policy (`services/rollout_policy.py`) | none | `judge_challenger`, `next_traffic` | comparisons at the boundary, thin windows | the verdict is the first gate the requests break |
| Model rollouts (`services/rollouts.py`, `worker/tasks/rollout.py`, `api/routers/rollouts.py`) | `model_rollouts`, the evidence cursor | create, pause, resume, promote, rollback, the periodic pass | passes of several replicas against operators; a lost advisory lock; evidence that appears late | the active rollout routes traffic; traffic never outruns evidence; no decision is overwritten |
| Prompt rollouts (`services/prompt_rollouts.py`, `worker/tasks/prompt_rollout.py`) | `prompt_rollouts` | the same, per application and prompt; what a request is served | the challenger's status is read without a lock | the newest rollout decides what is served; a deprecated challenger is pulled |
| Prompt registry (`services/prompts.py`, `api/routers/prompts.py`) | `prompt_versions` | create, relabel, promote | requests that read and write apart | a version is in production by its label or an experiment; a promotion leaves none of those it found |
| Evaluation queue and worker (`core/queue.py`, `worker/tasks/evaluate.py`, `worker/tasks/evaluation_recovery.py`) | the Redis list, `traces.evaluation_status`, `evaluations` | push, pop, claim, complete, fail, recover | crashes, jobs lost or repeated, the job is pushed before its trace commits | one evaluator at a time, no second evaluation, everything settles |
| Evaluators and judge (`evaluation/`) | none beyond an answer | the deterministic metrics, the judge with retries and fallback, claims, the weighed quality | replies that do not parse, metrics that do not apply, rounding at a threshold | the judge leaves a verdict; quality is what the evaluators that ran make of an answer |
| Experiments (`services/experiments.py`) | `experiments` | a run over a dataset, its aggregation, a comparison | requests that fail, one commit at the end | the pass rate counts every request |
| Periodic loops (`worker/periodic.py`, `core/locks.py`) | the advisory lock of each loop | a pass | the lock lives on another connection than the pass | passes are isolated even without the lock |
| Model health (`worker/tasks/model_health.py`, `api/routers/models.py`) | `models.status`, `status_auto` | the pass, PATCH | stale reads, unwritten columns, a model that is down earns no evidence | what an operator pinned stands; down is retried |
| Router (`routing/`) | none: it reads traces | classify, collect statistics, filter, score | its own choices make the traces it judges by | no model is tried before one that beats it on every count, but for rounding; an outage ends |
| Resilient client (`llm/resilient.py`) | none beyond a request | calls, retries, fallback | caps, partial failure, what the log says | every call is accounted for; every failing model is charged once |
| Generation (`services/generation.py`) | traces | one request | composes most of the others, and reads them statement by statement | the evidence it leaves is its own model's |
| Budget guard (`services/budget.py`) | per-replica TTL caches of the rule and of the spend | admission, status | a query and the fill of its cache are apart; two names of one application | overshoot, refusal and an outdated rule are bounded by the TTL |
| Semantic cache (`caching/`) | `semantic_cache_entries` | lookup, store, prune | counting a hit on a row that is pruned | nobody is served another context's answer |
| Datasets and corpus cache (`api/routers/datasets.py`, `services/dataset_import.py`, `retrieval/`) | `datasets`, `dataset_records`, an in-process LRU of indexes keyed by dataset and record count | create, import, look up, retrieve | the count that makes the key and the records are read by two statements | what is retrieved is the dataset's best, and up to date |
| Applications and API keys (`api/deps.py`, `api/routers/applications.py`) | `applications`, `api_keys` | authenticate, issue, list, revoke, rotate, set a budget | a request acts on keys it read earlier, with a key that may be gone by then | rights do not grow along a chain of keys; a grace period is kept; revoked is for good |
| Traces API (`api/routers/traces.py`) | `traces`, `human_feedback`, tags | ingest, list, export, label, replay | the client chooses the id; overlapping corrections; lists that grow between pages | an id names one trace; labels are whole; no trace is skipped; a replay is its own |
| Alerting (`worker/tasks/alerting.py`, `api/routers/alerts.py`) | `alerts`, `alert_rules` | the pass, PATCH of a rule | check-then-insert, delivery before commit | one row per rule and dedupe window, a repeated call only for what was not recorded; a breach that persists is alerted again |
| Regression detection (`worker/tasks/regression.py`) | `regressions` | the pass | two windows from two statements | the windows adjoin; what is flagged did get worse |
| Rate limit, SDK, pricing, metrics, providers, migrations | see `PROJECT.json` | | no protocol state of their own | |

Components interact through the database: `generate` writes the traces that the
rollout passes, model health, the router's statistics, alerting and regression
detection read; model health sets the status that the router, rollouts and rollout
passes read; the registry's statuses gate prompt rollouts; an experiment commits the
row that gates a promotion; the worker's evaluations are the quality evidence of a
rollout and the observed quality the router ranks by; datasets feed retrieval and
experiments. The hazards, each at its line with the properties that would catch it,
are in `PROJECT.json` under `hazards`.

## 2. Modules

| module | models | composes |
|---|---|---|
| `RolloutPolicy` | the verdict and the traffic step, on exact integers out of `Scale` | |
| `RolloutLifecycle` | abstract: the committed table of rollouts and the moves of a row | |
| `ModelRollout` | model rollouts with transactions, locks, evidence, replicas | `RolloutPolicy`; implements `RolloutLifecycle` |
| `EvaluationQueue` | requests, queue, consumers, recovery, faults | |
| `PromptRegistry` | versions of a prompt, experiments, promotion | |
| `PromptRollout` | prompt rollouts above the registry, and what is served | `PromptRegistry`, `RolloutPolicy` |
| `ModelHealth` | the health pass against PATCHes | |
| `Routing` | the router and the statistics that its traffic leaves | |
| `FallbackChain` | one request through retries and fallback, and its trace | |
| `BudgetGuard` | admission under a daily budget, with the caches of every replica | |
| `Generation` | requests of one application: the chain of models, the semantic cache, the trace | |
| `Detection` | the alerting and regression loops: reads, dedupe, delivery, commit, under an advisory lock that may be lost | |
| `Evaluators` | the evaluation of one answer | |
| `Experiment` | a run of an experiment, its row, the comparison of two | |
| `Retrieval` | datasets, the corpus cache of a process, the documents of a request | |
| `ApiKeys` | requests that authenticate with keys and manage keys | |
| `TraceApi` | ingestion, labels, lists and replays of traces | |
| `MCRolloutPolicy` | every verdict over single requests, against its definition | `RolloutPolicy` |
| `MCSequential` | the parts that share no state, one per behaviour | `MCRolloutPolicy`, `FallbackChain`, `Evaluators`, `Experiment`, `Retrieval` |
| `MCHealth` | the two things that keep a model out of routing, one per behaviour | `ModelHealth`, `Routing` |
| `MCModelRollout`, `MCPromptRollout`, `MCBudgetGuard`, `MCGeneration`, `MCDetection`, `MCApiKeys`, `MCTraceApi` | what TLC needs besides a configuration: bounded inputs, start states, symmetry | the module they are named after |
| `ModelRolloutProofs`, `GenerationProofs`, `ApiKeysProofs` | theorems | the module they are named after |
| `PromptRolloutProofs` | theorems about prompts, from the registry to what is served | `PromptRegistry`, `PromptRollout`, `MCPromptRollout` |
| `AdmissionProofs` | theorems about what a request is let have: the budget and the models | `BudgetGuard`, `MCHealth`, `SumTheorems` |
| `JudgementProofs` | theorems about what is made of answers: alerts, scores, rates, verdicts | `Detection`, `MCSequential`, `SumTheorems` |
| `SumTheorems` | lemmas about sums over finite sets | |
| `TraceProofs` | theorems about traces, from the queue to the API | `EvaluationQueue`, `TraceApi` |

### Correspondence with the code

*Transactions.* Postgres runs at READ COMMITTED. A request or pass that reads in
one statement and writes in another is several actions: what it has read is
state of its own (`request[c]`, `pass`, `patch[o]`, `draft[p]`, `req[r]`), its writes
appear at its commit. The ORM writes only attributes that differ from what was
read; where this matters (`PromptRegistry`, `ModelHealth`, `ApiKeys`, `TraceApi`) the
model says so. A flush directly before its commit is merged with it. `SELECT ... FOR
UPDATE` is an action that needs the row's lock and re-reads the row.

*ModelRollout.* `rows` is the committed table, `draft[p]` the versions in the
open transaction of process p, `lock` the row locks, `leader` the advisory lock,
`todo` the rows a pass has yet to decide. `PassStart` is the locked select with
`skip_locked` under the advisory lock; `DecideUnhealthy`, `DecideLater`,
`DecideRollback` and `DecideAdvance` are the outcomes of one iteration of the
loop; `PassCommit` publishes. `LeaderLost` breaks the advisory lock's connection
while its pass goes on, `PassFail` a pass. `Serve` and `CommitTrace` are a
request that stamps its trace and commits it later; `Score` its evaluation.
`evidence` is a history field: the challenger traces the row's committed
decisions counted.

*EvaluationQueue.* A claim's UPDATE is uncommitted until the evaluation is, so
`status` never shows it (the dashboard of `docs/design-decisions.md:65` cannot either);
what it does is hold the row's lock, which is what
`Holders` says. `Skip` is a claim that matches no row. `Complete`,
`CompleteUnacknowledged` and `RunFails` end the first transaction, `MarkFailed`
is the second one. The recovery pass is five actions, one per transaction or
Redis call; `aged` is what was old enough when it began. `LoseQueue` is external:
Redis restarting empty.

*PromptRegistry, PromptRollout.* A create reads the maximum and inserts later; a
promotion reads its target and gate, scans for the production version, writes. The
pass of a prompt rollout locks its row, reads the challenger's status, loads the
evidence, commits. `Served` is what a request that names the prompt and no version may
get: the latest rollout draws an arm by its traffic whatever its stage, and without one
the newest production version answers. `labelled`, `scanned` and `excused` of
`MCPromptRollout` are history: which versions a PATCH or a create put in production, what a
promotion found there when it looked, and for which pairs of versions in production one was
entitled to be there beside the other.

*ModelHealth.* `window` is the evidence in the trailing hour; `PassEvidence` and
`PassRows` are the two reads of the pass. `called` and `late` of `MCHealth` are history: the
status each model's last PATCH left, and the models PATCHed since the open pass read its rows.

*Routing.* `history[m]` are the traces that name m, newest first, as many as the
statistics query takes. `Route` classifies a prompt, leaves out what is down by the
registry or by recent failures, cannot hold the prompt or is below the quality floor, and
ranks the rest by the weighted score: `Score` of `Whole`, both cross-multiplied to integers,
is rounded to a whole number of `Rounding` (10000 in the code, four decimals), and equal
scores are tried in the order of listing. `Answer` and `FailAll`
leave a trace with the model that answered or with the first choice. A failure that a
fallback made up for reaches `ModelHealth` through `failed_attempts` (`FallbackChain`) but
never these statistics, which read the trace's own model.

*FallbackChain.* One action per outcome of a call; `Record` is the trace the
request leaves.

*BudgetGuard.* The handlers of a replica are coroutines, which yield where they
await the database. `QueryRule` and `QuerySpend` are what the database sees, `KeepRule`
and `KeepSpend` the fill of the cache and what follows without another await.
`asked` is the time before the query, from which both the cached value's time to live
and the day it covers are counted. `rules` is every rule the application had, a
history of the row that a PATCH updates.

*Generation.* One action per statement that reads or writes what is shared:
`Downgrade` reads the models that are up, `FollowRollout` the active rollout, `Route` the
models again, `Lookup` the cache. `CountHit` is the flush of a hit's count, which
holds the entry's row until the request commits (`Held`) and fails when the row is
gone; `Record` is the commit. `by` is a history field of requests and entries: who
gave the answer. `Admit` and `Call` abstract what `BudgetGuard` and `FallbackChain`
model.

*Detection.* The two loops share no table, so that a behaviour follows one of them
(`loop`). `pass[w]` is what the pass of a replica has read and its session's
uncommitted rows (`drafts`), `flags` the committed alerts or regressions, `announced`
the alerts the webhook was called with. `ReadRules` and `ReadValues` are the reads
before the loop over the rules, `ReadApps` the one before the loop over budgets,
`ReadCurrent` and `ReadPrevious` the windows of a regression; `Dismiss` and `Raise` are
the outcomes of an iteration. `Overwrite` is the consumer of `EvaluationQueue` that writes
`failed` over a completed trace, which leaves the windows and keeps its evaluation. `seen`,
`known`, `after` and `lost` are history: the traces that were completed, or evaluated, when the
current window was read, the faults there had been before a flag, and whether an advisory lock
was lost.

*Evaluators.* An answer is what the evaluators see of it: similarities between its texts,
whether a rule fired, latency and cost relative to a threshold. `RunEvaluators` is the
deterministic part, `AskJudge` one reply of the judge, `CheckClaims` the hallucination
detector with the aggregation.

*Experiment.* `Generate` and `Evaluate` are the two loops of a run, `Finish` its
aggregation and commit, `Lose` an exception, which takes everything with it.

*Retrieval.* `Count`, `Lookup`, `Read`, `Put` and `Retrieve` are what a request does
between two awaits. `Grow` is external: records arrive past the API
(`tests/unit/test_corpus_cache.py:85`); no code replaces records while keeping their
number, which the cache would not notice.

*ApiKeys.* `Begin` reads the caller's key, `Touch` updates its `last_used_at` at most once
an interval and holds the row's lock from then on, `Load` reads the target of a
revocation or rotation, `Revoke`, `Rotate`, `Issue` and `Use` commit. A refusal rolls
`last_used_at` back. `DeadlockVictim` ends one of the requests that wait for each other's
row. `parent`, `deadline` and `contested` are history.

*TraceApi.* `Ingest` is the look-up of an id, `Insert` its flush, which waits for the
transaction that holds the unique index, `Store` the commit; `Label` reads what `Review` or
`Tag` writes; `StartWalk` and `NextPage` are a client that pages through a list. `told`,
`strayed` and `crossed` are history: what clients were told of an id, to whom it did not
belong, which verdicts two requests corrected at once. That an ingestion whose job could
not be queued goes unnoticed is in `EvaluationQueue`.

## 3. Runs

All runs that pass are exhaustive over their bounds.

| run | question | bounds | distinct states |
|---|---|---|---|
| `parts` | is the verdict the gate the requests break; does the log of a request account for its calls, and is every failing model charged once; does the judge leave a verdict, and is quality earned; does the pass rate count every request; is retrieval fresh? | verdicts: 3 requests per arm, 4 scores, all guards out of 3 values; chains: 3 models, up to 3 fallbacks, 3 tries; answers: 1 or 2 sentences, up to 2 documents, scores at and around the thresholds, 3 replies of the judge; experiments: 2 runs of up to 3 records; retrieval: 2 datasets of up to 2 records, room for 1 index, 2 requests | 1.0 million |
| `rollout_core` | is traffic backed by evidence, and are automatic rollbacks announced? | 2 replicas, 1 operator, 1 rollout at 10 or 70 percent, 2 traces, 1 fault | 3.3 million |
| `rollout_races` | one active rollout per application, isolated decisions, the life cycle of the table | 2 replicas, 2 operators, 2 applications, 3 rollouts, 1 fault | 259,000 |
| `rollout_live` | is evidence skipped, and does a ready rollout get its decision? | 2 replicas, 1 operator, 2 traces, a minimum sample of 2, 1 fault | 799,000 |
| `queue` | one evaluator, never twice, one job per trace, everything settles | 2 traces, 2 workers, 2 faults | 83,000 |
| `prompts` | who put in production what is there, and beside what; does the newest rollout decide; does a deprecated challenger go, and get no more traffic? | 2 clients that promote and relabel, 2 versions; 2 experiments and PATCHes to production without rollouts, 2 rollouts above a registry that has its versions | 568,000 |
| `health` | pins, the choice of the router, and the way back from down | the registry: 1 model, 1 operator, a window of 3 with a minimum of 2; the router: 2 models of the best quality, of which 1 is also called by name, a window and a minimum of 2, scores rounded to a fiftieth | 261,000 |
| `budget` | how late is an overshoot, a refusal, a changed rule? | 1 replica, 3 requests, 2 names, 1 change, a TTL and a day of 1 tick | 1.0 million |
| `generation` | does a trace name who answered, and an arm's trace its model? is a hit lost to the TTL only? | 2 requests, 2 models, 2 changes of rollout or status | 550,000 |
| `detection` | is a flag recorded twice, or told twice without cause, is a breach told at all, do the windows of a regression adjoin? | 2 replicas with thresholds of 50 and 0 percent, 1 rule, 1 application, 2 metrics, 3 traces, windows of 1, 2 changes, 1 fault | 1.3 million |
| `keys` | do rights grow, do rotations keep their word, does a revoked key come back? | 2 applications, 3 keys, 2 requests, a grace longer than the clock, 1 tick | 2.9 million |
| `traces` | does an id name one trace; are labels whole, pages complete, replays their own? | 3 ids, 2 applications, 2 requests, 3 labels, pages of 1, a filter | 947,000 |

*Why the bounds are enough.* Interference is pairwise: a second replica, operator
or client is what it takes for a lost update, a third adds only repetitions.
Rollouts of different applications share nothing but a pass, so two applications
suffice; three rollouts let one application have two in sequence while the other
has one. Two traces with a minimum sample of one, and two with a minimum of two,
allow a decision on evidence, a decision on stale evidence and a thin window. One
fault inside a pass or consumer shows every way it can leave; a second one hits the
recovery. The clock has as many ticks as the grace period, a cursor and a late
trace take. Models in `ModelHealth` do not influence one another; in `Routing` two are a
winner and a loser; a score rounded to a fiftieth makes ties of models that differ. The caches of
different replicas in `BudgetGuard` share nothing but the database, so one replica
with three requests suffices: one fills the caches, one spends, one is judged; an
expiry needs two ticks. An answer that is replayed needs one request that stores it and
one that finds it, a hit that is lost a prune between two steps of the latter. `Detection` needs
two passes to overlap and a third trace to shift a window of one; two ticks let a flag
leave the dedupe window, and one fault is a pass cut short after its call of the webhook, a
lost lock or an overwritten status between the two reads. Two promotions overlap with one
another, or with a PATCH, on two versions. An index is evicted when there is one dataset more than room. A
chain of keys is a first one, an heir or an issued one, and one of that one's; two requests
overlap on one of them. Two pages need two traces and a third that arrives between them.
`Symmetry` is used in runs that check no liveness property.

*Parts of a run.* `MCSequential`, `MCHealth` and `MCPromptRollout` choose at the start
which part a behaviour runs; the others keep their initial state. It is a way to check
modules that share no state side by side, and restricts none of them but for
`PromptRollout`: above rollouts no further experiment runs and no PATCH names "production",
so that what is labelled, promoted and tested at once is looked at in the registry's own
part. In `MCTraceApi`
(`Menus`) clients either ingest, read and replay, or label, or page, and those that label
have one trace to label: operations of different menus touch different columns, but for
lists that are filtered by tags, which are a configuration of their own
(`TraceApiRetagged`).

*Deadlock.* It is checked everywhere but in `parts`, `budget`, `generation`, `keys` and
`traces`, whose behaviours end: all requests are answered and the clock stops, the ids or
keys run out.

*Fairness.* Weak fairness of a step says that a loop goes on: consumers and
`run_periodic` loop for ever and catch what a pass raises, and a transaction that
was begun ends. Strong fairness of `Claim`, `Skip` and `MarkFailed` is Postgres
granting a row lock to whoever waits in its queue. Strong fairness of the steps
of the passes of `PromptRollout` and `ModelHealth`, where failures are not
counted, says that passes do not fail for ever. Elsewhere faults are bounded by
`MaxFaults`; in `Detection` weak fairness of `Begin` and of each replica's pass says that
the loop goes on. In `ModelHealth` and `Routing` time passes: evidence leaves its window.
Nothing says that clients, operators or traffic do anything.

## 4. Disagreements found

No run expects a violation. Eleven configurations are kept beside the runs; TLC ends
each in a counterexample (those named `...Disputed` in one for each of their properties, with
the others taken out).

| configuration, of module | property | what the code does |
|---|---|---|
| `ModelRolloutLateCommit`, `MCModelRollout` | `NoEvidenceSkipped` | The cursor moves to `now - grace`; a trace stamped before and committed after is never counted (`worker/tasks/rollout.py:125`). |
| `EvaluationQueueOverwrite`, `EvaluationQueue` | `EvaluatedIsCompleted` | A trace in flight for fifteen minutes is queued again, since its claim is not committed. If its first run then fails and rolls back, a second worker completes it, and the first one's second transaction writes `failed` over that without a condition (`worker/tasks/evaluate.py:62`; `evaluation_recovery.py:9` says that a needless re-queue costs one skipped job). |
| `PromptRolloutDisputed`, `MCPromptRollout` | `DeprecatedNeverWins` | A challenger deprecated after the pass read its status is promoted for good (`worker/tasks/prompt_rollout.py:88`). |
| the same | `PromotedIsPinned` | A rollout promoted at a `max_pct` below 100 serves the rest from the incumbent; `db/models.py:455` says that "promoted" pins the challenger. |
| `PromptRegistryTwoProductions`, `PromptRegistry` | `OneProduction` | Two promotions that overlap both find the version that was in production before; both of theirs stay (`services/prompts.py`, `promote_prompt_version`; its head says "only one production version at a time"). `ProductionIsEarned` says what holds instead. |
| `ModelHealthDisputed`, `ModelHealth` | `NeverOverridden` | A PATCH that commits between a pass's read of a model and its commit is overwritten by it, and the model stays pinned to what the pass wrote (`worker/tasks/model_health.py`). |
| the same | `PatchTakesEffect` | A PATCH that confirms the status it read writes no status; a pass in between decides (`api/routers/models.py:96`). |
| `GenerationDisputed`, `MCGeneration` | `NeverDearer` | A pin to a model that is down is no pin to the guard: an over-budget request goes to the cheapest model that is up, which may be dearer (`services/generation.py:285`, against its comment and `docs/design-decisions.md:407`). |
| the same | `NoHitIsLost` | The count of a hit is read, incremented in Python and written at the commit; two overlapping hits count as one (`caching/semantic_cache.py:87`). |
| `DetectionRetracted`, `MCDetection` | `NothingRetracted` | The webhook is called before the commit; a pass that fails in between has announced an alert that is on no list (`worker/tasks/alerting.py:209`). |
| `SequentialDisputed`, `MCSequential` | `AttemptsCapped` | A model named twice among the fallbacks gets two retry budgets (`llm/resilient.py:71`). |
| the same | `OverflowIsNoError` | A request too long for every model is counted against the health of the first (`services/generation.py:432`). |
| the same | `FailureIsNoGain` | A run none of whose requests was answered has zero hallucination, latency and cost, and compares as better on all three (`services/experiments.py`, `_aggregate_into_experiment`). |
| `ApiKeysLockout`, `MCApiKeys` | `AdminRemains` | A key cannot revoke itself (`api/routers/applications.py`), but two admin keys that revoke each other at a time, or a request that goes on with a key revoked meanwhile, leave none. |
| `TraceApiTorn`, `MCTraceApi` | `VerdictIsWhole` | Two overlapping corrections of a verdict each write the columns that differ from what they read; the stored one may have the rating of one and the note of the other (`api/routers/traces.py:404`). |
| `TraceApiRetagged`, `MCTraceApi` | `PagesSkipNothing` | A list filtered by a tag gets shorter when the tag is taken from a trace on an earlier page: the rest moves up by one, past the OFFSET of the next page (`api/routers/traces.py:294`). |

Further facts the models brought up, which no document contradicts. Overlapping rotations
of a key: the last writer may put off the end the other one announced (`contested`), and a
rotation that read a key before it was revoked still commits a live replacement. A scoped
admin key that rotates an unscoped key of its application gets an unscoped one. An answer
without a context cannot score above 0.625, below the default pass threshold of 0.7
(`QualityIsEarned`). A rollout of a prompt that has ended goes on deciding what is served,
whatever version is promoted in the registry later.

## 5. Proofs

TLAPS proves, for all values of the constants that satisfy the modules'
assumptions:

*`ModelRolloutProofs`.* `TypeCorrect`; `Isolated`: a transaction holds the lock of
every row it selected, its version of a row is one life-cycle move from the
committed one, and what it has not decided yet is what is committed; `Served`: the
active rollout of an application is its latest; `Implements`: the specification
implements `RolloutLifecycle` under the mapping from the committed table. The
invariant is `TypeOK /\ Isolation`. `ServedRollout` alone is not inductive: a commit
could publish a stale version of a row, or an insert could be followed by a
rollback of an older row that goes back to running; `HeldIsLocked`,
`DraftIsOneMove` and `TodoIsFresh` exclude the first, `CreatedInOrder` and the index
the second. `leader` appears in none of them: the proof does not use the
advisory lock, which is what makes losing it harmless. Refinement follows step by
step: a commit moves the held rows by one move each, an insert is `Create`, everything
else leaves the table alone. `StepsAreEarned`, `CursorSkipsNothing` and
`RollbacksAreAnnounced` say what a decision rests on (`TrafficBacked`,
`NoEvidenceSkipped`, `AutoRollbackAnnounced`): every step that a draft or a row has taken is
backed by as many traces of the challenger as the minimum sample, and what was decided on
were scored traces committed before the cursor. `CursorSkipsNothing` has the hypothesis
`CommitLag < Grace`: a trace that is committed later than the grace period after its stamp is
skipped, which `ModelRolloutLateCommit` shows.

*`TraceProofs`, the queue.* `TypeCorrect`; `EvaluatesExclusively`; `NeverTwice`;
`CompletedHasEvaluation`; `StaysSettled`. The invariant adds to the properties that
a worker without a job is idle, that who runs has claimed a trace still pending
and not evaluated, and that recovery pushes only traces of committed requests.
The row lock (`Claimable`) is what every one of them rests on. `JobsAreQueuedOnce`
(`QueuedOnce`) adds that a trace is queued by its own request first and once, and by the
recovery pass only when that found nothing queued: what it has yet to push is of committed
requests, and not in the queue (`RequestsFirst`, `RecoveryOwns`).

*`PromptRolloutProofs`.* `ProductionEarned` (`ProductionIsEarned`), for any number of clients
that promote, relabel, create and experiment at once: a version in production was labelled so
or has passed, and of two versions there the later one was labelled, or was promoted by a
request that had looked before the other arrived. The invariant `Earned` says
what a promotion holds by the time it writes: its version has passed (`Tested`, which no step
undoes), and all it found beside its version is to be demoted (`Earning`). A step that brings
no version into production keeps each pair as it was (`PairedStep`). That the versions are
numbered without gaps is the invariant of `TypeCorrect`. Of the rollouts above the registry
`TypeCorrect`, `DecidesWhatIsServed`
(`RolloutDecides`) and `NothingForTheDoomed` are proved. The last one is the action half of
`DeprecatedIsPulled` (`DoomedGainNothing`): a challenger that was deprecated while no pass
was on its rollout gains no traffic any more. Its invariant `Gated` says that a pass on such a
rollout is still before the gate that reads the status, or about to roll back.

*`AdmissionProofs`, the budget.* `OvershootIsBounded` (`SpendIsRespected`) and
`RulesTakeEffect` (`RuleInForce`), for finitely many requests and a TTL of at least one tick.
The invariant `BudgetInv` bounds a query's answer from both sides: a spend asked for at time a
is at least what was spent by a and at most what is spent by now, on the day that a falls
into, and a cached entry is the answer to a query asked for one TTL before its end; the same
of rules, with what was in force since then. The guard's judgement then is off by no more than
what was spent within the last TTL. That needs spend to be monotone in the set of traces
summed. A sum is a fold of the library, a recursive function chosen by its equation: that
there is one is shown in `SumTheorems` by taking a smallest finite set without (`SumsUp`,
`SumsExist`), from which what a sum does when its set grows by one, or by many, follows
(`SumStep`, `SumGrows`).

*`AdmissionProofs`, the models.* `PinsAreRespected` (`PinsStand`): a pinned model has the status
its last PATCH left, or what a pass made of it that had read its row before. By `RegistryInv` a
model that is pinned although the open pass has listed it was PATCHed since that pass read its
rows (`Listed`), and what a PATCH leaves is what `called` says. `NobodyIsDominated`
(`NeverDominated`): a model that may serve a request comes before each that it equals in all
that is weighed and beats in something, unless that one is listed earlier and the difference is
less than a unit of the rounded score; a demanding request is sent to no model below its quality
floor, and a model without fault that is up and large enough is always in the chain. Scores are
compared multiplied out: the spreads of prices and of latencies are positive, products of what
is ordered are ordered, and a model that fails more has the greater risk, so who is dominated
has no higher score, and by at least a rounded unit a lower one where the difference is of that
size. The order the code sorts by gives each eligible model a place of its own, and the places
are as many as the models. Weights are any whole percentages, a weight of 0 included; a negative
one, which `core/config.py:42-45` does not forbid, would turn the preference round and is
excluded by `RoutingAssumption`.

*`GenerationProofs`.* `TypeCorrect`; `OwnAnswers`; `HonestArms`; `LostOnlyToExpiry`.
The invariant `Inv` adds what links a request to the cache: an entry belongs to a
request that is over and names the model that gave its answer (`EntryOK`); a request
that found an entry sees it unchanged, or expired since (`HitOK`); a request that
follows a rollout has the arm's model as its only choice (`ArmOK`). A step that
changes one request only keeps it by one lemma, `Local`; `Record`, `Prune` and the
clock, which touch what others have read, have a proof of their own.

*`JudgementProofs`, alerts.* `TypeCorrect`; `ToldOnce`; `JudgedFairly`. The invariant of the
first two: until a lock is lost, who has a pass holds the lock (`PassHoldsLock`); no flag,
committed or about to be, is newer than the clock (`Past`); and any two flags of one subject
that are committed or one pass's own are further apart than the dedupe window (`Apart`).
Another pass's drafts would not be, but there is no other pass when one commits. An alert that
receivers were told of since the last fault is still written down, as a row or as a draft
(`Told`), where the next dedupe check sees it; so one that is told again within the window was
not, and never will be (`Retold`). `JudgedFairly`
(`RegressionIsJudgedFairly`) is about a pass that reads the two windows one after the other
while evaluations arrive and statuses are overwritten. The invariant `FairInv` keeps that the
current window is the newest of what was complete at the first read, and the previous one the
next of what was complete at the second: as many traces fall between the two as lost their
status meanwhile, at most, and they share at most as many as were evaluated meanwhile. It keeps
that both windows have enough traces when they are compared, and that a draft has two traces
that differ the way it says: if none did, the average would not have moved (`AverageWithin`).
A threshold is any whole percentage, zero included, and may differ between replicas.

*`JudgementProofs`, the parts of `MCSequential`.* One inductive invariant per part, which the
other parts keep because they leave its variables alone.
  - Evaluation: `JudgeKeepsItsRules` (`JudgeRules`) and `QualityIsAlwaysEarned`
    (`QualityIsEarned`), for every answer and every sequence of replies. `EvaluationInv` says
    which metrics there are by which stage, that the judge ended with a verdict or for
    cause, and that the overall quality is the weighted mean of what is present; a mean
    lies between its least and its greatest mark, whatever weights are missing.
  - Experiment: `PassRatesAreEarned` (`PassRateIsEarned`). By `ExperimentInv` the rate in the row
    of a run is that of its own traces, of which there are as many as were asked for, and
    there is no row before. The rate is rounded, so that the theorem bounds it by half a unit
    of the last decimal: a large run that misses a pass may still show a full rate.
  - Verdict: `VerdictsAreExact` (`VerdictIsExact`). The policy multiplies sums across; the
    reference compares every pair. Both sums are linear, and the sum over pairs is one
    row by row.
  - Retrieval: `RetrievalStaysFresh` (`RetrievalIsFresh`). By `RetrievalInv` the index that is
    kept for a dataset with n records holds the documents of its first n and of no other
    dataset. Datasets only grow, so an index whose count agrees is the dataset's.
  - Chain: `CallsStayAccounted` (`CallsAreAccounted`) and `FailuresCountedOnce`
    (`FailuresCountOnce`). By `ChainInv` the log has one entry for each model that was given
    up, in the order of the chain. The hypothesis `Unrepeated` is that a caller lists no model
    twice: attempts are capped for each place of the chain and not for each model, which
    `SequentialDisputed` shows.

*`ApiKeysProofs`.* `ScopesInherit`; `GraceKept`; `StaysRevoked`. The invariant adds that
what a request has read of a key, however old, has the rights of the key as it is now
(`ReadsOK`), since no transaction writes those columns (`WrittenType`): this is why a check
on a stale row is good enough for scopes. `GraceKept` rests on the end that is announced
being the one that is written whenever the rotation read the expiry that is stored
(`EarlierTwice`). `StaysRevoked` needs that an UPDATE sets the columns of its transaction
and no others.

*`TraceProofs`, the API.* `AnswersAlwaysAgree`; `LabelsStayWhole`; `ReplaysStayTheirOwn`. The
invariant: at most one transaction has inserted an id, one that is not stored
(`Exclusive`, `NewOK`, which is the unique index); a request that is to label or to replay a
trace has seen it stored and in its scope (`LabelOK`, `ReplayOK`); and what a row says of its
original agrees with that (`Linked`). No step takes a trace away or gives it other contents
(`Grows`), so what was read of one before stays good, its labels excepted:
a correction is whole because it is made on what was read (`CorrectionIsWhole`), and
`crossed` holds the traces for which that is not so. `PagesAreComplete`
(`PagesSkipNothing`) has the hypothesis that no list is filtered by a tag;
`TraceApiRetagged` shows why. A trace that is inserted comes before all others and moves
them back, one that was never committed leaves no gap, and nothing changes places: so a
trace that a walk still has to see lies at or past the offset of its next page (`OnCourse`),
although pages overlap.

The proofs depend on the assumptions named in the modules (`RolloutAssumption`,
`ScaleAssumption`, `QueueAssumption`, `BudgetAssumption`, `GenerationAssumption`,
`DetectionAssumption`, `KeysAssumption`, `TraceAssumption`, `RegistryAssumption`,
`SequentialAssumption`, `HealthAssumption`, `SceneAssumption`), which TLC evaluates in the
runs, and on the hypotheses named above.

*Only model-checked.* Every safety invariant and every action property that a run checks is
stated by a theorem, `DeprecatedIsPulled` by its action half. The bound on the number of keys
in the `TypeOK` of `ApiKeys` is left to TLC. So are liveness (`ReadyIsDecided`, `Settles`,
`DeprecatedGoes`, `OutageEnds`, `BreachIsRaised`) and everything about ENABLED, which are
out of the prover's reach.

## 6. Abstractions

- Rates, scores and percentages are integers out of `Scale`; a comparison of
  averages is cross-multiplied. Rounding of doubles is not modelled: where the code rounds
  what it stores and compares what it has not rounded (`Evaluators`), so does the model, which
  floors there. The router (`Routing`) and the rows of experiments (`Experiment`) round to the
  nearest unit of the last decimal; a tie goes up, where Python's `round` goes to the even digit
  or to where the double happens to lie.
- `ModelRollout`: rollouts are ordered by insertion although `created_at` is stamped
  just before it; the two windows of a verdict and their scores are read in one
  step; taking the advisory lock and the row locks is one step; a pass that finds
  no running row has no effect; all rollouts compare the same two models under the
  same guards; clocks agree.
- `EvaluationQueue`: one recovery pass at a time (its loop is a singleton); ages
  count from the commit of the request; the batch limit of 200 is not reached.
- `PromptRegistry`: the rows of an experiment appear at its commit, its traces do
  not matter; one pass threshold, as in the application's configuration.
- `PromptRollout`: one application and prompt; the verdict is any of its three
  outcomes; one pass at a time (`ModelRollout` has several); which arm a request draws is
  any that has traffic.
- `ModelHealth`: a request in flight to a model just taken down is not
  distinguished; `status_reason` is left out.
- `Routing`: a trace is recorded as it is answered; one request at a time is on its way
  through the chain; prices, windows and priors do not change; status changes of the
  registry are free (`ModelHealth` has them); weights are whole percentages, none negative.
- `BudgetGuard`: one application, registered or not; a trace is committed in the tick
  it is stamped; clocks of replicas and database agree; a request costs 1 in the run.
- `Generation`: one application; two questions are similar enough when they are
  equal, and a lookup may miss anyway; the router's order is any order of any part
  of the models that are up; the 200 candidates a lookup reads are enough; retrieval,
  prompt rollouts and quality are left out.
- `FallbackChain`: "timeout" is any failure worth a retry; backoff durations and
  exceptions that are no `ProviderError` are left out.
- `Detection`: one application for regressions, whose pass commits per application;
  `breaching` stands for a value beyond its threshold and is read with the values; a
  rule without a row counts as enabled, which is what the pass that inserts it does;
  a flag carries the time of its dedupe check; every completed trace has all scores;
  thresholds are whole percentages and averages are compared multiplied out;
  severities and likely causes are left out.
- `Evaluators`: embeddings, sentence splitting and the pattern rules are inputs; the
  judge's fallback compares by the built-in embeddings (`plain`) whatever provider is
  configured, as in the code.
- `Retrieval`: a dataset is its name and version; a document fits a question by its
  position; the reranker orders what was retrieved.
- `ApiKeys`: an heir's optional lifetime is left out, it never expires; the hash of a key is
  its identity; `last_used_at` counts in ticks.
- `TraceApi`: a trace is its application, its contents, its labels and its links; a list is
  filtered by an application or a tag, which stand for all filters on what does not change
  and on what does.

## 7. Not modelled

The rate limit is the limits library's moving window, in memory and per process, and the
other middleware sets headers. The SDK is an HTTP client without state, pricing a lookup
table, the metrics endpoints are read-only aggregates, the observability counters are never
read back. Providers are adapters to external services: `FallbackChain` has every outcome of
a call. Migrations run once, off line. Applications are registered by single inserts under a
unique name. `rag_metrics.py`, the benchmark and the seeding scripts run from a shell.
Redaction, rendering of templates, likely causes and severities are functions of texts that
no property depends on. No module composes all of `generate`: its parts are checked apart,
each against what it shares with others.

What could be added: `Generation` composed with `Routing` and `Retrieval`; `FallbackChain`
shown to implement the `Call` of `Generation`.

## 8. Running

    tlc -workers 2 -config EvaluationQueue.cfg EvaluationQueue
    tlapm ModelRolloutProofs.tla

`PROJECT.json` lists the runs with their modules and configurations, and for every
property a mutant: a plausible bug of the code under which the property is violated.
The type invariants of `EvaluationQueue`, `ModelRollout`, `Generation` and `Detection` are
proved and in no run; those of the other modules document their state. Mutants are the
definitions named `...Mutant` next to what they replace; nothing else uses them. A module
that others instantiate names its assumption without assuming it; the module that
instantiates it does (`SequentialAssumption`, `HealthAssumption`).
