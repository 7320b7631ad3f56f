# ArchiBot in TLA+

ArchiBot classifies the documents of a Paperless-ngx server with language models
and writes to Paperless only what a reviewer accepted.  The hard part of it is not
the classification but the bookkeeping around it: a Laravel application, a Python
Temporal worker, an outbox relay and a recovery loop share one PostgreSQL database
and must agree on who owns a document, across retries, crashes, replaced runs and
late decisions.  This directory models that bookkeeping, checks it with TLC and proves
most of its safety properties with TLAPS.

1. [The system](#the-system)
2. [The modules](#the-modules)
3. [The runs](#the-runs)
4. [What the code does not keep](#what-the-code-does-not-keep)
5. [Proofs](#proofs)
6. [Abstractions, and what is left out](#abstractions-and-what-is-left-out)
7. [Plan](#plan)

Paths are relative to `src/`.

## The system

### Processes

| process | code | what it does |
|---|---|---|
| laravel-web | `laravel/app/Http` | requests of users, administrators and Paperless webhooks; records intents, never calls Temporal |
| queue-worker, scheduler | `laravel/app/Jobs`, `laravel/routes` | claims durable sources and launches a Python child for each attempt; hands poll candidates over |
| Python children | `app/actor_runner.py`, `app/actors` | one attempt each: a document run, a review commit, a webhook delivery, a poll, a batch, an old index build |
| durable-recovery | `laravel/app/Services/Pipeline/PipelineRecoveryDispatcher.php` | every 30 s: finalises cancellations, releases blocked runs, closes what dead children left, dispatches the next attempt |
| temporal-outbox-relay | `app/temporal/relay.py`, `outbox.py` | one process; delivers recorded intents to the Temporal server |
| temporal-worker | `app/temporal/worker.py` | runs workflows and activities; model calls one at a time (`model_capacity.py`) |
| mcp-server | `app/mcp_server.py` | read-mostly tools |

They interact through PostgreSQL rows (`pipeline_runs`, `review_suggestions`,
`commands`, `embedding_index_builds`, `temporal_outbox_intents`, ...) and, from the
relay on, through Temporal's start, signal and signal-with-start calls.

### Components

| component | state | operations | hard behaviours | what makes it correct |
|---|---|---|---|---|
| Outbox and relay | intents: status, attempts, lease; relay memory | record, claim, deliver, acknowledge, fail, dead-letter | relay crash between any two steps, answer lost, lease expiry, poison rows, the last attempt | nothing is started twice, acknowledged unseen, or abandoned silently; every row is settled |
| Document workflow | one execution per document: position, decision, force and readiness flags | signal handlers, readiness, four model phases, publication, review wait, commit, closing projections, Continue-As-New | signals in any order at any await, activities retried or exhausted, redelivered starts | the workflow reviews its own suggestion, settled generations rest, queued work is picked up |
| Review and commit | suggestions, commit commands, the Paperless document | look at the version, accept, reject, reprocess, publish, begin, PATCH, finish, fail | decision and replacement racing, a look at Paperless that comes back after the decision, PATCH done but not recorded, dead-lettered decisions | one decision per suggestion, writes only for accepted ones, reports that stay and agree |
| Pipeline start | runs, their dedupe keys | first start, coalescing, three forced paths | gate closed at the start, two transactions of Classify | a queued run has a start, a forced one a signal |
| Job control, recovery scan | run statuses | cancel, retry, finalise, release | status checked, then written later | a cancellation stays one, blocked runs are released |
| Embedding gate and builds | index state, build generations | mark stale, build, finish and release | builds and settings changes contending, release racing the workflow's look | blocked runs do not outlast the build, one build at a time |
| Poll reconciliation | poll commands, the schedule, discovered runs; candidates and their leases | schedule, discover, start; persist, lease, complete | discovery retried, an answer lost, leases expiring under their holder | every found document gets one run, and that run a starter or a batch |
| Webhooks | deliveries | normalise, deduplicate, replay | the same delivery twice, failed start after a stored delivery | one run per delivery, none lost |
| Entity approvals | approvals, commands | approve, reject | Paperless called between two transactions | one active decision, none lost |
| Legacy actors | source rows with token and version, executions, items, the report | claim, activate, work, finish, fail, recover, cancel, retry | jobs lost or doubled, children dead, silent or late, a cancel at any step | one attempt at a time, outcomes decided once, a success that was earned, every source settles |
| Staged batches | batch commands, their runs, items, embeddings | seal, attach, attempt, phase by phase, block, release | an attempt that was taken for dead goes on, runs attached late, the index closes | phases are global over all attempts, late writes are refused, the batch settles |
| Retry, progress, items | counters | backoff, counting | boundaries | bounds, totals match |
| Model phases, providers, Paperless client | none of their own | prompts, parsing, HTTP | external services | data only |
| Settings, MCP, UI | files, none | forms, tools, rendering | | |

`PROJECT.json` lists every component with its status, and under `hazards` the places
in the code where the hard behaviours bite.

## The modules

| module | models |
|---|---|
| `IntentDelivery` | the promise of the outbox: an open intent may reach Temporal again and again until it is settled; it is delivered only if it reached Temporal; settled is final |
| `TemporalOutbox` | `TemporalOutbox.php`, `outbox.py`, `relay.py`: the rows, the relay and Temporal's executions as far as a caller sees them |
| `MCTemporalOutbox` | four kinds of rows, of which a behaviour records `MaxRecorded`: a start and a decision for one workflow, a forced start for another, a start of a build |
| `TemporalOutboxProofs` | theorems about `TemporalOutbox` for every value of its constants |
| `ReviewPromise` | what a reviewer may rely on: a decision is made once, only a look that finds the document changed undoes it, Paperless is written only for a suggestion that was accepted and whose commit is not reported, a report is final but for one case: the success of an outdated suggestion may turn into a failure |
| `DocumentLifecycle` | one document: generations, workflow, reviews, commit, gate, job control, recovery scan |
| `MCDocumentLifecycle` | `DocumentLifecycle` as TLC runs it |
| `DocumentLifecycleTypes` | proves its type invariant |
| `DocumentLifecycleProofs` | proves its inductive invariant, and the invariants the runs check |
| `DocumentLifecyclePromises` | proves that it implements `ReviewPromise`, and that a settled generation rests |
| `AttemptLedger` | what attempts promise to the readers of their source: granted when none is open, closed once, and the source settled in the step that closes the attempt it runs under, or taken away by an administrator |
| `ActorExecution` | one durable source and its attempts: `ActorInvocationClaimer`, `RunPythonActorJob`, `actor_execution.py`, `execution_lifecycle.py`, the document, review and webhook actors, and the recovery scan |
| `MCActorExecution` | a run, a command or a webhook delivery, on one host or several |
| `ActorExecutionProofs` | theorems about it for any number of attempts and faults |
| `CandidateHandoff` | what becomes of a document that a poll finds: it gets one place, with Temporal or with a batch, its candidate is completed only once it has it, and a batch takes every run that waits when no candidate is open |
| `PollCandidates` | the poll of the old kind: a child that persists candidates, and the consumers that start their runs |
| `StagedBatch` | extends it: the batch of those runs, from the sealed set through its phases to the settled command |
| `MCStagedBatch` | both, with two documents or two versions of one, and with faults in the poll or in the batch |
| `PollCandidatesProofs` | lemmas: what every step of a poll preserves |
| `StagedBatchProofs` | theorems about poll and batch for any number of documents, attempts and faults |
| `MaintenanceWorkflows` | index builds, reindexes, polls and their discovery as Temporal workflows, and the old index builder they compete with |
| `MCMaintenanceWorkflows` | six histories of two commands |
| `MaintenanceWorkflowsProofs` | theorems about it for any histories, documents and faults |

`TemporalOutbox` implements `IntentDelivery`, and `DocumentLifecycle` uses the outbox
at that contract: an intent is `open` and may be delivered any number of times until it
is `delivered` or `dead_letter`.  So the relay's crashes and leases do not multiply with
the workflow's states, and both modules still cover redelivery.

### TemporalOutbox

`intent` is the table row (status, attempts, lease, `due` for `available_at`), `relay`
the row the relay holds and where it is in `relay_forever`, `server` the executions of
each workflow identity, `reached` a history of what Temporal accepted, `projection` the
status of the run or command the payload names, `commit` the `commit_status` of the
suggestion when the payload names a decision.  One action per step of the loop:
`Claim`, `Deliver` with `DeliverAnswerLost` and `DeliverRefused`, `MarkDelivered`,
`MarkFailed`; `Crash` forgets the relay's memory anywhere; `BecomesDue` is the passing
of time.  `MarkFailed` contains the three projections of a dead letter, which commit
with it: a command that is still queued and a run that is still queued or blocked fail,
and the suggestion of a decision fails unless it is committed -- also under a commit that
runs (`outbox.py` 151-175).  The worker is there as far as these can tell (`WorkerStep`):
work begins, a commit finishes, a run is blocked and released.  `begun` is every status a
worker writes from its first activity on.

### DocumentLifecycle

| variable | code |
|---|---|
| `run` | `pipeline_runs`: `status`; `progress_current_phase` as far as a guard reads it; the model phases recorded; whether the run was forced |
| `sugg` | `review_suggestions` with `commit_status` and the status of their `review_commit` command |
| `owed` | Classify requests between their two transactions |
| `outbox` | each intent by what its stable key is derived from |
| `wf` | the execution of `archibot/document/{id}`: its await (`at`), its request, the signals it holds |
| `gate` | `embedding_index_states`, and how many builds have completed |
| `admin` | a cancel, retry, finalisation or release between reading the row and writing it |
| `patched` | history: suggestions that reached Paperless |

The workflow runs atomically between two awaits, as Temporal's event loop does.  An
awaited activity is one action when it is one transaction; `check_document_readiness`
is split where it reads the gate under the row lock (`ReadinessReadsGate`, then
`ReadinessProjects`), publication into `store_review_suggestion` and
`_finish_document_projection`, and the commit into begin, PATCH and finish.  Every
activity has a `...Effect` (what it writes) and an action that adds how the workflow
goes on; `CompletionLost` is the effect without its completion, `AttemptAborted` an
attempt cut between two transactions, `ActivityExhausted` the last one failing.
`MarksStale` is what `assertReviewable` does when Paperless holds another version than
the suggestion was made for: it has tested the status of a row read earlier, it has
called Paperless, and it marks the row stale by id, without a lock or a guard
(`ReviewSuggestionController.php` 351, 498-520).  So the mark may come after a decision,
a commit or a report; `MaxOutdated` bounds how many suggestions it may reach.
`Accept` and `Reject` are `decide`, after a look that found nothing.  What follows a decision in the
workflow goes by the signal and by the command, not by the status of the row, and the
activities test the status where the code does: begin and load refuse a stale row, the
PATCH goes ahead with what was loaded, the finish commits the suggestion only if it is
still accepted.  `Checkpoint` is `_continue_if_reprocessed`, `FinishReview` is `_finish_review` up to its
next await; `"wedged"` is a workflow task that raises `ValueError` again and again.

The row lock that `_check_document_readiness` holds is modelled (`Locked`): whoever
updates that run waits.

### ActorExecution

`source` is the row of the run, command or delivery: its status, the token of the
execution it belongs to, and whether its two error columns name the index; `exec` are the
executions in order of id, `worker` the child of each, `jobs` the queue, `report` the line
a runner printed last.  `Claim` is the claimer's transaction with the launch; `Begin` to
`Conclude` are the child's steps, with `Fail`, `TurnAway` and `Dies` as its other ways out,
`Finish` is the transaction under the fence of token and version.  The commit actor fails
in two transactions: `Fail` closes the attempt under the fence, and `MarksFailure` then
writes `commit_status` by id alone (`actors/review.py` 127-134), however far the next
attempt has come.  `PresumedDead` is the scan's judgement:
right on the host of the child, a guess elsewhere, so that on several hosts a late child
goes on beside the next attempt.  What a child does to its source is one of three bodies
of work: the items of a run, the commit of a suggestion (with the comparison by which a
repeated PATCH is recognised), or the single write of a delivery.

### PollCandidates and StagedBatch

A finding is a document in one of its versions: `document` says which, `DocumentMaps`
which assignments are explored, and a poll lists a document in one version at a time
(`OneVersionEach`).  The poll child writes candidates without a fence
(`PersistCandidate`), and says that it is through before it finishes.  A consumer finds a candidate and leases it by version in two
steps, starts the run, and completes the candidate if the version is still its own.  In
practice an empty Paperless webhook queues such a poll.  `StagedBatch` adds the seal
(`Sealed`, `Dispatch`), the attempts with their fence (`Owns`), and in `Work` the
global phases: all runs through one phase before any enters the next.  Between the fetch
and the review the batch finds an item by its document (`run_by_document_id`,
`document_batch.py` 221), so that of two runs of one document the later gets the items of both (`ItemRun`).
An attempt may fail before it has read its runs (`document_batch.py` 91-112 and 364-397):
at the last one the command fails for good and its runs stay as they are (`Fail` from
`"launched"`, `Unread`).  Both modules use
the attempt protocol in a short form, claim and recovery being one step each;
`ActorExecution` is its subject.

### MaintenanceWorkflows

`command` are the rows of `commands`, `rows` those of `embedding_index_state` in order of
creation, `touched` the one updated last, which is the gate.  `wf` is the place of each
workflow, the documents it still has to do, and what it found; `runs` are the runs a
discovery creates, "released" meaning that a start intent is recorded and "owned" that a
workflow was started or signalled.  Activities take effect in one step, but
`_persist_observation_and_run` is split where it reads the gate (`Look`, `Persist`).
`CompletionLost` repeats an activity whose transaction was committed, `Outage` exhausts
one, `DiscoveryFails` ends an attempt together with the starts it had found.  A child is
started in two awaits (`workflows.py` 639-664): `StartChild` asks Temporal for the
document's workflow; when it is there already, a plain start is dropped and a forced
one goes on to `"signalling"`, from where `Signal` reaches it, or `SignalFails` because it
has closed in between.  Nothing handles that error, so the workflow is `"lost"` and keeps
in `found` the starts it still held.

## The runs

| run | module, bounds | shows |
|---|---|---|
| `outbox` | 2 of 4 kinds of rows, 2 attempts, 2 crashes | the contract, no double start, no silent abandonment, begun and committed work spared by dead letters, and every row settled (@outbox) |
| `lifecycle_replaced` | 2 generations, forced from a review, 2 outdated suggestions | `ReviewPromise` and the workflow's own suggestion across replacement, Continue-As-New, late decisions and late looks at Paperless (@lifecycle_replaced) |
| `lifecycle_generation` | 1 generation through Classify or maintenance, 1 outdated suggestion, outages of Temporal and of the database | published once, commit and command agree, the promise, settled generations rest (@lifecycle_generation) |
| `lifecycle_live` | 1 first generation, 2 phases, 1 build, 1 administrator's action, 1 outdated suggestion, Temporal outage | a queued run has a start, is picked up, a blocked one is released, an awaited acceptance resolved (@lifecycle_live) |
| `actors` | a run on one host, a command and a delivery on one and on several; 2 attempts, 1 crash, administrator's action, closing of the index, edit | `AttemptLedger`, one attempt at a time, success earned, the report durable, source and execution settled together; cancellations take effect, sources settle (@actors) |
| `staged_batch` | 2 findings, of two documents or of one, 2 attempts, 1 fault in the poll or a crash and a closing in the batch | `CandidateHandoff`, phases global over attempts, runs and command agree, nothing left outside the seal, late children refused; the batch settles (@staged_batch) |
| `maintenance` | 6 histories of two commands, 2 documents, 2 tries, 1 fault | a complete index covers what was listed, one builder, a starter for every queued run, final outcomes; commands settle, blocked runs leave (@maintenance) |

Together they take every action.  Two halves of `SettledGenerationsRest` are beyond
`lifecycle_generation`, which has one generation and no administrator: that superseded
generations rest, and the exception for an administrator's retry.  The theorem
`SettledRests` covers both.  The remaining five runs end in a counterexample; see
the next section.

*Bounds.*  Two attempts and a crash let a crash fall on the first and on the last
attempt.  Two generations are enough for one to replace the other and for decisions
and intents of the old to reach the new; a third would add a queue of replacements,
which `Supersede` follows and the proofs cover but no run reaches.  Four suggestion rows
leave room for a placeholder and a published row each.  One build covers a gate
closed at the start, one that closes on a running workflow, and its release; one
administrator's action (in `lifecycle_live`) suffices for a stale write, because the recovery scan's
finalisation and release come without a bound.  One model phase stands for the four:
they differ in what they compute, not in what they do to the run.  The number of attempts of an activity
is not bounded at all: it may fail or be repeated at any time.  For actors, two attempts
make a first and a last one, and one crash is enough for a late child beside its
successor; an administrator's retry adds a third attempt beyond the limit.  Two runs are
enough for one to be ahead of the other in a batch, or to share its document; the proofs
cover any number.  One outdated suggestion is enough where there is one to decide, two
where a generation is replaced.  Two rows in the outbox let one wait behind the other, in
every pair of kinds.  The histories of `maintenance` pair the commands that share state:
builder with builder, discovery with discovery, builder with discovery.  `MaxFaults` is
one budget for everything that goes wrong there beyond failing attempts.

*Fairness.*  The relay and the worker are supervised processes: weak fairness on the
relay's steps, on the workflow's progress, and on every intent being acknowledged or
dead-lettered.  The last transaction of an activity has strong fairness, since it may be
aborted and retried but only a bounded number of times.  The recovery process scans
every 30 seconds, and a request in flight ends.  Users, administrators, index builds
and the success of a model call are never obliged.  `lifecycle_live` assumes
`DatabaseOutage = FALSE`: the activities that only touch PostgreSQL succeed within
their five attempts.  Without it, an exhausted `check_document_readiness` closes the
workflow and leaves its run queued (it is listed as a hazard).  In `actors` and
`staged_batch` the queue worker claims, the scan recovers and redispatches, a child that
lives takes its next step, and an index that closed is built again; faults are never
obliged.  `staged_batch` asks for less: that of the scan's and the queue's steps some step
is taken while one is possible, and some child goes on while one can.  In `maintenance` the worker steps every workflow and the scan releases; requests
are never obliged.

*Deadlock* is not checked: a document whose work is done is at rest, and so is an outbox
without open rows, a source that settled, and workflows that are through.

## What the code does not keep

Five runs check a sentence of the repository's documents and fail.

| run | the document says | what happens |
|---|---|---|
| `force_in_the_last_leg` | ADR-0024:49-51, a running workflow supersedes its generation and continues as the replacement | it looks for a replacement up to the review wait only; one that arrives during publication with a decision at hand, the commit or the closing projection is delivered, dropped when the workflow ends, and its run stays `queued` |
| `force_unsignalled` | ADR-0024:47-48, a force action records a signal-with-start | a replacement born behind a closed gate records nothing, and the completed build releases it with a plain `start_workflow`, which Temporal rejects as a duplicate under the shared identity |
| `accepted_while_replaced` | ADR-0024:51-52, the old suggestion becomes stale immediately, so it cannot be accepted | true of reprocess from a review; Classify and maintenance leave it to the workflow, and until then it can be accepted |
| `cancellation_lost` | job-control-model.md:97, failure-retry-recovery.md:231, final state is `cancelled` and no more work runs | the workflow asks for a cancellation in its readiness check only; publication writes `running` over it |
| `retried_discovery` | implementation-plan-temporal-migration.md:15, every Paperless and PostgreSQL activity is idempotent and safe after worker loss | the starts a discovery found are its return value; an attempt that is lost takes them along, the next one counts their runs as existing, and they stay `queued` |

Met while modelling, in the model, and without a run of their own:

* A decision is not final.  A second request that looked at the suggestion while it was
  pending marks it stale when Paperless answers with another version, whatever was decided
  meanwhile (`ReviewSuggestionController.php` 517).  The commit of an accepted suggestion is
  then refused or, when it is past its load, goes through to Paperless for a row that says
  stale and whose `commit_status` stays `running`.  `ReviewPromise` has this as `Outdated`,
  `CommitAndCommandAgree` and `AwaitedReviewIsResolved` except stale rows.
* The dead letter of a decision writes `commit_status = 'failed'` also over `running`: a
  decision that reached Temporal and lost its answers looks failed until its commit
  finishes, or for ever when it does not (`outbox.py` 161-175).
  `DeadLetterSparesBegunWork` is therefore about commands, runs and committed suggestions.
* An acceptance recorded after a replacement was requested is lost when both signals
  reach the review wait: the force is looked at first and Continue-As-New forgets the
  decision (`workflows.py` 409-424).  `AwaitedReviewIsResolved` is therefore checked
  without replacements.
* A build that completes between the readiness activity's look at the index and its
  write of `blocked` does not see that run.  The scan requeues it with a start that
  already exists, so the status recovers (`BlockedRunIsReleased`) while the workflow
  keeps waiting for a readiness signal (`document_activities.py` 743-773).  This is why
  `QueuedRunIsOwned` assumes that the index stays complete.
* A redelivered signal-with-start runs a permanently failed generation again: readiness
  does not test for `failed_permanent`, and a phase writes `running` over it.  If the
  suggestion of the failed run was accepted meanwhile, its decision went to the closed
  execution and the new one waits for it; `lifecycle_live` takes a first generation, whose
  plain start is rejected when it is redelivered.
* A rebuild that begins after the readiness check does not stop the phases that follow.
* A cancellation written late, over a generation that is done or superseded, unsettles it:
  a workflow that still holds its request may supersede it once more.  `Settled` therefore
  excludes `cancel_requested`.  TLC needed two generations and a Classify request to show it.
* Publication that exhausts its attempts between its two transactions leaves a pending
  suggestion nobody waits for.
* The placeholder of Classify is a second suggestion of its run; a decision on it is
  the one the workflow keeps, and the published suggestion's wait then fails its task
  (`"wedged"`).
* A document actor that finds the index closed writes the reason into `error` only
  (`actor_execution.py` 248), and the release of blocked runs asks `error_type`
  (`PipelineRecoveryDispatcher.php` 1551, 1576): such a run stays blocked until an
  administrator retries it.  `SourceSettles` counts `blocked` of a run as settled.
* A batch whose last attempt fails before it has read its runs fails for good and leaves
  them pending or retrying (`document_batch.py` 91-112, 364-397), and of two runs of one
  document in a batch the earlier succeeds without its own items (221).  `ChildrenAgree`
  states both exceptions (`Unread`, `Shadowed`).
* A forced discovery whose child start is rejected, and whose signal then meets a workflow
  that has closed, fails as a whole: that run and all it had found stay queued without a starter
  (`workflows.py` 650-664; `Stranded` in `QueuedRunHasAStarter`).
* Attempts are numbered over the life of a source: after an administrator's retry beyond
  `max_attempts` there is no automatic retry any more.
* A child never finishes as cancelled: once a cancellation is requested its finish is
  refused, and recovery finalises (`CancelTakesEffect`).
* Items and `commit_status` are written without a fence.  On several hosts a child that is
  presumed dead can reopen items, or mark a suggestion as running after its commit; hence
  `fleet = "one_host"` in `SucceededRunIsComplete` and `SuccessIsEarned`.  And on one host
  too, a child that has failed marks its suggestion as `retrying` after the next attempt
  has committed it, if it stalls between its two transactions; `SuccessIsEarned` allows
  `committed` or `retrying`.
* A candidate persisted by a child that has lost its poll joins the batch only if the
  batch happens to wait for a retry; otherwise its run waits for ever.  `SealedSetIsAttached`
  therefore speaks of candidates of owning children (`owned`).
* A build whose row was marked stale meanwhile, or whose finish is repeated after its
  answer was lost, writes its status over whatever has happened since and opens the gate
  again (`embedding_activities.py` 366-382); a `prepare` that is resumed by its command
  does not look for another builder (158-170), so that two rows may be building.
  `OneGenerationAtATime` states this exception as `overrun`.
* Where a poll or build workflow has no handler for an exhausted activity it is lost, its
  command stays active, and no poll is scheduled and no build accepted any more
  (`CommandsSettle` names the place).
* The old builder leaves its row `building` when it dies; its relaunch is turned away by
  that row, since it looks for any building row and not for its own
  (`embedding_index.py` 60-66).  The next request for a build marks the row stale.
* The start of a document's first run is dropped when a forced run of the same document
  was started first, and a forced run that was queued by an attempt before the gate closed
  is not started by the next: the other exceptions of `QueuedRunHasAStarter`
  (`Overtaken`, `forgotten`).

## Proofs

`TemporalOutboxProofs` proves, for any rows, attempts and crashes and any assignment of
rows to workflow identities:

* `TypeCorrect`, `NeverStartedTwice`, `AbandonedWorkFails`: the invariants `TypeOK`,
  `StartedAtMostOnce` and `AbandonedWorkIsFailed`;
* `BegunWorkIsSpared`: the action property `DeadLetterSparesBegunWork`;
* `ImplementsDelivery`: the outbox implements `IntentDelivery`, by a mapping of `pending`
  and `delivering` to `open`.

The invariants are not inductive by themselves.  `IInv` adds what they rest on:

| strengthening | why it is needed |
|---|---|
| `HoldsItsClaim`: the relay's row is still claimed, and has reached Temporal once the relay believes so | a row is acknowledged only if it reached Temporal |
| `UnusedIdentities`: an identity without an execution has had none | a first start makes one execution, not a second |
| `WorkBeganAfterReach`: a worker moves a row only after Temporal accepted its intent | a dead letter Temporal never accepted finds its row unmoved, and fails it |
| `CommitAfterReach`: a committed decision reached Temporal, and its command has begun | the dead letter of one that never did fails the suggestion too |
| `ReachedIsRecorded`: only recorded intents reach Temporal | a row that is recorded later begins unreached |

`InitIInv` and `NextIInv` prove it inductive with one step per action.  The proofs
assume the named assumptions of the module only: positive bounds, and rows that name a
known operation and target.

The lifecycle is proved for any number of generations, phases, builds and
administrator's actions, with any failures, from `LifecycleAssumption`, which only says
that the bounds are bounds.

* `DocumentLifecycleTypes`: `TypeCorrect`.  `TypeOK` needs `OwnsRun`: wherever the
  workflow is about to write a run or a suggestion, it has one in hand.
* `DocumentLifecycleProofs`: `Invariance` of `Inductive`, and from it `CommitsAgree`,
  `PublishesOnce`, `ReviewsOwn` and `QueuedWasRequested`.  Its first half, `RowInv`, is
  about the rows: a suggestion with a decision intent is decided, an absent row is
  empty, an accepted one has a command and an undecided one none -- a stale one may have kept the command of
  its acceptance --, commit and command agree as far as the look at Paperless lets them, one row is
  published.  Its second, `Carries(wf)`, is what the place of the workflow has made sure
  of: the suggestion in its hands is of its run; where it commits, the suggestion has a
  command, which is claimed, and before the finish Paperless is written; every decision
  it holds was taken and every generation it runs or waits to run was requested.
  The other actors keep that because nobody takes back a command, a PATCH or a request
  (`Persists`); the workflow's own steps re-establish it place by place (`CarriesStep`).
* `DocumentLifecyclePromises`: `KeepsPromise`, `SettledRests` and `CancellationYieldsToThree`.  Under the mapping
  (`Verdict`, `Report`) every step writes one row as the promise allows (`PromiseWrite`),
  withdraws the open rows of a superseded run (`PromiseWithdrawn`), reaches Paperless, or
  stutters; `Inductive` supplies that a commit is reported done only after its PATCH and
  that a report is not overwritten.  `SettledRests` takes two more invariants: a terminal
  stage has a terminal status (`StageFits`), so whoever tests the status before writing
  leaves the row alone; and where the workflow writes without testing, its run is not
  settled (`WorksUnsettled`), since it tested under the row lock and only it settles runs.

Two theorems bound what the runs `cancellation_lost` and `retried_discovery` refute: the
documents promise more than the code keeps, and the theorem says how much it keeps.
`CancellationYieldsToThree` (`CancellationYields`): besides an administrator's retry, only
the projections of a publication, of a finished review and of a failed run write over a
cancellation, and only the first over a finalised one.  Readiness cannot, because it
holds the row lock since it looked (`WorksUnsettled`); phases, releases, builds, dead letters
and supersession keep it.  `LeftWereForgotten` (`LeftRunsWereForgotten`): when all
maintenance workflows are through or lost, a run left queued went with an attempt that
failed, was held by a forced command that could not signal, or was overtaken by a forced
one.  Neither has a run of its own: TLC agrees with both on the
constants of the lifecycle's and the maintenance runs.

`ActorExecutionProofs` proves every safety property of attempts for any number of them, with
any faults and any fleet.  Its `IInv` says: only the last execution can be in flight and a
source that is done has none (`OnlyTheLast`); a report names a success that stands
(`Reported`); a source runs under the token of its last execution and the work of a child
is held by it (`WorkIsHeld`); only a command that failed for good is marked failed, and
nobody attempts it again (`FailureStands`); what a child has done is visible in items, suggestion and
Paperless as long as it is the one that counts (`Progress`); from these the success of a
source is earned (`SuccessIsEarned`) and complete (`SucceededRunIsComplete`).

Its type invariant bounds the number of attempts, and `Bounded` says why there is a bound.
Up to `max_attempts` a source needs no reason to be attempted.  Beyond, `AttemptsAreOwed`
holds: the attempts there were, what can lead to another one (`Pending`: a source that is
due, an administrator's request, an index that is closed and may block a delivery), and the
executions that wait for their retry (`Waiting`) are together at most twice `max_attempts`
with the requests made and the times the index closed.  A step that makes something pending
uses up one of these, and a claim uses up the source that was due (`Spends`,
`ClaimOwes`).  It takes that only early attempts wait (`WaitingIsEarly`), a source that
runs has an execution in flight (`RunningIsInFlight`), and a block names the index
(`BlocksFit`).  The term 2 * `max_attempts` is no slack: each of the earlier attempts that still
waits for its retry dispatches the source once more when it is recovered, also after a later
attempt was blocked, and nothing in `recoverRetryingActorExecution` excludes a blocked source.

`ImplementsLedger` rests on both invariants.  An execution is open in the ledger when it is
queued or running, and a source is running, succeeded or neither.  Claims are grants,
concluding and recovering are closings (`LedgerCloses`, `LedgerSucceeds`), the finalisation
of a cancellation gives up what waits; dispatches, releases and activations are stutters,
because a source that is dispatched is not running (`RunningIsInFlight`).

`StagedBatchProofs` proves every safety property of poll and batch, on lemmas about the
poll in `PollCandidatesProofs`.  `IInv` is `TypeOK` with `PollInv` -- a lease is held by
version, a completed candidate has its run -- and `BatchInv`: the seal (`SealInv`,
`MemberInv`), the fence (`FenceInv`, `OwnerInv`: the child that holds the command is the
last one, and its phase, its remaining runs and its results fit the items, those
that went to a later run of the document included), what each
child knows of itself (`ChildInv`, with `Blind` for one that failed before it knew its
runs), and `ChildrenAgree`.  `ImplementsHandoff` adds `PlaceInv`: a
document whose run Temporal owns has no run here.  Under the mapping (`Stage`, `Place`)
everything the poll does to a candidate finds it, decides it or leaves it open
(`StageSteps`); a run is started only for a candidate that is open and has no place,
because a completed one has its run and the holder of an old lease finds it (`StartSteps`);
the batch touches no run outside it but by taking all of them (`BatchStepsInside`).

`MaintenanceWorkflowsProofs` proves every safety property of the maintenance workflows,
for any set of histories and any number of commands, documents, attempts and faults.  A
complete index covers, because all along what a builder has listed is stored, still to
do, or failed (`BuildersCover`), and a failure leaves its row incomplete.  One generation
is built at a time, because a builder at work has the row that is building
(`BuildersHold`) until somebody overruns it, and the old builder, which holds the lease,
even then.  Reports stay, because a command says only what fits the place of its workflow
(`CommandsFit`), and in particular an activity that is repeated after its report says the
same again.  A queued run is held by the workflow that found it, alive or lost
(`QueuedIsHeld`), and since only a forced command is lost with starts in its hands
(`HeldOrStranded`), one that no living workflow holds is an exception by name.
Each step belongs to one command, or is a stale mark or a release by the
scan; the lemmas say what it does to that command's workflow (`Moved`), to the rows
(`Aside`, `Rewrites`, `Appends`) and to the runs (`Starts`).

Only model-checked are: liveness (`EventuallySettled`, `QueuedRunIsOwned`,
`BlockedRunIsReleased`, `AwaitedReviewIsResolved`, `CancelTakesEffect`, `SourceSettles`,
`BatchSettles`, `CommandsSettle`, `BlockedRunsLeave`), which rests on fairness.  Every other
property of a passing run is a theorem.

## Abstractions, and what is left out

* Time is the flag `due` in the outbox and absent from the lifecycle: backoff and lease
  lengths do not matter to the properties, their expiry does.
* Payloads, prompts and proposals are left out; a suggestion is its status.  Reading and
  writing the gate in an administrator's retry is one step.
* One slot (`admin`) holds the check-then-write requests in flight, so two stale writes
  do not overlap.
* Attempts of one activity follow each other in `DocumentLifecycle` and
  `MaintenanceWorkflows`; attempts that overlap are in `ActorExecution` and `StagedBatch`.
* In `DocumentLifecycle` the PATCH to Paperless is one step that always reaches it; lost
  answers, edits by others and the test for an earlier PATCH (`jobs/review_commit.py`) are
  in `ActorExecution`, for the actor that shares that code.
* The Paperless version in the dedupe key is left out of `DocumentLifecycle`; in
  `PollCandidates` a finding is a document in one of its versions, and the marker
  disposition, the third part of a candidate's key, does not vary.
* In `ActorExecution`: parsing of payloads and protocol records, and `retryFailedItems`.
  The functions of `execution_lifecycle.py` that recover, finalise and scan from Python
  have no callers and are not modelled.
* In `StagedBatch` and `PollCandidates`: what a suggestion says; "skipped" items are part
  of "complete"; the backoff of a poll is part of "queued"; malformed candidates, forced
  polls' tokens, and the administrator's cancellation of runs that still wait.  Runs
  of a batch cannot be cancelled or retried one by one (`PipelineRunController.php` 64, 169).
  A failed attempt turns runs that had succeeded in it back and repeats them, as in the code.
  The index that counts is the row created last in one place and the row updated last in
  another (`embedding_index_ready`, `PipelineStartGate`); `gate` is both here, and
  `MaintenanceWorkflows` has the rows.
* In `MaintenanceWorkflows`, `FinishOld` and `FailOld` join the old builder's two
  transactions, on its index row and on its command.  Between them a request for a build
  would be refused because of the one or the other, and requests are never obliged.  Left
  out are: adoption of old runs without an owner, versions of a run,
  marked documents, edits and deletions of single embeddings, OCR reindex.  The outbox is
  taken at its contract: a request starts its workflow.
* `cancel_workflow` intents exist as an operation of the relay, but nothing records one.
* The components marked `not_modelled` in `PROJECT.json`.

## Plan

Done: the outbox; the document lifecycle with reviews, gate and job control; actor
attempts with recovery; polls and staged batches; index builds and discovery.  Left, in
this order:

1. `EntityApproval`: approval and rejection contending around the calls to Paperless
   (`EntityApprovalDecisionService.php`).
2. `WebhookDelivery`: receiving, deduplicating and replaying deliveries
   (`PaperlessEventWebhookController.php`).
3. The standalone `ReviewCommitWorkflow`, with attempts of its activities that overlap.
4. `MaintenanceWorkflows` composed with the gate of `DocumentLifecycle`: the release of
   blocked runs with the readiness signal.

The number of runs is kept small on purpose; a run for a new component comes before
another question to an old one.
