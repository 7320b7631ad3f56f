--------------------------- MODULE ActorExecution ---------------------------
(***************************************************************************)
(* One durable source -- a legacy document run, a review commit command or *)
(* an embedding webhook delivery -- and the fenced attempts to execute it. *)
(*                                                                         *)
(* Laravel claims a queued source: it creates an execution, gives the      *)
(* source a new lifecycle version and the execution's token, and launches  *)
(* a Python child (RunPythonActorJob, ActorInvocationClaimer).  The child  *)
(* activates the execution, does its work, and finishes execution and      *)
(* source in one transaction that the token and the version fence          *)
(* (actor_execution, execution_lifecycle, actors/...).  Children die, jobs *)
(* are lost, calls fail; Laravel's recovery scan closes what was left      *)
(* behind and dispatches the next attempt (PipelineRecoveryDispatcher).    *)
(***************************************************************************)
EXTENDS Integers, Sequences, FiniteSets, SequencesExt

CONSTANTS
    Sources,        \* pairs of a kind of source and a fleet of workers
    MaxAttempts,    \* actor_executions.max_attempts (5 in the code)
    MaxCrashes,     \* bound: children that die, and jobs the queue loses
    MaxAdmin,       \* bound: cancellations and retries an administrator asks for
    MaxClosings,    \* bound: times the embedding index stops being ready
    MaxEdits        \* bound: edits of the Paperless document by other people

ASSUME SourcesAssumption == Sources \subseteq {"run", "command", "webhook"} \X {"one_host", "many_hosts"}
ASSUME MaxAttemptsAssumption == MaxAttempts \in Nat \ {0}
ASSUME BoundsAssumption ==
    /\ MaxCrashes \in Nat
    /\ MaxAdmin \in Nat
    /\ MaxClosings \in Nat
    /\ MaxEdits \in Nat

\* A queue holding two jobs of one source behaves like one holding more.
MaxJobs == 2
\* Attempts are numbered over the whole life of the source: beyond MaxAttempts
\* there are only those an administrator, the release of a block or the recovery
\* of an earlier attempt that still waits for its retry asks for.
MaxIssued == 2 * MaxAttempts + MaxAdmin + MaxClosings

\* The fixed actor commands by the kind of source they are run for.
Kinds == {"run", "command", "webhook"}
SourceStatuses == {"pending", "queued", "running", "retrying", "blocked", "cancel_requested", "cancelled",
                   "skipped", "succeeded", "failed_permanent", "processed", "dismissed", "failed"}
InFlight == {"queued", "running"}
Active == InFlight \union {"retrying"}
Ended == {"succeeded", "skipped", "blocked", "cancelled", "failed", "failed_permanent"}
DomainStatuses == (Ended \ {"failed"}) \union {"retrying"}
CommitStatuses == {"queued", "running", "committed", "retrying", "failed"}
\* The phase items whose work can fail; ocr, context_search and judge are
\* recorded complete together with the classification.
Items == <<"paperless_fetch", "classification", "review_suggestion">>
ItemStatuses == {"absent", "running", "succeeded", "failed", "skipped"}

\* Places of a child that has no more work to do.  The commit actor still has to
\* mark its suggestion when it has failed.
Leaving == {"marks_retrying", "marks_failed", "ending", "gone"}

VARIABLES
    kind,       \* which kind of source this is
    fleet,      \* whether every process runs on the host that recovers
    source,     \* the source row: status, token (0: none), and whether error_type
                \* and error name the index
    wait,       \* seconds until next_retry_at of the source and its last execution
    exec,       \* the executions in order of id: attempt, version and id agree
    worker,     \* the child of each execution: where it is in its work
    report,     \* the last record a runner printed, and for which execution
    jobs,       \* jobs of the source in Laravel's queue
    gate,       \* whether the embedding index is ready
    items,      \* status of the document run's phase items
    commit,     \* review_suggestions.commit_status
    paper,      \* the Paperless document: changed since the review, holds its values
    reached,    \* history: the reviewed values were in Paperless
    asked,      \* what an administrator's open page would request
    bound       \* how much of each bound is used

vars == <<kind, fleet, source, wait, exec, worker, report, jobs, gate, items, commit, paper, reached, asked, bound>>
body == <<items, commit, paper, reached>>
world == <<kind, fleet, gate, asked, bound, report>>

TypeOK ==
    /\ kind \in Kinds
    /\ <<kind, fleet>> \in Sources
    /\ source \in [status : SourceStatuses, token : 0..MaxIssued,
                   error_type : {"none", "index"}, error : {"none", "index"}]
    /\ wait \in Nat
    /\ exec \in Seq(InFlight \union Ended \union {"retrying"})
    /\ worker \in Seq([at : {"launched", "turned_away", "between", "inside"} \union Leaving, done : 0..Len(Items)])
    /\ report \in [of : 0..MaxIssued, says : DomainStatuses \union {"none", "protocol-failure"}]
    /\ Len(worker) = Len(exec)
    /\ Len(exec) <= MaxIssued
    /\ jobs \in 0..MaxJobs
    /\ gate \in {"open", "closed"}
    /\ items \in [DOMAIN Items -> ItemStatuses]
    /\ commit \in CommitStatuses
    /\ paper \in [changed : BOOLEAN, holds : BOOLEAN]
    /\ reached \in BOOLEAN
    /\ asked \in {"nothing", "retry", "cancel"}
    /\ bound \in [crash : 0..MaxCrashes, admin : 0..MaxAdmin, closing : 0..MaxClosings, edit : 0..MaxEdits]

Init ==
    /\ \E s \in Sources : kind = s[1] /\ fleet = s[2]
    /\ source = [status |-> "queued", token |-> 0, error_type |-> "none", error |-> "none"]
    /\ wait = 0
    /\ exec = <<>>
    /\ worker = <<>>
    /\ report = [of |-> 0, says |-> "none"]
    /\ jobs = 1
    /\ gate \in {"open", "closed"} /\ (kind = "command" => gate = "open")
    /\ items = [i \in DOMAIN Items |-> "absent"]
    /\ commit = "queued"
    /\ paper = [changed |-> FALSE, holds |-> FALSE]
    /\ reached = FALSE
    /\ asked = "nothing"
    /\ bound = [crash |-> 0, admin |-> 0, closing |-> 0, edit |-> 0]

-----------------------------------------------------------------------------
(* Classification of failures, backoff and the outcome of an attempt.      *)

Failures == [http : {0, 404, 408, 422, 429, 503}, from : {"timeout", "paperless", "provider", "value", "other"}]
Classify(f) ==
    CASE f.http = 408 -> "transient_network"
      [] f.http = 429 -> "rate_limited"
      [] f.http = 404 -> "permanent_missing_document"
      [] f.http \in 400..499 \ {404, 408, 429} -> "permanent_validation"
      [] f.http >= 500 \/ (f.http = 0 /\ f.from = "timeout") -> "transient_network"
      [] f.http = 0 /\ f.from = "paperless" -> "transient_paperless"
      [] f.http = 0 /\ f.from = "provider" -> "transient_provider"
      [] f.http = 0 /\ f.from = "value" -> "recoverable_processing"
      [] OTHER -> "bug_unexpected"
Retryable == {"transient_network", "transient_provider", "transient_paperless", "rate_limited",
              "recoverable_processing", "bug_unexpected"}
ShouldRetry(class, attempt) == class \in Retryable /\ attempt < MaxAttempts
Delays == <<30, 120, 300, 900, 1800>>
Backoff(attempt) == Delays[IF attempt > Len(Delays) THEN Len(Delays) ELSE attempt]

\* What the source becomes when its execution ends with the given status.
Outcome(status) ==
    CASE kind = "command" /\ status = "retrying" -> "pending"
      [] kind = "webhook" /\ status = "succeeded" -> "processed"
      [] kind = "webhook" /\ status = "skipped" -> "dismissed"
      [] kind = "webhook" /\ status = "cancelled" -> "failed_permanent"
      [] kind = "webhook" /\ status = "retrying" -> "failed"
      [] OTHER -> status
Terminal == IF kind = "run" THEN {"succeeded", "cancelled", "failed_permanent"}
            ELSE IF kind = "command" THEN {"succeeded", "failed_permanent"}
            ELSE {"processed", "dismissed", "failed_permanent"}

\* The report the runner prints is read from the execution, never inferred.
\* Mutant: a child that returned without an exception reports success.
ReportTrusting(status) == IF status \in DomainStatuses THEN status ELSE "succeeded"
\* Mutant: the status of the row is printed whatever it is.
ReportAsFound(status) == status
Report(status) == IF status \in DomainStatuses THEN status ELSE "protocol-failure"

-----------------------------------------------------------------------------
(* Laravel's queue worker claims the source.                               *)

Claimable == IF kind = "webhook" THEN {"queued", "failed"}
             ELSE {"pending", "queued"} \union (IF kind = "run" THEN {"retrying"} ELSE {})
\* Mutant: an execution that was created but not yet activated suppresses nothing.
SuppressesActivated == exec # <<>> /\ (Last(exec) = "running" \/ (Last(exec) = "retrying" /\ wait > 0))
\* Only the newest execution of the source is asked.
Suppresses == exec # <<>> /\ (Last(exec) \in InFlight \/ (Last(exec) = "retrying" /\ wait > 0))
CanClaim == source.status \in Claimable /\ wait = 0 /\ ~Suppresses

Claim ==
    /\ jobs > 0
    /\ jobs' = jobs - 1
    /\ IF CanClaim
         THEN /\ exec' = Append(exec, "queued")
              /\ worker' = Append(worker, [at |-> "launched", done |-> 0])
              /\ source' = [source EXCEPT !.status = "running", !.token = Len(exec) + 1]
         ELSE UNCHANGED <<exec, worker, source>>
    /\ UNCHANGED <<world, wait, body>>

\* Jobs are tried once: a queue worker that dies takes its job with it.
LoseJob ==
    /\ jobs > 0
    /\ bound.crash < MaxCrashes
    /\ jobs' = jobs - 1
    /\ bound' = [bound EXCEPT !.crash = @ + 1]
    /\ UNCHANGED <<kind, fleet, gate, asked, report, source, wait, exec, worker, body>>

-----------------------------------------------------------------------------
(* The Python child.                                                       *)

Attempts == DOMAIN exec
Owns(e) == source.status = "running" /\ source.token = e /\ Len(exec) = e
Holds(e) == Owns(e) /\ exec[e] = "running"
CancelSeen == kind = "run" /\ source.status \in {"cancel_requested", "cancelled"}
At(e, place) == worker[e].at = place
\* A child on its way out has forgotten how far it was.
Moves(e, place) ==
    worker' = [worker EXCEPT ![e] = [at |-> place, done |-> IF place \in Leaving THEN 0 ELSE @.done]]

\* The document actor has read the index on the session of its shared lease.
FirstPlace == IF kind = "run" /\ gate = "closed" THEN "turned_away" ELSE "between"
\* start_actor_execution: a child that is fenced off raises and ends.
Begin(e) ==
    /\ At(e, "launched")
    /\ IF Owns(e) /\ exec[e] = "queued"
         THEN /\ exec' = [exec EXCEPT ![e] = "running"]
              /\ Moves(e, FirstPlace)
         ELSE /\ Moves(e, "ending")
              /\ UNCHANGED exec
    /\ UNCHANGED <<world, source, wait, jobs, body>>

\* finish_actor_execution: execution and source change together, or the call
\* raises and nothing changes.
\* Mutant: the source is updated without its version and token.
FinishUnfenced(e, status, reason) ==
    /\ exec' = IF exec[e] = "running" THEN [exec EXCEPT ![e] = status] ELSE exec
    /\ source' = [source EXCEPT !.status = Outcome(status), !.token = 0, !.error = reason]
    /\ wait' = 0
\* Mutant: the execution is finished whatever its status, as long as nothing is left to fence.
FinishAgain(e, status, reason) ==
    /\ exec' = [exec EXCEPT ![e] = status]
    /\ source' = IF Holds(e) THEN [source EXCEPT !.status = Outcome(status), !.token = 0, !.error = reason] ELSE source
    /\ wait' = IF Holds(e) THEN 0 ELSE wait
Finish(e, status, reason) ==
    IF Holds(e)
      THEN /\ exec' = [exec EXCEPT ![e] = status]
           /\ source' = [source EXCEPT !.status = Outcome(status), !.token = 0, !.error = reason]
           /\ wait' = 0
      ELSE UNCHANGED <<exec, source, wait>>

\* schedule_actor_execution_retry, fenced like finish_actor_execution.
ScheduleRetry(e) ==
    IF Holds(e)
      THEN /\ exec' = [exec EXCEPT ![e] = "retrying"]
           /\ source' = [source EXCEPT !.status = Outcome("retrying"), !.token = 0, !.error = "none"]
           /\ wait' = Backoff(e)
      ELSE UNCHANGED <<exec, source, wait>>
\* ExecutionLifecycle.fail.
FailAttempt(e, class) ==
    IF ShouldRetry(class, e) THEN ScheduleRetry(e) ELSE Finish(e, "failed_permanent", "none")

\* The item of the phase a document actor is in, written without a fence.
Opened(e) == [items EXCEPT ![worker[e].done + 1] = "running"]
Closed(e, status) == [items EXCEPT ![worker[e].done + 1] = status]

\* A document actor that sees the cancellation tries to finish as cancelled; the
\* source is no longer running, so the call raises and changes nothing.
Stops(e) ==
    /\ Moves(e, "ending")
    /\ items' = IF At(e, "inside") THEN Closed(e, "skipped") ELSE items
    /\ UNCHANGED <<source, wait, exec>>

TurnAway(e) ==
    /\ At(e, "turned_away")
    /\ \/ CancelSeen /\ Stops(e)
       \/ /\ ~CancelSeen
          /\ Finish(e, "blocked", "index")
          /\ Moves(e, "ending")
          /\ UNCHANGED items
    /\ UNCHANGED <<world, jobs, commit, paper, reached>>

\* The document actor opens its next phase item, and closes it.
OpenItem(e) ==
    /\ kind = "run"
    /\ At(e, "between")
    /\ worker[e].done < Len(Items)
    /\ \/ CancelSeen /\ Stops(e)
       \/ /\ ~CancelSeen
          /\ Moves(e, "inside")
          /\ items' = Opened(e)
          /\ UNCHANGED <<source, wait, exec>>
    /\ UNCHANGED <<world, jobs, commit, paper, reached>>

CloseItem(e) ==
    /\ kind = "run"
    /\ At(e, "inside")
    /\ items' = Closed(e, "succeeded")
    /\ worker' = [worker EXCEPT ![e] = [at |-> "between", done |-> @.done + 1]]
    /\ UNCHANGED <<world, source, wait, exec, jobs, commit, paper, reached>>

\* The commit actor marks the suggestion, calls Paperless, and marks it again.
CommitBegins(e) ==
    /\ kind = "command"
    /\ At(e, "between")
    /\ worker[e].done = 0
    /\ Moves(e, "inside")
    /\ commit' = "running"
    /\ UNCHANGED <<world, source, wait, exec, jobs, items, paper, reached>>

\* A changed document is patched only by nobody: either it already holds the
\* reviewed values, or the commit is refused with a ValueError.  A PATCH may
\* itself change the version Paperless reports.
\* Mutant: a document that changed is taken for one that was committed.
CommitAcceptsAnyChange == paper.changed
CommitIsDone == paper.changed /\ paper.holds
Patched == /\ ~paper.changed
           /\ \E changes \in BOOLEAN : paper' = [changed |-> changes, holds |-> TRUE]
           /\ reached' = TRUE
CommitReaches(e) ==
    /\ kind = "command"
    /\ At(e, "inside")
    /\ \/ CommitIsDone /\ UNCHANGED <<paper, reached>>
       \/ Patched
    /\ worker' = [worker EXCEPT ![e] = [at |-> "between", done |-> 1]]
    /\ UNCHANGED <<world, source, wait, exec, jobs, items, commit>>

CommitMarked(e) ==
    /\ kind = "command"
    /\ At(e, "between")
    /\ worker[e].done = 1
    /\ commit' = "committed"
    /\ worker' = [worker EXCEPT ![e] = [at |-> "between", done |-> 2]]
    /\ UNCHANGED <<world, source, wait, exec, jobs, items, paper, reached>>

\* The webhook actor refreshes or deletes the document's embedding.  A refresh
\* reads the index itself; an empty document is skipped.
RefreshOutcomes == IF gate = "open" THEN {"succeeded", "skipped"} ELSE {"blocked"}
DeleteOutcomes == {"succeeded"}
Refresh(e) ==
    /\ kind = "webhook"
    /\ At(e, "between")
    /\ \E status \in RefreshOutcomes \union DeleteOutcomes :
         Finish(e, status, IF status = "blocked" THEN "index" ELSE "none")
    /\ Moves(e, "ending")
    /\ UNCHANGED <<world, jobs, body>>

WorkDone(e) == worker[e].done = IF kind = "run" THEN Len(Items) ELSE 2
Conclude(e) ==
    /\ kind # "webhook"
    /\ At(e, "between")
    /\ WorkDone(e)
    /\ \/ CancelSeen /\ Stops(e)
       \/ /\ ~CancelSeen
          /\ Finish(e, "succeeded", "none")
          /\ Moves(e, "ending")
          /\ UNCHANGED items
    /\ UNCHANGED <<world, jobs, commit, paper, reached>>

\* The commit actor marks its suggestion after the execution was finished, which
\* raises for a child that lost its fence.
AfterFailure(e, class) ==
    IF kind = "command" /\ Holds(e)
      THEN IF ShouldRetry(class, e) THEN "marks_retrying" ELSE "marks_failed"
      ELSE "ending"
\* A call fails while the child is at work.  A lost answer of Paperless may have
\* followed a PATCH that took effect.
Fail(e) ==
    /\ At(e, "inside") \/ At(e, "between")
    /\ \/ CancelSeen /\ Stops(e) /\ UNCHANGED <<paper, reached>>
       \/ /\ ~CancelSeen
          /\ \E class \in {Classify(f) : f \in Failures} :
               FailAttempt(e, class) /\ Moves(e, AfterFailure(e, class))
          /\ items' = IF kind = "run" /\ At(e, "inside") THEN Closed(e, "failed") ELSE items
          /\ \/ kind = "command" /\ At(e, "inside") /\ Patched
             \/ UNCHANGED <<paper, reached>>
    /\ UNCHANGED <<world, jobs, commit>>

\* mark_review_commit_status, by id alone: the attempt is closed by then, and the
\* next one may have come a long way.
MarksFailure(e) ==
    /\ At(e, "marks_retrying") \/ At(e, "marks_failed")
    /\ commit' = IF At(e, "marks_retrying") THEN "retrying" ELSE "failed"
    /\ Moves(e, "ending")
    /\ UNCHANGED <<world, source, wait, exec, jobs, items, paper, reached>>

\* The runner prints one record read from the invocation's own execution.
Reports(e) ==
    /\ At(e, "ending")
    /\ Moves(e, "gone")
    /\ report' = [of |-> e, says |-> Report(exec[e])]
    /\ UNCHANGED <<kind, fleet, gate, asked, bound, source, wait, exec, jobs, body>>

Dies(e) ==
    /\ ~At(e, "gone")
    /\ bound.crash < MaxCrashes
    /\ bound' = [bound EXCEPT !.crash = @ + 1]
    /\ Moves(e, "gone")
    /\ UNCHANGED <<kind, fleet, gate, asked, report, source, wait, exec, jobs, body>>

WorkerStep(e) == \/ Begin(e) \/ TurnAway(e) \/ OpenItem(e) \/ CloseItem(e) \/ CommitBegins(e)
                 \/ CommitReaches(e) \/ CommitMarked(e) \/ Refresh(e) \/ Conclude(e) \/ Fail(e)
                 \/ MarksFailure(e) \/ Reports(e)

-----------------------------------------------------------------------------
(* The recovery scan: each row is recovered in a transaction of its own.   *)

\* An execution that was never activated names no process; on another host the
\* process cannot be asked and an hour of silence is taken for death.
\* Mutant: silence is always taken for death.
PresumedDeadWhenSilent(e) == TRUE
PresumedDead(e) == At(e, "gone") \/ exec[e] = "queued" \/ fleet = "many_hosts"

Suppressed(e) == exec' = [exec EXCEPT ![e] = "skipped"] /\ UNCHANGED <<source, wait, jobs>>

FailForGood(e) ==
    /\ exec' = [exec EXCEPT ![e] = "failed_permanent"]
    /\ source' = IF Len(exec) = e /\ source.token \in {e, 0} /\ source.status \notin Terminal \union {"cancel_requested"}
                   THEN [source EXCEPT !.status = "failed_permanent", !.error_type = "none", !.error = "none"]
                   ELSE source
    /\ UNCHANGED <<wait, jobs>>

\* Mutant: recovery leaves an attempt alone when its source has moved on.
RecoverStaleOwned(e) ==
    /\ exec[e] \in InFlight /\ PresumedDead(e) /\ Owns(e) /\ source.status \notin Terminal
    /\ IF e >= MaxAttempts
         THEN FailForGood(e)
         ELSE /\ exec' = [exec EXCEPT ![e] = "retrying"]
              /\ source' = [source EXCEPT !.status = Outcome("retrying"), !.token = 0, !.error = "none"]
              /\ wait' = 0
              /\ UNCHANGED jobs
    /\ UNCHANGED <<world, worker, body>>
RecoverStale(e) ==
    /\ exec[e] \in InFlight
    /\ IF source.status \in Terminal
         THEN Suppressed(e)
         ELSE /\ PresumedDead(e)
              /\ IF e >= MaxAttempts
                   THEN FailForGood(e)
                   ELSE /\ exec' = [exec EXCEPT ![e] = "retrying"]
                        /\ source' = IF Owns(e)
                                       THEN [source EXCEPT !.status = Outcome("retrying"), !.token = 0,
                                                           !.error_type = IF kind = "run" THEN "none" ELSE @,
                                                           !.error = "none"]
                                       ELSE source
                        /\ wait' = 0
                        /\ UNCHANGED jobs
    /\ UNCHANGED <<world, worker, body>>

\* redispatchDocumentRun, redispatchCommand, redispatchWebhookDelivery: the row
\* must be as the scan read it, and not in a status that is final.
Redispatch ==
    /\ source.status \notin Terminal \union {"cancel_requested"}
    /\ source' = [source EXCEPT !.status = "queued", !.error = "none",
                                !.error_type = IF kind = "run" THEN "none" ELSE @]
    /\ jobs' = IF jobs < MaxJobs THEN jobs + 1 ELSE jobs

\* A newer dispatch leaves the source queued or running, or a newer execution.
Overtaken(e) == source.status \in InFlight \/ \E n \in Attempts : n > e /\ exec[n] \in Active

RecoverRetrying(e) ==
    /\ exec[e] = "retrying"
    /\ wait = 0
    /\ CASE source.status \in Terminal -> Suppressed(e)
         [] source.status = "cancel_requested" ->
              exec' = [exec EXCEPT ![e] = "cancelled"] /\ UNCHANGED <<source, wait, jobs>>
         [] source.status # "cancel_requested" /\ Overtaken(e) -> Suppressed(e)
         [] OTHER -> IF e >= MaxAttempts THEN FailForGood(e)
                     ELSE /\ Redispatch
                          /\ exec' = [exec EXCEPT ![e] = "failed"]
                          /\ UNCHANGED wait
    /\ UNCHANGED <<world, worker, body>>

\* recoverDocumentPipelineRuns, recoverPendingCommands, recoverQueuedWebhookDeliveries:
\* a source nobody works on is dispatched again, at once or when it became stale.
\* Mutant: a source whose job was lost before it was claimed is not looked for.
RecoverClaimed ==
    /\ source.status \in (Claimable \ {"queued"}) \union {"running"}
    /\ wait = 0
    /\ \A e \in Attempts : exec[e] \notin Active
    /\ Redispatch
    /\ UNCHANGED <<world, wait, exec, worker, body>>
RecoverSource ==
    /\ source.status \in Claimable \union {"running"}
    /\ wait = 0
    /\ \A e \in Attempts : exec[e] \notin Active
    /\ Redispatch
    /\ UNCHANGED <<world, wait, exec, worker, body>>

FinalizeCancel ==
    /\ source.status = "cancel_requested"
    /\ \A e \in Attempts : exec[e] \notin InFlight
    /\ exec' = [e \in Attempts |-> IF exec[e] = "retrying" THEN "cancelled" ELSE exec[e]]
    /\ source' = [source EXCEPT !.status = "cancelled"]
    /\ wait' = 0
    /\ UNCHANGED <<world, worker, jobs, body>>

\* Runs are found by error_type, deliveries by error; neither dispatches a job.
ReleaseBlocked ==
    /\ gate = "open"
    /\ source.status = "blocked"
    /\ \/ kind = "run" /\ source.error_type = "index"
       \/ kind = "webhook" /\ source.error = "index"
    /\ source' = [source EXCEPT !.status = IF kind = "run" THEN "pending" ELSE "queued",
                                !.error_type = IF kind = "run" THEN "none" ELSE @, !.error = "none"]
    /\ UNCHANGED <<world, wait, exec, worker, jobs, body>>

-----------------------------------------------------------------------------
(* Administrators, other people, the index and the clock.                  *)

\* The page's check and its write are two requests to the database.
AdminAsks ==
    /\ kind = "run"
    /\ asked = "nothing"
    /\ bound.admin < MaxAdmin
    /\ \/ source.status \in {"blocked", "failed_permanent", "cancelled"} /\ asked' = "retry"
       \/ source.status \in {"pending", "queued", "running", "retrying"} /\ asked' = "cancel"
    /\ bound' = [bound EXCEPT !.admin = @ + 1]
    /\ UNCHANGED <<kind, fleet, gate, report, source, wait, exec, worker, jobs, body>>

AdminWrites ==
    /\ asked # "nothing"
    /\ asked' = "nothing"
    /\ \/ /\ asked = "retry"
          /\ wait' = 0
          /\ source' = IF gate = "open"
                         THEN [source EXCEPT !.status = "pending", !.error_type = "none", !.error = "none"]
                         ELSE [source EXCEPT !.status = "blocked", !.error_type = "index", !.error = "index"]
       \/ /\ asked = "cancel"
          /\ source' = [source EXCEPT !.status = "cancel_requested", !.error_type = "none", !.error = "none"]
          /\ UNCHANGED wait
    /\ UNCHANGED <<kind, fleet, gate, bound, report, exec, worker, jobs, body>>

OthersEdit ==
    /\ kind = "command"
    /\ bound.edit < MaxEdits
    /\ bound' = [bound EXCEPT !.edit = @ + 1]
    /\ \E keeps \in BOOLEAN : paper' = [changed |-> TRUE, holds |-> keeps /\ paper.holds]
    /\ UNCHANGED <<kind, fleet, gate, asked, report, source, wait, exec, worker, jobs, items, commit, reached>>

GateCloses ==
    /\ kind # "command"
    /\ gate = "open"
    /\ bound.closing < MaxClosings
    /\ gate' = "closed"
    /\ bound' = [bound EXCEPT !.closing = @ + 1]
    /\ UNCHANGED <<kind, fleet, asked, report, source, wait, exec, worker, jobs, body>>
GateOpens ==
    /\ gate = "closed"
    /\ gate' = "open"
    /\ UNCHANGED <<kind, fleet, asked, bound, report, source, wait, exec, worker, jobs, body>>

RetryDue ==
    /\ wait > 0
    /\ wait' = 0
    /\ UNCHANGED <<world, source, exec, worker, jobs, body>>

Scan == RecoverSource \/ FinalizeCancel \/ ReleaseBlocked \/ \E e \in Attempts : RecoverStale(e) \/ RecoverRetrying(e)
Next ==
    \/ Claim \/ LoseJob
    \/ \E e \in Attempts : WorkerStep(e) \/ Dies(e)
    \/ Scan
    \/ AdminAsks \/ AdminWrites \/ OthersEdit
    \/ GateCloses \/ GateOpens \/ RetryDue

Spec == Init /\ [][Next]_vars

\* Queue workers run, children end (their calls have timeouts), the scheduler
\* repeats the scan over every row, the clock advances, an index that is being
\* rebuilt becomes ready.  Nobody has to ask for anything.
Fairness ==
    /\ WF_vars(Claim)
    /\ WF_vars(RecoverSource) /\ WF_vars(FinalizeCancel) /\ WF_vars(ReleaseBlocked)
    /\ WF_vars(RetryDue) /\ WF_vars(GateOpens)
    /\ \A e \in 1..MaxIssued :
         /\ WF_vars(e \in Attempts /\ WorkerStep(e))
         /\ WF_vars(e \in Attempts /\ RecoverStale(e))
         /\ WF_vars(e \in Attempts /\ RecoverRetrying(e))
FairSpec == Spec /\ Fairness

-----------------------------------------------------------------------------
(* What attempts and recovery keep between them.                           *)

\* However jobs are repeated, lost or overtaken, a source never has two
\* executions that may still write (ActorInvocationClaimer::suppresses, the
\* scan's hasActive... checks).
OneActiveAttempt == Cardinality({e \in Attempts : exec[e] \in InFlight}) <= 1

\* A source succeeds only through its newest execution, and a review commit only
\* once the reviewed values were in Paperless.  With every process on one host the
\* suggestion says so too, unless the child of an attempt that failed has only now
\* marked it as retrying; it never says failed or running (on several hosts a child
\* taken for dead could still mark it running).
SuccessIsEarned ==
    source.status \in {"succeeded", "processed"} =>
        /\ exec # <<>> /\ Last(exec) = "succeeded"
        /\ kind = "command" => reached /\ (fleet = "one_host" => commit \in {"committed", "retrying"})

\* On one host no child that lost its attempt leaves an item of a run open or
\* failed after a later attempt succeeded: items are written without a fence.
SucceededRunIsComplete ==
    (kind = "run" /\ fleet = "one_host" /\ source.status = "succeeded") =>
        \A i \in DOMAIN Items : items[i] = "succeeded"

\* A runner reports success only for an execution that durably succeeded.
ReportIsDurable == report.says = "succeeded" => exec[report.of] = "succeeded"

\* A source that was running under a token moves on only when the execution of
\* that token is no longer in flight; only an administrator overrides it.
SettlesTogether ==
    [][(source.status = "running" /\ source'.status # "running" /\ asked' = asked /\ source.token # 0)
         => exec'[source.token] \notin InFlight]_vars

\* The outcome of an attempt is decided once, by the child or by recovery.
OutcomeStands == [][\A e \in Attempts : exec[e] \in Ended => exec'[e] = exec[e]]_vars

\* Attempts and source keep the promise of AttemptLedger: a queued execution is
\* as open as an activated one, and what a source is between its attempts, or
\* when it ended without success, makes no difference there.
Standing == IF source.status = "running" THEN "running"
            ELSE IF source.status \in {"succeeded", "processed"} THEN "succeeded" ELSE "idle"
Entry(status) == IF status \in InFlight THEN "open" ELSE IF status = "retrying" THEN "waiting" ELSE status
Ledger == INSTANCE AttemptLedger WITH
    attempts <- [e \in Attempts |-> Entry(exec[e])],
    standing <- Standing,
    request <- asked # "nothing"
KeepsLedger == Ledger!LedgerSpec

\* A requested cancellation takes effect although no child can finish as cancelled.
CancelTakesEffect == source.status = "cancel_requested" ~> source.status = "cancelled"

\* Whatever is lost or dies, a source stops being on its way.  A run its own
\* actor blocked stays blocked (see ReleaseBlocked); a delivery does not.
SourceSettles ==
    <>[](source.status \in Terminal \union {"skipped"} \union (IF kind = "run" THEN {"blocked"} ELSE {}))
=============================================================================
