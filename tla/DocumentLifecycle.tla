------------------------- MODULE DocumentLifecycle -------------------------
(***************************************************************************)
(* One Paperless document on its way through ArchiBot: the generations     *)
(* (pipeline_runs) Laravel opens for it, the single Temporal workflow      *)
(* archibot/document/{id} that owns them one after the other, the review   *)
(* suggestions, the reviewers' decisions and the embedding gate.           *)
(*                                                                         *)
(* Laravel and the workflow share PostgreSQL and talk only through the     *)
(* outbox, which is taken at its contract (IntentDelivery): an open intent *)
(* is delivered any number of times and ends delivered or dead-lettered.   *)
(* The workflow runs atomically between two awaits.  An awaited activity   *)
(* takes effect and resumes it in one step; its completion may be lost, in *)
(* which case it runs again, and it may run out of attempts at any time.   *)
(***************************************************************************)
EXTENDS Integers, FiniteSets

CONSTANTS
  MaxRuns,          \* bound: generations of the document
  PhaseCount,       \* model phases of one generation (ocr .. judge: 4)
  MaxBuilds,        \* bound: embedding generations completed
  MaxAdminActions,  \* bound: cancellations and retries by an administrator
  MaxOutdated,      \* bound: stale suggestions beyond which no look marks another one
  ForcePaths,       \* the ways a replacement generation may be requested
  TemporalOutage,   \* intents may be dead-lettered although they could be delivered
  DatabaseOutage    \* activities that touch only PostgreSQL may exhaust their attempts

AllForcePaths == {"review", "classify", "maintenance"}

ASSUME LifecycleAssumption ==
  /\ MaxRuns \in Nat \ {0}
  /\ PhaseCount \in Nat \ {0}
  /\ MaxBuilds \in Nat
  /\ MaxAdminActions \in Nat
  /\ MaxOutdated \in Nat
  /\ ForcePaths \subseteq AllForcePaths
  /\ TemporalOutage \in BOOLEAN
  /\ DatabaseOutage \in BOOLEAN

Runs == 1..MaxRuns
Builds == 1..MaxBuilds
Suggestions == 1..(2 * MaxRuns)   \* a placeholder and a published row for each run

\* Outbox rows by what their stable intent key is derived from.
Keys == ({"document", "force"} \X Runs \X {0})
          \cup ({"embedding_ready"} \X Runs \X Builds)
          \cup ({"decision"} \X Suggestions \X {0})
DocumentKey(r) == <<"document", r, 0>>
ForceKey(r) == <<"force", r, 0>>
DecisionKey(s) == <<"decision", s, 0>>

VARIABLES
  run,      \* pipeline_runs
  sugg,     \* review_suggestions with their review_commit commands
  owed,     \* runs whose Classify request has yet to insert its placeholder
  outbox,   \* standing of each temporal_outbox_intents row
  wf,       \* the current execution of the document workflow
  gate,     \* the embedding index state, and how many builds have completed
  admin,    \* an administrator's or the recovery scan's status change in flight
  patched   \* history: suggestions whose PATCH reached Paperless

vars == <<run, sugg, owed, outbox, wf, gate, admin, patched>>

-----------------------------------------------------------------------------
(* The state.                                                              *)

RunStatuses == {"absent", "pending", "queued", "blocked", "running", "succeeded",
                "cancel_requested", "cancelled", "failed_permanent"}

\* progress_current_phase, as far as a guard reads it.
Stages == {"working", "awaiting_review", "done", "superseded", "cancelled", "failed"}

RunRows == [status : RunStatuses, stage : Stages, phases : 0..PhaseCount, forced : BOOLEAN]
NoRun == [status |-> "absent", stage |-> "working", phases |-> 0, forced |-> FALSE]

SuggestionRows ==
  [run : 0..MaxRuns, placeholder : BOOLEAN,
   status : {"absent", "pending", "accepted", "rejected", "stale"},
   commit : {"none", "queued", "running", "committed", "failed"},
   command : {"none", "queued", "running", "succeeded", "failed_permanent"}]
NoSuggestion == [run |-> 0, placeholder |-> FALSE, status |-> "absent",
                 commit |-> "none", command |-> "none"]

\* Where the workflow awaits; "wedged" is a workflow task that fails for ever.
CommitSteps == {"commit_begin", "commit_patch", "commit_finish"}
PublishSteps == {"publish", "publish_project"}
DatabaseSteps == {"check", "locked", "config", "supersede", "finish", "fail_commit", "fail_run"}
Waits == {"none", "start", "blocked", "review", "wedged"}
Places == Waits \cup DatabaseSteps \cup CommitSteps \cup PublishSteps \cup {"phase"}

Executions ==
  [state : {"none", "running", "completed", "failed"}, at : Places,
   run : 0..MaxRuns, phase : 0..PhaseCount, sugg : {0} \cup Suggestions,
   decision : {0} \cup Suggestions, force : 0..MaxRuns, ready : BOOLEAN,
   seen : BOOLEAN, over : 0..MaxRuns, next : 0..MaxRuns]
Closed(state) ==
  [state |-> state, at |-> "none", run |-> 0, phase |-> 0, sugg |-> 0, decision |-> 0,
   force |-> 0, ready |-> FALSE, seen |-> FALSE, over |-> 0, next |-> 0]
Started(r) == [[Closed("running") EXCEPT !.at = "start"] EXCEPT !.run = r]

TypeOK ==
  /\ run \in [Runs -> RunRows]
  /\ sugg \in [Suggestions -> SuggestionRows]
  /\ owed \subseteq Runs
  /\ outbox \in [Keys -> {"absent", "open", "delivered", "dead_letter"}]
  /\ wf \in Executions
  /\ gate \in [open : BOOLEAN, build : 0..MaxBuilds]
  /\ admin \in [op : {"none", "cancel", "retry", "finalize", "release"}, run : 0..MaxRuns,
                used : 0..MaxAdminActions]
  /\ patched \subseteq Suggestions

Init ==
  /\ run = [r \in Runs |-> NoRun]
  /\ sugg = [s \in Suggestions |-> NoSuggestion]
  /\ owed = {}
  /\ outbox = [k \in Keys |-> "absent"]
  /\ wf = Closed("none")
  /\ \E open \in BOOLEAN : (open \/ MaxBuilds > 0) /\ gate = [open |-> open, build |-> 0]
  /\ admin = [op |-> "none", run |-> 0, used |-> 0]
  /\ patched = {}

\* A row of pipeline_runs with its projection, and one of review_suggestions with
\* its commit, set anew.
Projected(r, status, stage) ==
  [status |-> status, stage |-> stage, phases |-> run[r].phases, forced |-> run[r].forced]
Reported(s, commit, command) ==
  [run |-> sugg[s].run, placeholder |-> sugg[s].placeholder, status |-> sugg[s].status,
   commit |-> commit, command |-> command]

Exists(r) == run[r].status # "absent"
Absent(s) == sugg[s].status = "absent"
At(place) == wf.state = "running" /\ wf.at = place

CancelAsked(r) == run[r].status \in {"cancel_requested", "cancelled"}

\* The readiness activity holds the row lock of this run.
Locked(r) == At("locked") /\ wf.run = r

\* TemporalOutbox::record: a row that exists is returned as it is.
Recorded(keys) == [k \in Keys |-> IF k \in keys /\ outbox[k] = "absent" THEN "open" ELSE outbox[k]]

-----------------------------------------------------------------------------
(* Laravel: opening generations.                                           *)

IsNext(r) == ~Exists(r) /\ \A q \in 1..(r - 1) : Exists(q)

\* DocumentPipelineStarter::start.  A generation born while the gate is closed
\* only reserves its workflow id.
StartRun(r, forced) ==
  /\ IsNext(r)
  /\ run' = [run EXCEPT ![r] = [status |-> IF gate.open THEN "queued" ELSE "blocked",
                                stage |-> "working", phases |-> 0, forced |-> forced]]
  /\ outbox' = IF gate.open
               THEN Recorded({IF forced THEN ForceKey(r) ELSE DocumentKey(r)})
               ELSE outbox

\* Poll or webhook: a document that has a run already only coalesces with it.
StartFirst(r) ==
  /\ \A q \in Runs : ~Exists(q)
  /\ StartRun(r, FALSE)
  /\ UNCHANGED <<sugg, owed, wf, gate, admin, patched>>

\* ReviewSuggestionController::reprocess, on any suggestion of the document.
ForceFromReview(r, s) ==
  /\ "review" \in ForcePaths
  /\ ~Absent(s)
  /\ StartRun(r, TRUE)
  /\ sugg' = [sugg EXCEPT ![s].status = IF @ = "pending" THEN "stale" ELSE @]
  /\ UNCHANGED <<owed, wf, gate, admin, patched>>

\* ClassifyWithArchiBotController::store, its first transaction.
ForceFromClassify(r) ==
  /\ "classify" \in ForcePaths
  /\ StartRun(r, TRUE)
  /\ owed' = owed \cup {r}
  /\ UNCHANGED <<sugg, wf, gate, admin, patched>>

\* MaintenanceController: a forced run of one document.
ForceFromMaintenance(r) ==
  /\ "maintenance" \in ForcePaths
  /\ StartRun(r, TRUE)
  /\ UNCHANGED <<sugg, owed, wf, gate, admin, patched>>

NewRow(s) == Absent(s) /\ \A t \in 1..(s - 1) : ~Absent(t)
PendingRow(r, placeholder) ==
  [NoSuggestion EXCEPT !.run = r, !.placeholder = placeholder, !.status = "pending"]

\* ClassifyWithArchiBotController::store, its second transaction.
InsertPlaceholder(r, s) ==
  /\ r \in owed
  /\ NewRow(s)
  /\ sugg' = [sugg EXCEPT ![s] = PendingRow(r, TRUE)]
  /\ owed' = owed \ {r}
  /\ UNCHANGED <<run, outbox, wf, gate, admin, patched>>

-----------------------------------------------------------------------------
(* Laravel: deciding a review.                                             *)

IsLatestForDocument(s) == \A t \in Suggestions : t > s => Absent(t)

\* assertReviewable, before anything is decided: a request that has read the row
\* pending and the latest, as every row is when it is inserted, asks Paperless for
\* the version it was made for.  When that has changed the row is marked stale with
\* an update by id, whatever other requests have made of it since: the look may
\* take its time, so the mark may come at any moment.
MarksStale(s) ==
  /\ ~Absent(s)
  /\ Cardinality({t \in Suggestions : sugg[t].status = "stale"}) < MaxOutdated
  /\ sugg' = [sugg EXCEPT ![s].status = "stale"]
  /\ UNCHANGED <<run, owed, outbox, wf, gate, admin, patched>>

\* Mutant: the status is not read again under the row lock.
AcceptUnlocked(s) ==
  /\ ~Absent(s) /\ IsLatestForDocument(s)
  /\ sugg' = [sugg EXCEPT ![s] = [Reported(s, "queued", "queued") EXCEPT !.status = "accepted"]]
  /\ outbox' = Recorded({DecisionKey(s)})
  /\ UNCHANGED <<run, owed, wf, gate, admin, patched>>

\* ReviewSuggestionController::decide, after a look that found nothing new: the
\* decision, the commit command of an acceptance and the signal intent commit
\* together.
Accept(s) ==
  /\ sugg[s].status = "pending" /\ IsLatestForDocument(s)
  /\ sugg' = [sugg EXCEPT ![s] = [Reported(s, "queued", "queued") EXCEPT !.status = "accepted"]]
  /\ outbox' = Recorded({DecisionKey(s)})
  /\ UNCHANGED <<run, owed, wf, gate, admin, patched>>

Reject(s) ==
  /\ sugg[s].status = "pending" /\ IsLatestForDocument(s)
  /\ sugg' = [sugg EXCEPT ![s].status = "rejected"]
  /\ outbox' = Recorded({DecisionKey(s)})
  /\ UNCHANGED <<run, owed, wf, gate, admin, patched>>

-----------------------------------------------------------------------------
(* Laravel: job control and the recovery scan.  Both read the status and    *)
(* update the row by id later, without looking at it again.                *)

Eligible(op) ==
  CASE op = "cancel" -> {"pending", "queued", "running"}
    [] op = "retry" -> {"blocked", "failed_permanent", "cancelled"}
    [] op = "finalize" -> {"cancel_requested"}

AdminChecks(op, r) ==
  /\ admin.op = "none"
  /\ op # "finalize" => admin.used < MaxAdminActions
  /\ run[r].status \in Eligible(op)
  /\ admin' = [op |-> op, run |-> r,
               used |-> IF op = "finalize" THEN admin.used ELSE admin.used + 1]
  /\ UNCHANGED <<run, sugg, owed, outbox, wf, gate, patched>>

\* Mutant: an administrator's retry queues the run.
AdminWritesQueued(r) ==
  /\ admin.op \in {"cancel", "retry", "finalize"} /\ admin.run = r
  /\ ~Locked(r)
  /\ run' = [run EXCEPT ![r].status =
               CASE admin.op = "cancel" -> "cancel_requested"
                 [] admin.op = "retry" -> "queued"
                 [] admin.op = "finalize" -> "cancelled"]
  /\ admin' = [admin EXCEPT !.op = "none", !.run = 0]
  /\ UNCHANGED <<sugg, owed, outbox, wf, gate, patched>>

AdminWrites(r) ==
  /\ admin.op \in {"cancel", "retry", "finalize"} /\ admin.run = r
  /\ ~Locked(r)
  /\ run' = CASE admin.op = "cancel" -> [run EXCEPT ![r].status = "cancel_requested"]
              [] admin.op = "retry" ->
                   [run EXCEPT ![r] =
                      Projected(r, IF gate.open THEN "pending" ELSE "blocked", "working")]
              [] admin.op = "finalize" -> [run EXCEPT ![r] = Projected(r, "cancelled", "cancelled")]
  /\ admin' = [admin EXCEPT !.op = "none", !.run = 0]
  /\ UNCHANGED <<sugg, owed, outbox, wf, gate, patched>>

\* Mutant: runs that were requested to start before are taken for released.
ScanFindsUnstarted(r) ==
  /\ admin.op = "none"
  /\ gate.open /\ run[r].status = "blocked" /\ outbox[DocumentKey(r)] = "absent"
  /\ admin' = [admin EXCEPT !.op = "release", !.run = r]
  /\ UNCHANGED <<run, sugg, owed, outbox, wf, gate, patched>>

\* PipelineRecoveryDispatcher::releaseTemporalEmbeddingBlockedRuns asks for the
\* gate first,
ScanFinds(r) ==
  /\ admin.op = "none"
  /\ gate.open /\ run[r].status = "blocked"
  /\ admin' = [admin EXCEPT !.op = "release", !.run = r]
  /\ UNCHANGED <<run, sugg, owed, outbox, wf, gate, patched>>

\* ... and releases a run that is still blocked in a later transaction.
ScanReleases(r) ==
  /\ admin.op = "release" /\ admin.run = r
  /\ ~Locked(r)
  /\ IF run[r].status = "blocked"
     THEN /\ run' = [run EXCEPT ![r] = Projected(r, "queued", "working")]
          /\ outbox' = Recorded({IF run[r].forced THEN ForceKey(r) ELSE DocumentKey(r)})
     ELSE UNCHANGED <<run, outbox>>
  /\ admin' = [admin EXCEPT !.op = "none", !.run = 0]
  /\ UNCHANGED <<sugg, owed, wf, gate, patched>>

-----------------------------------------------------------------------------
(* The embedding index.                                                    *)

\* A rebuild, a reindex or a settings change marks the index stale.
CloseGate ==
  /\ gate.open /\ gate.build < MaxBuilds
  /\ gate' = [gate EXCEPT !.open = FALSE]
  /\ UNCHANGED <<run, sugg, owed, outbox, wf, admin, patched>>

Blocked == {r \in Runs : run[r].status = "blocked"}

\* _release_blocked_document_workflows: every blocked run is queued with a plain
\* start and a readiness signal of this build, whatever it was created for.
ReleaseIntents(build) ==
  {DocumentKey(r) : r \in Blocked} \cup {<<"embedding_ready", r, build>> : r \in Blocked}

\* _finish_embedding_generation of a build without failures.  It waits for the
\* row locks of the blocked runs, and does not see the others.
FinishBuild ==
  /\ ~gate.open /\ gate.build < MaxBuilds
  /\ \A r \in Blocked : ~Locked(r)
  /\ gate' = [open |-> TRUE, build |-> gate.build + 1]
  /\ run' = [r \in Runs |-> IF r \in Blocked THEN Projected(r, "queued", "working") ELSE run[r]]
  /\ outbox' = Recorded(ReleaseIntents(gate.build + 1))
  /\ UNCHANGED <<sugg, owed, wf, admin, patched>>

-----------------------------------------------------------------------------
(* The outbox at its contract, and the workflow's signal handlers.         *)

Newer(request, current) == IF request > current THEN request ELSE current

\* What a delivered intent does to the workflow identity.
Delivered(k) ==
  CASE k[1] = "document" -> IF wf.state = "none" THEN Started(k[2]) ELSE wf
    [] k[1] = "force" ->
         IF wf.state = "running" THEN [wf EXCEPT !.force = Newer(k[2], @)]
         ELSE [Started(k[2]) EXCEPT !.force = k[2]]
    [] k[1] = "embedding_ready" -> [wf EXCEPT !.ready = TRUE]
    [] k[1] = "decision" -> [wf EXCEPT !.decision = IF @ = 0 THEN k[2] ELSE @]

\* A plain signal needs a running execution.
Deliverable(k) == k[1] \in {"embedding_ready", "decision"} => wf.state = "running"

\* Acknowledged, or not: then the relay delivers the same intent again.
Deliver(k) ==
  /\ outbox[k] = "open"
  /\ Deliverable(k)
  /\ wf' = Delivered(k)
  /\ \/ outbox' = [outbox EXCEPT ![k] = "delivered"]
     \/ UNCHANGED outbox
  /\ UNCHANGED <<run, sugg, owed, gate, admin, patched>>

\* Mutant: the run and the command are left as they are.
DeadLetterSilently(k) ==
  /\ outbox[k] = "open"
  /\ TemporalOutage \/ ~Deliverable(k)
  /\ outbox' = [outbox EXCEPT ![k] = "dead_letter"]
  /\ UNCHANGED <<run, sugg, owed, wf, gate, admin, patched>>

\* What the dead letter of a decision makes of its suggestion.
DecisionLost(s) ==
  Reported(s, IF sugg[s].commit = "committed" THEN "committed" ELSE "failed",
              IF sugg[s].command = "queued" THEN "failed_permanent" ELSE sugg[s].command)

\* mark_failed on the last attempt, with the projections of the dead letter.
DeadLetter(k) ==
  /\ outbox[k] = "open"
  /\ TemporalOutage \/ ~Deliverable(k)
  /\ outbox' = [outbox EXCEPT ![k] = "dead_letter"]
  /\ k[1] \in {"document", "force"} => ~Locked(k[2])
  /\ run' = IF /\ k[1] \in {"document", "force"}
               /\ run[k[2]].status \in {"pending", "queued", "blocked"}
            THEN [run EXCEPT ![k[2]].status = "failed_permanent"] ELSE run
  /\ sugg' = IF k[1] = "decision" /\ sugg[k[2]].command # "none"
             THEN [sugg EXCEPT ![k[2]] = DecisionLost(k[2])]
             ELSE sugg
  /\ UNCHANGED <<owed, wf, gate, admin, patched>>

-----------------------------------------------------------------------------
(* The workflow between awaits.                                            *)

\* _continue_if_reprocessed: a newer generation takes over, anything else of
\* the force flag is dropped and the workflow goes on as `next`.
Checkpoint(next) ==
  IF wf.force > wf.run
  THEN [wf EXCEPT !.at = "supersede", !.over = wf.run, !.next = wf.force, !.force = 0]
  ELSE [next EXCEPT !.force = 0]

\* _finish_review up to its next await.  What was decided is in the signal, and
\* only an acceptance has a command.  A decision for another suggestion raises
\* ValueError: the workflow task is left at `stuck`.
FinishReview(w, s, stuck) ==
  CASE w.decision = 0 -> [w EXCEPT !.at = "review", !.sugg = s]
    [] w.decision = s /\ sugg[s].command = "none" -> [w EXCEPT !.at = "finish", !.sugg = s]
    [] w.decision = s /\ sugg[s].command # "none" -> [w EXCEPT !.at = "commit_begin", !.sugg = s]
    [] OTHER -> [w EXCEPT !.at = stuck, !.sugg = s]

Begin ==
  /\ At("start")
  /\ wf' = Checkpoint([wf EXCEPT !.at = "check"])
  /\ UNCHANGED <<run, sugg, owed, outbox, gate, admin, patched>>

\* check_document_readiness answers from the status of the run alone.
ReadinessDecides ==
  /\ At("check")
  /\ LET status == run[wf.run].status
         own == {s \in Suggestions : sugg[s].run = wf.run}
     IN \/ /\ status = "running"
           /\ \E s \in own : wf' = Checkpoint(FinishReview(wf, s, "review"))
        \/ /\ status \in {"succeeded", "cancel_requested", "cancelled"}
           /\ wf' = Checkpoint(Closed("completed"))
  /\ UNCHANGED <<run, sugg, owed, outbox, gate, admin, patched>>

\* Mutant: only a cancellation keeps the activity from asking for the index.
ReadinessReadsGateAlways ==
  /\ At("check")
  /\ ~CancelAsked(wf.run)
  /\ wf' = [wf EXCEPT !.at = "locked", !.seen = gate.open]
  /\ UNCHANGED <<run, sugg, owed, outbox, gate, admin, patched>>

\* ... or reads the gate under the lock of the run's row,
ReadinessReadsGate ==
  /\ At("check")
  /\ run[wf.run].status \notin {"succeeded", "cancel_requested", "cancelled"}
  /\ ~(run[wf.run].status = "running" /\ \E s \in Suggestions : sugg[s].run = wf.run)
  /\ wf' = [wf EXCEPT !.at = "locked", !.seen = gate.open]
  /\ UNCHANGED <<run, sugg, owed, outbox, gate, admin, patched>>

\* ... and projects what it read.
ReadinessEffect ==
  /\ At("locked")
  /\ LET r == wf.run
         found == run[r].status
     IN run' = CASE wf.seen /\ found \in {"pending", "blocked"} ->
                      [run EXCEPT ![r] = Projected(r, "queued", "working")]
                 [] ~wf.seen /\ found # "blocked" ->
                      [run EXCEPT ![r] = Projected(r, "blocked", "working")]
                 [] OTHER -> run
  /\ UNCHANGED <<sugg, owed, outbox, gate, admin, patched>>

ReadinessProjects ==
  /\ ReadinessEffect
  /\ wf' = Checkpoint([wf EXCEPT !.at = IF wf.seen THEN "config" ELSE "blocked", !.seen = FALSE])

\* The wait for the index ends with a readiness signal or a force request.
GateWaitEnds ==
  /\ At("blocked")
  /\ wf.ready \/ wf.force # 0
  /\ wf' = Checkpoint([wf EXCEPT !.at = "check", !.ready = FALSE])
  /\ UNCHANGED <<run, sugg, owed, outbox, gate, admin, patched>>

\* load_model_phase_configuration.
ConfigurationLoaded ==
  /\ At("config")
  /\ wf' = Checkpoint([wf EXCEPT !.at = "phase", !.phase = 1])
  /\ UNCHANGED <<run, sugg, owed, outbox, gate, admin, patched>>

\* _upsert_phase_state: the phase's result, and the run unless it was cancelled.
PhaseRecorded(r, phase) ==
  [(IF CancelAsked(r) THEN run[r] ELSE Projected(r, "running", "working")) EXCEPT !.phases = phase]

\* Mutant: phases counted from zero.
PhaseEffectFromZero ==
  /\ At("phase")
  /\ run' = [run EXCEPT ![wf.run] = PhaseRecorded(wf.run, wf.phase + 1)]
  /\ UNCHANGED <<sugg, owed, outbox, gate, admin, patched>>

\* A model phase: already done, or run (again, should the configuration of this
\* execution be another one) and recorded.
PhaseEffect ==
  /\ At("phase")
  /\ \/ run[wf.run].phases >= wf.phase /\ UNCHANGED run
     \/ run' = [run EXCEPT ![wf.run] = PhaseRecorded(wf.run, wf.phase)]
  /\ UNCHANGED <<sugg, owed, outbox, gate, admin, patched>>

PhaseCompletes ==
  /\ PhaseEffect
  /\ wf' = Checkpoint(IF wf.phase < PhaseCount
                      THEN [wf EXCEPT !.phase = @ + 1]
                      ELSE [wf EXCEPT !.phase = 0, !.at = "publish"])

\* Mutants of the upsert: plain insert; keyed by the document, not by the run.
PublishInserting(s) ==
  /\ At("publish") /\ NewRow(s)
  /\ sugg' = [sugg EXCEPT ![s] = PendingRow(wf.run, FALSE)]
  /\ wf' = [wf EXCEPT !.at = "publish_project", !.sugg = s]
  /\ UNCHANGED <<run, owed, outbox, gate, admin, patched>>
PublishByDocument(s) ==
  /\ At("publish")
  /\ IF \E t \in Suggestions : sugg[t].status = "pending"
     THEN sugg[s].status = "pending" /\ UNCHANGED sugg
     ELSE NewRow(s) /\ sugg' = [sugg EXCEPT ![s] = PendingRow(wf.run, FALSE)]
  /\ wf' = [wf EXCEPT !.at = "publish_project", !.sugg = s]
  /\ UNCHANGED <<run, owed, outbox, gate, admin, patched>>

\* store_review_suggestion: an upsert on the key of the run, which refreshes a
\* pending row and leaves a decided one alone.
Publish(s) ==
  /\ At("publish")
  /\ IF \E t \in Suggestions : sugg[t].run = wf.run /\ ~sugg[t].placeholder
     THEN sugg[s].run = wf.run /\ ~sugg[s].placeholder /\ UNCHANGED sugg
     ELSE NewRow(s) /\ sugg' = [sugg EXCEPT ![s] = PendingRow(wf.run, FALSE)]
  /\ wf' = [wf EXCEPT !.at = "publish_project", !.sugg = s]
  /\ UNCHANGED <<run, owed, outbox, gate, admin, patched>>

\* _finish_document_projection, the second transaction of the activity.
ProjectionEffect ==
  /\ At("publish_project")
  /\ run' = IF run[wf.run].stage = "awaiting_review" THEN run
            ELSE [run EXCEPT ![wf.run] = Projected(wf.run, "running", "awaiting_review")]
  /\ UNCHANGED <<sugg, owed, outbox, gate, admin, patched>>

PublishProjects ==
  /\ ProjectionEffect
  /\ wf' = FinishReview(wf, wf.sugg, "wedged")

\* The review wait ends; a force request is looked at before the decision.
ReviewWaitEnds ==
  /\ At("review")
  /\ wf.force # 0 \/ wf.decision = wf.sugg
  /\ wf' = Checkpoint(FinishReview(wf, wf.sugg, "review"))
  /\ UNCHANGED <<run, sugg, owed, outbox, gate, admin, patched>>

-----------------------------------------------------------------------------
(* The commit to Paperless (commit_review_suggestion).                     *)

\* Mutant: a command already reported as failed is taken up again.
CommitBeginsAnyway ==
  /\ At("commit_begin")
  /\ sugg[wf.sugg].status = "accepted"
  /\ sugg' = [sugg EXCEPT ![wf.sugg] = Reported(wf.sugg, "running", "running")]
  /\ wf' = [wf EXCEPT !.at = "commit_patch"]
  /\ UNCHANGED <<run, owed, outbox, gate, admin, patched>>

\* _begin_review_commit: already committed, refused, or marked as running.
CommitBegins ==
  /\ At("commit_begin")
  /\ LET s == wf.sugg IN
     \/ /\ sugg[s].status = "accepted"
        /\ sugg[s].commit = "committed" /\ sugg[s].command = "succeeded"
        /\ wf' = [wf EXCEPT !.at = "finish"]
        /\ UNCHANGED sugg
     \/ /\ sugg[s].status = "accepted" /\ sugg[s].command # "failed_permanent"
        /\ ~(sugg[s].commit = "committed" /\ sugg[s].command = "succeeded")
        /\ sugg' = [sugg EXCEPT ![s] = Reported(s, "running", "running")]
        /\ wf' = [wf EXCEPT !.at = "commit_patch"]
  /\ UNCHANGED <<run, owed, outbox, gate, admin, patched>>

\* Refused for good, by the begin or by the load that follows it: ValueError is
\* not retried.
CommitRefused ==
  /\ \/ /\ At("commit_begin")
        /\ sugg[wf.sugg].status # "accepted" \/ sugg[wf.sugg].command = "failed_permanent"
     \/ At("commit_patch") /\ sugg[wf.sugg].status # "accepted"
  /\ wf' = [wf EXCEPT !.at = "fail_commit"]
  /\ UNCHANGED <<run, sugg, owed, outbox, gate, admin, patched>>

\* commit_review_suggestion_to_paperless, with what was loaded while the
\* suggestion was accepted: it may have been marked stale since.
CommitPatches ==
  /\ At("commit_patch")
  /\ patched' = patched \cup {wf.sugg}
  /\ wf' = [wf EXCEPT !.at = "commit_finish"]
  /\ UNCHANGED <<run, sugg, owed, outbox, gate, admin>>

\* _finish_review_commit: the command succeeds, the suggestion is committed only
\* if it still is accepted.
CommitEffect ==
  /\ At("commit_finish")
  /\ LET s == wf.sugg
         told == IF sugg[s].status = "accepted" THEN "committed" ELSE sugg[s].commit
     IN sugg' = [sugg EXCEPT ![s] = Reported(s, told, "succeeded")]
  /\ UNCHANGED <<run, owed, outbox, gate, admin, patched>>

CommitFinishes ==
  /\ CommitEffect
  /\ wf' = [wf EXCEPT !.at = "finish"]

\* Mutants: the command of a commit that went through is failed; the reviewer's
\* row of one that did not is left alone.
CommitFailEffectUnfenced ==
  /\ At("fail_commit")
  /\ LET s == wf.sugg
         told == IF sugg[s].commit = "committed" THEN "committed" ELSE "failed"
     IN sugg' = [sugg EXCEPT ![s] = Reported(s, told, "failed_permanent")]
  /\ UNCHANGED <<run, owed, outbox, gate, admin, patched>>
CommitFailEffectOnCommand ==
  /\ At("fail_commit")
  /\ sugg' = IF sugg[wf.sugg].commit = "committed" THEN sugg
             ELSE [sugg EXCEPT ![wf.sugg].command = "failed_permanent"]
  /\ UNCHANGED <<run, owed, outbox, gate, admin, patched>>

\* fail_review_commit.
CommitFailEffect ==
  /\ At("fail_commit")
  /\ sugg' = IF sugg[wf.sugg].commit = "committed" THEN sugg
             ELSE [sugg EXCEPT ![wf.sugg] = Reported(wf.sugg, "failed", "failed_permanent")]
  /\ UNCHANGED <<run, owed, outbox, gate, admin, patched>>

CommitFails ==
  /\ CommitFailEffect
  /\ wf' = [wf EXCEPT !.at = "fail_run"]

-----------------------------------------------------------------------------
(* How an execution ends.                                                  *)

\* Activities that raise whatever their attempt, for the run is terminal already.
FinishRefused ==
  /\ At("finish")
  /\ run[wf.run].status \in {"failed_permanent", "cancelled"}
       \/ run[wf.run].stage # "awaiting_review"
  /\ ~(run[wf.run].status = "succeeded" /\ run[wf.run].stage = "done")

SupersedeRefused ==
  /\ At("supersede")
  /\ run[wf.over].status \in {"succeeded", "failed_permanent", "cancelled"}
  /\ ~(run[wf.over].status = "cancelled" /\ run[wf.over].stage = "superseded")

ActivityRefused ==
  /\ FinishRefused \/ SupersedeRefused
  /\ wf' = Closed("failed")
  /\ UNCHANGED <<run, sugg, owed, outbox, gate, admin, patched>>

\* finish_document_review: terminal projection of an accepted or rejected
\* review, idempotent, and refused once the run is terminal otherwise.
FinishEffect ==
  /\ At("finish")
  /\ \/ /\ run[wf.run].status \notin {"failed_permanent", "cancelled"}
        /\ run[wf.run].stage = "awaiting_review"
        /\ run' = [run EXCEPT ![wf.run] = Projected(wf.run, "succeeded", "done")]
     \/ run[wf.run].status = "succeeded" /\ run[wf.run].stage = "done" /\ UNCHANGED run
  /\ UNCHANGED <<sugg, owed, outbox, gate, admin, patched>>

ReviewFinishes ==
  /\ FinishEffect
  /\ wf' = Closed("completed")

\* fail_document_processing, after which the workflow raises.
RunFailEffect ==
  /\ At("fail_run")
  /\ run' = IF run[wf.run].status \in {"succeeded", "cancelled"} THEN run
            ELSE [run EXCEPT ![wf.run] = Projected(wf.run, "failed_permanent", "failed")]
  /\ UNCHANGED <<sugg, owed, outbox, gate, admin, patched>>

RunFails ==
  /\ RunFailEffect
  /\ wf' = Closed("failed")

\* supersede_document_processing: the generation `over`, and its open review.
SupersedeEffect ==
  /\ At("supersede")
  /\ \/ /\ run[wf.over].status \notin {"succeeded", "failed_permanent", "cancelled"}
        /\ run' = [run EXCEPT ![wf.over] = Projected(wf.over, "cancelled", "superseded")]
        /\ sugg' = [s \in Suggestions |->
                      IF sugg[s].run = wf.over /\ sugg[s].status = "pending"
                      THEN [sugg[s] EXCEPT !.status = "stale"] ELSE sugg[s]]
     \/ /\ run[wf.over].status = "cancelled" /\ run[wf.over].stage = "superseded"
        /\ UNCHANGED <<run, sugg>>
  /\ UNCHANGED <<owed, outbox, gate, admin, patched>>

\* ... then the next of a queue of replacements, or Continue-As-New, which
\* starts afresh without the signals received so far.
Supersede ==
  /\ SupersedeEffect
  /\ wf' = IF wf.force > wf.next
           THEN [wf EXCEPT !.over = wf.next, !.next = wf.force, !.force = 0]
           ELSE Started(wf.next)

-----------------------------------------------------------------------------
(* Attempts that fail.                                                     *)

\* Where the next attempt of the awaited activity starts.
NextAttempt ==
  [wf EXCEPT !.seen = FALSE,
             !.at = CASE @ = "locked" -> "check"
                      [] @ \in PublishSteps -> "publish"
                      [] @ \in CommitSteps -> "commit_begin"
                      [] OTHER -> @]

\* The worker dies between two transactions of an activity, or in the first.
AttemptAborted ==
  /\ wf.state = "running"
  /\ wf.at \in {"locked", "publish_project", "commit_patch", "commit_finish"}
  /\ wf' = NextAttempt
  /\ UNCHANGED <<run, sugg, owed, outbox, gate, admin, patched>>

\* Everything was written, but the completion never reached Temporal.
CompletionLost ==
  /\ \/ ReadinessEffect \/ PhaseEffect \/ ProjectionEffect \/ CommitEffect
     \/ CommitFailEffect \/ FinishEffect \/ RunFailEffect \/ SupersedeEffect
  /\ wf' = NextAttempt

\* The last attempt fails.  Model phases, publication and commit have failure
\* handlers; any other activity takes the workflow down with it.
ActivityExhausted ==
  /\ wf.state = "running"
  /\ \/ wf.at \in PublishSteps \cup {"phase"} /\ wf' = [wf EXCEPT !.at = "fail_run"]
     \/ wf.at \in CommitSteps /\ wf' = [wf EXCEPT !.at = "fail_commit"]
     \/ wf.at \in DatabaseSteps /\ DatabaseOutage /\ wf' = Closed("failed")
  /\ UNCHANGED <<run, sugg, owed, outbox, gate, admin, patched>>

-----------------------------------------------------------------------------
Laravel ==
  \/ \E r \in Runs : \/ StartFirst(r) \/ ForceFromClassify(r) \/ ForceFromMaintenance(r)
                     \/ \E s \in Suggestions : ForceFromReview(r, s) \/ InsertPlaceholder(r, s)
  \/ \E s \in Suggestions : MarksStale(s) \/ Accept(s) \/ Reject(s)

JobControl ==
  \E r \in Runs :
    \/ \E op \in {"cancel", "retry", "finalize"} : AdminChecks(op, r)
    \/ AdminWrites(r)
    \/ ScanFinds(r) \/ ScanReleases(r)

Embedding == CloseGate \/ FinishBuild

Relay == \E k \in Keys : Deliver(k) \/ DeadLetter(k)

\* The workflow gets on; publication and commit take several transactions.
Readiness == ReadinessDecides \/ ReadinessReadsGate
Progress ==
  \/ Begin \/ Readiness \/ GateWaitEnds \/ ConfigurationLoaded \/ PhaseCompletes
  \/ (\E s \in Suggestions : Publish(s)) \/ ReviewWaitEnds
  \/ CommitBegins \/ CommitRefused \/ CommitPatches \/ CommitFails
  \/ ReviewFinishes \/ RunFails \/ Supersede \/ ActivityRefused
LastTransaction == ReadinessProjects \/ PublishProjects \/ CommitFinishes

Trouble == AttemptAborted \/ CompletionLost \/ ActivityExhausted

Next == Laravel \/ JobControl \/ Embedding \/ Relay \/ Progress \/ LastTransaction \/ Trouble

Spec == Init /\ [][Next]_vars

\* The relay and the Temporal worker are supervised, and an activity has a
\* bounded number of attempts, so the aborted ones cannot go on for ever.  The
\* durable-recovery process scans every 30 seconds, and a request in flight ends.
\* Nothing obliges users, administrators or the embedding index to act.
Fairness ==
  /\ WF_vars(Progress)
  /\ SF_vars(ReadinessProjects) /\ SF_vars(PublishProjects) /\ SF_vars(CommitFinishes)
  /\ SF_vars(CommitPatches)
  /\ \A k \in Keys : WF_vars(Deliver(k) /\ outbox'[k] = "delivered") /\ WF_vars(DeadLetter(k))
  /\ \A r \in Runs : WF_vars(AdminWrites(r)) /\ WF_vars(ScanFinds(r)) /\ WF_vars(ScanReleases(r))

FairSpec == Spec /\ Fairness

-----------------------------------------------------------------------------
(* Properties.                                                             *)

Promise == INSTANCE ReviewPromise WITH
  verdict <- [s \in Suggestions |-> sugg[s].status],
  written <- patched,
  report <- [s \in Suggestions |->
               CASE sugg[s].command \in {"queued", "running"} -> "open"
                 [] sugg[s].command = "failed_permanent" -> "failed"
                 [] OTHER -> sugg[s].command]

\* Reviewers get what ReviewPromise says through every retry, dead letter,
\* redelivered signal and replaced generation: one decision per suggestion, none
\* after it was withdrawn, a write only for one that was accepted and is not yet
\* reported, and final reports, but for a suggestion found outdated after all
\* (ReviewSuggestionController.php 351-389 and 498-520, review_activities.py
\* 44-255).
KeepsReviewPromise == Promise!ReviewSpec

\* The reviewer's row and the commit command tell the same story of success,
\* although the worker, its failure handler, the dead letter of the decision and
\* a late look at Paperless write them in different orders: a command that
\* succeeded without a committed row is that of a row marked stale meanwhile
\* (review_activities.py 112-255, outbox.py 128-175,
\* ReviewSuggestionController.php 517).
CommitAndCommandAgree ==
  \A s \in Suggestions :
    /\ sugg[s].commit = "committed" => sugg[s].command = "succeeded"
    /\ sugg[s].command = "succeeded" => sugg[s].commit = "committed" \/ sugg[s].status = "stale"

\* A generation publishes one suggestion, however often publication is retried,
\* and however often the generation is started (review_suggestions.py 205-291).
PublishedOnce ==
  \A s, t \in Suggestions :
    sugg[s].run = sugg[t].run /\ ~Absent(s) /\ ~Absent(t)
      /\ ~sugg[s].placeholder /\ ~sugg[t].placeholder => s = t

\* The workflow reviews and commits the suggestion of its own generation, also
\* when decisions for other generations reach it (workflows.py 405-444).
ReviewsItsOwn ==
  wf.at \in {"review", "finish", "fail_commit"} \cup CommitSteps =>
    sugg[wf.sugg].run = wf.run

\* A generation that succeeded or was superseded is never revived by a workflow,
\* not even by a redelivered request for it: only the late write of an
\* administrator moves it (document_activities.py 735-742, 795).  A cancellation
\* written late unsettles it: the workflow may then supersede it once more.
Settled(r) == run[r].stage \in {"done", "superseded"} /\ run[r].status # "cancel_requested"
SettledGenerationsRest ==
  [][\A r \in Runs : Settled(r) /\ run'[r] # run[r] => admin.run = r /\ admin'.op = "none"]_vars

\* "queued" tells the operator that a start has been requested from Temporal
\* (docs/architecture/job-control-model.md 93): by the request for the run, the
\* embedding build, the scan, or the workflow that found it pending or blocked.
QueuedHasStartIntent ==
  \A r \in Runs :
    run[r].status = "queued" => outbox[DocumentKey(r)] # "absent" \/ outbox[ForceKey(r)] # "absent"

\* An acceptance the workflow waits for is reported done or failed, also when
\* its signal is dead-lettered, the commit runs out of attempts or the suggestion
\* is marked stale meanwhile; the row says the same unless it is stale
\* (workflows.py 405-464, outbox.py 128-175, review_activities.py 72-92).
AwaitedReviewIsResolved ==
  \A s \in Suggestions :
    At("review") /\ wf.sugg = s /\ sugg[s].status = "accepted"
      ~> /\ sugg[s].command \in {"succeeded", "failed_permanent"}
         /\ sugg[s].commit \in {"committed", "failed"} \/ sugg[s].status = "stale"

\* A generation blocked for the index does not outlast it, also when the build
\* finished between the workflow's look at the index and its projection
\* (PipelineRecoveryDispatcher.php 1638-1697, embedding_activities.py 422-511).
BlockedRunIsReleased ==
  \A r \in Runs : run[r].status = "blocked" /\ gate.open
                  ~> run[r].status # "blocked" \/ ~gate.open

\* While the index stays complete, a queued generation is eventually picked up by
\* the workflow, or failed visibly when its intent is dead-lettered
\* (workflows.py 381-403 and 499-553, outbox.py 128-148).
QueuedRunIsOwned ==
  []gate.open => \A r \in Runs : run[r].status = "queued" ~> run[r].status # "queued"

-----------------------------------------------------------------------------
(* What the documents say and the code does not keep; see the README.      *)

\* "An explicit force action records one transactional Signal-With-Start intent"
\* (docs/decisions/0024 47-48): no replacement is queued without one.
ForceIsSignalled ==
  \A q, r \in Runs :
    Exists(q) /\ q < r /\ run[r].forced /\ run[r].status = "queued"
      => outbox[ForceKey(r)] # "absent"

\* "The old pending suggestion becomes stale immediately, so it cannot be
\* accepted while the replacement is running" (docs/decisions/0024 51-52).
StaleOnceReplaced ==
  [][\A s \in Suggestions :
       sugg[s].status = "pending" /\ sugg'[s].status = "accepted"
         => \A r \in Runs : r > sugg[s].run /\ run[r].forced => ~Exists(r)]_vars

\* "Cancellation completed and no more work should run" and "Final state becomes
\* `cancelled`" (docs/architecture/job-control-model.md 97, failure-retry-recovery.md
\* 231): only an administrator's retry takes a cancellation back.
CancellationIsFinal ==
  [][\A r \in Runs : CancelAsked(r) /\ admin.op # "retry" => CancelAsked(r)']_vars

\* How far that is kept: an administrator's retry aside, a cancellation is written
\* over by the projections of a publication, of a finished review and of a failed
\* run, the last two only where it has been requested and not finalised; readiness,
\* model phases, releases, dead letters and supersession leave it
\* (document_phase_activities.py 558-575 and 666 ff., document_activities.py 781-797).
CancellationYields ==
  [][\A r \in Runs : CancelAsked(r) /\ ~CancelAsked(r)' =>
       \/ admin.op = "retry" /\ admin.run = r
       \/ At("publish_project") /\ wf.run = r
       \/ /\ At("finish") \/ At("fail_run")
          /\ wf.run = r /\ run[r].status = "cancel_requested"]_vars
=============================================================================
