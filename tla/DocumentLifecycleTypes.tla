---------------------- MODULE DocumentLifecycleTypes ----------------------
(***************************************************************************)
(* Type correctness of DocumentLifecycle, for every number of generations, *)
(* phases, builds and administrator's actions.                             *)
(*                                                                         *)
(* TypeOK is not inductive: an action that writes run[wf.run] or           *)
(* sugg[wf.sugg] stays within the tables only if the workflow has a        *)
(* generation, or a suggestion, in hand.  OwnsRun says that it has         *)
(* wherever an action of that place needs it.                              *)
(***************************************************************************)
EXTENDS DocumentLifecycle, TLAPS

\* Places at which the workflow has a suggestion in hand.
HoldingPlaces == {"publish_project", "review", "finish", "fail_commit"} \cup CommitSteps

\* A running execution has a generation and, where it needs one, a phase, a
\* replacement or a suggestion.
Sound(w) ==
  /\ w \in Executions
  /\ w.state = "running" => w.run \in Runs
  /\ w.at = "phase" => w.phase \in 1..PhaseCount
  /\ w.at = "supersede" => w.over \in Runs /\ w.next \in Runs
  /\ w.at \in HoldingPlaces => w.sugg \in Suggestions
OwnsRun == Sound(wf)

\* What an intent key is made of.
LEMMA KeyFacts ==
  /\ \A k \in Keys : /\ k[1] \in {"document", "force"} => k[2] \in Runs
                     /\ k[1] = "embedding_ready" => k[2] \in Runs
                     /\ k[1] = "decision" => k[2] \in Suggestions
                     /\ k[1] \in {"document", "force", "embedding_ready", "decision"}
  /\ \A r \in Runs : DocumentKey(r) \in Keys /\ ForceKey(r) \in Keys
  /\ \A s \in Suggestions : DecisionKey(s) \in Keys
  BY DEF Keys, DocumentKey, ForceKey, DecisionKey

\* The places of the workflow, and the executions it starts and ends with.
LEMMA PlaceFacts ==
  Places = {"none", "start", "check", "locked", "config", "phase", "publish", "publish_project",
            "review", "commit_begin", "commit_patch", "commit_finish", "fail_commit", "finish",
            "fail_run", "supersede", "blocked", "wedged"}
  BY DEF Places, Waits, DatabaseSteps, CommitSteps, PublishSteps

LEMMA ClosedFacts == \A state \in {"none", "running", "completed", "failed"} : Closed(state) \in Executions
  BY LifecycleAssumption, PlaceFacts DEF Closed, Executions

LEMMA StartedFacts == \A r \in Runs : Started(r) \in Executions
  <1> TAKE r \in Runs
  <1> DEFINE w == [Closed("running") EXCEPT !.at = "start"]
  <1>1. w \in Executions
    BY ClosedFacts, PlaceFacts DEF Executions
  <1> HIDE DEF w
  <1>2. [w EXCEPT !.run = r] \in Executions
    BY <1>1, LifecycleAssumption DEF Executions, Runs
  <1> QED
    BY <1>2 DEF w, Started

\* Changes of several fields at a time keep an execution well-typed.
LEMMA AtSugg ==
  ASSUME NEW w \in Executions, NEW place \in Places, NEW s \in Suggestions
  PROVE  [w EXCEPT !.at = place, !.sugg = s] \in Executions
  BY Zenon DEF Executions
LEMMA AtFlag ==
  ASSUME NEW w \in Executions, NEW place \in Places, NEW b \in BOOLEAN
  PROVE  /\ [w EXCEPT !.at = place, !.seen = b] \in Executions
         /\ [w EXCEPT !.seen = b, !.at = place] \in Executions
         /\ [w EXCEPT !.at = place, !.ready = b] \in Executions
  BY Zenon DEF Executions
LEMMA AtPhase ==
  ASSUME NEW w \in Executions, NEW place \in Places, NEW n \in 0..PhaseCount
  PROVE  /\ [w EXCEPT !.at = place, !.phase = n] \in Executions
         /\ [w EXCEPT !.phase = n, !.at = place] \in Executions
  BY Zenon DEF Executions
LEMMA AtOver ==
  ASSUME NEW w \in Executions, NEW place \in Places, NEW q \in 0..MaxRuns, NEW r \in 0..MaxRuns, 0 \in 0..MaxRuns
  PROVE  /\ [w EXCEPT !.at = place, !.over = q, !.next = r, !.force = 0] \in Executions
         /\ [w EXCEPT !.over = q, !.next = r, !.force = 0] \in Executions
  BY Zenon DEF Executions
LEMMA OneField ==
  ASSUME NEW w \in Executions, NEW place \in Places, NEW q \in 0..MaxRuns, NEW b \in BOOLEAN, NEW n \in 0..PhaseCount, NEW s \in {0} \cup Suggestions
  PROVE  /\ [w EXCEPT !.at = place] \in Executions
         /\ [w EXCEPT !.force = q] \in Executions
         /\ [w EXCEPT !.ready = b] \in Executions
         /\ [w EXCEPT !.phase = n] \in Executions
         /\ [w EXCEPT !.decision = s] \in Executions
  BY DEF Executions

-----------------------------------------------------------------------------
(* Which actions write a table.                                            *)

LaravelStarts == \E r \in Runs, forced \in BOOLEAN : StartRun(r, forced)
WorkflowWritesRun ==
  \/ ReadinessEffect \/ PhaseEffect \/ ProjectionEffect \/ FinishEffect
  \/ RunFailEffect \/ SupersedeEffect

\* pipeline_runs: the controllers, job control, the build, the relay, the workflow.
LEMMA RunWriters ==
  ASSUME [Next]_vars
  PROVE  \/ UNCHANGED run
         \/ LaravelStarts
         \/ \E r \in Runs : AdminWrites(r) \/ ScanReleases(r)
         \/ FinishBuild
         \/ \E k \in Keys : DeadLetter(k)
         \/ WorkflowWritesRun
  <1>1. CASE UNCHANGED vars
    BY <1>1 DEF vars
  <1>2. CASE Laravel
    BY <1>2 DEF Laravel, LaravelStarts, StartFirst, ForceFromReview, ForceFromClassify,
                ForceFromMaintenance, InsertPlaceholder, MarksStale, Accept, Reject
  <1>3. CASE JobControl
    BY <1>3 DEF JobControl, AdminChecks, ScanFinds
  <1>4. CASE Embedding \/ Relay
    BY <1>4 DEF Embedding, Relay, CloseGate, Deliver
  <1>5. CASE Progress
    BY <1>5 DEF Progress, Readiness, Begin, ReadinessDecides, ReadinessReadsGate, GateWaitEnds,
                ConfigurationLoaded, PhaseCompletes, Publish, ReviewWaitEnds, CommitBegins,
                CommitRefused, CommitPatches, CommitFails, CommitFailEffect, ReviewFinishes, RunFails,
                Supersede, ActivityRefused, WorkflowWritesRun
  <1>6. CASE LastTransaction
    BY <1>6 DEF LastTransaction, ReadinessProjects, PublishProjects, CommitFinishes, CommitEffect,
                WorkflowWritesRun
  <1>7. CASE Trouble
    BY <1>7 DEF Trouble, AttemptAborted, CompletionLost, ActivityExhausted, CommitEffect,
                CommitFailEffect, WorkflowWritesRun
  <1> QED
    BY <1>1, <1>2, <1>3, <1>4, <1>5, <1>6, <1>7 DEF Next

WorkflowWritesSugg ==
  \/ \E s \in Suggestions : Publish(s)
  \/ CommitBegins \/ CommitEffect \/ CommitFailEffect \/ SupersedeEffect

\* review_suggestions: the controllers, the relay, the workflow.
LEMMA SuggWriters ==
  ASSUME [Next]_vars
  PROVE  \/ UNCHANGED sugg
         \/ \E r \in Runs, s \in Suggestions : ForceFromReview(r, s) \/ InsertPlaceholder(r, s)
         \/ \E s \in Suggestions : MarksStale(s) \/ Accept(s) \/ Reject(s)
         \/ \E k \in Keys : DeadLetter(k)
         \/ WorkflowWritesSugg
  <1>1. CASE UNCHANGED vars
    BY <1>1 DEF vars
  <1>2. CASE Laravel
    BY <1>2 DEF Laravel, StartFirst, ForceFromClassify, ForceFromMaintenance
  <1>3. CASE JobControl
    BY <1>3 DEF JobControl, AdminChecks, AdminWrites, ScanFinds, ScanReleases
  <1>4. CASE Embedding \/ Relay
    BY <1>4 DEF Embedding, Relay, CloseGate, FinishBuild, Deliver
  <1>5. CASE Progress
    BY <1>5 DEF Progress, Readiness, Begin, ReadinessDecides, ReadinessReadsGate, GateWaitEnds,
                ConfigurationLoaded, PhaseCompletes, PhaseEffect, ReviewWaitEnds,
                CommitRefused, CommitPatches, CommitFails, ReviewFinishes, FinishEffect,
                RunFails, RunFailEffect, Supersede, ActivityRefused, WorkflowWritesSugg
  <1>6. CASE LastTransaction
    BY <1>6 DEF LastTransaction, ReadinessProjects, ReadinessEffect, PublishProjects,
                ProjectionEffect, CommitFinishes, WorkflowWritesSugg
  <1>7. CASE Trouble
    BY <1>7 DEF Trouble, AttemptAborted, CompletionLost, ActivityExhausted, ReadinessEffect,
                PhaseEffect, ProjectionEffect, FinishEffect, RunFailEffect, WorkflowWritesSugg
  <1> QED
    BY <1>1, <1>2, <1>3, <1>4, <1>5, <1>6, <1>7 DEF Next

\* The outbox: whoever requests or decides, and the relay.
LEMMA OutboxWriters ==
  ASSUME [Next]_vars
  PROVE  \/ UNCHANGED outbox
         \/ LaravelStarts
         \/ \E s \in Suggestions : Accept(s) \/ Reject(s)
         \/ \E r \in Runs : ScanReleases(r)
         \/ FinishBuild
         \/ \E k \in Keys : Deliver(k) \/ DeadLetter(k)
  <1>1. CASE UNCHANGED vars
    BY <1>1 DEF vars
  <1>2. CASE Laravel
    BY <1>2 DEF Laravel, LaravelStarts, StartFirst, ForceFromReview, ForceFromClassify,
                ForceFromMaintenance, InsertPlaceholder, MarksStale
  <1>3. CASE JobControl
    BY <1>3 DEF JobControl, AdminChecks, AdminWrites, ScanFinds
  <1>4. CASE Embedding \/ Relay
    BY <1>4 DEF Embedding, Relay, CloseGate
  <1>5. CASE Progress
    BY <1>5 DEF Progress, Readiness, Begin, ReadinessDecides, ReadinessReadsGate, GateWaitEnds,
                ConfigurationLoaded, PhaseCompletes, PhaseEffect, Publish, ReviewWaitEnds, CommitBegins,
                CommitRefused, CommitPatches, CommitFails, CommitFailEffect, ReviewFinishes,
                FinishEffect, RunFails, RunFailEffect, Supersede, SupersedeEffect, ActivityRefused
  <1>6. CASE LastTransaction
    BY <1>6 DEF LastTransaction, ReadinessProjects, ReadinessEffect, PublishProjects,
                ProjectionEffect, CommitFinishes, CommitEffect
  <1>7. CASE Trouble
    BY <1>7 DEF Trouble, AttemptAborted, CompletionLost, ActivityExhausted, ReadinessEffect,
                PhaseEffect, ProjectionEffect, CommitEffect, CommitFailEffect, FinishEffect,
                RunFailEffect, SupersedeEffect
  <1> QED
    BY <1>1, <1>2, <1>3, <1>4, <1>5, <1>6, <1>7 DEF Next

\* Paperless: the commit alone.
LEMMA PatchedGrows ==
  ASSUME [Next]_vars
  PROVE  UNCHANGED patched \/ CommitPatches
  <1>1. CASE UNCHANGED vars
    BY <1>1 DEF vars
  <1>2. CASE Laravel
    BY <1>2 DEF Laravel, StartFirst, ForceFromReview, ForceFromClassify, ForceFromMaintenance,
                InsertPlaceholder, MarksStale, Accept, Reject
  <1>3. CASE JobControl
    BY <1>3 DEF JobControl, AdminChecks, AdminWrites, ScanFinds, ScanReleases
  <1>4. CASE Embedding \/ Relay
    BY <1>4 DEF Embedding, Relay, CloseGate, FinishBuild, Deliver, DeadLetter
  <1>5. CASE Progress
    BY <1>5 DEF Progress, Readiness, Begin, ReadinessDecides, ReadinessReadsGate, GateWaitEnds,
                ConfigurationLoaded, PhaseCompletes, PhaseEffect, Publish, ReviewWaitEnds, CommitBegins,
                CommitRefused, CommitFails, CommitFailEffect, ReviewFinishes, FinishEffect,
                RunFails, RunFailEffect, Supersede, SupersedeEffect, ActivityRefused
  <1>6. CASE LastTransaction
    BY <1>6 DEF LastTransaction, ReadinessProjects, ReadinessEffect, PublishProjects,
                ProjectionEffect, CommitFinishes, CommitEffect
  <1>7. CASE Trouble
    BY <1>7 DEF Trouble, AttemptAborted, CompletionLost, ActivityExhausted, ReadinessEffect,
                PhaseEffect, ProjectionEffect, CommitEffect, CommitFailEffect, FinishEffect,
                RunFailEffect, SupersedeEffect
  <1> QED
    BY <1>1, <1>2, <1>3, <1>4, <1>5, <1>6, <1>7 DEF Next

-----------------------------------------------------------------------------
(* The tables keep their types.                                            *)

\* Rows written anew are rows of the table.
LEMMA RowFacts ==
  ASSUME TypeOK, NEW r \in Runs
  PROVE  /\ \A status \in RunStatuses, stage \in Stages : Projected(r, status, stage) \in RunRows
         /\ \A phase \in 0..PhaseCount : PhaseRecorded(r, phase) \in RunRows
  <1>1. \A status \in RunStatuses, stage \in Stages : Projected(r, status, stage) \in RunRows
    BY DEF TypeOK, Projected, RunRows
  <1>2. \A row \in RunRows, phase \in 0..PhaseCount : [row EXCEPT !.phases = phase] \in RunRows
    BY DEF RunRows
  <1>3. run[r] \in RunRows /\ Projected(r, "running", "working") \in RunRows
    BY <1>1 DEF TypeOK, RunStatuses, Stages
  <1> QED
    BY <1>1, <1>2, <1>3 DEF PhaseRecorded

\* pipeline_runs keeps its type.
LEMMA RunType ==
  ASSUME TypeOK, OwnsRun, [Next]_vars
  PROVE  run' \in [Runs -> RunRows]
  <1> USE DEF TypeOK
  <1>0. \A status \in RunStatuses, stage \in Stages, r \in Runs : Projected(r, status, stage) \in RunRows
    BY RowFacts
  <1>s. /\ {"pending", "queued", "blocked", "running", "succeeded", "cancelled"} \subseteq RunStatuses
        /\ {"cancel_requested", "failed_permanent"} \subseteq RunStatuses
        /\ Stages = {"working", "awaiting_review", "done", "superseded", "cancelled", "failed"}
    BY DEF RunStatuses, Stages
  <1>1. CASE UNCHANGED run
    BY <1>1
  <1>2. CASE LaravelStarts
    BY <1>2, <1>s, LifecycleAssumption DEF LaravelStarts, StartRun, RunRows
  <1>3. ASSUME NEW r \in Runs, AdminWrites(r) PROVE run' \in [Runs -> RunRows]
    <2>1. \A status \in RunStatuses : [run[r] EXCEPT !.status = status] \in RunRows
      BY DEF RunRows
    <2> QED
      BY <1>0, <1>s, <1>3, <2>1 DEF AdminWrites
  <1>4. ASSUME NEW r \in Runs, ScanReleases(r) PROVE run' \in [Runs -> RunRows]
    BY <1>0, <1>s, <1>4 DEF ScanReleases
  <1>5. CASE FinishBuild
    BY <1>0, <1>s, <1>5 DEF FinishBuild
  <1>6. ASSUME NEW k \in Keys, DeadLetter(k) PROVE run' \in [Runs -> RunRows]
    <2>1. \A r \in Runs : [run[r] EXCEPT !.status = "failed_permanent"] \in RunRows
      BY <1>s DEF RunRows
    <2> QED
      BY <1>6, <2>1, KeyFacts DEF DeadLetter
  <1>7. CASE WorkflowWritesRun
    <2>0. wf.run \in Runs
      BY <1>7 DEF WorkflowWritesRun, OwnsRun, Sound, HoldingPlaces, At, ReadinessEffect, PhaseEffect, ProjectionEffect,
                  FinishEffect, RunFailEffect, SupersedeEffect
    <2>1. CASE ReadinessEffect
      BY <1>0, <1>s, <2>0, <2>1 DEF ReadinessEffect
    <2>2. CASE PhaseEffect
      BY <2>0, <2>2, RowFacts, LifecycleAssumption DEF PhaseEffect, Executions
    <2>3. CASE ProjectionEffect \/ FinishEffect \/ RunFailEffect
      BY <1>0, <1>s, <2>0, <2>3 DEF ProjectionEffect, FinishEffect, RunFailEffect
    <2>4. CASE SupersedeEffect
      BY <1>0, <1>s, <2>4 DEF SupersedeEffect, OwnsRun, Sound, HoldingPlaces, At
    <2> QED
      BY <1>7, <2>1, <2>2, <2>3, <2>4 DEF WorkflowWritesRun
  <1> QED
    BY <1>1, <1>2, <1>3, <1>4, <1>5, <1>6, <1>7, RunWriters

\* Rows of suggestions, likewise.
LEMMA SuggestionFacts ==
  ASSUME TypeOK, NEW s \in Suggestions
  PROVE  /\ \A commit \in {"none", "queued", "running", "committed", "failed"},
               command \in {"none", "queued", "running", "succeeded", "failed_permanent"} :
              Reported(s, commit, command) \in SuggestionRows
         /\ \A status \in {"absent", "pending", "accepted", "rejected", "stale"}, row \in SuggestionRows :
              [row EXCEPT !.status = status] \in SuggestionRows
         /\ \A r \in Runs, b \in BOOLEAN : PendingRow(r, b) \in SuggestionRows
         /\ sugg[s] \in SuggestionRows
  <1>1. \A status \in {"absent", "pending", "accepted", "rejected", "stale"}, row \in SuggestionRows :
              [row EXCEPT !.status = status] \in SuggestionRows
    BY DEF SuggestionRows
  <1>2. ASSUME NEW r \in Runs, NEW b \in BOOLEAN PROVE PendingRow(r, b) \in SuggestionRows
    <2>1. NoSuggestion \in SuggestionRows /\ r \in 0..MaxRuns
      BY LifecycleAssumption DEF NoSuggestion, SuggestionRows, Runs
    <2> QED
      BY <2>1, Zenon DEF PendingRow, SuggestionRows
  <1>3. sugg[s] \in SuggestionRows
    BY DEF TypeOK
  <1> QED
    BY <1>1, <1>2, <1>3 DEF Reported, SuggestionRows

\* review_suggestions keeps its type.
LEMMA SuggType ==
  ASSUME TypeOK, OwnsRun, [Next]_vars
  PROVE  sugg' \in [Suggestions -> SuggestionRows]
  <1> USE DEF TypeOK
  <1>1. CASE UNCHANGED sugg
    BY <1>1
  <1>2. ASSUME NEW r \in Runs, NEW s \in Suggestions, ForceFromReview(r, s) \/ InsertPlaceholder(r, s)
        PROVE  sugg' \in [Suggestions -> SuggestionRows]
    <2>1. \A status \in {"absent", "pending", "accepted", "rejected", "stale"} :
            [sugg[s] EXCEPT !.status = status] \in SuggestionRows
      BY SuggestionFacts
    <2>2. sugg[s].status \in {"absent", "pending", "accepted", "rejected", "stale"}
      BY DEF SuggestionRows
    <2>3. PendingRow(r, TRUE) \in SuggestionRows
      BY SuggestionFacts
    <2>4. CASE ForceFromReview(r, s)
      BY <2>4, <2>1, <2>2 DEF ForceFromReview
    <2>5. CASE InsertPlaceholder(r, s)
      BY <2>5, <2>3 DEF InsertPlaceholder
    <2> QED
      BY <1>2, <2>4, <2>5
  <1>3. ASSUME NEW s \in Suggestions, MarksStale(s) \/ Accept(s) \/ Reject(s)
        PROVE  sugg' \in [Suggestions -> SuggestionRows]
    BY <1>3, SuggestionFacts DEF MarksStale, Accept, Reject
  <1>4. ASSUME NEW k \in Keys, DeadLetter(k) PROVE sugg' \in [Suggestions -> SuggestionRows]
    <2>1. ASSUME NEW s \in Suggestions PROVE DecisionLost(s) \in SuggestionRows
      <3>1. /\ sugg[s].commit \in {"none", "queued", "running", "committed", "failed"}
            /\ sugg[s].command \in {"none", "queued", "running", "succeeded", "failed_permanent"}
        BY <2>1 DEF SuggestionRows
      <3> QED
        BY <2>1, <3>1, SuggestionFacts DEF DecisionLost
    <2> QED
      BY <1>4, <2>1, KeyFacts DEF DeadLetter
  <1>5. CASE WorkflowWritesSugg
    <2>1. ASSUME NEW s \in Suggestions, Publish(s) PROVE sugg' \in [Suggestions -> SuggestionRows]
      BY <2>1, SuggestionFacts DEF Publish, OwnsRun, Sound, HoldingPlaces, At
    <2>2. CASE CommitBegins \/ CommitFailEffect
      BY <2>2, SuggestionFacts DEF CommitBegins, CommitFailEffect, OwnsRun, Sound, HoldingPlaces, At, CommitSteps
    <2>3. CASE CommitEffect
      <3>1. wf.sugg \in Suggestions
        BY <2>3 DEF CommitEffect, OwnsRun, Sound, HoldingPlaces, At, CommitSteps
      <3>2. sugg[wf.sugg].commit \in {"none", "queued", "running", "committed", "failed"}
        BY <3>1 DEF SuggestionRows
      <3> QED
        BY <2>3, <3>1, <3>2, SuggestionFacts DEF CommitEffect
    <2>4. CASE SupersedeEffect
      BY <2>4, SuggestionFacts DEF SupersedeEffect
    <2> QED
      BY <1>5, <2>1, <2>2, <2>3, <2>4 DEF WorkflowWritesSugg
  <1> QED
    BY <1>1, <1>2, <1>3, <1>4, <1>5, SuggWriters

\* What recording intents does to the outbox.
LEMMA RecordedFacts ==
  ASSUME TypeOK, NEW keys \in SUBSET Keys
  PROVE  /\ Recorded(keys) \in [Keys -> {"absent", "open", "delivered", "dead_letter"}]
         /\ \A k \in Keys : outbox[k] # "absent" => Recorded(keys)[k] = outbox[k]
         /\ \A k \in keys : Recorded(keys)[k] # "absent"
         /\ \A k \in Keys \ keys : Recorded(keys)[k] = outbox[k]
  BY DEF TypeOK, Recorded

LEMMA ReleaseFacts ==
  ASSUME TypeOK, gate.build < MaxBuilds
  PROVE  /\ ReleaseIntents(gate.build + 1) \subseteq Keys
         /\ \A s \in Suggestions : DecisionKey(s) \notin ReleaseIntents(gate.build + 1)
         /\ \A r \in Blocked : DocumentKey(r) \in ReleaseIntents(gate.build + 1)
  BY LifecycleAssumption DEF TypeOK, ReleaseIntents, Blocked, Keys, DocumentKey, DecisionKey, Builds

\* A decision has a key of its own.
LEMMA KeysDiffer ==
  \A s \in Suggestions :
    /\ \A r \in Runs : DecisionKey(s) # DocumentKey(r) /\ DecisionKey(s) # ForceKey(r)
    /\ \A t \in Suggestions : DecisionKey(s) = DecisionKey(t) => s = t
  BY DEF DecisionKey, DocumentKey, ForceKey

\* Intents are never taken back, and only a decision records a decision.
LEMMA OutboxGrows ==
  ASSUME TypeOK, [Next]_vars
  PROVE  /\ outbox' \in [Keys -> {"absent", "open", "delivered", "dead_letter"}]
         /\ \A k \in Keys : outbox[k] # "absent" => outbox'[k] # "absent"
         /\ \A s \in Suggestions :
              outbox[DecisionKey(s)] = "absent" /\ outbox'[DecisionKey(s)] # "absent"
                => sugg'[s].status \in {"accepted", "rejected"}
  <1> DEFINE Goal == /\ outbox' \in [Keys -> {"absent", "open", "delivered", "dead_letter"}]
                     /\ \A k \in Keys : outbox[k] # "absent" => outbox'[k] # "absent"
                     /\ \A s \in Suggestions :
                          outbox[DecisionKey(s)] = "absent" /\ outbox'[DecisionKey(s)] # "absent"
                            => sugg'[s].status \in {"accepted", "rejected"}
  <1>0. outbox \in [Keys -> {"absent", "open", "delivered", "dead_letter"}]
    BY DEF TypeOK
  <1>1. CASE UNCHANGED outbox
    BY <1>0, <1>1
  <1>2. ASSUME NEW keys \in SUBSET Keys, outbox' = Recorded(keys),
               \A s \in Suggestions : DecisionKey(s) \notin keys
        PROVE  Goal
    BY <1>2, RecordedFacts, KeyFacts
  <1>3. CASE LaravelStarts
    <2>1. PICK r \in Runs, forced \in BOOLEAN : StartRun(r, forced)
      BY <1>3 DEF LaravelStarts
    <2> DEFINE keys == {IF forced THEN ForceKey(r) ELSE DocumentKey(r)}
    <2>2. keys \in SUBSET Keys /\ \A s \in Suggestions : DecisionKey(s) \notin keys
      BY KeyFacts, KeysDiffer
    <2> QED
      BY <1>1, <1>2, <2>1, <2>2 DEF StartRun
  <1>4. ASSUME NEW s \in Suggestions, Accept(s) \/ Reject(s) PROVE Goal
    <2>1. outbox' = Recorded({DecisionKey(s)}) /\ {DecisionKey(s)} \in SUBSET Keys
      BY <1>4, KeyFacts DEF Accept, Reject
    <2>2. sugg'[s].status \in {"accepted", "rejected"}
      <3>1. sugg \in [Suggestions -> SuggestionRows]
        BY DEF TypeOK
      <3>2. CASE Accept(s)
        BY <3>1, <3>2 DEF Accept, Reported
      <3>3. CASE Reject(s)
        BY <3>1, <3>3 DEF Reject, SuggestionRows
      <3> QED
        BY <1>4, <3>2, <3>3
    <2>3. \A t \in Suggestions : DecisionKey(t) \in {DecisionKey(s)} => t = s
      BY KeysDiffer
    <2> QED
      BY <2>1, <2>2, <2>3, RecordedFacts, KeyFacts
  <1>5. ASSUME NEW r \in Runs, ScanReleases(r) PROVE Goal
    <2> DEFINE keys == {IF run[r].forced THEN ForceKey(r) ELSE DocumentKey(r)}
    <2>2. keys \in SUBSET Keys /\ \A s \in Suggestions : DecisionKey(s) \notin keys
      BY KeyFacts, KeysDiffer
    <2> QED
      BY <1>1, <1>2, <1>5, <2>2 DEF ScanReleases
  <1>6. CASE FinishBuild
    BY <1>2, <1>6, ReleaseFacts DEF FinishBuild
  <1>7. ASSUME NEW k \in Keys, Deliver(k) \/ DeadLetter(k) PROVE Goal
    BY <1>0, <1>7, KeyFacts DEF Deliver, DeadLetter
  <1> QED
    BY <1>1, <1>3, <1>4, <1>5, <1>6, <1>7, OutboxWriters

-----------------------------------------------------------------------------
(* The workflow keeps what it needs in hand.                               *)

\* An execution starts and ends with all it needs.
LEMMA SoundStarts ==
  /\ \A r \in Runs : Sound(Started(r))
  /\ \A state \in {"completed", "failed"} : Sound(Closed(state))
  <1>1. \A r \in Runs : Started(r).run = r /\ Started(r).at = "start"
    BY DEF Started, Closed
  <1>2. \A state \in {"completed", "failed"} : Closed(state).state = state /\ Closed(state).at = "none"
    BY DEF Closed
  <1> QED
    BY <1>1, <1>2, StartedFacts, ClosedFacts DEF Sound, HoldingPlaces, CommitSteps

\* Looking for a replacement keeps an execution sound.
LEMMA SoundCheckpoint ==
  ASSUME TypeOK, OwnsRun, wf.state = "running", NEW next, Sound(next)
  PROVE  Sound(Checkpoint(next))
  <1>1. 0 \in 0..MaxRuns
    BY LifecycleAssumption
  <1>2. CASE wf.force > wf.run
    <2>1. wf.run \in Runs /\ wf.force \in Runs /\ wf.run \in 0..MaxRuns /\ wf.force \in 0..MaxRuns
      BY <1>2, LifecycleAssumption DEF OwnsRun, Sound, Executions, Runs
    <2> DEFINE w == [wf EXCEPT !.at = "supersede", !.over = wf.run, !.next = wf.force, !.force = 0]
    <2>2. w \in Executions
      BY <1>1, <2>1, AtOver, PlaceFacts DEF OwnsRun, Sound
    <2>3. w.at = "supersede" /\ w.over = wf.run /\ w.next = wf.force /\ w.run = wf.run
      BY DEF OwnsRun, Sound, Executions
    <2> QED
      BY <1>2, <2>1, <2>2, <2>3 DEF Checkpoint, Sound, HoldingPlaces, CommitSteps
  <1>3. CASE ~(wf.force > wf.run)
    <2>1. [next EXCEPT !.force = 0] \in Executions
      BY <1>1 DEF Sound, Executions
    <2>2. /\ [next EXCEPT !.force = 0].run = next.run
          /\ [next EXCEPT !.force = 0].at = next.at
          /\ [next EXCEPT !.force = 0].phase = next.phase
          /\ [next EXCEPT !.force = 0].over = next.over
          /\ [next EXCEPT !.force = 0].next = next.next
          /\ [next EXCEPT !.force = 0].sugg = next.sugg
          /\ [next EXCEPT !.force = 0].state = next.state
      BY DEF Sound, Executions
    <2> QED
      BY <1>3, <2>1, <2>2 DEF Checkpoint, Sound
  <1> QED
    BY <1>2, <1>3

\* So does looking for the decision,
LEMMA SoundFinishReview ==
  ASSUME NEW w, Sound(w), w.state = "running", NEW s \in Suggestions, NEW stuck \in {"review", "wedged"}
  PROVE  Sound(FinishReview(w, s, stuck))
  <1> DEFINE v(place) == [w EXCEPT !.at = place, !.sugg = s]
  <1>1. ASSUME NEW place \in {"review", "finish", "commit_begin", "wedged"}
        PROVE  Sound(v(place))
    <2>1. v(place) \in Executions
      BY AtSugg, PlaceFacts DEF Sound
    <2>2. v(place).at = place /\ v(place).sugg = s /\ v(place).run = w.run /\ v(place).state = w.state
      BY DEF Sound, Executions
    <2> QED
      BY <2>1, <2>2 DEF Sound
  <1> QED
    BY <1>1 DEF FinishReview

\* Another place that needs nothing, or what the execution has already.
LEMMA SoundAt ==
  ASSUME NEW w, Sound(w), NEW place \in Places,
         place \in {"phase", "supersede"} => w.at = place,
         place \in HoldingPlaces => w.sugg \in Suggestions
  PROVE  Sound([w EXCEPT !.at = place])
  <1>1. [w EXCEPT !.at = place] \in Executions
    BY DEF Sound, Executions
  <1>2. /\ [w EXCEPT !.at = place].at = place
        /\ [w EXCEPT !.at = place].run = w.run
        /\ [w EXCEPT !.at = place].phase = w.phase
        /\ [w EXCEPT !.at = place].over = w.over
        /\ [w EXCEPT !.at = place].next = w.next
        /\ [w EXCEPT !.at = place].sugg = w.sugg
        /\ [w EXCEPT !.at = place].state = w.state
    BY DEF Sound, Executions
  <1> QED
    BY <1>1, <1>2 DEF Sound

\* A flag,
LEMMA SoundFlag ==
  ASSUME NEW w, Sound(w), NEW b \in BOOLEAN
  PROVE  Sound([w EXCEPT !.seen = b]) /\ Sound([w EXCEPT !.ready = b])
  <1>1. [w EXCEPT !.seen = b] \in Executions /\ [w EXCEPT !.ready = b] \in Executions
    BY DEF Sound, Executions
  <1>2. \A v \in {[w EXCEPT !.seen = b], [w EXCEPT !.ready = b]} :
          /\ v.at = w.at /\ v.run = w.run /\ v.phase = w.phase /\ v.over = w.over
          /\ v.next = w.next /\ v.sugg = w.sugg /\ v.state = w.state
    BY DEF Sound, Executions
  <1> QED
    BY <1>1, <1>2 DEF Sound

\* ... a delivered intent,
LEMMA SoundDelivered ==
  ASSUME TypeOK, OwnsRun, NEW k \in Keys
  PROVE  Sound(Delivered(k))
  <1>1. CASE k[1] = "document"
    BY <1>1, KeyFacts, SoundStarts DEF Delivered, OwnsRun
  <1>2. CASE k[1] = "embedding_ready"
    BY <1>2, SoundFlag DEF Delivered, OwnsRun
  <1>3. CASE k[1] = "force"
    <2>1. ASSUME NEW w, Sound(w), NEW q \in 0..MaxRuns PROVE Sound([w EXCEPT !.force = q])
      <3>1. [w EXCEPT !.force = q] \in Executions
        BY <2>1 DEF Sound, Executions
      <3>2. LET v == [w EXCEPT !.force = q] IN
            /\ v.at = w.at /\ v.run = w.run /\ v.phase = w.phase /\ v.over = w.over
            /\ v.next = w.next /\ v.sugg = w.sugg /\ v.state = w.state
        BY <2>1 DEF Sound, Executions
      <3> QED
        BY <2>1, <3>1, <3>2 DEF Sound
    <2>2. k[2] \in Runs /\ k[2] \in 0..MaxRuns /\ Newer(k[2], wf.force) \in 0..MaxRuns
      BY <1>3, KeyFacts, LifecycleAssumption DEF Runs, Newer, OwnsRun, Sound, Executions
    <2> QED
      BY <1>3, <2>1, <2>2, SoundStarts DEF Delivered, OwnsRun
  <1>4. CASE k[1] = "decision"
    <2>1. [wf EXCEPT !.decision = k[2]] \in Executions
      BY <1>4, KeyFacts DEF OwnsRun, Sound, Executions
    <2>2. LET v == [wf EXCEPT !.decision = k[2]] IN
          /\ v.at = wf.at /\ v.run = wf.run /\ v.phase = wf.phase /\ v.over = wf.over
          /\ v.next = wf.next /\ v.sugg = wf.sugg /\ v.state = wf.state
      BY DEF OwnsRun, Sound, Executions
    <2>3. Sound([wf EXCEPT !.decision = k[2]])
      BY <2>1, <2>2 DEF OwnsRun, Sound
    <2>4. [wf EXCEPT !.decision = wf.decision] = wf
      BY DEF OwnsRun, Sound, Executions
    <2> QED
      BY <1>4, <2>3, <2>4 DEF Delivered, OwnsRun
  <1> QED
    BY <1>1, <1>2, <1>3, <1>4, KeyFacts

\* ... and every step of the specification keep it sound.
LEMMA SoundStep ==
  ASSUME TypeOK, OwnsRun, [Next]_vars
  PROVE  OwnsRun'
  <1> USE LifecycleAssumption
  <1>s. Sound(wf) /\ wf \in Executions
    BY DEF OwnsRun, Sound
  <1>p. /\ {"check", "locked", "config", "phase", "publish", "publish_project", "blocked"} \subseteq Places
        /\ {"finish", "commit_begin", "commit_patch", "commit_finish"} \subseteq Places
        /\ {"fail_commit", "fail_run", "review", "wedged", "supersede"} \subseteq Places
    BY PlaceFacts
  <1>q. 0 \in 0..PhaseCount /\ 1 \in 0..PhaseCount
    OBVIOUS
  <1>h. HoldingPlaces = {"publish_project", "review", "finish", "fail_commit",
                         "commit_begin", "commit_patch", "commit_finish"}
    BY DEF HoldingPlaces, CommitSteps
  <1>c. ASSUME NEW next, Sound(next), wf.state = "running", wf' = Checkpoint(next) PROVE OwnsRun'
    BY <1>c, SoundCheckpoint DEF OwnsRun
  <1>a. ASSUME NEW place \in {"check", "locked", "config", "publish", "fail_run", "blocked"}
        PROVE  Sound([wf EXCEPT !.at = place])
    BY <1>a, <1>s, <1>p, <1>h, SoundAt
  <1>g. ASSUME wf.at \in HoldingPlaces, wf.state = "running",
               NEW place \in {"finish", "commit_begin", "commit_patch", "commit_finish", "fail_commit"}
        PROVE  Sound([wf EXCEPT !.at = place])
    BY <1>g, <1>s, <1>p, <1>h, SoundAt DEF Sound
  <1>f. ASSUME NEW place \in {"check", "locked", "config", "blocked"}, NEW b \in BOOLEAN
        PROVE  /\ Sound([wf EXCEPT !.at = place, !.seen = b])
               /\ Sound([wf EXCEPT !.at = place, !.ready = b])
    <2>1. /\ [wf EXCEPT !.at = place, !.seen = b] \in Executions
          /\ [wf EXCEPT !.at = place, !.ready = b] \in Executions
      BY <1>f, <1>s, <1>p, AtFlag
    <2>2. \A v \in {[wf EXCEPT !.at = place, !.seen = b], [wf EXCEPT !.at = place, !.ready = b]} :
            v.at = place /\ v.run = wf.run /\ v.state = wf.state
      BY <1>s DEF Executions
    <2> QED
      BY <1>f, <1>s, <1>h, <2>1, <2>2 DEF Sound
  <1>n. Sound(NextAttempt)
    <2> DEFINE place == CASE wf.at = "locked" -> "check"
                          [] wf.at \in PublishSteps -> "publish"
                          [] wf.at \in CommitSteps -> "commit_begin"
                          [] OTHER -> wf.at
               v == [wf EXCEPT !.seen = FALSE, !.at = place]
    <2>1. /\ place \in Places
          /\ place \in {"phase", "supersede"} => wf.at = place
          /\ place \in HoldingPlaces => wf.at \in HoldingPlaces
      BY <1>s, <1>p, <1>h DEF Executions, PublishSteps, CommitSteps
    <2> HIDE DEF place
    <2>2. v \in Executions
      BY <1>s, <2>1, AtFlag
    <2>3. /\ v.at = place /\ v.run = wf.run /\ v.state = wf.state /\ v.phase = wf.phase
          /\ v.over = wf.over /\ v.next = wf.next /\ v.sugg = wf.sugg
      BY <1>s DEF Executions
    <2>4. Sound(v)
      BY <1>s, <2>1, <2>2, <2>3 DEF Sound
    <2> QED
      BY <2>4 DEF NextAttempt, place
  <1>2. ASSUME NEW k \in Keys, Deliver(k) PROVE OwnsRun'
    BY <1>2, SoundDelivered DEF Deliver, OwnsRun
  <1>3. CASE Begin
    BY <1>3, <1>a, <1>c DEF Begin, At
  <1>4. CASE ReadinessDecides
    <2>1. CASE wf' = Checkpoint(Closed("completed"))
      BY <1>4, <2>1, <1>c, SoundStarts DEF ReadinessDecides, At
    <2>2. CASE \E s \in Suggestions : wf' = Checkpoint(FinishReview(wf, s, "review"))
      BY <1>4, <2>2, <1>s, <1>c, SoundFinishReview DEF ReadinessDecides, At
    <2> QED
      BY <1>4, <2>1, <2>2 DEF ReadinessDecides
  <1>5. CASE ReadinessReadsGate
    BY <1>5, <1>f DEF ReadinessReadsGate, TypeOK, OwnsRun
  <1>6. CASE GateWaitEnds
    BY <1>6, <1>f, <1>c DEF GateWaitEnds, At
  <1>7. CASE ConfigurationLoaded
    <2> DEFINE v == [wf EXCEPT !.at = "phase", !.phase = 1]
    <2>1. v \in Executions
      BY <1>s, <1>p, <1>q, AtPhase
    <2>2. v.at = "phase" /\ v.phase = 1 /\ v.run = wf.run /\ v.state = wf.state
      BY <1>s DEF Executions
    <2>3. Sound(v)
      BY <2>1, <2>2, <1>s, <1>h DEF Sound
    <2> QED
      BY <1>7, <2>3, <1>c DEF ConfigurationLoaded, At
  <1>8. CASE PhaseCompletes
    <2>0. wf.at = "phase" /\ wf.state = "running" /\ wf.phase \in 1..PhaseCount
      BY <1>8, <1>s DEF PhaseCompletes, PhaseEffect, At, Sound
    <2> DEFINE u == [wf EXCEPT !.phase = wf.phase + 1]
               v == [wf EXCEPT !.phase = 0, !.at = "publish"]
    <2>1. ASSUME wf.phase < PhaseCount PROVE Sound(u)
      <3>1. u \in Executions
        BY <1>s, <2>0, <2>1 DEF Executions
      <3>2. u.at = "phase" /\ u.phase = wf.phase + 1 /\ u.run = wf.run /\ u.state = wf.state
        BY <1>s, <2>0 DEF Executions
      <3> QED
        BY <1>s, <1>h, <2>0, <2>1, <3>1, <3>2 DEF Sound
    <2>2. Sound(v)
      <3>1. v \in Executions
        BY <1>s, <1>p, <1>q, AtPhase
      <3>2. v.at = "publish" /\ v.run = wf.run /\ v.state = wf.state
        BY <1>s DEF Executions
      <3> QED
        BY <1>s, <1>h, <3>1, <3>2 DEF Sound
    <2> QED
      BY <1>8, <2>0, <2>1, <2>2, <1>c DEF PhaseCompletes
  <1>9. ASSUME NEW s \in Suggestions, Publish(s) PROVE OwnsRun'
    <2> DEFINE v == [wf EXCEPT !.at = "publish_project", !.sugg = s]
    <2>1. v \in Executions
      BY <1>s, <1>p, AtSugg
    <2>2. v.at = "publish_project" /\ v.sugg = s /\ v.run = wf.run /\ v.state = wf.state
      BY <1>s DEF Executions
    <2> QED
      BY <1>9, <2>1, <2>2, <1>s DEF Publish, Sound, OwnsRun
  <1>10. CASE ReviewWaitEnds
    <2>1. wf.sugg \in Suggestions
      BY <1>10, <1>s, <1>h DEF ReviewWaitEnds, At, Sound
    <2> QED
      BY <1>10, <2>1, <1>s, <1>c, SoundFinishReview DEF ReviewWaitEnds, At
  <1>11. CASE CommitBegins \/ CommitRefused \/ CommitPatches
    BY <1>11, <1>g, <1>h DEF CommitBegins, CommitRefused, CommitPatches, At, OwnsRun
  <1>12. CASE CommitFails
    BY <1>12, <1>a DEF CommitFails, OwnsRun
  <1>13. CASE ReviewFinishes \/ RunFails \/ ActivityRefused
    BY <1>13, SoundStarts DEF ReviewFinishes, RunFails, ActivityRefused, OwnsRun
  <1>14. CASE Supersede
    <2>0. wf.at = "supersede" /\ wf.over \in Runs /\ wf.next \in Runs /\ wf.state = "running"
      BY <1>14, <1>s DEF Supersede, SupersedeEffect, At, Sound
    <2> DEFINE v == [wf EXCEPT !.over = wf.next, !.next = wf.force, !.force = 0]
    <2>1. ASSUME wf.force > wf.next PROVE Sound(v)
      <3>1. wf.force \in Runs /\ wf.next \in 0..MaxRuns /\ wf.force \in 0..MaxRuns /\ 0 \in 0..MaxRuns
        BY <1>s, <2>0, <2>1 DEF Executions, Runs
      <3>2. v \in Executions
        BY <1>s, <1>p, <3>1, AtOver
      <3>3. v.at = "supersede" /\ v.over = wf.next /\ v.next = wf.force /\ v.run = wf.run
        BY <1>s, <2>0 DEF Executions
      <3> QED
        BY <1>s, <1>h, <2>0, <3>1, <3>2, <3>3 DEF Sound
    <2> QED
      BY <1>14, <2>0, <2>1, SoundStarts DEF Supersede, OwnsRun
  <1>15. CASE ReadinessProjects
    <2>1. wf.seen \in BOOLEAN
      BY <1>s DEF Executions
    <2> QED
      BY <1>15, <2>1, <1>f, <1>c DEF ReadinessProjects, ReadinessEffect, At
  <1>16. CASE PublishProjects
    <2>1. wf.sugg \in Suggestions /\ wf.state = "running"
      BY <1>16, <1>s, <1>h DEF PublishProjects, ProjectionEffect, At, Sound
    <2> QED
      BY <1>16, <2>1, <1>s, SoundFinishReview DEF PublishProjects, OwnsRun
  <1>17. CASE CommitFinishes
    BY <1>17, <1>g, <1>h DEF CommitFinishes, CommitEffect, At, OwnsRun
  <1>18. CASE AttemptAborted \/ CompletionLost
    BY <1>18, <1>n DEF AttemptAborted, CompletionLost, OwnsRun
  <1>19. CASE ActivityExhausted
    BY <1>19, <1>a, <1>g, <1>h, SoundStarts
       DEF ActivityExhausted, CommitSteps, PublishSteps, OwnsRun
  <1>20. CASE wf' = wf
    BY <1>20 DEF OwnsRun
  <1>21. CASE Laravel \/ JobControl \/ Embedding
    BY <1>20, <1>21
       DEF Laravel, JobControl, Embedding, StartFirst, ForceFromReview, ForceFromClassify,
           ForceFromMaintenance, InsertPlaceholder, MarksStale, Accept, Reject, AdminChecks, AdminWrites,
           ScanFinds, ScanReleases, CloseGate, FinishBuild
  <1>22. ASSUME NEW k \in Keys, DeadLetter(k) PROVE OwnsRun'
    BY <1>20, <1>22 DEF DeadLetter
  <1> QED
    BY <1>2, <1>3, <1>4, <1>5, <1>6, <1>7, <1>8, <1>9, <1>10, <1>11, <1>12, <1>13, <1>14, <1>15,
       <1>16, <1>17, <1>18, <1>19, <1>20, <1>21, <1>22
       DEF Next, Relay, Progress, Readiness, LastTransaction, Trouble, vars

-----------------------------------------------------------------------------
\* The remaining variables.
LEMMA OtherTypes ==
  ASSUME TypeOK, OwnsRun, [Next]_vars
  PROVE  /\ owed' \subseteq Runs
         /\ gate' \in [open : BOOLEAN, build : 0..MaxBuilds]
         /\ admin' \in [op : {"none", "cancel", "retry", "finalize", "release"}, run : 0..MaxRuns,
                        used : 0..MaxAdminActions]
         /\ patched' \subseteq Suggestions
  <1>t. /\ owed \subseteq Runs /\ patched \subseteq Suggestions
        /\ gate \in [open : BOOLEAN, build : 0..MaxBuilds]
        /\ admin \in [op : {"none", "cancel", "retry", "finalize", "release"}, run : 0..MaxRuns,
                      used : 0..MaxAdminActions]
    BY DEF TypeOK
  <1>p. patched' \subseteq Suggestions
    BY <1>t, PatchedGrows DEF CommitPatches, At, OwnsRun, Sound, HoldingPlaces, CommitSteps
  <1>1. CASE UNCHANGED <<owed, gate, admin>>
    BY <1>t, <1>p, <1>1
  <1>2. CASE Laravel
    BY <1>t, <1>p, <1>2 DEF Laravel, StartFirst, ForceFromReview, ForceFromClassify,
                ForceFromMaintenance, InsertPlaceholder, MarksStale, Accept, Reject
  <1>3. CASE JobControl
    <2> DEFINE NewAdmin == admin' \in [op : {"none", "cancel", "retry", "finalize", "release"},
                                       run : 0..MaxRuns, used : 0..MaxAdminActions]
    <2>0. Runs \subseteq 0..MaxRuns /\ 0 \in 0..MaxRuns
      BY LifecycleAssumption DEF Runs
    <2>1. ASSUME NEW r \in Runs, NEW op \in {"cancel", "retry", "finalize"}, AdminChecks(op, r)
          PROVE  NewAdmin
      BY <1>t, <2>0, <2>1, LifecycleAssumption DEF AdminChecks
    <2>2. \A op \in {"none", "release"}, r \in 0..MaxRuns :
            [admin EXCEPT !.op = op, !.run = r]
              \in [op : {"none", "cancel", "retry", "finalize", "release"}, run : 0..MaxRuns,
                   used : 0..MaxAdminActions]
      BY <1>t, Zenon
    <2>3. ASSUME NEW r \in Runs, AdminWrites(r) \/ ScanFinds(r) \/ ScanReleases(r) PROVE NewAdmin
      BY <2>0, <2>2, <2>3 DEF AdminWrites, ScanFinds, ScanReleases
    <2>4. UNCHANGED <<owed, gate>>
      BY <1>3 DEF JobControl, AdminChecks, AdminWrites, ScanFinds, ScanReleases
    <2> QED
      BY <1>t, <1>p, <1>3, <2>1, <2>3, <2>4 DEF JobControl
  <1>4. CASE Embedding
    <2>1. UNCHANGED <<owed, admin>>
      BY <1>4 DEF Embedding, CloseGate, FinishBuild
    <2>2. CASE CloseGate
      BY <1>t, <1>p, <2>1, <2>2 DEF CloseGate
    <2>3. CASE FinishBuild
      <3>1. gate.build + 1 \in 0..MaxBuilds /\ gate' = [open |-> TRUE, build |-> gate.build + 1]
        BY <1>t, <2>3, LifecycleAssumption DEF FinishBuild
      <3> QED
        BY <1>t, <1>p, <2>1, <3>1
    <2> QED
      BY <1>4, <2>2, <2>3 DEF Embedding
  <1>5. CASE Relay
    BY <1>1, <1>5 DEF Relay, Deliver, DeadLetter
  <1>6. CASE Progress
    BY <1>1, <1>6
       DEF Progress, Readiness, Begin, ReadinessDecides, ReadinessReadsGate, GateWaitEnds,
           ConfigurationLoaded, PhaseCompletes, PhaseEffect, Publish, ReviewWaitEnds, CommitBegins,
           CommitRefused, CommitPatches, CommitFails, CommitFailEffect, ReviewFinishes,
           FinishEffect, RunFails, RunFailEffect, Supersede, SupersedeEffect, ActivityRefused
  <1>7. CASE LastTransaction
    BY <1>1, <1>7 DEF LastTransaction, ReadinessProjects, ReadinessEffect, PublishProjects,
                ProjectionEffect, CommitFinishes, CommitEffect
  <1>8. CASE Trouble
    BY <1>1, <1>8 DEF Trouble, AttemptAborted, CompletionLost, ActivityExhausted, ReadinessEffect,
                PhaseEffect, ProjectionEffect, CommitEffect, CommitFailEffect, FinishEffect,
                RunFailEffect, SupersedeEffect
  <1>9. CASE UNCHANGED vars
    BY <1>1, <1>9 DEF vars
  <1> QED
    BY <1>2, <1>3, <1>4, <1>5, <1>6, <1>7, <1>8, <1>9 DEF Next

\* All of them together.
LEMMA TypeStep ==
  ASSUME TypeOK, OwnsRun, [Next]_vars
  PROVE  TypeOK'
  <1>1. wf' \in Executions
    BY SoundStep DEF OwnsRun, Sound, Executions, Places, Suggestions
  <1>2. outbox' \in [Keys -> {"absent", "open", "delivered", "dead_letter"}]
    BY OutboxGrows
  <1>3. run' \in [Runs -> RunRows] /\ sugg' \in [Suggestions -> SuggestionRows]
    BY RunType, SuggType
  <1> QED
    BY <1>1, <1>2, <1>3, OtherTypes DEF TypeOK

\* Nothing a controller, the relay, the job control, the recovery scan, the
\* embedding build or the workflow writes leaves the tables or the workflow's own
\* state ill-typed.
THEOREM TypeCorrect == Spec => []TypeOK
  <1>1. Init => TypeOK /\ OwnsRun
    <2> SUFFICES ASSUME Init PROVE TypeOK /\ OwnsRun
      OBVIOUS
    <2>1. wf = Closed("none") /\ wf.state = "none" /\ wf.at = "none"
      BY DEF Init, Closed
    <2>2. OwnsRun /\ wf \in Executions
      BY <2>1, ClosedFacts DEF OwnsRun, Sound, HoldingPlaces, CommitSteps
    <2>3. NoRun \in RunRows
      BY LifecycleAssumption DEF NoRun, RunRows, RunStatuses, Stages
    <2>4. NoSuggestion \in SuggestionRows
      BY LifecycleAssumption DEF NoSuggestion, SuggestionRows
    <2> QED
      BY <2>2, <2>3, <2>4, LifecycleAssumption DEF Init, TypeOK
  <1>2. TypeOK /\ OwnsRun /\ [Next]_vars => (TypeOK /\ OwnsRun)'
    BY TypeStep, SoundStep
  <1> QED
    BY <1>1, <1>2, PTL DEF Spec
=============================================================================
