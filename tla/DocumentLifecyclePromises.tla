-------------------- MODULE DocumentLifecyclePromises --------------------
(***************************************************************************)
(* What a document's lifecycle promises to those who read its rows.        *)
(*                                                                         *)
(* It implements ReviewPromise.  Under the mapping of the module, a step   *)
(* of any actor is a step of the promise or a stutter: it writes one row   *)
(* as the promise allows (PromiseWrite), withdraws the open rows of a      *)
(* superseded generation (PromiseWithdrawn), or reaches Paperless for a    *)
(* suggestion that was accepted.  The invariant of DocumentLifecycleProofs *)
(* supplies what the code does not look at again: that a commit is         *)
(* reported done after its PATCH, and that no report is overwritten by     *)
(* another unless the suggestion is stale.                                 *)
(*                                                                         *)
(* And a settled generation rests.  A row whose stage is terminal has a    *)
(* terminal status (StageFits), so whoever looks at the status before      *)
(* writing leaves it alone; and where the workflow writes without looking, *)
(* its generation is not settled (WorksUnsettled), because it looked under *)
(* the row lock when it came there and only it can settle the row.         *)
(*                                                                         *)
(* A cancellation, which the documents call final, does not rest: it       *)
(* yields to three projections of the workflow, and to nothing else that   *)
(* runs by itself (CancellationYieldsToThree).                             *)
(***************************************************************************)
EXTENDS DocumentLifecycleProofs

-----------------------------------------------------------------------------
(* The review promise.                                                     *)

\* The mapping.
ReportOf(row) ==
  CASE row.command \in {"queued", "running"} -> "open"
    [] row.command = "failed_permanent" -> "failed"
    [] OTHER -> row.command
Verdict == [s \in Suggestions |-> sugg[s].status]
Report == [s \in Suggestions |-> ReportOf(sugg[s])]

\* A write of one row is a step of the promise, or a stutter.
LEMMA PromiseWrite ==
  ASSUME sugg \in [Suggestions -> SuggestionRows],
         NEW s \in Suggestions, NEW row, sugg' = [sugg EXCEPT ![s] = row], UNCHANGED patched,
         \/ row.status = sugg[s].status /\ ReportOf(row) = ReportOf(sugg[s])
         \/ /\ ReportOf(row) = ReportOf(sugg[s])
            /\ \/ sugg[s].status = "absent" /\ row.status = "pending"
               \/ sugg[s].status = "pending" /\ row.status = "rejected"
               \/ sugg[s].status # "absent" /\ row.status = "stale"
         \/ sugg[s].status = "pending" /\ row.status = "accepted" /\ ReportOf(row) = "open"
         \/ /\ row.status = sugg[s].status /\ ReportOf(sugg[s]) = "open"
            /\ \/ ReportOf(row) = "failed"
               \/ ReportOf(row) = "succeeded" /\ s \in patched
         \/ /\ row.status = sugg[s].status /\ sugg[s].status = "stale"
            /\ ReportOf(sugg[s]) = "succeeded" /\ ReportOf(row) = "failed"
  PROVE  [Promise!ReviewNext]_(Promise!reviewVars)
  <1>1. Verdict' = [Verdict EXCEPT ![s] = row.status]
    BY DEF Verdict
  <1>2. Report' = [Report EXCEPT ![s] = ReportOf(row)]
    BY DEF Report, ReportOf
  <1>3. Verdict[s] = sugg[s].status /\ Report[s] = ReportOf(sugg[s])
    BY DEF Verdict, Report
  <1>4. Verdict = [t \in Suggestions |-> Verdict[t]] /\ Report = [t \in Suggestions |-> Report[t]]
    BY DEF Verdict, Report
  <1>5. CASE row.status = sugg[s].status /\ ReportOf(row) = ReportOf(sugg[s])
    <2>1. Verdict' = Verdict /\ Report' = Report
      BY <1>1, <1>2, <1>3, <1>4, <1>5
    <2> QED
      BY <2>1 DEF Promise!reviewVars, Verdict, Report, ReportOf
  <1>6. CASE ReportOf(row) = ReportOf(sugg[s]) /\ row.status # sugg[s].status
    <2>1. Report' = Report
      BY <1>2, <1>3, <1>4, <1>6
    <2>2. CASE sugg[s].status = "absent" /\ row.status = "pending"
      <3>1. Promise!Suggested(s)
        BY <1>1, <1>3, <2>1, <2>2 DEF Promise!Suggested, Verdict, Report, ReportOf
      <3> QED
        BY <3>1 DEF Promise!ReviewNext
    <2>3. CASE sugg[s].status = "pending" /\ row.status = "rejected"
      <3>1. Promise!Rejected(s)
        BY <1>1, <1>3, <2>1, <2>3 DEF Promise!Rejected, Verdict, Report, ReportOf
      <3> QED
        BY <3>1 DEF Promise!ReviewNext
    <2>4. CASE sugg[s].status # "absent" /\ row.status = "stale"
      <3>1. Promise!Outdated(s)
        BY <1>1, <1>3, <2>1, <2>4 DEF Promise!Outdated, Verdict, Report, ReportOf
      <3> QED
        BY <3>1 DEF Promise!ReviewNext
    <2>5. CASE sugg[s].status = "pending" /\ row.status = "accepted" /\ ReportOf(row) = "open"
      <3>1. Promise!Accepted(s)
        BY <1>1, <1>2, <1>3, <2>5 DEF Promise!Accepted, Verdict, Report, ReportOf
      <3> QED
        BY <3>1 DEF Promise!ReviewNext
    <2> QED
      BY <1>6, <2>2, <2>3, <2>4, <2>5
  <1>7. CASE sugg[s].status = "pending" /\ row.status = "accepted" /\ ReportOf(row) = "open"
    <2>1. Promise!Accepted(s)
      BY <1>1, <1>2, <1>3, <1>7 DEF Promise!Accepted, Verdict, Report, ReportOf
    <2> QED
      BY <2>1 DEF Promise!ReviewNext
  <1>8. CASE row.status = sugg[s].status /\ ReportOf(sugg[s]) = "open" /\ ReportOf(row) \in {"failed", "succeeded"}
               /\ (ReportOf(row) = "succeeded" => s \in patched)
    <2>1. Verdict' = Verdict
      BY <1>1, <1>3, <1>4, <1>8
    <2>2. CASE ReportOf(row) = "failed"
      <3>1. Promise!ReportedFailed(s)
        BY <1>2, <1>3, <1>8, <2>1, <2>2 DEF Promise!ReportedFailed, Verdict, Report, ReportOf
      <3> QED
        BY <3>1 DEF Promise!ReviewNext
    <2>3. CASE ReportOf(row) = "succeeded"
      <3>1. Promise!ReportedDone(s)
        BY <1>2, <1>3, <1>8, <2>1, <2>3 DEF Promise!ReportedDone, Verdict, Report, ReportOf
      <3> QED
        BY <3>1 DEF Promise!ReviewNext
    <2> QED
      BY <1>8, <2>2, <2>3
  <1>9. CASE row.status = sugg[s].status /\ sugg[s].status = "stale" /\ ReportOf(sugg[s]) = "succeeded"
               /\ ReportOf(row) = "failed"
    <2>1. Verdict' = Verdict
      BY <1>1, <1>3, <1>4, <1>9
    <2>2. Promise!ReportedFailed(s)
      BY <1>2, <1>3, <1>9, <2>1 DEF Promise!ReportedFailed, Verdict, Report, ReportOf
    <2> QED
      BY <2>2 DEF Promise!ReviewNext
  <1> QED
    BY <1>5, <1>6, <1>7, <1>8, <1>9

\* So is the withdrawal of some open rows,
LEMMA PromiseWithdrawn ==
  ASSUME NEW open \in SUBSET Suggestions, \A s \in open : sugg[s].status = "pending",
         UNCHANGED patched,
         \A s \in Suggestions : /\ sugg'[s].status = IF s \in open THEN "stale" ELSE sugg[s].status
                                /\ sugg'[s].command = sugg[s].command
  PROVE  Promise!ReviewNext
  <1>1. Promise!Withdrawn(open)
    BY DEF Promise!Withdrawn
  <1> QED
    BY <1>1 DEF Promise!ReviewNext

\* ... and every step of the lifecycle.
LEMMA PromiseStep ==
  ASSUME Inductive, [Next]_vars
  PROVE  [Promise!ReviewNext]_(Promise!reviewVars)
  <1>t. sugg \in [Suggestions -> SuggestionRows] /\ sugg' \in [Suggestions -> SuggestionRows]
    BY SuggType DEF Inductive, TypeOK
  <1>i. OwnsRun /\ Carries(wf) /\ RowInv
    BY DEF Inductive
  <1>p. UNCHANGED patched \/ (CommitPatches /\ UNCHANGED sugg)
    BY PatchedGrows DEF CommitPatches
  <1>1. CASE UNCHANGED sugg /\ UNCHANGED patched
    BY <1>1 DEF Promise!reviewVars
  <1>2. CASE CommitPatches
    <2>1. wf.sugg \in Suggestions /\ sugg[wf.sugg].status \in {"accepted", "stale"} /\ sugg[wf.sugg].command = "running"
      BY <1>2, <1>i DEF CommitPatches, At, Carries, OwnsRun, Sound, HoldingPlaces, CommitPlaces, CommitSteps,
                        RowInv, AcceptedHasCommand
    <2>2. Promise!Written(wf.sugg)
      BY <1>2, <2>1 DEF CommitPatches, Promise!Written
    <2> QED
      BY <2>1, <2>2 DEF Promise!ReviewNext
  <1> DEFINE Goal == [Promise!ReviewNext]_(Promise!reviewVars)
  <1>w. ASSUME NEW s \in Suggestions, NEW row, sugg' = [sugg EXCEPT ![s] = row], UNCHANGED patched,
               row.command = sugg[s].command,
               \/ row.status = sugg[s].status
               \/ sugg[s].status = "absent" /\ row.status = "pending"
               \/ sugg[s].status = "pending" /\ row.status = "rejected"
               \/ sugg[s].status # "absent" /\ row.status = "stale"
        PROVE  Goal
    <2>1. ReportOf(row) = ReportOf(sugg[s])
      BY <1>w DEF ReportOf
    <2> QED
      BY <1>t, <1>w, <2>1, PromiseWrite
  <1>3. ASSUME NEW r \in Runs, NEW s \in Suggestions, ForceFromReview(r, s) PROVE Goal
    <2> DEFINE row == [sugg[s] EXCEPT !.status = IF @ = "pending" THEN "stale" ELSE @]
    <2>1. sugg' = [sugg EXCEPT ![s] = row] /\ UNCHANGED patched
      BY <1>t, <1>3 DEF ForceFromReview
    <2>2. row.command = sugg[s].command /\ row.status = IF sugg[s].status = "pending" THEN "stale" ELSE sugg[s].status
      BY <1>t DEF SuggestionRows
    <2> HIDE DEF row
    <2> QED
      BY <1>w, <2>1, <2>2
  <1>4. ASSUME NEW r, NEW b, NEW s \in Suggestions, NewRow(s), UNCHANGED patched,
               sugg' = [sugg EXCEPT ![s] = PendingRow(r, b)]
        PROVE  Goal
    <2>1. sugg[s].status = "absent" /\ sugg[s].command = "none"
      BY <1>4, <1>i DEF NewRow, Absent, RowInv, AbsentRowsAreEmpty, NoSuggestion
    <2> DEFINE row == PendingRow(r, b)
    <2>2. /\ row.command = sugg[s].command /\ row.status = "pending"
          /\ sugg' = [sugg EXCEPT ![s] = row] /\ UNCHANGED patched
      BY <1>4, <2>1, PendingRowFacts
    <2> HIDE DEF row
    <2> QED
      BY <1>w, <2>1, <2>2
  <1>5. ASSUME NEW s \in Suggestions, Accept(s) PROVE Goal
    <2> DEFINE row == [Reported(s, "queued", "queued") EXCEPT !.status = "accepted"]
    <2>1. sugg' = [sugg EXCEPT ![s] = row] /\ UNCHANGED patched /\ sugg[s].status = "pending"
      BY <1>5 DEF Accept
    <2>2. row.command = "queued" /\ row.status = "accepted"
      BY DEF Reported
    <2> HIDE DEF row
    <2>3. ReportOf(row) = "open"
      BY <2>2 DEF ReportOf
    <2> QED
      BY <1>t, <2>1, <2>2, <2>3, PromiseWrite
  <1>6. ASSUME NEW s \in Suggestions, Reject(s) PROVE Goal
    <2> DEFINE row == [sugg[s] EXCEPT !.status = "rejected"]
    <2>1. sugg' = [sugg EXCEPT ![s] = row] /\ UNCHANGED patched /\ sugg[s].status = "pending"
      BY <1>6 DEF Reject
    <2>2. row.command = sugg[s].command /\ row.status = "rejected"
      BY <1>t DEF SuggestionRows
    <2> HIDE DEF row
    <2> QED
      BY <1>w, <2>1, <2>2
  <1>15. ASSUME NEW s \in Suggestions, MarksStale(s) PROVE Goal
    <2> DEFINE row == [sugg[s] EXCEPT !.status = "stale"]
    <2>1. sugg' = [sugg EXCEPT ![s] = row] /\ UNCHANGED patched /\ sugg[s].status # "absent"
      BY <1>15 DEF MarksStale, Absent
    <2>2. row.command = sugg[s].command /\ row.status = "stale"
      BY <1>t DEF SuggestionRows
    <2> HIDE DEF row
    <2> QED
      BY <1>w, <2>1, <2>2
  <1>7. ASSUME NEW k \in Keys, DeadLetter(k) PROVE Goal
    <2>1. CASE k[1] = "decision" /\ sugg[k[2]].command # "none"
      <3> DEFINE s == k[2]
                 row == DecisionLost(s)
      <3>1. s \in Suggestions /\ sugg' = [sugg EXCEPT ![s] = row] /\ UNCHANGED patched
        BY <1>7, <2>1, KeyFacts DEF DeadLetter
      <3>2. /\ row.status = sugg[s].status
            /\ row.command = IF sugg[s].command = "queued" THEN "failed_permanent" ELSE sugg[s].command
        BY ReportedRowFacts DEF DecisionLost
      <3> HIDE DEF row
      <3>3. CASE sugg[s].command = "queued"
        <4>1. ReportOf(sugg[s]) = "open" /\ ReportOf(row) = "failed"
          BY <3>2, <3>3 DEF ReportOf
        <4> QED
          BY <1>t, <3>1, <3>2, <4>1, PromiseWrite
      <3>4. CASE sugg[s].command # "queued"
        BY <1>w, <3>1, <3>2, <3>4
      <3> QED
        BY <3>3, <3>4
    <2>2. CASE ~(k[1] = "decision" /\ sugg[k[2]].command # "none")
      BY <1>1, <1>7, <2>2 DEF DeadLetter
    <2> QED
      BY <2>1, <2>2
  \* The workflow's reports on a suggestion that was accepted.
  <1>o. ASSUME wf.at \in CommitPlaces, wf.state = "running"
        PROVE  /\ wf.sugg \in Suggestions /\ sugg[wf.sugg].status \in {"accepted", "stale"}
               /\ sugg[wf.sugg].command \in {"queued", "running", "succeeded", "failed_permanent"}
    <2>1. wf.sugg \in Suggestions /\ sugg[wf.sugg].command # "none"
      BY <1>o, <1>i DEF Carries, OwnsRun, Sound, HoldingPlaces, CommitPlaces
    <2> QED
      BY <1>t, <1>i, <2>1 DEF RowInv, AcceptedHasCommand, SuggestionRows
  <1>8. CASE CommitBegins
    <2>1. wf.at \in CommitPlaces /\ wf.state = "running" /\ UNCHANGED patched
      BY <1>8 DEF CommitBegins, At, CommitPlaces, CommitSteps
    <2>2. CASE /\ sugg[wf.sugg].status = "accepted"
               /\ sugg[wf.sugg].command # "failed_permanent"
               /\ ~(sugg[wf.sugg].commit = "committed" /\ sugg[wf.sugg].command = "succeeded")
               /\ sugg' = [sugg EXCEPT ![wf.sugg] = Reported(wf.sugg, "running", "running")]
      <3>1. sugg[wf.sugg].command \in {"queued", "running"}
        BY <1>i, <1>o, <2>1, <2>2 DEF RowInv, CommitAndCommandAgree
      <3> DEFINE row == Reported(wf.sugg, "running", "running")
      <3>2. ReportOf(row) = "open" /\ ReportOf(sugg[wf.sugg]) = "open" /\ row.status = sugg[wf.sugg].status
        BY <3>1, ReportedRowFacts DEF ReportOf
      <3>3. sugg' = [sugg EXCEPT ![wf.sugg] = row]
        BY <2>2
      <3> HIDE DEF row
      <3> QED
        BY <1>t, <1>o, <2>1, <3>2, <3>3, PromiseWrite
    <2> QED
      BY <1>1, <1>8, <2>1, <2>2 DEF CommitBegins
  <1>9. CASE CommitEffect
    <2>1. wf.at \in CommitPlaces /\ wf.state = "running" /\ wf.at = "commit_finish" /\ UNCHANGED patched
      BY <1>9 DEF CommitEffect, At, CommitPlaces, CommitSteps
    <2> DEFINE row == Reported(wf.sugg, IF sugg[wf.sugg].status = "accepted" THEN "committed"
                                        ELSE sugg[wf.sugg].commit, "succeeded")
    <2>2. sugg' = [sugg EXCEPT ![wf.sugg] = row]
      BY <1>9, <2>1 DEF CommitEffect
    <2>3. sugg[wf.sugg].command = "running" /\ wf.sugg \in patched
      BY <1>i, <2>1 DEF Carries
    <2>4. ReportOf(row) = "succeeded" /\ ReportOf(sugg[wf.sugg]) = "open" /\ row.status = sugg[wf.sugg].status
      BY <2>3, ReportedRowFacts DEF ReportOf
    <2> HIDE DEF row
    <2> QED
      BY <1>t, <1>o, <2>1, <2>2, <2>3, <2>4, PromiseWrite
  <1>10. CASE CommitFailEffect
    <2>1. wf.at \in CommitPlaces /\ wf.state = "running" /\ UNCHANGED patched
      BY <1>10 DEF CommitFailEffect, At, CommitPlaces
    <2>2. CASE sugg[wf.sugg].commit # "committed"
      <3> DEFINE row == Reported(wf.sugg, "failed", "failed_permanent")
      <3>1. sugg' = [sugg EXCEPT ![wf.sugg] = row]
        BY <1>10, <2>2 DEF CommitFailEffect
      <3>2. sugg[wf.sugg].command = "succeeded" => sugg[wf.sugg].status = "stale"
        BY <1>i, <1>o, <2>1, <2>2 DEF RowInv, CommitAndCommandAgree
      <3>3. /\ ReportOf(row) = "failed" /\ row.status = sugg[wf.sugg].status
            /\ \/ ReportOf(sugg[wf.sugg]) \in {"open", "failed"}
               \/ ReportOf(sugg[wf.sugg]) = "succeeded" /\ sugg[wf.sugg].status = "stale"
        BY <1>o, <2>1, <3>2, ReportedRowFacts DEF ReportOf
      <3> HIDE DEF row
      <3> QED
        BY <1>t, <1>o, <2>1, <3>1, <3>3, PromiseWrite
    <2> QED
      BY <1>1, <1>10, <2>1, <2>2 DEF CommitFailEffect
  <1>11. CASE SupersedeEffect
    <2> DEFINE open == {s \in Suggestions : sugg[s].run = wf.over /\ sugg[s].status = "pending"}
    <2>1. CASE sugg' = [s \in Suggestions |->
                          IF sugg[s].run = wf.over /\ sugg[s].status = "pending"
                          THEN [sugg[s] EXCEPT !.status = "stale"] ELSE sugg[s]]
      <3>1. \A s \in Suggestions : [sugg[s] EXCEPT !.status = "stale"].status = "stale"
              /\ [sugg[s] EXCEPT !.status = "stale"].command = sugg[s].command
        BY <1>t DEF SuggestionRows
      <3>2. \A s \in Suggestions : /\ sugg'[s].status = IF s \in open THEN "stale" ELSE sugg[s].status
                                   /\ sugg'[s].command = sugg[s].command
        BY <2>1, <3>1
      <3>3. open \in SUBSET Suggestions /\ UNCHANGED patched /\ \A s \in open : sugg[s].status = "pending"
        BY <1>11 DEF SupersedeEffect
      <3> QED
        BY <3>2, <3>3, PromiseWithdrawn
    <2> QED
      BY <1>1, <1>11, <2>1 DEF SupersedeEffect
  <1>12. CASE UNCHANGED sugg
    BY <1>1, <1>2, <1>12, <1>p
  <1>13. ASSUME NEW r \in Runs, NEW s \in Suggestions, InsertPlaceholder(r, s) PROVE Goal
    BY <1>4, <1>13 DEF InsertPlaceholder
  <1>14. ASSUME NEW s \in Suggestions, Publish(s) PROVE Goal
    BY <1>4, <1>12, <1>14 DEF Publish
  <1> QED
    BY <1>3, <1>5, <1>6, <1>7, <1>8, <1>9, <1>10, <1>11, <1>12, <1>13, <1>14, <1>15, SuggWriters
       DEF WorkflowWritesSugg

\* Reviewers get what ReviewPromise says, for every number of generations, under
\* retries, lost completions, dead letters, redelivered signals and replacements
\* (ReviewSuggestionController.php 351-389 and 498-520, review_activities.py 44-255).
THEOREM KeepsPromise == Spec => KeepsReviewPromise
  <1>1. Init => Promise!ReviewInit
    BY DEF Init, Promise!ReviewInit, NoSuggestion
  <1>2. Inductive /\ [Next]_vars => [Promise!ReviewNext]_(Promise!reviewVars)
    BY PromiseStep
  <1> QED
    BY <1>1, <1>2, Invariance, PTL DEF Spec, KeepsReviewPromise, Promise!ReviewSpec

-----------------------------------------------------------------------------
(* A settled generation rests.                                             *)

\* Between the look at the index and the last write to its run.
Working == {"config", "phase", "publish", "publish_project", "review", "fail_commit", "fail_run"}
             \cup CommitSteps
Over == {"succeeded", "cancelled", "cancel_requested"}

\* A terminal stage has a terminal status, or a late cancellation over it.
StageFits == \A r \in Runs : run[r].stage \in {"done", "superseded"} => run[r].status \in Over
\* The workflow works on a generation that is not settled.
WorksUnsettled ==
  /\ wf.at = "locked" => run[wf.run].status \notin Over
  /\ wf.at \in Working => ~Settled(wf.run)

\* How the workflow gets to the places where it writes its run.
LEMMA WaysToWork ==
  ASSUME TypeOK, OwnsRun, [Next]_vars, wf'.at \in Working \cup {"locked"}
  PROVE  /\ wf'.run = wf.run
         /\ \/ /\ wf.at = "check" /\ wf'.at \in Working
               /\ UNCHANGED run /\ run[wf.run].status = "running"
            \/ /\ wf.at = "check" /\ wf'.at = "locked"
               /\ UNCHANGED run /\ run[wf.run].status \notin Over
            \/ wf.at = "locked" /\ wf'.at # "locked" /\ ReadinessEffect
            \/ wf.at = "locked" /\ wf'.at = "locked" /\ (UNCHANGED run \/ wf' = wf)
            \/ wf.at \in Working /\ wf'.at \in Working
  <1> DEFINE Goal == /\ wf'.run = wf.run
                     /\ \/ /\ wf.at = "check" /\ wf'.at \in Working
                           /\ UNCHANGED run /\ run[wf.run].status = "running"
                        \/ /\ wf.at = "check" /\ wf'.at = "locked"
                           /\ UNCHANGED run /\ run[wf.run].status \notin Over
                        \/ wf.at = "locked" /\ wf'.at # "locked" /\ ReadinessEffect
                        \/ wf.at = "locked" /\ wf'.at = "locked" /\ (UNCHANGED run \/ wf' = wf)
                        \/ wf.at \in Working /\ wf'.at \in Working
  <1>s. Sound(wf) /\ wf \in Executions
    BY DEF OwnsRun, Sound
  <1>h. /\ Working = {"config", "phase", "publish", "publish_project", "review", "fail_commit", "fail_run",
                      "commit_begin", "commit_patch", "commit_finish"}
        /\ CommitSteps = {"commit_begin", "commit_patch", "commit_finish"}
        /\ PublishSteps = {"publish", "publish_project"}
    BY DEF Working, CommitSteps, PublishSteps
  <1>p. /\ {"check", "locked", "config", "blocked", "phase", "publish", "fail_run", "finish"} \subseteq Places
        /\ {"fail_commit", "commit_begin", "commit_patch", "commit_finish"} \subseteq Places
        /\ 0 \in 0..PhaseCount /\ 1 \in 0..PhaseCount /\ gate.open \in BOOLEAN
    BY PlaceFacts, LifecycleAssumption DEF TypeOK
  \* Only the place matters, and the generation.
  <1>m. ASSUME NEW place \in Places, NEW v, Moved(v, place), wf' = v \/ wf' = Checkpoint(v)
        PROVE  wf'.at = "supersede" \/ (wf'.at = place /\ wf'.run = wf.run)
    <2>1. CASE wf' = v
      BY <1>m, <2>1 DEF Moved
    <2>2. CASE wf' = [v EXCEPT !.force = 0]
      BY <1>m, <2>2 DEF Moved, Executions
    <2>3. CASE wf' = [wf EXCEPT !.at = "supersede", !.over = wf.run, !.next = wf.force, !.force = 0]
      BY <1>s, <2>3 DEF Executions
    <2> QED
      BY <1>m, <2>1, <2>2, <2>3 DEF Checkpoint
  <1>r. ASSUME NEW s \in Suggestions, NEW stuck \in {"review", "wedged"},
               \/ wf' = FinishReview(wf, s, stuck)
               \/ wf' = Checkpoint(FinishReview(wf, s, stuck))
        PROVE  /\ wf'.run = wf.run
               /\ wf'.at \in {"review", "wedged", "finish", "commit_begin", "supersede"}
    <2> DEFINE v == FinishReview(wf, s, stuck)
    <2>1. v \in Executions /\ v.run = wf.run /\ v.at \in {"review", "wedged", "finish", "commit_begin"}
      <3>1. \A place \in {"review", "wedged", "finish", "commit_begin"} :
              /\ [wf EXCEPT !.at = place, !.sugg = s] \in Executions
              /\ [wf EXCEPT !.at = place, !.sugg = s].at = place
              /\ [wf EXCEPT !.at = place, !.sugg = s].run = wf.run
        <4>1. \A place \in {"review", "wedged", "finish", "commit_begin"} : place \in Places
          BY PlaceFacts
        <4>2. \A place \in {"review", "wedged", "finish", "commit_begin"} :
                [wf EXCEPT !.at = place, !.sugg = s] \in Executions
          BY <1>s, <4>1, AtSugg
        <4> QED
          BY <1>s, <4>2 DEF Executions
      <3> QED
        BY <3>1 DEF FinishReview
    <2> HIDE DEF v
    <2>2. CASE wf' = v
      BY <2>1, <2>2
    <2>3. CASE wf' = [v EXCEPT !.force = 0]
      BY <2>1, <2>3 DEF Executions
    <2>4. CASE wf' = [wf EXCEPT !.at = "supersede", !.over = wf.run, !.next = wf.force, !.force = 0]
      BY <1>s, <2>4 DEF Executions
    <2> QED
      BY <1>r, <2>2, <2>3, <2>4 DEF Checkpoint, v
  <1>o. ASSUME \/ wf' = Checkpoint(Closed("completed"))
               \/ \E state \in {"completed", "failed"} : wf' = Closed(state)
               \/ \E r \in Runs : wf' = Started(r)
        PROVE  FALSE
    <2>1. \A state \in {"completed", "failed"} : Closed(state).at = "none"
      BY DEF Closed
    <2>2. \A r \in Runs : Started(r).at = "start"
      BY DEF Started, Closed
    <2>3. [Closed("completed") EXCEPT !.force = 0].at = "none"
      BY DEF Closed
    <2>4. [wf EXCEPT !.at = "supersede", !.over = wf.run, !.next = wf.force, !.force = 0].at = "supersede"
      BY <1>s DEF Executions
    <2> QED
      BY <1>o, <1>h, <2>1, <2>2, <2>3, <2>4 DEF Checkpoint
  <1>1. CASE wf' = wf
    BY <1>1
  <1>2. CASE Laravel \/ JobControl \/ Embedding
    BY <1>1, <1>2
       DEF Laravel, JobControl, Embedding, StartFirst, ForceFromReview, ForceFromClassify,
           ForceFromMaintenance, InsertPlaceholder, MarksStale, Accept, Reject, AdminChecks, AdminWrites,
           ScanFinds, ScanReleases, CloseGate, FinishBuild
  <1>3. ASSUME NEW k \in Keys, Deliver(k) PROVE Goal
    <2>0. wf' = Delivered(k) /\ UNCHANGED run
      BY <1>3 DEF Deliver
    <2>1. CASE k[1] = "embedding_ready" \/ k[1] = "decision" \/ (k[1] = "force" /\ wf.state = "running")
      <3>1. wf'.at = wf.at /\ wf'.run = wf.run
        BY <1>s, <2>0, <2>1 DEF Delivered, Executions
      <3> QED
        BY <2>0, <3>1
    <2>2. CASE k[1] = "document"
      BY <1>1, <1>o, <2>0, <2>2, KeyFacts DEF Delivered
    <2>3. CASE k[1] = "force" /\ wf.state # "running"
      <3>1. Started(k[2]) \in Executions /\ Started(k[2]).at = "start"
        BY <2>3, KeyFacts, StartedFacts DEF Started, Closed
      <3>2. wf' = [Started(k[2]) EXCEPT !.force = k[2]]
        BY <2>0, <2>3 DEF Delivered
      <3>3. wf'.at = "start"
        BY <3>1, <3>2 DEF Executions
      <3> QED
        BY <1>h, <3>3
    <2> QED
      BY <2>1, <2>2, <2>3, KeyFacts
  <1>4. CASE Begin \/ GateWaitEnds
    <2>1. Moved([wf EXCEPT !.at = "check"], "check") /\ Moved([wf EXCEPT !.at = "check", !.ready = FALSE], "check")
      BY <1>s, <1>p, MovedForms
    <2>2. wf'.at \in {"supersede", "check"}
      BY <1>4, <1>m, <1>p, <2>1 DEF Begin, GateWaitEnds
    <2> QED
      BY <1>h, <2>2
  <1>5. CASE ReadinessDecides
    <2>1. ASSUME NEW s \in Suggestions, run[wf.run].status = "running",
                 wf' = Checkpoint(FinishReview(wf, s, "review"))
          PROVE  Goal
      BY <1>5, <1>h, <1>r, <2>1 DEF ReadinessDecides, At
    <2> QED
      BY <1>5, <1>o, <2>1 DEF ReadinessDecides
  <1>6. CASE ReadinessReadsGate
    <2>1. Moved([wf EXCEPT !.at = "locked", !.seen = gate.open], "locked")
      BY <1>s, <1>p, MovedForms
    <2> QED
      BY <1>6, <2>1 DEF ReadinessReadsGate, At, Moved, Over
  <1>7. CASE ReadinessProjects
    <2>1. /\ Moved([wf EXCEPT !.at = "config", !.seen = FALSE], "config")
          /\ Moved([wf EXCEPT !.at = "blocked", !.seen = FALSE], "blocked")
      BY <1>s, <1>p, MovedForms
    <2>2. \/ wf' = Checkpoint([wf EXCEPT !.at = "config", !.seen = FALSE])
          \/ wf' = Checkpoint([wf EXCEPT !.at = "blocked", !.seen = FALSE])
      BY <1>7 DEF ReadinessProjects
    <2>3. wf'.at \in {"supersede", "blocked"} \/ (wf'.at = "config" /\ wf'.run = wf.run)
      BY <1>m, <1>p, <2>1, <2>2
    <2>4. wf.at = "locked" /\ ReadinessEffect
      BY <1>7 DEF ReadinessProjects, ReadinessEffect, At
    <2> QED
      BY <1>h, <2>3, <2>4
  <1>8. CASE ConfigurationLoaded
    <2>1. Moved([wf EXCEPT !.at = "phase", !.phase = 1], "phase")
      BY <1>s, <1>p, MovedForms
    <2>2. wf'.at = "supersede" \/ (wf'.at = "phase" /\ wf'.run = wf.run)
      BY <1>8, <1>m, <1>p, <2>1 DEF ConfigurationLoaded
    <2> QED
      BY <1>8, <1>h, <2>2 DEF ConfigurationLoaded, At
  <1>9. CASE PhaseCompletes
    <2>0. wf.at = "phase" /\ wf.phase \in 1..PhaseCount
      BY <1>9, <1>s DEF PhaseCompletes, PhaseEffect, At, Sound
    <2>1. wf.phase < PhaseCount => Moved([wf EXCEPT !.phase = wf.phase + 1], "phase")
      <3>1. wf.phase < PhaseCount => wf.phase + 1 \in 0..PhaseCount
        BY <2>0, LifecycleAssumption
      <3>2. \A n \in 0..PhaseCount : Moved([wf EXCEPT !.phase = n], "phase")
        BY <1>s, <1>p, <2>0, MovedForms
      <3> QED
        BY <3>1, <3>2
    <2>2. Moved([wf EXCEPT !.phase = 0, !.at = "publish"], "publish")
      BY <1>s, <1>p, MovedForms
    <2>3. wf'.at = "supersede" \/ (wf'.at \in {"phase", "publish"} /\ wf'.run = wf.run)
      BY <1>9, <1>m, <1>p, <2>1, <2>2 DEF PhaseCompletes
    <2> QED
      BY <1>h, <2>0, <2>3
  <1>10. ASSUME NEW s \in Suggestions, Publish(s) PROVE Goal
    <2>1. wf' = [wf EXCEPT !.at = "publish_project", !.sugg = s] /\ wf.at = "publish"
      BY <1>10 DEF Publish, At
    <2>2. wf'.at = "publish_project" /\ wf'.run = wf.run
      BY <1>s, <2>1 DEF Executions
    <2> QED
      BY <1>h, <2>1, <2>2
  <1>11. CASE ReviewWaitEnds \/ PublishProjects
    <2>1. wf.at \in {"review", "publish_project"} /\ wf.sugg \in Suggestions
      BY <1>11, <1>s DEF ReviewWaitEnds, PublishProjects, ProjectionEffect, At, Sound, HoldingPlaces
    <2>2. wf'.run = wf.run /\ wf'.at \in {"review", "wedged", "finish", "commit_begin", "supersede"}
      BY <1>11, <1>r, <2>1 DEF ReviewWaitEnds, PublishProjects
    <2> QED
      BY <1>h, <2>1, <2>2
  <1>12. CASE CommitBegins \/ CommitRefused \/ CommitPatches \/ CommitFinishes \/ CommitFails
    <2>1. \E place \in {"finish", "commit_patch", "commit_finish", "fail_commit", "fail_run"} :
            wf' = [wf EXCEPT !.at = place]
      BY <1>12 DEF CommitBegins, CommitRefused, CommitPatches, CommitFinishes, CommitFails
    <2>2. wf.at \in Working
      BY <1>12, <1>h DEF CommitBegins, CommitRefused, CommitPatches, CommitFinishes, CommitFails,
                         CommitEffect, CommitFailEffect, At
    <2>3. wf'.run = wf.run /\ wf'.at # "locked"
      BY <1>s, <2>1 DEF Executions
    <2> QED
      BY <2>2, <2>3
  <1>13. CASE ReviewFinishes \/ RunFails \/ ActivityRefused
    BY <1>13, <1>o DEF ReviewFinishes, RunFails, ActivityRefused
  <1>14. CASE Supersede
    <2>0. wf.at = "supersede" /\ wf.next \in Runs
      BY <1>14, <1>s DEF Supersede, SupersedeEffect, At, Sound
    <2>1. CASE wf' = [wf EXCEPT !.over = wf.next, !.next = wf.force, !.force = 0]
      <3>1. wf'.at = "supersede"
        BY <1>s, <2>0, <2>1 DEF Executions
      <3> QED
        BY <1>h, <3>1
    <2> QED
      BY <1>14, <1>o, <2>0, <2>1 DEF Supersede
  <1>15. CASE AttemptAborted \/ CompletionLost
    <2> DEFINE place == CASE wf.at = "locked" -> "check"
                          [] wf.at \in PublishSteps -> "publish"
                          [] wf.at \in CommitSteps -> "commit_begin"
                          [] OTHER -> wf.at
    <2>1. wf' = [wf EXCEPT !.seen = FALSE, !.at = place]
      BY <1>15 DEF AttemptAborted, CompletionLost, NextAttempt
    <2>2. place # "locked" /\ (place \in Working => wf.at \in Working)
      BY <1>h
    <2> HIDE DEF place
    <2>3. wf'.at = place /\ wf'.run = wf.run
      BY <1>s, <2>1 DEF Executions
    <2> QED
      BY <2>2, <2>3
  <1>16. CASE ActivityExhausted
    <2>1. ASSUME wf.at \in Working, NEW place \in {"fail_run", "fail_commit"}, wf' = [wf EXCEPT !.at = place]
          PROVE  Goal
      <3>1. wf'.at = place /\ wf'.run = wf.run
        BY <1>s, <2>1 DEF Executions
      <3> QED
        BY <1>h, <2>1, <3>1
    <2> QED
      BY <1>16, <1>h, <1>o, <2>1 DEF ActivityExhausted
  <1>17. ASSUME NEW k \in Keys, DeadLetter(k) PROVE Goal
    BY <1>1, <1>17 DEF DeadLetter
  <1>18. CASE UNCHANGED vars
    BY <1>1, <1>18 DEF vars
  <1> QED
    BY <1>2, <1>3, <1>4, <1>5, <1>6, <1>7, <1>8, <1>9, <1>10, <1>11, <1>12, <1>13, <1>14, <1>15,
       <1>16, <1>17, <1>18
       DEF Next, Relay, Progress, Readiness, LastTransaction, Trouble

\* What a step may do to one generation.
RunStep(r) ==
  LET old == run[r] new == run'[r] IN
  \/ new = old
  \/ \* an administrator, or the scan
     /\ admin.run = r /\ admin'.op = "none" /\ ~Locked(r)
     /\ new.status = "cancel_requested" \/ new.stage \in {"working", "cancelled"}
  \/ \* born, released by the build, or its request dead-lettered
     /\ old.status \in {"absent", "pending", "queued", "blocked"}
     /\ new.status \in {"queued", "blocked", "failed_permanent"}
     /\ new.stage \in {"working", old.stage}
  \/ \* the workflow's projections
     /\ wf.run = r
     /\ \/ wf.at = "locked" /\ new.status \in {"queued", "blocked"} /\ new.stage = "working"
        \/ wf.at = "phase" /\ (new.stage = "working" \/ (new.stage = old.stage /\ new.status = old.status))
        \/ wf.at = "publish_project" /\ new.stage = "awaiting_review"
        \/ wf.at = "fail_run" /\ new.stage = "failed"
        \/ wf.at = "finish" /\ old.stage = "awaiting_review" /\ new.status = "succeeded"
  \/ \* superseded
     /\ wf.at = "supersede"
     /\ old.status \notin {"succeeded", "failed_permanent", "cancelled"} /\ new.status = "cancelled"

\* Every step is one of these, for every generation.
LEMMA RunSteps ==
  ASSUME TypeOK, OwnsRun, [Next]_vars, NEW r \in Runs
  PROVE  RunStep(r)
  <1>t. /\ run \in [Runs -> RunRows]
        /\ admin \in [op : {"none", "cancel", "retry", "finalize", "release"}, run : 0..MaxRuns,
                      used : 0..MaxAdminActions]
    BY DEF TypeOK
  <1>p. \A q, status, stage : Projected(q, status, stage).status = status /\ Projected(q, status, stage).stage = stage
    BY DEF Projected
  <1>1. CASE run'[r] = run[r]
    BY <1>1 DEF RunStep
  <1>2. ASSUME NEW q \in Runs, NEW forced \in BOOLEAN, StartRun(q, forced) PROVE RunStep(r)
    <2>1. CASE q = r
      <3>1. run'[r].status \in {"queued", "blocked"} /\ run'[r].stage = "working" /\ run[r].status = "absent"
        BY <1>t, <1>2, <2>1 DEF StartRun, IsNext, Exists
      <3> QED
        BY <3>1 DEF RunStep
    <2>2. CASE q # r
      BY <1>t, <1>1, <1>2, <2>2 DEF StartRun
    <2> QED
      BY <2>1, <2>2
  <1>3. ASSUME NEW q \in Runs, AdminWrites(q) \/ ScanReleases(q) PROVE RunStep(r)
    <2>0. admin'.op = "none" /\ admin.run = q /\ ~Locked(q)
      BY <1>t, <1>3 DEF AdminWrites, ScanReleases
    <2>1. CASE q # r
      BY <1>t, <1>1, <1>3, <2>1 DEF AdminWrites, ScanReleases
    <2>2. CASE q = r /\ AdminWrites(r)
      <3>1. [run[r] EXCEPT !.status = "cancel_requested"].status = "cancel_requested"
        BY <1>t DEF RunRows
      <3>2. run'[r].status = "cancel_requested" \/ run'[r].stage \in {"working", "cancelled"}
        BY <1>t, <1>p, <2>2, <3>1 DEF AdminWrites
      <3> QED
        BY <2>0, <2>2, <3>2 DEF RunStep
    <2>3. CASE q = r /\ ScanReleases(r)
      <3>1. run'[r] = run[r] \/ run'[r].stage = "working"
        BY <1>t, <1>p, <2>3 DEF ScanReleases
      <3> QED
        BY <2>0, <2>3, <3>1 DEF RunStep
    <2> QED
      BY <1>3, <2>1, <2>2, <2>3
  <1>4. CASE FinishBuild
    <2>1. run'[r] = IF r \in Blocked THEN Projected(r, "queued", "working") ELSE run[r]
      BY <1>4 DEF FinishBuild
    <2> QED
      BY <1>1, <1>p, <2>1 DEF Blocked, RunStep
  <1>5. ASSUME NEW k \in Keys, DeadLetter(k) PROVE RunStep(r)
    <2>1. \A q \in Runs : /\ [run[q] EXCEPT !.status = "failed_permanent"].status = "failed_permanent"
                          /\ [run[q] EXCEPT !.status = "failed_permanent"].stage = run[q].stage
      BY <1>t DEF RunRows
    <2>2. \/ run'[r] = run[r]
          \/ /\ run[r].status \in {"pending", "queued", "blocked"}
             /\ run'[r] = [run[r] EXCEPT !.status = "failed_permanent"]
      BY <1>t, <1>5, KeyFacts DEF DeadLetter
    <2> QED
      BY <2>1, <2>2 DEF RunStep
  <1>6. CASE ReadinessEffect
    <2>1. run'[r] = run[r] \/ (r = wf.run /\ run'[r].status \in {"queued", "blocked"} /\ run'[r].stage = "working")
      BY <1>t, <1>p, <1>6 DEF ReadinessEffect
    <2> QED
      BY <1>6, <2>1 DEF ReadinessEffect, At, RunStep
  <1>7. CASE PhaseEffect
    <2>1. \A phase : /\ PhaseRecorded(r, phase).stage = IF CancelAsked(r) THEN run[r].stage ELSE "working"
                     /\ PhaseRecorded(r, phase).status = IF CancelAsked(r) THEN run[r].status ELSE "running"
      BY <1>t, <1>p DEF PhaseRecorded, RunRows, Projected
    <2>2. run'[r] = run[r] \/ (r = wf.run /\ run'[r] = PhaseRecorded(r, wf.phase))
      BY <1>t, <1>7 DEF PhaseEffect
    <2> QED
      BY <1>7, <2>1, <2>2 DEF PhaseEffect, At, RunStep
  <1>8. CASE ProjectionEffect \/ FinishEffect \/ RunFailEffect
    <2>1. \/ run'[r] = run[r]
          \/ /\ r = wf.run
             /\ \/ wf.at = "publish_project" /\ run'[r].stage = "awaiting_review"
                \/ wf.at = "fail_run" /\ run'[r].stage = "failed"
                \/ wf.at = "finish" /\ run[r].stage = "awaiting_review" /\ run'[r].status = "succeeded"
      BY <1>t, <1>p, <1>8 DEF ProjectionEffect, FinishEffect, RunFailEffect, At
    <2> QED
      BY <2>1 DEF RunStep
  <1>9. CASE SupersedeEffect
    <2>1. run'[r] = run[r] \/ /\ run[r].status \notin {"succeeded", "failed_permanent", "cancelled"}
                              /\ run'[r].status = "cancelled"
      BY <1>t, <1>p, <1>9 DEF SupersedeEffect
    <2> QED
      BY <1>9, <2>1 DEF SupersedeEffect, At, RunStep
  <1> QED
    BY <1>1, <1>2, <1>3, <1>4, <1>5, <1>6, <1>7, <1>8, <1>9, RunWriters DEF LaravelStarts, WorkflowWritesRun

\* The invariant is kept, and a settled generation too.
LEMMA RestStep ==
  ASSUME Inductive, StageFits, WorksUnsettled, [Next]_vars
  PROVE  /\ StageFits' /\ WorksUnsettled'
         /\ \A r \in Runs : Settled(r) /\ run'[r] # run[r] => admin.run = r /\ admin'.op = "none"
  <1>0. /\ \A r \in Runs : RunStep(r)
        /\ wf.at # "none" => wf.state = "running" /\ wf.run \in Runs
    BY RunSteps DEF Inductive, Carries, OwnsRun, Sound
  <1>h. /\ Working = {"config", "phase", "publish", "publish_project", "review", "fail_commit", "fail_run",
                      "commit_begin", "commit_patch", "commit_finish"}
    BY DEF Working, CommitSteps
  <1>1. StageFits'
    <2> SUFFICES ASSUME NEW r \in Runs, run'[r].stage \in {"done", "superseded"}
                 PROVE  run'[r].status \in Over
      BY DEF StageFits, Over
    <2>1. RunStep(r) /\ (run[r].stage \in {"done", "superseded"} => run[r].status \in Over)
      BY <1>0 DEF StageFits
    <2> QED
      BY <2>1 DEF RunStep, Over
  <1>2. ASSUME NEW r \in Runs, Settled(r), run'[r] # run[r] PROVE admin.run = r /\ admin'.op = "none"
    <2>1. RunStep(r) /\ run[r].status \in {"succeeded", "cancelled"} /\ run[r].stage \in {"done", "superseded"}
      BY <1>0, <1>2 DEF StageFits, Settled, Over
    <2>2. wf.run = r => wf.at \notin Working \cup {"locked"}
      BY <1>2, <2>1 DEF WorksUnsettled, Over
    <2> QED
      BY <1>2, <1>h, <2>1, <2>2 DEF RunStep
  <1>3. WorksUnsettled'
    <2> SUFFICES ASSUME wf'.at \in Working \cup {"locked"}
                 PROVE  /\ wf'.at = "locked" => run'[wf'.run].status \notin Over
                        /\ wf'.at \in Working => ~(/\ run'[wf'.run].stage \in {"done", "superseded"}
                                                   /\ run'[wf'.run].status # "cancel_requested")
      BY DEF WorksUnsettled, Settled, Working, Over, CommitSteps
    <2> DEFINE r == wf.run
    <2>0. wf'.run = wf.run /\ wf.at # "none" /\ ~("locked" \in Working)
      BY <1>h, WaysToWork DEF Inductive
    <2>1. r \in Runs /\ RunStep(r) /\ (run[r].stage \in {"done", "superseded"} => run[r].status \in Over)
      BY <1>0, <2>0 DEF StageFits
    <2>2. CASE UNCHANGED run /\ wf.at = "check" /\ (run[r].status = "running" \/ run[r].status \notin Over)
      BY <1>h, <2>0, <2>1, <2>2 DEF Over
    <2>3. CASE wf.at = "locked"
      <3>1. run[r].status \notin Over /\ Locked(r)
        BY <1>0, <2>0, <2>3 DEF WorksUnsettled, Locked, At
      <3>2. run'[r].status \notin Over /\ run'[r].stage \notin {"done", "superseded"}
        BY <2>1, <2>3, <3>1 DEF RunStep, Over
      <3> QED
        BY <2>0, <3>2
    <2>4. CASE wf.at \in Working /\ wf'.at \in Working
      <3>1. ~Settled(r)
        BY <2>4 DEF WorksUnsettled
      <3>2. ~(run'[r].stage \in {"done", "superseded"} /\ run'[r].status # "cancel_requested")
        BY <1>h, <2>1, <2>4, <3>1 DEF RunStep, Over, Settled
      <3> QED
        BY <2>0, <2>4, <3>2
    <2> QED
      BY <2>2, <2>3, <2>4, WaysToWork DEF Inductive
  <1> QED
    BY <1>1, <1>2, <1>3

\* A generation that succeeded or was superseded is not written again by any
\* workflow, dead letter or build, unless an administrator writes over it first
\* (document_activities.py 735-742, 795).
THEOREM SettledRests == Spec => SettledGenerationsRest
  <1>1. Init => StageFits /\ WorksUnsettled
    BY DEF Init, StageFits, WorksUnsettled, NoRun, Closed, Working, CommitSteps
  <1>2. Inductive /\ StageFits /\ WorksUnsettled /\ [Next]_vars => (StageFits /\ WorksUnsettled)'
    BY RestStep
  <1>3. Inductive /\ StageFits /\ WorksUnsettled /\ [Next]_vars
          => [\A r \in Runs : Settled(r) /\ run'[r] # run[r] => admin.run = r /\ admin'.op = "none"]_vars
    BY RestStep
  <1> QED
    BY <1>1, <1>2, <1>3, Invariance, PTL DEF Spec, SettledGenerationsRest

-----------------------------------------------------------------------------
(* How far a cancellation holds.                                           *)

\* A step takes back a cancellation only where CancellationYields says so: readiness
\* finds none (WorksUnsettled, it holds the row lock since it looked), a recorded
\* phase keeps it, and dead letters, releases and builds look for other statuses.
LEMMA CancellationStep ==
  ASSUME Inductive, WorksUnsettled, [Next]_vars,
         NEW r \in Runs, CancelAsked(r), run'[r].status \notin {"cancel_requested", "cancelled"}
  PROVE  \/ admin.op = "retry" /\ admin.run = r
         \/ At("publish_project") /\ wf.run = r
         \/ /\ At("finish") \/ At("fail_run")
            /\ wf.run = r /\ run[r].status = "cancel_requested"
  <1> DEFINE Goal == \/ admin.op = "retry" /\ admin.run = r
                     \/ At("publish_project") /\ wf.run = r
                     \/ /\ At("finish") \/ At("fail_run")
                        /\ wf.run = r /\ run[r].status = "cancel_requested"
  <1>t. run \in [Runs -> RunRows] /\ run[r].status \in {"cancel_requested", "cancelled"}
    BY DEF Inductive, TypeOK, CancelAsked
  <1>p. \A q, status, stage : Projected(q, status, stage).status = status
    BY DEF Projected
  <1>u. run'[r] # run[r]
    BY <1>t
  <1>1. ASSUME NEW q \in Runs, NEW forced \in BOOLEAN, StartRun(q, forced) PROVE FALSE
    BY <1>t, <1>u, <1>1 DEF StartRun, IsNext, Exists
  <1>2. ASSUME NEW q \in Runs, AdminWrites(q) PROVE Goal
    <2>1. [run[q] EXCEPT !.status = "cancel_requested"].status = "cancel_requested"
      BY <1>t DEF RunRows
    <2> QED
      BY <1>t, <1>p, <1>u, <1>2, <2>1 DEF AdminWrites
  <1>3. ASSUME NEW q \in Runs, ScanReleases(q) PROVE FALSE
    BY <1>t, <1>u, <1>3 DEF ScanReleases
  <1>4. CASE FinishBuild
    BY <1>t, <1>u, <1>4 DEF FinishBuild, Blocked
  <1>5. ASSUME NEW k \in Keys, DeadLetter(k) PROVE FALSE
    BY <1>t, <1>u, <1>5, KeyFacts DEF DeadLetter
  <1>6. CASE ReadinessEffect
    <2>1. wf.run = r /\ wf.at = "locked"
      BY <1>t, <1>u, <1>6 DEF ReadinessEffect, At
    <2> QED
      BY <1>t, <2>1 DEF WorksUnsettled, Over
  <1>7. CASE PhaseEffect
    <2>1. run'[r] = PhaseRecorded(r, wf.phase)
      BY <1>t, <1>u, <1>7 DEF PhaseEffect
    <2>2. PhaseRecorded(r, wf.phase).status = run[r].status
      BY <1>t DEF PhaseRecorded, RunRows, CancelAsked
    <2> QED
      BY <1>t, <2>1, <2>2
  <1>8. CASE ProjectionEffect \/ FinishEffect \/ RunFailEffect
    <2>1. wf.run = r
      BY <1>t, <1>u, <1>8 DEF ProjectionEffect, FinishEffect, RunFailEffect
    <2>2. ~ProjectionEffect => run[r].status # "cancelled"
      BY <1>t, <1>u, <1>8, <2>1 DEF FinishEffect, RunFailEffect
    <2> QED
      BY <1>t, <1>8, <2>1, <2>2 DEF ProjectionEffect, FinishEffect, RunFailEffect
  <1>9. CASE SupersedeEffect
    BY <1>t, <1>p, <1>u, <1>9 DEF SupersedeEffect
  <1> QED
    BY <1>u, <1>1, <1>2, <1>3, <1>4, <1>5, <1>6, <1>7, <1>8, <1>9, RunWriters
       DEF LaravelStarts, WorkflowWritesRun

\* The documents promise that a cancellation is final, and a run refutes them; this is
\* what the code keeps of it, for any number of generations and failures: besides an
\* administrator, three projections write over a cancellation, and a finalised one
\* yields to a publication alone (document_phase_activities.py 558-575 and 666 ff.,
\* document_activities.py 781-797).
THEOREM CancellationYieldsToThree == Spec => CancellationYields
  <1>1. Init => StageFits /\ WorksUnsettled
    BY DEF Init, StageFits, WorksUnsettled, NoRun, Closed, Working, CommitSteps
  <1>2. Inductive /\ StageFits /\ WorksUnsettled /\ [Next]_vars => (StageFits /\ WorksUnsettled)'
    BY RestStep
  <1> DEFINE Yields ==
        \A r \in Runs : CancelAsked(r) /\ ~CancelAsked(r)' =>
           \/ admin.op = "retry" /\ admin.run = r
           \/ At("publish_project") /\ wf.run = r
           \/ /\ At("finish") \/ At("fail_run")
              /\ wf.run = r /\ run[r].status = "cancel_requested"
  <1>3. Inductive /\ StageFits /\ WorksUnsettled /\ [Next]_vars => [Yields]_vars
    <2>1. ASSUME NEW r \in Runs, ~CancelAsked(r)'
          PROVE  run'[r].status \notin {"cancel_requested", "cancelled"}
      BY <2>1 DEF CancelAsked
    <2> QED
      BY <2>1, CancellationStep
  <1> QED
    BY <1>1, <1>2, <1>3, Invariance, PTL DEF Spec, CancellationYields
=============================================================================
