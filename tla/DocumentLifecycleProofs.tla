--------------------- MODULE DocumentLifecycleProofs ---------------------
(***************************************************************************)
(* What holds of DocumentLifecycle in every reachable state.               *)
(*                                                                         *)
(* The inductive invariant has two halves.  RowInv relates the columns of  *)
(* a suggestion to each other and to the outbox; Carries says what the     *)
(* place of the workflow has already made sure of, so that the next write  *)
(* is right whatever Laravel, the relay and other generations did in       *)
(* between.  A step keeps Carries because, apart from the workflow itself, *)
(* no actor takes back what it rests on (Persists).                        *)
(***************************************************************************)
EXTENDS DocumentLifecycleTypes

\* Temporal was asked to run the generation.
Requested(r) == outbox[DocumentKey(r)] # "absent" \/ outbox[ForceKey(r)] # "absent"
RequestedAfter(r) == outbox'[DocumentKey(r)] # "absent" \/ outbox'[ForceKey(r)] # "absent"
CommitPlaces == CommitSteps \cup {"fail_commit"}

\* What became of a suggestion by a decision, or by a look at Paperless since.
Decided == {"accepted", "rejected", "stale"}

\* What the place of an execution has made sure of: decisions it received are
\* taken, its suggestion is of its generation and, once committing, has a command
\* and was written; generations it works on or waits for were requested.
Carries(w) ==
  /\ w.at # "none" => w.state = "running"
  /\ w.decision \in Suggestions => sugg[w.decision].status \in Decided
  /\ w.at \in HoldingPlaces => sugg[w.sugg].run = w.run
  /\ w.at \in CommitPlaces => sugg[w.sugg].command # "none"
  /\ w.at \in {"commit_patch", "commit_finish"} => sugg[w.sugg].command = "running"
  /\ w.at = "commit_finish" => w.sugg \in patched
  /\ w.state = "running" => Requested(w.run)
  /\ w.force \in Runs => Requested(w.force)
  /\ w.at = "supersede" => Requested(w.next)

\* The columns of a suggestion, and the signal intent of its decision.
DecidedOnly ==
  \A s \in Suggestions : outbox[DecisionKey(s)] # "absent" => sugg[s].status \in Decided
AbsentRowsAreEmpty == \A s \in Suggestions : Absent(s) => sugg[s] = NoSuggestion
AcceptedHasCommand ==
  \A s \in Suggestions :
    /\ sugg[s].status = "accepted" => sugg[s].command # "none"
    /\ sugg[s].command # "none" => sugg[s].status \in {"accepted", "stale"}

RowInv == DecidedOnly /\ AbsentRowsAreEmpty /\ AcceptedHasCommand /\ CommitAndCommandAgree
            /\ PublishedOnce

\* What no step takes away from a suggestion, a PATCH or a request.
Persists ==
  /\ \A s \in Suggestions : sugg[s].run # 0 => sugg'[s].run = sugg[s].run
  /\ \A s \in Suggestions : sugg[s].status \in Decided => sugg'[s].status \in {sugg[s].status, "stale"}
  /\ \A s \in Suggestions : sugg[s].command # "none" => sugg'[s].command # "none"
  /\ patched \subseteq patched'
  /\ \A r \in Runs : Requested(r) => RequestedAfter(r)

-----------------------------------------------------------------------------
(* Rows.                                                                   *)

\* Rows written anew, field by field.
LEMMA PendingRowFacts ==
  \A r, b : /\ PendingRow(r, b).run = r /\ PendingRow(r, b).placeholder = b
            /\ PendingRow(r, b).status = "pending"
            /\ PendingRow(r, b).commit = "none" /\ PendingRow(r, b).command = "none"
  BY DEF PendingRow, NoSuggestion

LEMMA ReportedRowFacts ==
  \A s, commit, command :
    /\ Reported(s, commit, command).run = sugg[s].run
    /\ Reported(s, commit, command).placeholder = sugg[s].placeholder
    /\ Reported(s, commit, command).status = sugg[s].status
    /\ Reported(s, commit, command).commit = commit
    /\ Reported(s, commit, command).command = command
  BY DEF Reported

\* What a step does to one suggestion, apart from which step it is.
RowStep(s) ==
  LET old == sugg[s] new == sugg'[s] IN
  \/ new = old
  \/ \* born
     old.status = "absent" /\ new.status = "pending" /\ new.commit = "none" /\ new.command = "none"
  \/ /\ old.status # "absent" /\ new.run = old.run /\ new.placeholder = old.placeholder
     /\ \/ \* marked stale
           /\ new.status = "stale" /\ new.commit = old.commit /\ new.command = old.command
        \/ \* rejected
           /\ old.status = "pending" /\ new.status = "rejected"
           /\ new.commit = old.commit /\ new.command = old.command
        \/ \* accepted
           /\ old.status = "pending" /\ new.status = "accepted"
           /\ new.commit = "queued" /\ new.command = "queued"
        \/ \* committing
           /\ old.command # "none" /\ new.status = old.status
           /\ \/ /\ old.status = "accepted" /\ old.command \in {"queued", "running"}
                 /\ new.command = "running" /\ new.commit = "running"
              \/ /\ CommitEffect /\ wf.sugg = s /\ old.command = "running" /\ new.command = "succeeded"
                 /\ new.commit = (IF old.status = "accepted" THEN "committed" ELSE old.commit)
              \/ /\ CommitFailEffect /\ old.commit # "committed"
                 /\ new.commit = "failed" /\ new.command = "failed_permanent"
        \/ \* the decision's intent is dead-lettered
           /\ old.command # "none" /\ new.status = old.status
           /\ new.commit = (IF old.commit = "committed" THEN "committed" ELSE "failed")
           /\ new.command = (IF old.command = "queued" THEN "failed_permanent" ELSE old.command)

\* Every step is one of these, for every suggestion.
LEMMA RowSteps ==
  ASSUME TypeOK, OwnsRun, Carries(wf), RowInv, [Next]_vars
  PROVE  \A s \in Suggestions : RowStep(s)
  <1> DEFINE Goal == \A s \in Suggestions : RowStep(s)
  <1>t. sugg \in [Suggestions -> SuggestionRows]
    BY DEF TypeOK
  <1>1. CASE UNCHANGED sugg
    BY <1>1 DEF RowStep
  <1>2. ASSUME NEW r \in Runs, NEW s \in Suggestions, ForceFromReview(r, s) PROVE Goal
    BY <1>t, <1>2 DEF ForceFromReview, RowStep, SuggestionRows, Absent
  <1>3. ASSUME NEW r, NEW b, NEW s \in Suggestions, NewRow(s), sugg' = [sugg EXCEPT ![s] = PendingRow(r, b)] PROVE Goal
    BY <1>t, <1>3, PendingRowFacts DEF RowStep, NewRow, Absent
  <1>4. ASSUME NEW s \in Suggestions, Accept(s) PROVE Goal
    <2>1. /\ sugg'[s].run = sugg[s].run /\ sugg'[s].placeholder = sugg[s].placeholder
          /\ sugg'[s].status = "accepted" /\ sugg'[s].commit = "queued" /\ sugg'[s].command = "queued"
      BY <1>t, <1>4 DEF Accept, Reported
    <2>2. \A t \in Suggestions \ {s} : sugg'[t] = sugg[t]
      BY <1>t, <1>4 DEF Accept
    <2> QED
      BY <1>4, <2>1, <2>2 DEF Accept, RowStep
  <1>5. ASSUME NEW s \in Suggestions, Reject(s) PROVE Goal
    BY <1>t, <1>5 DEF Reject, RowStep, SuggestionRows
  <1>11. ASSUME NEW s \in Suggestions, MarksStale(s) PROVE Goal
    BY <1>t, <1>11 DEF MarksStale, Absent, RowStep, SuggestionRows
  <1>6. ASSUME NEW k \in Keys, DeadLetter(k) PROVE Goal
    <2>1. CASE k[1] = "decision" /\ sugg[k[2]].command # "none"
      <3>1. k[2] \in Suggestions
        BY <2>1, KeyFacts
      <3>2. sugg' = [sugg EXCEPT ![k[2]] = DecisionLost(k[2])]
        BY <1>6, <2>1 DEF DeadLetter
      <3>3. sugg[k[2]].status # "absent"
        BY <2>1, <3>1 DEF RowInv, AbsentRowsAreEmpty, Absent, NoSuggestion
      <3> QED
        BY <1>t, <2>1, <3>1, <3>2, <3>3, ReportedRowFacts DEF DecisionLost, RowStep
    <2> QED
      BY <1>1, <1>6, <2>1 DEF DeadLetter
  <1>7. CASE CommitBegins
    <2>1. wf.sugg \in Suggestions /\ sugg[wf.sugg].status = "accepted"
      BY <1>7 DEF CommitBegins, At, OwnsRun, Sound, HoldingPlaces, CommitSteps, CommitPlaces
    <2>2. CASE sugg' = [sugg EXCEPT ![wf.sugg] = Reported(wf.sugg, "running", "running")] /\ sugg[wf.sugg].command # "failed_permanent"
               /\ ~(sugg[wf.sugg].commit = "committed" /\ sugg[wf.sugg].command = "succeeded")
      <3>1. sugg[wf.sugg].command \in {"queued", "running"}
        BY <1>t, <2>1, <2>2 DEF RowInv, AcceptedHasCommand, CommitAndCommandAgree, SuggestionRows
      <3> QED
        BY <1>t, <2>1, <2>2, <3>1, ReportedRowFacts DEF RowStep
    <2> QED
      BY <1>1, <1>7, <2>2 DEF CommitBegins
  <1>8. CASE CommitEffect
    <2>1. wf.sugg \in Suggestions /\ sugg[wf.sugg].command = "running" /\ sugg[wf.sugg].status # "absent"
      BY <1>8 DEF CommitEffect, At, OwnsRun, Sound, HoldingPlaces, CommitSteps, CommitPlaces, Carries,
                  RowInv, AcceptedHasCommand
    <2>2. sugg' = [sugg EXCEPT ![wf.sugg] =
                     Reported(wf.sugg, IF sugg[wf.sugg].status = "accepted" THEN "committed"
                                       ELSE sugg[wf.sugg].commit, "succeeded")]
      BY <1>8 DEF CommitEffect
    <2> QED
      BY <1>t, <1>8, <2>1, <2>2, ReportedRowFacts DEF RowStep
  <1>9. CASE CommitFailEffect
    <2>1. wf.sugg \in Suggestions /\ sugg[wf.sugg].command # "none" /\ sugg[wf.sugg].status # "absent"
      BY <1>9 DEF CommitFailEffect, At, OwnsRun, Sound, HoldingPlaces, CommitSteps, CommitPlaces, Carries,
                  RowInv, AcceptedHasCommand
    <2>2. CASE sugg[wf.sugg].commit # "committed"
      <3>1. sugg' = [sugg EXCEPT ![wf.sugg] = Reported(wf.sugg, "failed", "failed_permanent")]
        BY <1>9, <2>2 DEF CommitFailEffect
      <3> QED
        BY <1>t, <1>9, <2>1, <2>2, <3>1, ReportedRowFacts DEF RowStep
    <2> QED
      BY <1>1, <1>9, <2>2 DEF CommitFailEffect
  <1>10. CASE SupersedeEffect
    BY <1>t, <1>10 DEF SupersedeEffect, RowStep, SuggestionRows
  <1> QED
    BY <1>1, <1>2, <1>3, <1>4, <1>5, <1>6, <1>7, <1>8, <1>9, <1>10, <1>11, SuggWriters
       DEF InsertPlaceholder, Publish, WorkflowWritesSugg

\* No step takes back what the workflow relies on.
LEMMA StepsPersist ==
  ASSUME TypeOK, OwnsRun, Carries(wf), RowInv, [Next]_vars
  PROVE  Persists
  <1>1. \A s \in Suggestions : RowStep(s)
    BY RowSteps
  <1>2. \A s \in Suggestions : sugg[s].run # 0 => sugg'[s].run = sugg[s].run
    BY <1>1 DEF RowStep, RowInv, AbsentRowsAreEmpty, Absent, NoSuggestion
  <1>3. \A s \in Suggestions : sugg[s].status \in Decided => sugg'[s].status \in {sugg[s].status, "stale"}
    BY <1>1 DEF RowStep, Decided
  <1>4. \A s \in Suggestions : sugg[s].command # "none" => sugg'[s].command # "none"
    BY <1>1 DEF RowStep, RowInv, AcceptedHasCommand
  <1>5. \A r \in Runs : Requested(r) => RequestedAfter(r)
    BY OutboxGrows, KeyFacts DEF Requested, RequestedAfter
  <1>6. patched \subseteq patched'
    BY PatchedGrows DEF CommitPatches
  <1> QED
    BY <1>2, <1>3, <1>4, <1>5, <1>6 DEF Persists

\* A published row is born when its generation has none.
LEMMA BornAlone ==
  ASSUME TypeOK, RowInv, \A u \in Suggestions : RowStep(u), [Next]_vars,
         NEW s \in Suggestions, sugg[s].status = "absent", sugg'[s].status # "absent",
         ~sugg'[s].placeholder,
         NEW t \in Suggestions, sugg'[t].status # "absent", ~sugg'[t].placeholder,
         sugg'[t].run = sugg'[s].run
  PROVE  s = t
  <1>0. sugg \in [Suggestions -> SuggestionRows]
    BY DEF TypeOK
  <1>1. CASE UNCHANGED sugg
    BY <1>1
  <1>2. ASSUME NEW r \in Runs, NEW u \in Suggestions, ForceFromReview(r, u) PROVE FALSE
    BY <1>0, <1>2 DEF ForceFromReview, Absent, SuggestionRows
  <1>3. ASSUME NEW r \in Runs, NEW u \in Suggestions, InsertPlaceholder(r, u) PROVE FALSE
    BY <1>0, <1>3, PendingRowFacts DEF InsertPlaceholder
  <1>4. ASSUME NEW u \in Suggestions, Publish(u) PROVE s = t
    <2>1. ASSUME \A v \in Suggestions : ~(sugg[v].run = wf.run /\ ~sugg[v].placeholder),
                 sugg' = [sugg EXCEPT ![u] = PendingRow(wf.run, FALSE)]
          PROVE  s = t
      <3>1. s = u /\ sugg'[s].run = wf.run
        BY <1>0, <2>1, PendingRowFacts
      <3> QED
        BY <1>0, <2>1, <3>1
    <2> QED
      BY <1>1, <1>4, <2>1 DEF Publish
  <1>5. ASSUME NEW u \in Suggestions, MarksStale(u) \/ Accept(u) \/ Reject(u) PROVE FALSE
    BY <1>0, <1>5 DEF MarksStale, Absent, Accept, Reject
  <1>6. ASSUME NEW k \in Keys, DeadLetter(k) PROVE FALSE
    BY <1>0, <1>6, KeyFacts, ReportedRowFacts DEF DeadLetter, DecisionLost
  <1>7. CASE CommitBegins \/ CommitEffect \/ CommitFailEffect
    <2>1. ASSUME NEW commit, NEW command, sugg' = [sugg EXCEPT ![wf.sugg] = Reported(wf.sugg, commit, command)]
          PROVE  FALSE
      BY <1>0, <2>1, ReportedRowFacts
    <2> QED
      BY <1>1, <1>7, <2>1 DEF CommitBegins, CommitEffect, CommitFailEffect
  <1>8. CASE SupersedeEffect
    BY <1>0, <1>1, <1>8 DEF SupersedeEffect, SuggestionRows
  <1> QED
    BY <1>1, <1>2, <1>3, <1>4, <1>5, <1>6, <1>7, <1>8, SuggWriters DEF WorkflowWritesSugg

\* The columns keep agreeing.
LEMMA RowInvStep ==
  ASSUME TypeOK, OwnsRun, Carries(wf), RowInv, [Next]_vars
  PROVE  RowInv'
  <1>0. \A s \in Suggestions : RowStep(s)
    BY RowSteps
  <1>1. DecidedOnly'
    <2> SUFFICES ASSUME NEW s \in Suggestions, outbox'[DecisionKey(s)] # "absent"
                 PROVE  sugg'[s].status \in Decided
      BY DEF DecidedOnly, DecisionKey
    <2> QED
      BY OutboxGrows, StepsPersist DEF RowInv, DecidedOnly, Decided, Persists
  <1>2. AcceptedHasCommand'
    BY <1>0 DEF RowInv, AcceptedHasCommand, RowStep, AbsentRowsAreEmpty, Absent, NoSuggestion
  <1>3. CommitAndCommandAgree'
    BY <1>0 DEF RowInv, AcceptedHasCommand, CommitAndCommandAgree, RowStep, AbsentRowsAreEmpty, Absent, NoSuggestion
  <1>4. AbsentRowsAreEmpty'
    BY <1>0 DEF RowInv, AbsentRowsAreEmpty, Absent, RowStep
  <1>5. PublishedOnce'
    <2> SUFFICES ASSUME NEW s \in Suggestions, NEW t \in Suggestions,
                        sugg'[s].run = sugg'[t].run,
                        sugg'[s].status # "absent", sugg'[t].status # "absent",
                        ~sugg'[s].placeholder, ~sugg'[t].placeholder
                 PROVE  s = t
      BY DEF PublishedOnce, Absent
    <2>1. \A u \in Suggestions : sugg[u].status # "absent" =>
            sugg'[u].run = sugg[u].run /\ sugg'[u].placeholder = sugg[u].placeholder
      BY <1>0 DEF RowStep
    <2>2. CASE sugg[s].status # "absent" /\ sugg[t].status # "absent"
      BY <2>1, <2>2 DEF RowInv, PublishedOnce, Absent
    <2>3. CASE sugg[s].status = "absent"
      BY <1>0, <2>3, BornAlone
    <2>4. CASE sugg[t].status = "absent"
      BY <1>0, <2>4, BornAlone
    <2> QED
      BY <2>2, <2>3, <2>4
  <1> QED
    BY <1>1, <1>2, <1>3, <1>4, <1>5 DEF RowInv

-----------------------------------------------------------------------------
(* What the workflow carries from place to place.                          *)

\* Carries, of the execution a step leaves and the state it leaves it in.
CarriesAfter(w) ==
  /\ w.at # "none" => w.state = "running"
  /\ w.decision \in Suggestions => sugg'[w.decision].status \in Decided
  /\ w.at \in HoldingPlaces => sugg'[w.sugg].run = w.run
  /\ w.at \in CommitPlaces => sugg'[w.sugg].command # "none"
  /\ w.at \in {"commit_patch", "commit_finish"} => sugg'[w.sugg].command = "running"
  /\ w.at = "commit_finish" => w.sugg \in patched'
  /\ w.state = "running" => RequestedAfter(w.run)
  /\ w.force \in Runs => RequestedAfter(w.force)
  /\ w.at = "supersede" => RequestedAfter(w.next)

\* An execution that stays in its generation keeps what it carries, provided its
\* new place asks for no more.
LEMMA CarriesOn ==
  ASSUME Carries(wf), Persists, NEW v,
         v.run = wf.run, v.state = wf.state, v.decision = wf.decision, v.force \in {wf.force, 0},
         v.at = "supersede" => RequestedAfter(v.next),
         v.at \in HoldingPlaces => sugg'[v.sugg].run = wf.run,
         v.at \in CommitPlaces => sugg'[v.sugg].command # "none",
         v.at \in {"commit_patch", "commit_finish"} => sugg'[v.sugg].command = "running",
         v.at = "commit_finish" => v.sugg \in patched',
         wf.state = "running", wf.run \in Runs
  PROVE  CarriesAfter(v)
  <1>1. 0 \notin Runs
    BY DEF Runs
  <1> QED
    BY <1>1 DEF Carries, CarriesAfter, Decided, Persists

\* A new execution needs its request only; an ended one, nothing.
LEMMA CarriesStarts ==
  /\ \A r \in Runs : RequestedAfter(r) => CarriesAfter(Started(r))
  /\ \A state \in {"completed", "failed"} : CarriesAfter(Closed(state))
  <1>1. \A r \in Runs : /\ Started(r).run = r /\ Started(r).at = "start"
                        /\ Started(r).state = "running"
                        /\ Started(r).decision = 0 /\ Started(r).force = 0
    BY DEF Started, Closed
  <1>2. \A state \in {"completed", "failed"} :
          /\ Closed(state).state = state /\ Closed(state).at = "none"
          /\ Closed(state).decision = 0 /\ Closed(state).force = 0
    BY DEF Closed
  <1>3. 0 \notin Runs /\ 0 \notin Suggestions
    BY DEF Runs, Suggestions
  <1> QED
    BY <1>1, <1>2, <1>3 DEF CarriesAfter, HoldingPlaces, CommitPlaces, CommitSteps

\* At a checkpoint the workflow goes on, or turns to a requested replacement.
LEMMA CarriesCheckpoint ==
  ASSUME TypeOK, OwnsRun, Carries(wf), Persists, wf.state = "running",
         NEW next \in Executions, CarriesAfter(next)
  PROVE  CarriesAfter(Checkpoint(next))
  <1>0. 0 \notin Runs /\ MaxRuns \in Nat
    BY LifecycleAssumption DEF Runs
  <1>1. CASE wf.force > wf.run
    <2>1. wf.run \in Runs /\ wf.force \in Runs
      BY <1>0, <1>1 DEF OwnsRun, Sound, Executions, Runs
    <2> DEFINE v == [wf EXCEPT !.at = "supersede", !.over = wf.run, !.next = wf.force, !.force = 0]
    <2>2. /\ v.at = "supersede" /\ v.next = wf.force /\ v.run = wf.run /\ v.force = 0
          /\ v.state = wf.state /\ v.decision = wf.decision
      BY DEF OwnsRun, Sound, Executions
    <2> HIDE DEF v
    <2>3. RequestedAfter(v.next)
      BY <2>1, <2>2 DEF Carries, Persists
    <2>4. CarriesAfter(v)
      BY <2>1, <2>2, <2>3, CarriesOn DEF HoldingPlaces, CommitPlaces, CommitSteps
    <2> QED
      BY <1>1, <2>4 DEF Checkpoint, v
  <1>2. CASE ~(wf.force > wf.run)
    <2> DEFINE v == [next EXCEPT !.force = 0]
    <2>1. /\ v.run = next.run /\ v.at = next.at /\ v.decision = next.decision /\ v.next = next.next
          /\ v.sugg = next.sugg /\ v.state = next.state /\ v.force = 0
      BY DEF Executions
    <2> QED
      BY <1>0, <1>2, <2>1 DEF Checkpoint, CarriesAfter
  <1> QED
    BY <1>1, <1>2

\* It commits only what has a command.
LEMMA CarriesFinishReview ==
  ASSUME TypeOK, OwnsRun, Carries(wf), Persists, wf.state = "running",
         NEW s \in Suggestions, sugg[s].run = wf.run, NEW stuck \in {"review", "wedged"}
  PROVE  CarriesAfter(FinishReview(wf, s, stuck))
  <1> DEFINE v(place) == [wf EXCEPT !.at = place, !.sugg = s]
  <1>1. \A place \in Places :
          /\ v(place).at = place /\ v(place).sugg = s /\ v(place).run = wf.run
          /\ v(place).state = wf.state /\ v(place).decision = wf.decision /\ v(place).force = wf.force
    BY DEF OwnsRun, Sound, Executions
  <1>2. wf.run \in Runs /\ sugg'[s].run = wf.run
    <2>1. wf.run \in Runs /\ wf.run # 0
      BY DEF OwnsRun, Sound, Runs
    <2> QED
      BY <2>1 DEF Persists
  <1>3. ASSUME NEW place \in {"review", "finish", "wedged", "commit_begin"},
               place = "commit_begin" => sugg[s].command # "none"
        PROVE  CarriesAfter(v(place))
    <2>1. place = "commit_begin" => sugg'[s].command # "none"
      BY <1>3 DEF Persists
    <2>2. place \in Places
      BY PlaceFacts
    <2> DEFINE u == v(place)
    <2>3. /\ u.at = place /\ u.sugg = s /\ u.run = wf.run
          /\ u.state = wf.state /\ u.decision = wf.decision /\ u.force = wf.force
      BY <1>1, <2>2
    <2> HIDE DEF v, u
    <2>4. place \notin {"supersede", "commit_patch", "commit_finish"}
            /\ (place \in CommitPlaces => place = "commit_begin")
      BY <1>3 DEF CommitPlaces, CommitSteps
    <2>5. CarriesAfter(u)
      BY <1>2, <2>1, <2>3, <2>4, CarriesOn
    <2> QED
      BY <2>5 DEF u, v
  <1> QED
    BY <1>3 DEF FinishReview

\* A decision, a placeholder or a dead letter does not disturb a running commit.
LEMMA OthersKeepRunning ==
  ASSUME TypeOK, RowInv, Laravel \/ JobControl \/ Embedding \/ (\E k \in Keys : DeadLetter(k)),
         NEW s \in Suggestions, sugg[s].command = "running"
  PROVE  sugg'[s].command = "running"
  <1>t. sugg \in [Suggestions -> SuggestionRows]
    BY DEF TypeOK
  <1>s. sugg[s].status \in {"accepted", "stale"}
    BY DEF RowInv, AcceptedHasCommand
  <1>1. CASE UNCHANGED sugg
    BY <1>1
  <1>2. ASSUME NEW r \in Runs, NEW u \in Suggestions, ForceFromReview(r, u)
        PROVE  sugg'[s].command = "running"
    BY <1>t, <1>2 DEF ForceFromReview, SuggestionRows
  <1>3. ASSUME NEW r \in Runs, NEW u \in Suggestions, InsertPlaceholder(r, u)
        PROVE  sugg'[s].command = "running"
    BY <1>t, <1>s, <1>3 DEF InsertPlaceholder, NewRow, Absent
  <1>4. ASSUME NEW u \in Suggestions, MarksStale(u) \/ Accept(u) \/ Reject(u)
        PROVE  sugg'[s].command = "running"
    BY <1>t, <1>s, <1>4 DEF MarksStale, SuggestionRows, Accept, Reject
  <1>5. ASSUME NEW k \in Keys, DeadLetter(k) PROVE sugg'[s].command = "running"
    BY <1>t, <1>5, KeyFacts, ReportedRowFacts DEF DeadLetter, DecisionLost
  <1> QED
    BY <1>1, <1>2, <1>3, <1>4, <1>5
       DEF Laravel, StartFirst, ForceFromClassify, ForceFromMaintenance, JobControl, AdminChecks,
           AdminWrites, ScanFinds, ScanReleases, Embedding, CloseGate, FinishBuild

\* An execution that differs in its place and in what no other execution cares about.
Moved(v, place) ==
  /\ v \in Executions /\ v.at = place
  /\ v.run = wf.run /\ v.state = wf.state /\ v.decision = wf.decision /\ v.force = wf.force

\* The forms such a change takes in the workflow.
LEMMA MovedForms ==
  ASSUME wf \in Executions, NEW place \in Places, NEW b \in BOOLEAN, NEW n \in 0..PhaseCount
  PROVE  /\ Moved([wf EXCEPT !.at = place], place)
         /\ Moved([wf EXCEPT !.at = place, !.seen = b], place)
         /\ Moved([wf EXCEPT !.at = place, !.ready = b], place)
         /\ Moved([wf EXCEPT !.at = place, !.phase = n], place)
         /\ Moved([wf EXCEPT !.phase = n, !.at = place], place)
         /\ Moved([wf EXCEPT !.phase = n], wf.at)
  <1>1. Moved([wf EXCEPT !.at = place], place) /\ Moved([wf EXCEPT !.phase = n], wf.at)
    BY DEF Moved, Executions
  <1>2. Moved([wf EXCEPT !.at = place, !.seen = b], place)
    <2>1. [wf EXCEPT !.at = place, !.seen = b] \in Executions
      BY AtFlag
    <2> QED
      BY <2>1 DEF Moved, Executions
  <1>3. Moved([wf EXCEPT !.at = place, !.ready = b], place)
    <2>1. [wf EXCEPT !.at = place, !.ready = b] \in Executions
      BY AtFlag
    <2> QED
      BY <2>1 DEF Moved, Executions
  <1>4. Moved([wf EXCEPT !.at = place, !.phase = n], place)
    <2>1. [wf EXCEPT !.at = place, !.phase = n] \in Executions
      BY AtPhase
    <2> QED
      BY <2>1 DEF Moved, Executions
  <1>5. Moved([wf EXCEPT !.phase = n, !.at = place], place)
    <2>1. [wf EXCEPT !.phase = n, !.at = place] \in Executions
      BY AtPhase
    <2> QED
      BY <2>1 DEF Moved, Executions
  <1> QED
    BY <1>1, <1>2, <1>3, <1>4, <1>5

\* Every step keeps what the workflow carries.
LEMMA CarriesStep ==
  ASSUME TypeOK, OwnsRun, Carries(wf), RowInv, [Next]_vars
  PROVE  Carries(wf)'
  <1> DEFINE Goal == CarriesAfter(wf')
  <1> SUFFICES Goal
    BY DEF Carries, CarriesAfter, Requested, RequestedAfter
  <1>s. /\ Sound(wf) /\ wf \in Executions
        /\ wf.state = "running" => wf.run \in Runs /\ wf.run # 0
    BY DEF OwnsRun, Sound, Runs
  <1>p. Persists
    BY StepsPersist
  <1>h. /\ HoldingPlaces = {"publish_project", "review", "finish", "fail_commit",
                            "commit_begin", "commit_patch", "commit_finish"}
        /\ CommitPlaces = {"fail_commit", "commit_begin", "commit_patch", "commit_finish"}
        /\ CommitSteps = {"commit_begin", "commit_patch", "commit_finish"}
        /\ PublishSteps = {"publish", "publish_project"}
    BY DEF HoldingPlaces, CommitPlaces, CommitSteps, PublishSteps
  <1>k. /\ wf.at \in HoldingPlaces /\ wf.state = "running" =>
             wf.sugg \in Suggestions /\ sugg[wf.sugg].run = wf.run /\ sugg'[wf.sugg].run = wf.run
        /\ wf.at \in CommitPlaces /\ wf.state = "running" => sugg'[wf.sugg].command # "none"
    BY <1>s, <1>p, <1>h DEF Sound, Carries, Persists
  \* Staying in the generation, at a place that asks for no more.
  <1>a. ASSUME NEW v, v.run = wf.run, v.state = wf.state, v.decision = wf.decision, v.force = wf.force,
               v.at \notin HoldingPlaces, v.at # "supersede", wf.state = "running"
        PROVE  CarriesAfter(v)
    BY <1>a, <1>s, <1>p, <1>h, CarriesOn
  <1>b. ASSUME wf.at \in HoldingPlaces, wf.state = "running",
               NEW place \in {"finish", "commit_begin", "fail_commit"},
               place = "finish" \/ wf.at \in CommitPlaces
        PROVE  CarriesAfter([wf EXCEPT !.at = place])
    <2> DEFINE v == [wf EXCEPT !.at = place]
    <2>1. /\ v.at = place /\ v.run = wf.run /\ v.state = wf.state /\ v.decision = wf.decision
          /\ v.force = wf.force /\ v.sugg = wf.sugg
      BY <1>s DEF Executions
    <2> HIDE DEF v
    <2>2. CarriesAfter(v)
      BY <1>b, <1>s, <1>p, <1>h, <1>k, <2>1, CarriesOn
    <2> QED
      BY <2>2 DEF v
  <1>c. ASSUME NEW next \in Executions, CarriesAfter(next), wf.state = "running", wf' = Checkpoint(next)
        PROVE  Goal
    BY <1>c, <1>p, CarriesCheckpoint
  <1>f. ASSUME NEW v, NEW place \in {"check", "locked", "config", "blocked", "phase", "publish", "fail_run"},
               Moved(v, place), wf.state = "running"
        PROVE  CarriesAfter(v)
    <2>1. place \notin HoldingPlaces /\ place # "supersede"
      BY <1>h
    <2> QED
      BY <1>a, <1>f, <2>1 DEF Moved
  <1>g. ASSUME NEW v, NEW place \in {"check", "locked", "config", "blocked", "phase", "publish", "fail_run"},
               Moved(v, place), wf.state = "running", wf' = Checkpoint(v)
        PROVE  Goal
    BY <1>c, <1>f, <1>g DEF Moved
  <1>l. /\ {"check", "locked", "config", "blocked", "phase", "publish", "fail_run"} \subseteq Places
        /\ 0 \in 0..PhaseCount /\ 1 \in 0..PhaseCount /\ gate.open \in BOOLEAN
    BY PlaceFacts, LifecycleAssumption DEF TypeOK
  <1>w. ASSUME \A s \in Suggestions : sugg[s].command = "running" => sugg'[s].command = "running"
        PROVE  CarriesAfter(wf)
    <2>0. wf.decision \in Suggestions => sugg'[wf.decision].status \in Decided
      BY <1>p DEF Carries, Persists, Decided
    <2>1. CASE wf.at = "none"
      BY <1>w, <1>p, <1>h, <1>s, <2>0, <2>1 DEF CarriesAfter, Carries, Persists
    <2>2. CASE wf.at # "none"
      <3>1. wf.state = "running"
        BY <2>2 DEF Carries
      <3>2. wf.at \in HoldingPlaces => sugg'[wf.sugg].run = wf.run
        BY <1>k, <3>1
      <3>3. wf.at \in CommitPlaces => sugg'[wf.sugg].command # "none"
        BY <1>k, <3>1
      <3>4. wf.at \in {"commit_patch", "commit_finish"} => sugg'[wf.sugg].command = "running"
        BY <1>w, <1>k, <1>h, <3>1 DEF Carries
      <3> QED
        BY <1>p, <1>s, <2>0, <3>1, <3>2, <3>3, <3>4 DEF Carries, CarriesAfter, Persists, Sound
    <2> QED
      BY <2>1, <2>2
  <1>1. ASSUME wf' = wf, \A s \in Suggestions : sugg[s].command = "running" => sugg'[s].command = "running"
        PROVE  Goal
    BY <1>1, <1>w
  <1>2. CASE UNCHANGED vars
    BY <1>1, <1>2 DEF vars
  <1>3. CASE Laravel \/ JobControl \/ Embedding
    <2>1. wf' = wf
      BY <1>3 DEF Laravel, JobControl, Embedding, StartFirst, ForceFromReview, ForceFromClassify,
           ForceFromMaintenance, InsertPlaceholder, MarksStale, Accept, Reject, AdminChecks, AdminWrites,
           ScanFinds, ScanReleases, CloseGate, FinishBuild
    <2> QED
      BY <1>1, <1>3, <2>1, OthersKeepRunning
  <1>4. ASSUME NEW k \in Keys, DeadLetter(k) PROVE Goal
    BY <1>1, <1>4, OthersKeepRunning DEF DeadLetter
  <1>5. ASSUME NEW k \in Keys, Deliver(k) PROVE Goal
    <2>0. /\ wf' = Delivered(k) /\ outbox[k] = "open" /\ sugg' = sugg /\ patched' = patched
          /\ k[1] \in {"embedding_ready", "decision"} => wf.state = "running"
      BY <1>5 DEF Deliver, Deliverable
    <2>c. CarriesAfter(wf)
      BY <1>w, <2>0
    <2>r. ASSUME k[1] \in {"document", "force"} PROVE k[2] \in Runs /\ RequestedAfter(k[2])
      <3>1. k = DocumentKey(k[2]) \/ k = ForceKey(k[2])
        BY <2>r DEF Keys, DocumentKey, ForceKey
      <3> QED
        BY <1>p, <2>0, <2>r, <3>1, KeyFacts DEF Persists, Requested
    <2>1. CASE k[1] = "document"
      BY <1>s, <2>0, <2>1, <2>c, <2>r, CarriesStarts DEF Delivered
    <2>2. CASE k[1] = "embedding_ready"
      <3> DEFINE v == [wf EXCEPT !.ready = TRUE]
      <3>1. /\ v.at = wf.at /\ v.run = wf.run /\ v.state = wf.state /\ v.decision = wf.decision
            /\ v.force = wf.force /\ v.sugg = wf.sugg /\ v.next = wf.next
        BY <1>s DEF Executions
      <3>2. CarriesAfter(v)
        BY <2>c, <3>1 DEF CarriesAfter
      <3> QED
        BY <2>0, <2>2, <3>2 DEF Delivered
    <2>3. CASE k[1] = "decision"
      <3> DEFINE v == [wf EXCEPT !.decision = IF @ = 0 THEN k[2] ELSE @]
      <3>1. /\ v.at = wf.at /\ v.run = wf.run /\ v.state = wf.state
            /\ v.decision = IF wf.decision = 0 THEN k[2] ELSE wf.decision
            /\ v.force = wf.force /\ v.sugg = wf.sugg /\ v.next = wf.next
        BY <1>s DEF Executions
      <3>2. k = DecisionKey(k[2]) /\ k[2] \in Suggestions
        BY <2>3 DEF Keys, DecisionKey
      <3>3. sugg'[k[2]].status \in Decided
        BY <2>0, <3>2 DEF RowInv, DecidedOnly
      <3>4. CarriesAfter(v)
        BY <2>c, <3>1, <3>3 DEF CarriesAfter
      <3> QED
        BY <2>0, <2>3, <3>4 DEF Delivered
    <2>4. CASE k[1] = "force" /\ wf.state = "running"
      <3> DEFINE v == [wf EXCEPT !.force = Newer(k[2], @)]
      <3>1. /\ v.at = wf.at /\ v.run = wf.run /\ v.state = wf.state /\ v.decision = wf.decision
            /\ v.force \in {k[2], wf.force} /\ v.sugg = wf.sugg /\ v.next = wf.next
        BY <1>s DEF Executions, Newer
      <3>2. CarriesAfter(v)
        BY <2>c, <2>4, <2>r, <3>1 DEF CarriesAfter
      <3> QED
        BY <2>0, <2>4, <3>2 DEF Delivered
    <2>5. CASE k[1] = "force" /\ wf.state # "running"
      <3> DEFINE u == Started(k[2])
                 v == [u EXCEPT !.force = k[2]]
      <3>1. u \in Executions /\ CarriesAfter(u)
        BY <2>5, <2>r, StartedFacts, CarriesStarts
      <3> HIDE DEF u
      <3>2. /\ v.at = u.at /\ v.run = u.run /\ v.state = u.state /\ v.decision = u.decision
            /\ v.force = k[2] /\ v.sugg = u.sugg /\ v.next = u.next
        BY <3>1 DEF Executions
      <3>3. CarriesAfter(v)
        BY <2>5, <2>r, <3>1, <3>2 DEF CarriesAfter
      <3>4. wf' = v
        BY <2>0, <2>5 DEF Delivered, u
      <3> QED
        BY <3>3, <3>4
    <2> QED
      BY <2>1, <2>2, <2>3, <2>4, <2>5, KeyFacts
  <1>6. CASE Begin
    <2>1. Moved([wf EXCEPT !.at = "check"], "check")
      BY <1>s, <1>l, MovedForms
    <2> QED
      BY <1>6, <2>1, <1>g DEF Begin, At
  <1>7. CASE ReadinessDecides
    <2>0. wf.state = "running"
      BY <1>7 DEF ReadinessDecides, At
    <2>1. CASE wf' = Checkpoint(Closed("completed"))
      BY <1>c, <2>0, <2>1, CarriesStarts, ClosedFacts
    <2>2. ASSUME NEW s \in Suggestions, sugg[s].run = wf.run,
                 wf' = Checkpoint(FinishReview(wf, s, "review"))
          PROVE  Goal
      BY <1>c, <1>s, <1>p, <2>0, <2>2, CarriesFinishReview, SoundFinishReview DEF Sound
    <2> QED
      BY <1>7, <2>1, <2>2 DEF ReadinessDecides
  <1>8. CASE ReadinessReadsGate
    <2>1. Moved([wf EXCEPT !.at = "locked", !.seen = gate.open], "locked")
      BY <1>s, <1>l, MovedForms
    <2> QED
      BY <1>8, <2>1, <1>f DEF ReadinessReadsGate, At
  <1>9. CASE ReadinessProjects
    <2>1. /\ Moved([wf EXCEPT !.at = "config", !.seen = FALSE], "config")
          /\ Moved([wf EXCEPT !.at = "blocked", !.seen = FALSE], "blocked")
      BY <1>s, <1>l, MovedForms
    <2>2. \/ wf' = Checkpoint([wf EXCEPT !.at = "config", !.seen = FALSE])
          \/ wf' = Checkpoint([wf EXCEPT !.at = "blocked", !.seen = FALSE])
      BY <1>9 DEF ReadinessProjects
    <2> QED
      BY <1>9, <1>g, <2>1, <2>2 DEF ReadinessProjects, ReadinessEffect, At
  <1>10. CASE GateWaitEnds
    <2>1. Moved([wf EXCEPT !.at = "check", !.ready = FALSE], "check")
      BY <1>s, <1>l, MovedForms
    <2> QED
      BY <1>10, <2>1, <1>g DEF GateWaitEnds, At
  <1>11. CASE ConfigurationLoaded
    <2>1. Moved([wf EXCEPT !.at = "phase", !.phase = 1], "phase")
      BY <1>s, <1>l, MovedForms
    <2> QED
      BY <1>11, <2>1, <1>g DEF ConfigurationLoaded, At
  <1>12. CASE PhaseCompletes
    <2>0. wf.at = "phase" /\ wf.state = "running" /\ wf.phase \in 1..PhaseCount
      BY <1>12, <1>s DEF PhaseCompletes, PhaseEffect, At, Sound
    <2>1. wf.phase < PhaseCount => Moved([wf EXCEPT !.phase = wf.phase + 1], "phase")
      <3>1. wf.phase < PhaseCount => wf.phase + 1 \in 0..PhaseCount
        BY <2>0, LifecycleAssumption
      <3>2. \A n \in 0..PhaseCount : Moved([wf EXCEPT !.phase = n], "phase")
        BY <1>s, <1>l, <2>0, MovedForms
      <3> QED
        BY <3>1, <3>2
    <2>2. Moved([wf EXCEPT !.phase = 0, !.at = "publish"], "publish")
      BY <1>s, <1>l, MovedForms
    <2> QED
      BY <1>12, <1>g, <2>0, <2>1, <2>2 DEF PhaseCompletes
  <1>13. ASSUME NEW s \in Suggestions, Publish(s) PROVE Goal
    <2> DEFINE v == [wf EXCEPT !.at = "publish_project", !.sugg = s]
    <2>1. /\ v.at = "publish_project" /\ v.sugg = s /\ v.run = wf.run /\ v.state = wf.state
          /\ v.decision = wf.decision /\ v.force = wf.force
      BY <1>s DEF Executions
    <2>2. sugg'[s].run = wf.run
      <3>1. sugg \in [Suggestions -> SuggestionRows]
        BY DEF TypeOK
      <3>2. CASE sugg[s].run = wf.run /\ UNCHANGED sugg
        BY <3>2
      <3>3. CASE sugg' = [sugg EXCEPT ![s] = PendingRow(wf.run, FALSE)]
        BY <3>1, <3>3, PendingRowFacts
      <3> QED
        BY <1>13, <3>2, <3>3 DEF Publish
    <2>3. wf' = v /\ wf.state = "running"
      BY <1>13 DEF Publish, At
    <2> HIDE DEF v
    <2>4. CarriesAfter(v)
      BY <1>s, <1>p, <1>h, <2>1, <2>2, <2>3, CarriesOn
    <2> QED
      BY <2>3, <2>4
  <1>14. CASE ReviewWaitEnds \/ PublishProjects
    <2>1. /\ wf.state = "running" /\ wf.sugg \in Suggestions /\ sugg[wf.sugg].run = wf.run
      BY <1>14, <1>h, <1>k DEF ReviewWaitEnds, PublishProjects, ProjectionEffect, At
    <2>2. \A stuck \in {"review", "wedged"} :
            CarriesAfter(FinishReview(wf, wf.sugg, stuck)) /\ FinishReview(wf, wf.sugg, stuck) \in Executions
      BY <1>s, <1>p, <2>1, CarriesFinishReview, SoundFinishReview DEF Sound
    <2> QED
      BY <1>14, <1>c, <2>1, <2>2 DEF ReviewWaitEnds, PublishProjects
  <1>15. CASE CommitBegins
    <2>0. wf.at = "commit_begin" /\ wf.state = "running" /\ wf.sugg \in Suggestions
      BY <1>15, <1>h, <1>k DEF CommitBegins, At
    <2>1. CASE wf' = [wf EXCEPT !.at = "finish"]
      BY <1>b, <1>h, <2>0, <2>1
    <2>2. CASE /\ wf' = [wf EXCEPT !.at = "commit_patch"]
               /\ sugg' = [sugg EXCEPT ![wf.sugg] = Reported(wf.sugg, "running", "running")]
      <3> DEFINE v == [wf EXCEPT !.at = "commit_patch"]
      <3>1. /\ v.at = "commit_patch" /\ v.run = wf.run /\ v.state = wf.state /\ v.decision = wf.decision
            /\ v.force = wf.force /\ v.sugg = wf.sugg
        BY <1>s DEF Executions
      <3>2. sugg'[wf.sugg].command = "running"
        BY <2>0, <2>2, ReportedRowFacts DEF TypeOK
      <3> HIDE DEF v
      <3>3. CarriesAfter(v)
        BY <1>s, <1>p, <1>h, <1>k, <2>0, <3>1, <3>2, CarriesOn
      <3> QED
        BY <2>2, <3>3 DEF v
    <2> QED
      BY <1>15, <2>1, <2>2 DEF CommitBegins
  <1>16. CASE CommitRefused
    BY <1>16, <1>b, <1>h DEF CommitRefused, At
  <1>17. CASE CommitPatches
    <2> DEFINE v == [wf EXCEPT !.at = "commit_finish"]
    <2>0. wf.at = "commit_patch" /\ wf.state = "running"
      BY <1>17 DEF CommitPatches, At
    <2>1. /\ v.at = "commit_finish" /\ v.run = wf.run /\ v.state = wf.state /\ v.decision = wf.decision
          /\ v.force = wf.force /\ v.sugg = wf.sugg
      BY <1>s DEF Executions
    <2>2. sugg'[wf.sugg].command = "running" /\ wf.sugg \in patched'
      BY <1>17, <2>0 DEF CommitPatches, Carries
    <2>3. wf' = v
      BY <1>17 DEF CommitPatches
    <2> HIDE DEF v
    <2>4. CarriesAfter(v)
      BY <1>s, <1>p, <1>h, <1>k, <2>0, <2>1, <2>2, CarriesOn
    <2> QED
      BY <2>3, <2>4
  <1>18. CASE CommitFinishes
    BY <1>18, <1>b, <1>h DEF CommitFinishes, CommitEffect, At
  <1>19. CASE CommitFails
    <2>1. Moved([wf EXCEPT !.at = "fail_run"], "fail_run")
      BY <1>s, <1>l, MovedForms
    <2> QED
      BY <1>19, <2>1, <1>f DEF CommitFails, CommitFailEffect, At
  <1>20. CASE ReviewFinishes \/ RunFails \/ ActivityRefused
    BY <1>20, CarriesStarts DEF ReviewFinishes, RunFails, ActivityRefused
  <1>21. CASE Supersede
    <2>0. /\ wf.at = "supersede" /\ wf.next \in Runs /\ wf.state = "running" /\ RequestedAfter(wf.next)
      BY <1>21, <1>s, <1>p DEF Supersede, SupersedeEffect, At, Sound, Carries, Persists
    <2>1. CASE wf' = Started(wf.next)
      BY <2>0, <2>1, CarriesStarts
    <2>2. CASE wf.force > wf.next /\ wf' = [wf EXCEPT !.over = wf.next, !.next = wf.force, !.force = 0]
      <3> DEFINE v == [wf EXCEPT !.over = wf.next, !.next = wf.force, !.force = 0]
      <3>1. /\ v.at = "supersede" /\ v.run = wf.run /\ v.state = wf.state /\ v.decision = wf.decision
            /\ v.force = 0 /\ v.next = wf.force
        BY <1>s, <2>0 DEF Executions
      <3>2. wf.force \in Runs
        BY <1>s, <2>0, <2>2, LifecycleAssumption DEF Executions, Runs
      <3>3. RequestedAfter(wf.force)
        BY <1>p, <3>2 DEF Carries, Persists
      <3> HIDE DEF v
      <3>4. CarriesAfter(v)
        BY <1>s, <1>p, <1>h, <2>0, <3>1, <3>3, CarriesOn
      <3> QED
        BY <2>2, <3>4 DEF v
    <2> QED
      BY <1>21, <2>1, <2>2 DEF Supersede
  <1>22. CASE AttemptAborted \/ CompletionLost
    <2> DEFINE place == CASE wf.at = "locked" -> "check"
                          [] wf.at \in PublishSteps -> "publish"
                          [] wf.at \in CommitSteps -> "commit_begin"
                          [] OTHER -> wf.at
               v == [wf EXCEPT !.seen = FALSE, !.at = place]
    <2>0. wf' = v
      BY <1>22 DEF AttemptAborted, CompletionLost, NextAttempt
    <2>1. wf.state = "running" /\ (wf.at \in CommitSteps => wf.at \in CommitPlaces)
            /\ wf.at \in {"locked", "phase", "publish_project", "commit_patch", "commit_finish",
                          "fail_commit", "finish", "fail_run", "supersede"}
      BY <1>22, <1>h DEF AttemptAborted, CompletionLost, ReadinessEffect, PhaseEffect, ProjectionEffect,
           CommitEffect, CommitFailEffect, FinishEffect, RunFailEffect, SupersedeEffect, At
    <2>2. place \in {"check", "phase", "publish", "commit_begin", "fail_commit", "finish", "fail_run", "supersede"}
      BY <1>h, <2>1
    <2>3. /\ place \in HoldingPlaces => wf.at \in HoldingPlaces
          /\ place \in CommitPlaces => wf.at \in CommitPlaces
          /\ place = "supersede" => wf.at = "supersede"
      BY <1>h, <2>1
    <2> HIDE DEF place
    <2>4. /\ v.at = place /\ v.run = wf.run /\ v.state = wf.state /\ v.decision = wf.decision
          /\ v.force = wf.force /\ v.sugg = wf.sugg /\ v.next = wf.next
      BY <1>s DEF Executions
    <2>5. place = "supersede" => RequestedAfter(wf.next)
      BY <1>s, <1>p, <2>3 DEF Sound, Carries, Persists
    <2> HIDE DEF v
    <2>6. CarriesAfter(v)
      BY <1>s, <1>p, <1>h, <1>k, <2>1, <2>2, <2>3, <2>4, <2>5, CarriesOn
    <2> QED
      BY <2>0, <2>6
  <1>23. CASE ActivityExhausted
    <2>1. ASSUME wf.at \in PublishSteps \cup {"phase"}, wf' = [wf EXCEPT !.at = "fail_run"], wf.state = "running"
          PROVE  Goal
      <3>1. Moved([wf EXCEPT !.at = "fail_run"], "fail_run")
        BY <1>s, <1>l, MovedForms
      <3> QED
        BY <1>f, <2>1, <3>1
    <2>2. ASSUME wf.at \in CommitSteps, wf' = [wf EXCEPT !.at = "fail_commit"], wf.state = "running"
          PROVE  Goal
      BY <1>b, <1>h, <2>2
    <2> QED
      BY <1>23, <2>1, <2>2, CarriesStarts DEF ActivityExhausted
  <1> QED
    BY <1>2, <1>3, <1>4, <1>5, <1>6, <1>7, <1>8, <1>9, <1>10, <1>11, <1>12, <1>13, <1>14,
       <1>15, <1>16, <1>17, <1>18, <1>19, <1>20, <1>21, <1>22, <1>23
       DEF Next, Relay, Progress, Readiness, LastTransaction, Trouble

-----------------------------------------------------------------------------
(* Queued generations.                                                     *)

\* Every write of "queued" goes with a request, or is made for a run that has one.
LEMMA QueuedStep ==
  ASSUME TypeOK, OwnsRun, Carries(wf), RowInv, QueuedHasStartIntent, [Next]_vars
  PROVE  QueuedHasStartIntent'
  <1>0. /\ run \in [Runs -> RunRows] /\ Persists
        /\ \A r \in Runs : run[r].status = "queued" => RequestedAfter(r)
    BY StepsPersist DEF TypeOK, QueuedHasStartIntent, Persists, Requested
  <1> SUFFICES ASSUME NEW r \in Runs, run'[r].status = "queued"
               PROVE  RequestedAfter(r)
    BY DEF QueuedHasStartIntent, RequestedAfter, DocumentKey, ForceKey
  <1>k. DocumentKey(r) \in Keys /\ ForceKey(r) \in Keys
    BY KeyFacts
  <1>p. \A status, stage : Projected(r, status, stage).status = status
    BY DEF Projected
  <1>1. CASE run'[r] = run[r]
    BY <1>0, <1>1
  <1>2. ASSUME NEW q \in Runs, NEW forced \in BOOLEAN, StartRun(q, forced) PROVE RequestedAfter(r)
    <2>1. CASE q = r /\ gate.open
      <3>1. outbox' = Recorded({IF forced THEN ForceKey(r) ELSE DocumentKey(r)})
        BY <1>2, <2>1 DEF StartRun
      <3>2. CASE forced
        BY <1>k, <3>1, <3>2, RecordedFacts DEF RequestedAfter
      <3>3. CASE ~forced
        BY <1>k, <3>1, <3>3, RecordedFacts DEF RequestedAfter
      <3> QED
        BY <3>2, <3>3
    <2>2. CASE q = r /\ ~gate.open
      BY <1>0, <1>2, <2>2 DEF StartRun
    <2>3. CASE q # r
      BY <1>0, <1>1, <1>2, <2>3 DEF StartRun
    <2> QED
      BY <2>1, <2>2, <2>3
  <1>3. ASSUME NEW q \in Runs, AdminWrites(q) PROVE RequestedAfter(r)
    <2>1. CASE q # r
      BY <1>0, <1>1, <1>3, <2>1 DEF AdminWrites
    <2>2. CASE q = r
      <3>1. [run[r] EXCEPT !.status = "cancel_requested"].status = "cancel_requested"
        BY <1>0 DEF RunRows
      <3> QED
        BY <1>0, <1>3, <1>p, <2>2, <3>1 DEF AdminWrites
    <2> QED
      BY <2>1, <2>2
  <1>4. ASSUME NEW q \in Runs, ScanReleases(q) PROVE RequestedAfter(r)
    <2>1. CASE q = r /\ run[r].status = "blocked"
      <3>1. outbox' = Recorded({IF run[r].forced THEN ForceKey(r) ELSE DocumentKey(r)})
        BY <1>4, <2>1 DEF ScanReleases
      <3>2. CASE run[r].forced
        BY <1>k, <3>1, <3>2, RecordedFacts DEF RequestedAfter
      <3>3. CASE ~run[r].forced
        BY <1>k, <3>1, <3>3, RecordedFacts DEF RequestedAfter
      <3> QED
        BY <3>2, <3>3
    <2>2. CASE q # r \/ run[r].status # "blocked"
      BY <1>0, <1>1, <1>4, <2>2 DEF ScanReleases
    <2> QED
      BY <2>1, <2>2
  <1>5. CASE FinishBuild
    <2>1. CASE r \in Blocked
      BY <1>k, <1>5, <2>1, ReleaseFacts, RecordedFacts DEF FinishBuild, RequestedAfter
    <2>2. CASE r \notin Blocked
      BY <1>0, <1>1, <1>5, <2>2 DEF FinishBuild
    <2> QED
      BY <2>1, <2>2
  <1>6. ASSUME NEW k \in Keys, DeadLetter(k) PROVE RequestedAfter(r)
    <2>1. \A q \in Runs : [run[q] EXCEPT !.status = "failed_permanent"].status = "failed_permanent"
      BY <1>0 DEF RunRows
    <2> QED
      BY <1>0, <1>1, <1>6, <2>1, KeyFacts DEF DeadLetter
  <1>7. CASE WorkflowWritesRun
    <2>0. wf.run \in Runs /\ wf.state = "running"
      BY <1>7 DEF WorkflowWritesRun, OwnsRun, Sound, At, ReadinessEffect, PhaseEffect, ProjectionEffect,
                  FinishEffect, RunFailEffect, SupersedeEffect
    <2>1. CASE ReadinessEffect
      <3>1. RequestedAfter(wf.run)
        BY <1>0, <2>0 DEF Carries, Persists
      <3>2. CASE r = wf.run
        BY <3>1, <3>2
      <3>3. CASE r # wf.run
        BY <1>0, <1>1, <2>1, <3>3 DEF ReadinessEffect
      <3> QED
        BY <3>2, <3>3
    <2>2. CASE PhaseEffect
      <3>1. CASE run' = [run EXCEPT ![wf.run] = PhaseRecorded(wf.run, wf.phase)] /\ r = wf.run
        <4>1. PhaseRecorded(r, wf.phase).status = IF CancelAsked(r) THEN run[r].status ELSE "running"
          BY <1>0, <1>p DEF PhaseRecorded, RunRows, Projected
        <4> QED
          BY <1>0, <3>1, <4>1 DEF CancelAsked
      <3>2. CASE UNCHANGED run \/ r # wf.run
        BY <1>0, <1>1, <2>2, <3>2 DEF PhaseEffect
      <3> QED
        BY <2>2, <3>1, <3>2 DEF PhaseEffect
    <2>3. CASE ProjectionEffect \/ FinishEffect \/ RunFailEffect
      BY <1>0, <1>1, <1>p, <2>0, <2>3 DEF ProjectionEffect, FinishEffect, RunFailEffect
    <2>4. CASE SupersedeEffect
      BY <1>0, <1>1, <1>p, <2>4 DEF SupersedeEffect
    <2> QED
      BY <1>7, <2>1, <2>2, <2>3, <2>4 DEF WorkflowWritesRun
  <1> QED
    BY <1>1, <1>2, <1>3, <1>4, <1>5, <1>6, <1>7, RunWriters DEF LaravelStarts

-----------------------------------------------------------------------------
\* The inductive invariant.
Inductive == TypeOK /\ OwnsRun /\ Carries(wf) /\ RowInv /\ QueuedHasStartIntent

LEMMA InitInductive == Init => Inductive
  <1> SUFFICES ASSUME Init PROVE Inductive
    OBVIOUS
  <1>0. wf = Closed("none") /\ MaxRuns \in Nat
    BY LifecycleAssumption DEF Init
  <1>1. wf.state = "none" /\ wf.at = "none" /\ wf.decision = 0 /\ wf.force = 0
    BY <1>0 DEF Closed
  <1>2. OwnsRun /\ wf \in Executions
    BY <1>0, <1>1, ClosedFacts DEF OwnsRun, Sound, HoldingPlaces, CommitSteps
  <1>3. TypeOK
    <2>1. NoRun \in RunRows
      BY LifecycleAssumption DEF NoRun, RunRows, RunStatuses, Stages
    <2>2. NoSuggestion \in SuggestionRows
      BY <1>0 DEF NoSuggestion, SuggestionRows
    <2> QED
      BY <1>2, <2>1, <2>2, LifecycleAssumption DEF Init, TypeOK
  <1>4. Carries(wf)
    BY <1>1 DEF Carries, HoldingPlaces, CommitPlaces, CommitSteps, Runs, Suggestions
  <1>5. RowInv
    BY KeyFacts DEF Init, RowInv, DecidedOnly, AbsentRowsAreEmpty, AcceptedHasCommand,
                    CommitAndCommandAgree, PublishedOnce, NoSuggestion, Absent
  <1>6. QueuedHasStartIntent
    BY DEF Init, QueuedHasStartIntent, NoRun
  <1> QED
    BY <1>2, <1>3, <1>4, <1>5, <1>6 DEF Inductive

\* The state in which every commit, publication and release finds the database is
\* one the code was written for, whatever was retried, redelivered or replaced.
THEOREM Invariance == Spec => []Inductive
  <1>1. Inductive /\ [Next]_vars => Inductive'
    <2> SUFFICES ASSUME Inductive, [Next]_vars PROVE Inductive'
      OBVIOUS
    <2> USE DEF Inductive
    <2>1. TypeOK'
      BY TypeStep
    <2>2. OwnsRun'
      BY SoundStep
    <2>3. Carries(wf)'
      BY CarriesStep
    <2>4. RowInv'
      BY RowInvStep
    <2>5. QueuedHasStartIntent'
      BY QueuedStep
    <2> QED
      BY <2>1, <2>2, <2>3, <2>4, <2>5
  <1> QED
    BY <1>1, InitInductive, PTL DEF Spec

\* A committed row has a command that succeeded, whichever of the worker, its
\* failure handler and the dead letter wrote last, and a command that succeeded a
\* committed row, unless a look at Paperless marked it stale in between
\* (review_activities.py 112-255, outbox.py 128-175,
\* ReviewSuggestionController.php 498-520).
THEOREM CommitsAgree == Spec => []CommitAndCommandAgree
  <1>1. Inductive => CommitAndCommandAgree
    BY DEF Inductive, RowInv
  <1> QED
    BY <1>1, Invariance, PTL
\* However often a generation is started and its publication retried, it has one
\* published suggestion (review_suggestions.py 205-291).
THEOREM PublishesOnce == Spec => []PublishedOnce
  <1>1. Inductive => PublishedOnce
    BY DEF Inductive, RowInv
  <1> QED
    BY <1>1, Invariance, PTL
\* The workflow never waits for, commits or fails the suggestion of another
\* generation (workflows.py 405-464).
THEOREM ReviewsOwn == Spec => []ReviewsItsOwn
  <1>1. Inductive => ReviewsItsOwn
    BY DEF Inductive, Carries, ReviewsItsOwn, HoldingPlaces, CommitSteps
  <1> QED
    BY <1>1, Invariance, PTL
\* A generation shown as queued has been requested from Temporal, whoever queued
\* it (job-control-model.md 93).
THEOREM QueuedWasRequested == Spec => []QueuedHasStartIntent
  <1>1. Inductive => QueuedHasStartIntent
    BY DEF Inductive
  <1> QED
    BY <1>1, Invariance, PTL
=============================================================================
