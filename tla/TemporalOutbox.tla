--------------------------- MODULE TemporalOutbox ---------------------------
(***************************************************************************)
(* The transactional outbox between ArchiBot's PostgreSQL database and the *)
(* Temporal service: the intent rows (TemporalOutbox.php, outbox.py), the  *)
(* single relay process that claims, delivers and acknowledges them        *)
(* (relay.py), and the workflow identities of the Temporal service as the  *)
(* relay's three client calls use them.                                    *)
(*                                                                         *)
(* Time is abstracted: a row is `due` when its available_at (pending) or   *)
(* its lease (delivering) has passed.  A call to Temporal may be refused,  *)
(* be accepted, or be accepted with its answer lost.                       *)
(***************************************************************************)
EXTENDS Integers, FiniteSets

CONSTANTS
  Intents,      \* row ids: claims go by ascending id
  Workflows,    \* stable Temporal workflow ids
  Operation,    \* [Intents -> Operations], the immutable operation of a row
  Target,       \* [Intents -> Workflows], the immutable workflow_id of a row
  Names,        \* [Intents -> NamedRows], the row its payload identifies
  MaxAttempts,  \* settings.temporal_outbox_max_attempts
  MaxRecorded,  \* bound: rows recorded in one behaviour
  MaxCrashes    \* bound: relay crashes explored

Operations == {"start_workflow", "signal_with_start", "signal_workflow"}
\* A decision names two rows: the commit command and its review suggestion.
NamedRows == {"command", "decision", "pipeline_run"}

ASSUME IntentsAssumption ==
  /\ Intents \subseteq Nat \ {0}
  /\ Operation \in [Intents -> Operations]
  /\ Target \in [Intents -> Workflows]
  /\ Names \in [Intents -> NamedRows]
ASSUME BoundsAssumption == MaxAttempts \in Nat \ {0} /\ {MaxRecorded, MaxCrashes} \subseteq Nat

VARIABLES
  intent,      \* temporal_outbox_intents rows
  relay,       \* the relay process: what it holds in memory
  server,      \* Temporal: executions under each workflow id
  reached,     \* history: Temporal has accepted the operation of row i
  projection,  \* status of the command or pipeline_run the payload of i names
  commit,      \* commit_status of the suggestion a decision names
  crashes

vars == <<intent, relay, server, reached, projection, commit, crashes>>

Statuses == {"absent", "pending", "delivering", "delivered", "dead_letter"}
IntentRows == [status : Statuses, attempts : Nat, due : BOOLEAN]
Idle == [at |-> "idle", intent |-> 0, attempts |-> 0]

\* `starts` counts the executions Temporal has created under the identity.
Executions == [state : {"none", "running", "closed"}, starts : Nat]

\* `begun` stands for every status a worker writes from its first activity on.
RowStatuses == {"queued", "blocked", "begun", "failed_permanent"}
CommitStatuses == {"none", "queued", "running", "committed", "failed"}

TypeOK ==
  /\ intent \in [Intents -> IntentRows]
  /\ relay \in [at : {"idle", "claimed", "accepted", "refused"},
                intent : Intents \cup {0}, attempts : Nat]
  /\ server \in [Workflows -> Executions]
  /\ reached \in [Intents -> BOOLEAN]
  /\ projection \in [Intents -> RowStatuses]
  /\ commit \in [Intents -> CommitStatuses]
  /\ crashes \in 0..MaxCrashes

Init ==
  /\ intent = [i \in Intents |-> [status |-> "absent", attempts |-> 0, due |-> FALSE]]
  /\ relay = Idle
  /\ server = [w \in Workflows |-> [state |-> "none", starts |-> 0]]
  /\ reached = [i \in Intents |-> FALSE]
  /\ projection = [i \in Intents |-> "queued"]
  /\ commit = [i \in Intents |-> IF Names[i] = "decision" THEN "queued" ELSE "none"]
  /\ crashes = 0

-----------------------------------------------------------------------------
(* Laravel and the embedding activity: writing rows.                       *)

\* TemporalOutbox::record: the key is unique, so a repeated write of the same
\* intent returns the row that exists (a stuttering step here).
Record(i) ==
  /\ intent[i].status = "absent"
  /\ Cardinality({j \in Intents : intent[j].status # "absent"}) < MaxRecorded
  /\ intent' = [intent EXCEPT ![i] = [status |-> "pending", attempts |-> 0, due |-> TRUE]]
  /\ UNCHANGED <<relay, server, reached, projection, commit, crashes>>

\* available_at passes, or the lease of a claimed row expires.
BecomesDue(i) ==
  /\ intent[i].status \in {"pending", "delivering"}
  /\ ~intent[i].due
  /\ intent' = [intent EXCEPT ![i].due = TRUE]
  /\ UNCHANGED <<relay, server, reached, projection, commit, crashes>>

-----------------------------------------------------------------------------
(* The relay loop.                                                         *)

\* Mutant: a claim that forgets rows abandoned under an expired lease.
ClaimableWithoutLease(i) == intent[i].status = "pending" /\ intent[i].due

Claimable(i) == intent[i].status \in {"pending", "delivering"} /\ intent[i].due

\* claim_next_intent: the lowest due row, pending or abandoned under a lease.
Claim(i) ==
  /\ relay.at = "idle"
  /\ Claimable(i)
  /\ \A j \in Intents : Claimable(j) => i <= j
  /\ intent' = [intent EXCEPT ![i] = [status |-> "delivering",
                                      attempts |-> @.attempts + 1, due |-> FALSE]]
  /\ relay' = [at |-> "claimed", intent |-> i, attempts |-> intent[i].attempts + 1]
  /\ UNCHANGED <<server, reached, projection, commit, crashes>>

\* Mutant: starts made with ALLOW_DUPLICATE, only a running execution conflicts.
AcceptedReusingIds(i, w) ==
  IF Operation[i] # "signal_workflow" /\ server[w].state # "running"
  THEN [state |-> "running", starts |-> server[w].starts + 1] ELSE server[w]

\* What Temporal does with an accepted call: REJECT_DUPLICATE starts only an
\* identity never used before; signal_with_start signals the running execution
\* or starts another one; a signal leaves the execution as it is.
Accepted(i, w) ==
  CASE Operation[i] = "start_workflow" ->
         IF server[w].state = "none" THEN [state |-> "running", starts |-> 1] ELSE server[w]
    [] Operation[i] = "signal_with_start" ->
         IF server[w].state = "running" THEN server[w]
         ELSE [state |-> "running", starts |-> server[w].starts + 1]
    [] OTHER -> server[w]

\* A signal needs a running execution; every other operation is acceptable.
Acceptable(i) == Operation[i] = "signal_workflow" => server[Target[i]].state = "running"

\* deliver_intent returns, WorkflowAlreadyStartedError included.
Deliver(i) ==
  /\ relay.at = "claimed" /\ relay.intent = i
  /\ Acceptable(i)
  /\ server' = [server EXCEPT ![Target[i]] = Accepted(i, Target[i])]
  /\ reached' = [reached EXCEPT ![i] = TRUE]
  /\ relay' = [relay EXCEPT !.at = "accepted"]
  /\ UNCHANGED <<intent, projection, commit, crashes>>

\* deliver_intent raises although Temporal accepted the call: the answer was lost.
DeliverAnswerLost(i) ==
  /\ relay.at = "claimed" /\ relay.intent = i
  /\ Acceptable(i)
  /\ server' = [server EXCEPT ![Target[i]] = Accepted(i, Target[i])]
  /\ reached' = [reached EXCEPT ![i] = TRUE]
  /\ relay' = [relay EXCEPT !.at = "refused"]
  /\ UNCHANGED <<intent, projection, commit, crashes>>

\* deliver_intent raises and Temporal did nothing.
DeliverRefused(i) ==
  /\ relay.at = "claimed" /\ relay.intent = i
  /\ relay' = [relay EXCEPT !.at = "refused"]
  /\ UNCHANGED <<intent, server, reached, projection, commit, crashes>>

\* Mutant: the relay acknowledges even after a delivery that raised.
MarkDeliveredAnyway(i) ==
  /\ relay.at \in {"accepted", "refused"} /\ relay.intent = i
  /\ intent' = [intent EXCEPT ![i].status = "delivered"]
  /\ relay' = Idle
  /\ UNCHANGED <<server, reached, projection, commit, crashes>>

\* mark_delivered, guarded by status = 'delivering'.
MarkDelivered(i) ==
  /\ relay.at = "accepted" /\ relay.intent = i
  /\ intent' = [intent EXCEPT ![i].status =
                  IF @ = "delivering" THEN "delivered" ELSE @]
  /\ relay' = Idle
  /\ UNCHANGED <<server, reached, projection, commit, crashes>>

Exhausted(attempts) == attempts >= MaxAttempts

\* Mutants of the projection: another table's status; decisions forgotten;
\* no look at the row's own progress.
DeadLetteredAsFailed(i) == IF projection[i] = "queued" THEN "failed" ELSE projection[i]
DeadLetteredStartsOnly(i) ==
  IF Operation[i] = "start_workflow" /\ projection[i] = "queued"
  THEN "failed_permanent" ELSE projection[i]
DeadLetteredBlindly(i) == "failed_permanent"

\* Which dead letters fail the row they name: a command for every operation, a
\* pipeline run only when the operation was to start its workflow.
FailsNamedRow(i) == Names[i] # "pipeline_run" \/ Operation[i] # "signal_workflow"

\* The statuses in which no worker has picked the named row up: a run may also
\* have been blocked by its readiness check, a command may not.
Unbegun(i) == IF Names[i] = "pipeline_run" THEN {"queued", "blocked"} ELSE {"queued"}

\* ... and only while no worker has picked the row up.
DeadLettered(i) ==
  IF FailsNamedRow(i) /\ projection[i] \in Unbegun(i) THEN "failed_permanent" ELSE projection[i]

\* The suggestion of a decision is failed with it, also under a commit that
\* runs: only a committed one is left as it is.
CommitDeadLettered(i) ==
  IF Names[i] = "decision" /\ commit[i] # "committed" THEN "failed" ELSE commit[i]

\* mark_failed: back to pending with a delay, or dead-lettered together with
\* every projection of the work it was to start, in one transaction.
MarkFailed(i) ==
  /\ relay.at = "refused" /\ relay.intent = i
  /\ relay' = Idle
  /\ IF intent[i].status = "delivering"
     THEN /\ intent' = [intent EXCEPT ![i].due = FALSE, ![i].status =
                          IF Exhausted(relay.attempts) THEN "dead_letter" ELSE "pending"]
          /\ projection' = [projection EXCEPT ![i] =
                              IF Exhausted(relay.attempts) THEN DeadLettered(i) ELSE @]
          /\ commit' = [commit EXCEPT ![i] =
                          IF Exhausted(relay.attempts) THEN CommitDeadLettered(i) ELSE @]
     ELSE UNCHANGED <<intent, projection, commit>>
  /\ UNCHANGED <<server, reached, crashes>>

\* The process dies at any point and is restarted with an empty memory; the
\* row it had claimed waits for its lease.
Crash ==
  /\ relay.at # "idle" /\ crashes < MaxCrashes
  /\ relay' = Idle
  /\ crashes' = crashes + 1
  /\ UNCHANGED <<intent, server, reached, projection, commit>>

-----------------------------------------------------------------------------
(* The Temporal worker, as far as the outbox can tell.                     *)

InWorkflow(i) == reached[i] /\ server[Target[i]].state = "running"

\* An activity of the execution marks the named row as running, also a row that
\* a dead letter has already failed (_prepare_build_projection and
\* _upsert_phase_state do not test for failed_permanent); only a commit looks
\* at its command first, and marks the suggestion too (_begin_review_commit).
WorkBegins(i) ==
  /\ InWorkflow(i)
  /\ projection[i] # "begun" \/ commit[i] = "failed"
  /\ Names[i] = "decision" => projection[i] # "failed_permanent"
  /\ projection' = [projection EXCEPT ![i] = "begun"]
  /\ commit' = [commit EXCEPT ![i] = IF Names[i] = "decision" THEN "running" ELSE @]
  /\ UNCHANGED <<intent, relay, server, reached, crashes>>

\* _finish_review_commit writes `committed` over whatever the suggestion says.
CommitFinishes(i) ==
  /\ InWorkflow(i) /\ Names[i] = "decision"
  /\ projection[i] = "begun"
  /\ commit' = [commit EXCEPT ![i] = "committed"]
  /\ UNCHANGED <<intent, relay, server, reached, projection, crashes>>

\* check_document_processing_readiness finds the index not ready ...
RunBlocks(i) ==
  /\ InWorkflow(i) /\ Names[i] = "pipeline_run"
  /\ projection[i] = "queued"
  /\ projection' = [projection EXCEPT ![i] = "blocked"]
  /\ UNCHANGED <<intent, relay, server, reached, commit, crashes>>

\* ... and a completed build releases what is blocked.
RunReleased(i) ==
  /\ projection[i] = "blocked"
  /\ projection' = [projection EXCEPT ![i] = "queued"]
  /\ UNCHANGED <<intent, relay, server, reached, commit, crashes>>

WorkflowCloses(w) ==
  /\ server[w].state = "running"
  /\ server' = [server EXCEPT ![w].state = "closed"]
  /\ UNCHANGED <<intent, relay, reached, projection, commit, crashes>>

-----------------------------------------------------------------------------
RelayStep(i) ==
  \/ Claim(i)
  \/ Deliver(i) \/ DeliverAnswerLost(i) \/ DeliverRefused(i)
  \/ MarkDelivered(i) \/ MarkFailed(i)

WorkerStep(i) == WorkBegins(i) \/ CommitFinishes(i) \/ RunBlocks(i) \/ RunReleased(i)

Next ==
  \/ \E i \in Intents : Record(i) \/ BecomesDue(i) \/ RelayStep(i) \/ WorkerStep(i)
  \/ \E w \in Workflows : WorkflowCloses(w)
  \/ Crash

\* The supervised relay keeps looping and time passes; nothing obliges anyone
\* to record an intent, a call to succeed or a workflow to make progress.
Fairness ==
  /\ WF_vars(\E i \in Intents : RelayStep(i))
  /\ \A i \in Intents : WF_vars(BecomesDue(i))

Spec == Init /\ [][Next]_vars
FairSpec == Spec /\ Fairness

-----------------------------------------------------------------------------
(* Properties.                                                             *)

Open(i) == intent[i].status \in {"pending", "delivering"}

Delivery == INSTANCE IntentDelivery WITH
  standing <- [i \in Intents |-> IF Open(i) THEN "open" ELSE intent[i].status]

\* The outbox keeps the promise of IntentDelivery whatever the relay's crashes
\* and the lost answers: nothing is acknowledged that Temporal never accepted,
\* and settled rows stay settled (relay.py 104-129, outbox.py 84-116).
KeepsDeliveryContract == Delivery!DeliverySpec

\* "The relay starts the workflow exactly once": under an identity used only by
\* start_workflow rows, redelivery after a crash or a lost answer never creates
\* a second execution, even after the first has closed (relay.py 32-47).
StartedAtMostOnce ==
  \A w \in Workflows :
    (\A i \in Intents : Target[i] = w => Operation[i] # "signal_with_start")
      => server[w].starts <= 1

\* A dead letter never takes back work a worker has begun: the command or run
\* stays with the worker, and a suggestion that is committed stays so.
\* The commit_status of a commit that still runs is failed all the same
\* (outbox.py 138-197).
DeadLetterSparesBegunWork ==
  [][\A i \in Intents :
       /\ projection[i] = "begun" => projection'[i] = "begun"
       /\ commit[i] = "committed" => commit'[i] = "committed"]_vars

\* Every recorded intent is eventually delivered or dead-lettered: refusals,
\* poison rows ahead of it, crashes that burn the last attempt and abandoned
\* leases do not keep it open for ever (outbox.py 29-66, 102-127).
EventuallySettled ==
  \A i \in Intents : Open(i) ~> intent[i].status \in {"delivered", "dead_letter"}

\* Work is never silently abandoned: when the start or decision that Temporal
\* never accepted is dead-lettered, the command or run it was for is visibly
\* failed in the same commit, and so is the suggestion of a decision
\* (outbox.py 128-199).
AbandonedWorkIsFailed ==
  \A i \in Intents :
    /\ intent[i].status = "dead_letter" /\ ~reached[i]
    /\ Names[i] # "pipeline_run" \/ Operation[i] \in {"start_workflow", "signal_with_start"}
    => /\ projection[i] = "failed_permanent"
       /\ Names[i] = "decision" => commit[i] = "failed"
=============================================================================
