------------------------ MODULE TemporalOutboxProofs ------------------------
(***************************************************************************)
(* What holds of the outbox for any number of intents, workflows, attempts *)
(* and relay crashes.  The inductive invariant ties the relay's memory to  *)
(* the row it has claimed; every theorem below follows from it.            *)
(***************************************************************************)
EXTENDS TemporalOutbox, TLAPS

\* The row in the relay's hands is still claimed, and it has reached Temporal
\* when the relay believes it was accepted.
HoldsItsClaim ==
  relay.at # "idle" =>
    /\ relay.intent \in Intents
    /\ intent[relay.intent].status = "delivering"
    /\ relay.at = "accepted" => reached[relay.intent]

\* An identity nobody has started yet has no executions.
UnusedIdentities == \A w \in Workflows : server[w].state = "none" => server[w].starts = 0

\* A row that was never recorded cannot have reached Temporal.
ReachedIsRecorded == \A i \in Intents : reached[i] => intent[i].status # "absent"

\* Only work that reached Temporal can have been picked up by a worker.
WorkBeganAfterReach ==
  \A i \in Intents : projection[i] \in {"begun", "blocked"} => reached[i]

\* A committed decision has reached Temporal, and its command has begun.
CommitAfterReach ==
  \A i \in Intents : commit[i] = "committed" => reached[i] /\ projection[i] = "begun"

IInv ==
  /\ TypeOK
  /\ WorkBeganAfterReach
  /\ CommitAfterReach
  /\ HoldsItsClaim
  /\ UnusedIdentities
  /\ ReachedIsRecorded
  /\ StartedAtMostOnce
  /\ AbandonedWorkIsFailed

-----------------------------------------------------------------------------

\* The outbox starts in the invariant: nothing is recorded, claimed or started.
LEMMA InitIInv == Init => IInv
  <1> SUFFICES ASSUME Init PROVE IInv
    OBVIOUS
  <1>1. TypeOK
    BY BoundsAssumption DEF Init, TypeOK, IntentRows, Statuses, Idle, Executions, RowStatuses, CommitStatuses
  <1>2. HoldsItsClaim
    BY DEF Init, HoldsItsClaim, Idle
  <1>3. UnusedIdentities /\ ReachedIsRecorded /\ WorkBeganAfterReach /\ CommitAfterReach
    BY DEF Init, UnusedIdentities, ReachedIsRecorded, WorkBeganAfterReach, CommitAfterReach
  <1>4. StartedAtMostOnce
    BY SMT DEF Init, StartedAtMostOnce
  <1>5. AbandonedWorkIsFailed
    BY DEF Init, AbandonedWorkIsFailed
  <1> QED
    BY <1>1, <1>2, <1>3, <1>4, <1>5 DEF IInv

\* What an accepted call makes of an execution: its counter stays a number, a
\* start leaves a used identity, and only signal_with_start restarts a used one.
LEMMA AcceptedFacts ==
  ASSUME TypeOK, UnusedIdentities, NEW i \in Intents
  PROVE  LET w == Target[i] IN
         /\ w \in Workflows
         /\ Accepted(i, w) \in Executions
         /\ Accepted(i, w).state = "none" => Accepted(i, w).starts = 0
         /\ Operation[i] # "signal_with_start" =>
              Accepted(i, w).starts = server[w].starts \/ Accepted(i, w).starts = 1
  <1> DEFINE w == Target[i]
  <1>1. w \in Workflows /\ Operation[i] \in Operations
    BY IntentsAssumption
  <1>2. server[w] \in Executions /\ (server[w].state = "none" => server[w].starts = 0)
    BY <1>1 DEF TypeOK, UnusedIdentities
  <1>3. CASE Operation[i] = "start_workflow"
    BY <1>1, <1>2, <1>3 DEF Accepted, Executions
  <1>4. CASE Operation[i] = "signal_with_start"
    BY <1>1, <1>2, <1>4 DEF Accepted, Executions
  <1>5. CASE Operation[i] = "signal_workflow"
    BY <1>1, <1>2, <1>5 DEF Accepted, Executions
  <1> QED
    BY <1>1, <1>3, <1>4, <1>5 DEF Operations

\* Both accepted outcomes change the same rows; they differ in what the relay
\* comes to believe.
LEMMA ReachingTemporal ==
  ASSUME IInv, NEW i \in Intents, NEW belief \in {"accepted", "refused"},
         relay.at = "claimed", relay.intent = i,
         server' = [server EXCEPT ![Target[i]] = Accepted(i, Target[i])],
         reached' = [reached EXCEPT ![i] = TRUE],
         relay' = [relay EXCEPT !.at = belief],
         UNCHANGED <<intent, projection, commit, crashes>>
  PROVE  IInv'
  <1> USE DEF IInv
  <1> DEFINE w == Target[i]
  <1>1. /\ w \in Workflows /\ Accepted(i, w) \in Executions
        /\ Accepted(i, w).state = "none" => Accepted(i, w).starts = 0
        /\ Operation[i] # "signal_with_start" =>
             Accepted(i, w).starts = server[w].starts \/ Accepted(i, w).starts = 1
    BY AcceptedFacts
  <1>2. TypeOK'
    BY <1>1 DEF TypeOK
  <1>3. HoldsItsClaim'
    BY DEF HoldsItsClaim, TypeOK
  <1>4. UnusedIdentities'
    BY <1>1 DEF UnusedIdentities, TypeOK
  <1>5. (ReachedIsRecorded /\ WorkBeganAfterReach /\ CommitAfterReach)'
    BY DEF ReachedIsRecorded, WorkBeganAfterReach, CommitAfterReach, HoldsItsClaim, TypeOK
  <1>6. StartedAtMostOnce'
    <2> SUFFICES ASSUME NEW v \in Workflows,
                        \A j \in Intents : Target[j] = v => Operation[j] # "signal_with_start"
                 PROVE  server'[v].starts <= 1
      BY DEF StartedAtMostOnce
    <2>1. server[v].starts <= 1
      BY DEF StartedAtMostOnce
    <2>2. CASE v = w
      <3>1. server'[v] = Accepted(i, w)
        BY <1>1, <2>2 DEF TypeOK
      <3> QED
        BY <1>1, <2>1, <2>2, <3>1
    <2>3. CASE v # w
      BY <2>1, <2>3 DEF TypeOK
    <2> QED
      BY <2>2, <2>3
  <1>7. AbandonedWorkIsFailed'
    BY DEF AbandonedWorkIsFailed, TypeOK
  <1> QED
    BY <1>2, <1>3, <1>4, <1>5, <1>6, <1>7

\* No step of Laravel, of the relay or of the worker leaves the invariant.
LEMMA NextIInv == IInv /\ [Next]_vars => IInv'
  <1> SUFFICES ASSUME IInv, [Next]_vars PROVE IInv'
    OBVIOUS
  <1> USE DEF IInv
  <1>1. ASSUME NEW i \in Intents, Record(i) PROVE IInv'
    <2> USE <1>1 DEF Record
    <2>1. TypeOK'
      BY DEF TypeOK, IntentRows, Statuses
    <2>2. HoldsItsClaim'
      BY DEF HoldsItsClaim, TypeOK
    <2>3. (UnusedIdentities /\ ReachedIsRecorded /\ StartedAtMostOnce /\ WorkBeganAfterReach /\ CommitAfterReach)'
      BY DEF UnusedIdentities, ReachedIsRecorded, StartedAtMostOnce, WorkBeganAfterReach, CommitAfterReach, TypeOK
    <2>4. AbandonedWorkIsFailed'
      BY DEF AbandonedWorkIsFailed, TypeOK
    <2> QED
      BY <2>1, <2>2, <2>3, <2>4
  <1>2. ASSUME NEW i \in Intents, BecomesDue(i) PROVE IInv'
    <2> USE <1>2 DEF BecomesDue
    <2>1. TypeOK'
      BY DEF TypeOK, IntentRows, Statuses
    <2>2. \A j \in Intents : intent'[j].status = intent[j].status
      BY DEF TypeOK, IntentRows
    <2>3. HoldsItsClaim'
      BY <2>2 DEF HoldsItsClaim
    <2>4. (UnusedIdentities /\ ReachedIsRecorded /\ StartedAtMostOnce /\ WorkBeganAfterReach /\ CommitAfterReach)'
      BY <2>2 DEF UnusedIdentities, ReachedIsRecorded, StartedAtMostOnce, WorkBeganAfterReach, CommitAfterReach
    <2>5. AbandonedWorkIsFailed'
      BY <2>2 DEF AbandonedWorkIsFailed
    <2> QED
      BY <2>1, <2>3, <2>4, <2>5
  <1>3. ASSUME NEW i \in Intents, Claim(i) PROVE IInv'
    <2> USE <1>3 DEF Claim, Claimable
    <2>1. intent[i] \in IntentRows /\ intent[i].attempts + 1 \in Nat
      BY DEF TypeOK, IntentRows
    <2>2. TypeOK'
      BY <2>1 DEF TypeOK, IntentRows, Statuses
    <2>3. HoldsItsClaim'
      BY DEF HoldsItsClaim, TypeOK
    <2>4. (UnusedIdentities /\ ReachedIsRecorded /\ StartedAtMostOnce /\ WorkBeganAfterReach /\ CommitAfterReach)'
      BY DEF UnusedIdentities, ReachedIsRecorded, StartedAtMostOnce, WorkBeganAfterReach, CommitAfterReach, TypeOK
    <2>5. AbandonedWorkIsFailed'
      BY DEF AbandonedWorkIsFailed, TypeOK
    <2> QED
      BY <2>2, <2>3, <2>4, <2>5
  <1>4. ASSUME NEW i \in Intents, Deliver(i) PROVE IInv'
    BY <1>4, ReachingTemporal DEF Deliver
  <1>5. ASSUME NEW i \in Intents, DeliverAnswerLost(i) PROVE IInv'
    BY <1>5, ReachingTemporal DEF DeliverAnswerLost
  <1>6. ASSUME NEW i \in Intents, DeliverRefused(i) PROVE IInv'
    <2> USE <1>6 DEF DeliverRefused
    <2>1. TypeOK'
      BY DEF TypeOK
    <2>2. HoldsItsClaim'
      BY DEF HoldsItsClaim, TypeOK
    <2> QED
      BY <2>1, <2>2 DEF UnusedIdentities, ReachedIsRecorded, StartedAtMostOnce, WorkBeganAfterReach, CommitAfterReach,
                        AbandonedWorkIsFailed
  <1>7. ASSUME NEW i \in Intents, MarkDelivered(i) PROVE IInv'
    <2> USE <1>7 DEF MarkDelivered
    <2>1. TypeOK'
      BY DEF TypeOK, IntentRows, Statuses, Idle
    <2>2. HoldsItsClaim'
      BY DEF HoldsItsClaim, Idle
    <2>3. (UnusedIdentities /\ ReachedIsRecorded /\ StartedAtMostOnce /\ WorkBeganAfterReach /\ CommitAfterReach)'
      BY DEF UnusedIdentities, ReachedIsRecorded, StartedAtMostOnce, WorkBeganAfterReach, CommitAfterReach, TypeOK
    <2>4. AbandonedWorkIsFailed'
      BY DEF AbandonedWorkIsFailed, TypeOK
    <2> QED
      BY <2>1, <2>2, <2>3, <2>4
  <1>8. ASSUME NEW i \in Intents, MarkFailed(i) PROVE IInv'
    <2> USE <1>8
    <2> DEFINE gone == Exhausted(relay.attempts)
    <2>1. intent[i].status = "delivering" /\ relay.at = "refused"
      BY DEF MarkFailed, HoldsItsClaim
    <2>2. /\ intent' = [intent EXCEPT ![i].due = FALSE,
                          ![i].status = IF gone THEN "dead_letter" ELSE "pending"]
          /\ projection' = [projection EXCEPT ![i] = IF gone THEN DeadLettered(i) ELSE @]
          /\ commit' = [commit EXCEPT ![i] = IF gone THEN CommitDeadLettered(i) ELSE @]
          /\ relay' = Idle
          /\ UNCHANGED <<server, reached, crashes>>
      BY <2>1 DEF MarkFailed
    <2>3. DeadLettered(i) \in RowStatuses /\ CommitDeadLettered(i) \in CommitStatuses
      BY DEF DeadLettered, CommitDeadLettered, TypeOK, RowStatuses, CommitStatuses
    <2>4. TypeOK'
      <3>1. intent' \in [Intents -> IntentRows]
        <4> DEFINE standing == IF gone THEN "dead_letter" ELSE "pending"
        <4>1. standing \in Statuses
          BY DEF Statuses
        <4>2. intent' = [intent EXCEPT ![i].due = FALSE, ![i].status = standing]
          BY <2>2
        <4> HIDE DEF standing, gone
        <4>3. ASSUME NEW j \in Intents PROVE intent'[j] \in IntentRows
          <5>1. intent[j] \in IntentRows /\ intent[i] \in IntentRows
            BY DEF TypeOK
          <5>2. CASE j = i
            BY <4>1, <4>2, <5>1, <5>2 DEF TypeOK, IntentRows
          <5>3. CASE j # i
            BY <4>2, <5>1, <5>3 DEF TypeOK
          <5> QED
            BY <5>2, <5>3
        <4>4. intent' = [j \in Intents |-> intent'[j]]
          BY <4>2 DEF TypeOK
        <4> QED
          BY <4>3, <4>4
      <3>2. projection' \in [Intents -> RowStatuses] /\ commit' \in [Intents -> CommitStatuses]
        BY <2>2, <2>3 DEF TypeOK
      <3> QED
        BY <2>2, <3>1, <3>2 DEF TypeOK, Idle
    <2>5. HoldsItsClaim'
      BY <2>2 DEF HoldsItsClaim, Idle
    <2>6. \A j \in Intents : intent'[j].status # "absent" <=> intent[j].status # "absent"
      BY <2>1, <2>2 DEF TypeOK, IntentRows
    <2>7. (UnusedIdentities /\ ReachedIsRecorded /\ StartedAtMostOnce /\ WorkBeganAfterReach /\ CommitAfterReach)'
      <3>1. WorkBeganAfterReach'
        BY <2>2 DEF WorkBeganAfterReach, DeadLettered, TypeOK
      <3>2. CommitAfterReach'
        BY <2>2 DEF CommitAfterReach, CommitDeadLettered, DeadLettered, Unbegun, TypeOK
      <3> QED
        BY <2>2, <2>6, <3>1, <3>2 DEF UnusedIdentities, ReachedIsRecorded, StartedAtMostOnce
    <2>8. AbandonedWorkIsFailed'
      <3> SUFFICES ASSUME NEW j \in Intents,
                          intent'[j].status = "dead_letter", ~reached'[j],
                          Names[j] # "pipeline_run"
                            \/ Operation[j] \in {"start_workflow", "signal_with_start"}
                   PROVE  /\ projection'[j] = "failed_permanent"
                          /\ Names[j] = "decision" => commit'[j] = "failed"
        BY DEF AbandonedWorkIsFailed
      <3>1. CASE j = i
        <4>1. gone
          BY <2>2, <3>1 DEF TypeOK, IntentRows
        <4>2. FailsNamedRow(i)
          BY <3>1 DEF FailsNamedRow
        <4>3. projection'[i] = DeadLettered(i) /\ commit'[i] = CommitDeadLettered(i)
          BY <2>2, <4>1 DEF TypeOK
        <4>4. ~reached[i]
          BY <2>2, <3>1
        <4>5. projection[i] \in {"queued", "failed_permanent"} /\ commit[i] # "committed"
          BY <4>4 DEF WorkBeganAfterReach, CommitAfterReach, TypeOK, RowStatuses
        <4>6. DeadLettered(i) = "failed_permanent"
          BY <4>2, <4>5 DEF DeadLettered, Unbegun
        <4>7. Names[i] = "decision" => CommitDeadLettered(i) = "failed"
          BY <4>5 DEF CommitDeadLettered
        <4> QED
          BY <3>1, <4>3, <4>6, <4>7
      <3>2. CASE j # i
        BY <2>2, <3>2 DEF AbandonedWorkIsFailed, TypeOK, IntentRows
      <3> QED
        BY <3>1, <3>2
    <2> QED
      BY <2>4, <2>5, <2>7, <2>8
  <1>9. ASSUME NEW i \in Intents, WorkerStep(i) PROVE IInv'
    <2>1. CASE WorkBegins(i)
      <3>1. TypeOK'
        BY <2>1 DEF WorkBegins, TypeOK, RowStatuses, CommitStatuses
      <3>2. (AbandonedWorkIsFailed /\ WorkBeganAfterReach /\ CommitAfterReach)'
        BY <2>1 DEF WorkBegins, InWorkflow, AbandonedWorkIsFailed, WorkBeganAfterReach,
                    CommitAfterReach, TypeOK
      <3> QED
        BY <2>1, <3>1, <3>2
           DEF WorkBegins, HoldsItsClaim, UnusedIdentities, ReachedIsRecorded, StartedAtMostOnce
    <2>2. CASE CommitFinishes(i)
      <3>1. TypeOK'
        BY <2>2 DEF CommitFinishes, TypeOK, CommitStatuses
      <3>2. (AbandonedWorkIsFailed /\ WorkBeganAfterReach /\ CommitAfterReach)'
        BY <2>2 DEF CommitFinishes, InWorkflow, AbandonedWorkIsFailed, WorkBeganAfterReach,
                    CommitAfterReach, TypeOK
      <3> QED
        BY <2>2, <3>1, <3>2
           DEF CommitFinishes, HoldsItsClaim, UnusedIdentities, ReachedIsRecorded, StartedAtMostOnce
    <2>3. CASE RunBlocks(i) \/ RunReleased(i)
      <3>1. TypeOK'
        BY <2>3 DEF RunBlocks, RunReleased, TypeOK, RowStatuses
      <3>2. reached[i]
        BY <2>3 DEF RunBlocks, RunReleased, InWorkflow, WorkBeganAfterReach
      <3>3. (AbandonedWorkIsFailed /\ WorkBeganAfterReach /\ CommitAfterReach)'
        BY <2>3, <3>2 DEF RunBlocks, RunReleased, AbandonedWorkIsFailed, WorkBeganAfterReach,
                    CommitAfterReach, TypeOK
      <3> QED
        BY <2>3, <3>1, <3>3
           DEF RunBlocks, RunReleased, HoldsItsClaim, UnusedIdentities, ReachedIsRecorded,
               StartedAtMostOnce
    <2> QED
      BY <1>9, <2>1, <2>2, <2>3 DEF WorkerStep
  <1>10. ASSUME NEW w \in Workflows, WorkflowCloses(w) PROVE IInv'
    <2> USE <1>10 DEF WorkflowCloses
    <2>1. TypeOK'
      BY DEF TypeOK, Executions
    <2>2. (UnusedIdentities /\ StartedAtMostOnce)'
      BY DEF UnusedIdentities, StartedAtMostOnce, TypeOK, Executions
    <2> QED
      BY <2>1, <2>2 DEF HoldsItsClaim, ReachedIsRecorded, WorkBeganAfterReach, CommitAfterReach,
                        AbandonedWorkIsFailed
  <1>11. ASSUME Crash PROVE IInv'
    <2> USE <1>11 DEF Crash
    <2>1. TypeOK'
      BY BoundsAssumption DEF TypeOK, Idle
    <2>2. HoldsItsClaim'
      BY DEF HoldsItsClaim, Idle
    <2> QED
      BY <2>1, <2>2 DEF UnusedIdentities, ReachedIsRecorded, StartedAtMostOnce, WorkBeganAfterReach, CommitAfterReach,
                        AbandonedWorkIsFailed
  <1>12. ASSUME UNCHANGED vars PROVE IInv'
    BY <1>12 DEF vars, TypeOK, HoldsItsClaim, UnusedIdentities, ReachedIsRecorded,
                 WorkBeganAfterReach, CommitAfterReach, StartedAtMostOnce, AbandonedWorkIsFailed
  <1> QED
    BY <1>1, <1>2, <1>3, <1>4, <1>5, <1>6, <1>7, <1>8, <1>9, <1>10, <1>11, <1>12
       DEF Next, RelayStep

\* The invariant holds of every reachable state.
THEOREM Invariance == Spec => []IInv
  BY InitIInv, NextIInv, PTL DEF Spec

\* Rows, relay, executions and projections keep the types of their tables.
THEOREM TypeCorrect == Spec => []TypeOK
  BY Invariance, PTL DEF IInv

\* However often the relay crashes or loses an answer, plain starts under one
\* workflow identity create at most one execution (relay.py 32-47).
THEOREM NeverStartedTwice == Spec => []StartedAtMostOnce
  BY Invariance, PTL DEF IInv

\* A start or a decision that never reached Temporal and was dead-lettered left
\* the run or the command it names visibly failed (outbox.py 128-199).
THEOREM AbandonedWorkFails == Spec => []AbandonedWorkIsFailed
  BY Invariance, PTL DEF IInv

-----------------------------------------------------------------------------
(* The refinement of IntentDelivery.                                       *)

Standing(i) == IF Open(i) THEN "open" ELSE intent[i].status
ContractStep == [Delivery!DeliveryNext]_(Delivery!deliveryVars)

\* A step that keeps every status and every `reached` is a stutter of the
\* contract.
LEMMA SameStanding ==
  ASSUME IInv, IInv', \A i \in Intents : intent'[i].status = intent[i].status,
         UNCHANGED reached
  PROVE  ContractStep
  BY DEF ContractStep, Open, Delivery!deliveryVars

\* A step that changes the standing of one row only, as the contract allows.
LEMMA OneStanding ==
  ASSUME IInv, IInv', NEW i \in Intents,
         \A j \in Intents \ {i} : intent'[j].status = intent[j].status,
         UNCHANGED reached,
         \/ Standing(i) = "absent" /\ Standing(i)' = "open"
         \/ Standing(i) = "open" /\ reached[i] /\ Standing(i)' = "delivered"
         \/ Standing(i) = "open" /\ Standing(i)' = "dead_letter"
  PROVE  ContractStep
  <1> DEFINE before == [j \in Intents |-> Standing(j)]
             after == [j \in Intents |-> Standing(j)']
  <1>1. after = [before EXCEPT ![i] = Standing(i)']
    BY DEF Standing, Open
  <1>2. before[i] = Standing(i)
    OBVIOUS
  <1>3. Delivery!Recorded(i) \/ Delivery!Settled(i) \/ Delivery!Abandoned(i)
    BY <1>1, <1>2 DEF Delivery!Recorded, Delivery!Settled, Delivery!Abandoned, Standing, Open
  <1> QED
    BY <1>3 DEF ContractStep, Delivery!DeliveryNext

\* Every step of the outbox is a step of the contract or a stutter.
LEMMA StepsKeepContract == IInv /\ IInv' /\ [Next]_vars => ContractStep
  <1> SUFFICES ASSUME IInv, IInv', [Next]_vars PROVE ContractStep
    OBVIOUS
  <1> USE DEF IInv
  <1>1. ASSUME NEW i \in Intents, Record(i) PROVE ContractStep
    BY <1>1, OneStanding DEF Record, Standing, Open, TypeOK
  <1>2. ASSUME NEW i \in Intents, BecomesDue(i) PROVE ContractStep
    BY <1>2, SameStanding DEF BecomesDue, TypeOK, IntentRows
  <1>3. ASSUME NEW i \in Intents, Claim(i) PROVE ContractStep
    <2>1. Standing(i) = "open" /\ Standing(i)' = "open"
      BY <1>3 DEF Claim, Claimable, Standing, Open, TypeOK
    <2>2. \A j \in Intents : Standing(j)' = Standing(j)
      BY <1>3, <2>1 DEF Claim, Standing, Open, TypeOK
    <2> QED
      BY <1>3, <2>2 DEF Claim, ContractStep, Delivery!deliveryVars, Standing
  <1>4. ASSUME NEW i \in Intents, Deliver(i) \/ DeliverAnswerLost(i) PROVE ContractStep
    <2>1. Standing(i) = "open"
      BY <1>4 DEF Deliver, DeliverAnswerLost, HoldsItsClaim, Standing, Open
    <2>2. UNCHANGED intent /\ reached' = [reached EXCEPT ![i] = TRUE]
      BY <1>4 DEF Deliver, DeliverAnswerLost
    <2>3. Delivery!Reaches(i)
      BY <2>1, <2>2 DEF Delivery!Reaches, Standing, Open
    <2> QED
      BY <2>3 DEF ContractStep, Delivery!DeliveryNext
  <1>5. ASSUME NEW i \in Intents, MarkDelivered(i) PROVE ContractStep
    <2>1. intent[i].status = "delivering" /\ reached[i]
      BY <1>5 DEF MarkDelivered, HoldsItsClaim
    <2> QED
      BY <1>5, <2>1, OneStanding DEF MarkDelivered, Standing, Open, TypeOK, IntentRows
  <1>6. ASSUME NEW i \in Intents, MarkFailed(i) PROVE ContractStep
    <2>1. intent[i].status = "delivering"
      BY <1>6 DEF MarkFailed, HoldsItsClaim
    <2>2. /\ UNCHANGED reached
          /\ \A j \in Intents \ {i} : intent'[j].status = intent[j].status
      BY <1>6, <2>1 DEF MarkFailed, TypeOK, IntentRows
    <2>3. CASE Exhausted(relay.attempts)
      <3>1. intent'[i].status = "dead_letter"
        BY <1>6, <2>1, <2>3 DEF MarkFailed, TypeOK, IntentRows
      <3> QED
        BY <2>1, <2>2, <3>1, OneStanding DEF Standing, Open
    <2>4. CASE ~Exhausted(relay.attempts)
      <3>1. intent'[i].status = "pending"
        BY <1>6, <2>1, <2>4 DEF MarkFailed, TypeOK, IntentRows
      <3>2. \A j \in Intents : Standing(j)' = Standing(j)
        BY <2>1, <2>2, <3>1 DEF Standing, Open
      <3> QED
        BY <2>2, <3>2 DEF ContractStep, Delivery!deliveryVars, Standing
    <2> QED
      BY <2>3, <2>4
  <1>7. CASE UNCHANGED <<intent, reached>>
    BY <1>7, SameStanding
  <1> QED
    BY <1>1, <1>2, <1>3, <1>4, <1>5, <1>6, <1>7
       DEF Next, RelayStep, WorkerStep, DeliverRefused, WorkBegins, CommitFinishes, RunBlocks,
           RunReleased, WorkflowCloses, Crash, vars

\* The outbox implements the contract the rest of the system relies on: nothing
\* is acknowledged that Temporal never accepted and no settled row moves again,
\* for any interleaving of writers, relay, crashes and lost answers
\* (relay.py 104-129, outbox.py 84-127).
THEOREM ImplementsDelivery == Spec => KeepsDeliveryContract
  <1>1. Init => Delivery!DeliveryInit
    BY DEF Init, Delivery!DeliveryInit, Open
  <1> QED
    BY <1>1, Invariance, StepsKeepContract, PTL
       DEF Spec, ContractStep, KeepsDeliveryContract, Delivery!DeliverySpec

\* No step of the outbox takes back a row a worker has begun, and none moves a
\* committed suggestion: the dead letter of a start or decision leaves both
\* alone (outbox.py 138-197).
THEOREM BegunWorkIsSpared == Spec => DeadLetterSparesBegunWork
  <1> DEFINE Spares ==
        \A i \in Intents : /\ projection[i] = "begun" => projection'[i] = "begun"
                           /\ commit[i] = "committed" => commit'[i] = "committed"
  <1>1. ASSUME IInv, [Next]_vars PROVE [Spares]_vars
    <2>1. ASSUME NEW i \in Intents, MarkFailed(i) PROVE Spares
      BY <1>1, <2>1 DEF IInv, MarkFailed, DeadLettered, CommitDeadLettered, Unbegun, TypeOK
    <2>2. ASSUME NEW i \in Intents, WorkBegins(i) PROVE Spares
      BY <1>1, <2>2 DEF IInv, WorkBegins, CommitAfterReach, TypeOK
    <2>3. ASSUME NEW i \in Intents, CommitFinishes(i) PROVE Spares
      BY <1>1, <2>3 DEF IInv, CommitFinishes, TypeOK
    <2>4. ASSUME NEW i \in Intents, RunBlocks(i) \/ RunReleased(i) PROVE Spares
      BY <1>1, <2>4 DEF IInv, RunBlocks, RunReleased, TypeOK
    <2>5. CASE UNCHANGED <<projection, commit>>
      BY <2>5
    <2> QED
      BY <1>1, <2>1, <2>2, <2>3, <2>4, <2>5
         DEF Next, RelayStep, WorkerStep, Record, BecomesDue, Claim, Deliver, DeliverAnswerLost,
             DeliverRefused, MarkDelivered, WorkflowCloses, Crash, vars
  <1> QED
    BY <1>1, Invariance, PTL DEF Spec, DeadLetterSparesBegunWork
=============================================================================
