------------------------ MODULE ActorExecutionProofs ------------------------
(***************************************************************************)
(* What holds of an actor source for any number of attempts, children that *)
(* die, administrators' requests and closings of the index: one attempt at *)
(* a time may write, an outcome stands, source and execution settle        *)
(* together, a success was earned, every attempt has its cause, and the    *)
(* whole implements AttemptLedger.                                         *)
(***************************************************************************)
EXTENDS ActorExecution, FiniteSetTheorems, TLAPS

-----------------------------------------------------------------------------
(* The invariant.                                                          *)

Statuses == InFlight \union Ended \union {"retrying"}
Places == {"launched", "turned_away", "between", "inside"} \union Leaving
Children == [at : Places, done : Nat]
Shapes ==
    /\ kind \in Kinds
    /\ source \in [status : SourceStatuses, token : Nat, error_type : {"none", "index"}, error : {"none", "index"}]
    /\ exec \in Seq(Statuses)
    /\ worker \in Seq(Children)
    /\ Len(worker) = Len(exec)
    /\ items \in [DOMAIN Items -> ItemStatuses]

\* Only the newest execution may still write, and the source knows no other.
LastInFlight ==
    /\ \A e \in Attempts : exec[e] \in InFlight => e = Len(exec)
    /\ source.token \in 0..Len(exec)
\* None may once the source is done.
DoneIsQuiet == source.status \in Terminal => \A e \in Attempts : exec[e] \notin InFlight
OnlyTheLast == LastInFlight /\ DoneIsQuiet

\* What a runner said of an execution is what the row says.
Reported == report.says = "succeeded" => report.of \in Attempts /\ exec[report.of] = "succeeded"

\* On one host a child at work holds its attempt: recovery can see that it lives.
AtWork(e) == worker[e].at \in {"turned_away", "between", "inside"}
WorkIsHeld == fleet = "one_host" => \A e \in Attempts : AtWork(e) => exec[e] = "running"

\* How far a child is says what has been done.
Counts(k) ==
    /\ k.at \in {"launched", "turned_away"} => k.done = 0
    /\ kind = "run" /\ k.at = "inside" => k.done < Len(Items)
Counted == \A e \in Attempts : Counts(worker[e])
\* The reviewed values are in Paperless once a child has brought them there.
ReachInv ==
    /\ paper.holds => reached
    /\ kind = "command" => \A e \in Attempts : worker[e].done > 0 => reached
\* What is done is written, and nobody but a late child of a failed attempt writes
\* over it.
MarkInv ==
    kind = "command" /\ fleet = "one_host" =>
        \A e \in Attempts : AtWork(e) /\ worker[e].done = 2 => commit \in {"committed", "retrying"}
\* A command that failed for good is not tried again: a child that has yet to mark
\* its suggestion as failed overtakes nobody.
FailureStands ==
    /\ asked # "nothing" => kind = "run"
    /\ kind = "command" => \A e \in Attempts : At(e, "marks_failed") => source.status = "failed_permanent"
ItemInv ==
    kind = "run" /\ fleet = "one_host" =>
        \A e \in Attempts : AtWork(e) => \A i \in DOMAIN Items : i <= worker[e].done => items[i] = "succeeded"
Progress == Counted /\ ReachInv /\ FailureStands /\ MarkInv /\ ItemInv

\* Only a delivery is processed.
ProcessedFits == source.status = "processed" => kind = "webhook"

IInv ==
    /\ Shapes /\ OnlyTheLast /\ Reported /\ WorkIsHeld /\ Progress
    /\ ProcessedFits /\ SuccessIsEarned /\ SucceededRunIsComplete

-----------------------------------------------------------------------------
(* Types.                                                                  *)

\* The executions keep their places, and end at most once.
MovesOn ==
    /\ exec' \in Seq(Statuses)
    /\ Len(exec') = Len(exec)
    /\ \A e \in Attempts : \/ exec'[e] = exec[e]
                           \/ exec[e] \in Active /\ (exec'[e] \in InFlight => exec[e] \in InFlight)
Claimed ==
    /\ CanClaim
    /\ exec' = Append(exec, "queued")
    /\ worker' = Append(worker, [at |-> "launched", done |-> 0])
    /\ source' = [source EXCEPT !.status = "running", !.token = Len(exec) + 1]

LEMMA Numbered ==
    ASSUME Shapes
    PROVE  /\ Attempts = 1..Len(exec)
           /\ Len(exec) \in Nat
           /\ \A e \in Attempts : exec[e] \in Statuses /\ e \in Nat /\ e > 0
           /\ \A e \in Attempts : worker[e] \in Children
<1>1. Attempts = 1..Len(exec) /\ Len(exec) \in Nat /\ DOMAIN worker = Attempts
  BY DEF Shapes, Attempts
<1>2. \A e \in Attempts : exec[e] \in Statuses
  BY DEF Shapes, Attempts
<1>3. \A e \in Attempts : worker[e] \in Children
  BY <1>1 DEF Shapes
<1> QED
  BY <1>1, <1>2, <1>3

\* The status of one execution is written.
LEMMA OneMoves ==
    ASSUME Shapes, NEW e \in Attempts, NEW s \in Statuses, exec[e] \in Active,
           s \in InFlight => exec[e] \in InFlight, exec' = [exec EXCEPT ![e] = s]
    PROVE  MovesOn
BY Numbered, SMT DEF Shapes, MovesOn, Attempts

LEMMA NoneMoves ==
    ASSUME Shapes, exec' = exec
    PROVE  MovesOn
BY DEF Shapes, MovesOn

LEMMA OutcomeIs ==
    ASSUME Shapes, NEW s \in DomainStatuses
    PROVE  /\ Outcome(s) \in SourceStatuses \ {"running"}
           /\ Outcome(s) \in {"succeeded", "processed"} => s = "succeeded"
           /\ s = "retrying" => Outcome(s) \notin Terminal
BY SMT DEF Shapes, Outcome, DomainStatuses, Ended, SourceStatuses, Terminal, Kinds

\* What finishing an attempt, or asking for its retry, does.
Concludes(e, s) ==
    /\ Holds(e)
    /\ exec' = [exec EXCEPT ![e] = s]
    /\ \E reason \in {"none", "index"} :
         source' = [source EXCEPT !.status = Outcome(s), !.token = 0, !.error = reason]
Refused == UNCHANGED <<exec, source>>

LEMMA FinishConcludes ==
    ASSUME NEW e, NEW s, NEW reason \in {"none", "index"}, Finish(e, s, reason)
    PROVE  Concludes(e, s) \/ Refused
BY Zenon DEF Finish, Concludes, Refused

LEMMA FailConcludes ==
    ASSUME NEW e, NEW class, FailAttempt(e, class)
    PROVE  Concludes(e, "retrying") \/ Concludes(e, "failed_permanent") \/ Refused
<1>1. CASE ScheduleRetry(e)
  BY <1>1, Zenon DEF ScheduleRetry, Concludes, Refused
<1>2. CASE Finish(e, "failed_permanent", "none")
  BY <1>2, FinishConcludes, Zenon
<1> QED
  BY <1>1, <1>2, Zenon DEF FailAttempt

LEMMA ConcludesMoves ==
    ASSUME Shapes, NEW e \in Attempts, NEW s \in DomainStatuses, Concludes(e, s)
    PROVE  MovesOn
<1>1. exec[e] \in Active /\ s \in Statuses /\ s \notin InFlight
  BY Zenon DEF Concludes, Holds, Active, InFlight, DomainStatuses, Statuses, Ended
<1> QED
  BY <1>1, OneMoves, Zenon DEF Concludes

\* A child writes exec and source only by activating its execution and by concluding.
LEMMA ChildConcludes ==
    ASSUME Shapes, NEW e \in Attempts, WorkerStep(e)
    PROVE  \/ Begin(e)
           \/ Refused
           \/ \E s \in DomainStatuses : Concludes(e, s)
<1>1. CASE TurnAway(e)
  BY <1>1, FinishConcludes, Zenon DEF TurnAway, Stops, Refused, DomainStatuses, Ended
<1>2. CASE OpenItem(e) \/ CloseItem(e) \/ CommitBegins(e) \/ CommitReaches(e) \/ CommitMarked(e) \/ Reports(e) \/ MarksFailure(e)
  BY <1>2, Zenon DEF OpenItem, CloseItem, CommitBegins, CommitReaches, CommitMarked, Reports, MarksFailure, Stops, Refused
<1>3. CASE Refresh(e)
  <2>1. PICK s \in RefreshOutcomes \union DeleteOutcomes :
            Finish(e, s, IF s = "blocked" THEN "index" ELSE "none")
    BY <1>3, Zenon DEF Refresh
  <2>2. s \in DomainStatuses
    BY <2>1, Zenon DEF RefreshOutcomes, DeleteOutcomes, DomainStatuses, Ended
  <2> QED
    BY <2>1, <2>2, FinishConcludes, Zenon
<1>4. CASE Conclude(e)
  BY <1>4, FinishConcludes, Zenon DEF Conclude, Stops, Refused, DomainStatuses, Ended
<1>5. CASE Fail(e)
  BY <1>5, FailConcludes, Zenon DEF Fail, Stops, Refused, DomainStatuses, Ended
<1> QED
  BY <1>1, <1>2, <1>3, <1>4, <1>5, Zenon DEF WorkerStep

\* What the recovery of one attempt does to its row and to the source.
Gives(e, status) == source'.status = status /\ source'.token \in {source.token, 0}
Recovers(e) ==
    /\ exec[e] \in Active
    /\ \E s \in Statuses \ InFlight : exec' = [exec EXCEPT ![e] = s]
    /\ fleet = "one_host" /\ exec[e] = "running" => source.status \in Terminal \/ At(e, "gone")
    /\ \/ source' = source
       \/ Len(exec) = e /\ source.token \in {e, 0} /\ Gives(e, "failed_permanent")
       \/ Owns(e) /\ Gives(e, Outcome("retrying"))
       \/ source.status # "running" /\ Gives(e, "queued")

LEMMA FailForGoodWrites ==
    ASSUME Shapes, NEW e \in Attempts, FailForGood(e)
    PROVE  /\ exec' = [exec EXCEPT ![e] = "failed_permanent"]
           /\ \/ source' = source
              \/ Len(exec) = e /\ source.token \in {e, 0} /\ Gives(e, "failed_permanent")
BY SMT DEF Shapes, FailForGood, Gives

LEMMA StaleRecovers ==
    ASSUME Shapes, NEW e \in Attempts, RecoverStale(e)
    PROVE  Recovers(e)
<1> USE DEF RecoverStale, Recovers
<1>1. exec[e] \in InFlight /\ exec[e] \in Active
  BY DEF Active
<1>2. CASE source.status \in Terminal
  BY <1>1, <1>2, Zenon DEF Suppressed, Statuses, Ended, InFlight
<1>3. CASE source.status \notin Terminal
  <2>1. fleet = "one_host" /\ exec[e] = "running" => At(e, "gone")
    BY <1>3, Zenon DEF PresumedDead
  <2>2. CASE e >= MaxAttempts
    <3>1. FailForGood(e)
      BY <1>3, <2>2, Zenon
    <3> QED
      BY <1>1, <2>1, <3>1, FailForGoodWrites, Zenon DEF Statuses, Ended, InFlight
  <2>3. CASE ~(e >= MaxAttempts)
    <3>1. exec' = [exec EXCEPT ![e] = "retrying"]
      BY <1>3, <2>3, Zenon
    <3>2. source' = source \/ (Owns(e) /\ Gives(e, Outcome("retrying")))
      <4>1. CASE ~Owns(e)
        BY <1>3, <2>3, <4>1, Zenon
      <4>2. CASE Owns(e)
        <5>1. source' = [source EXCEPT !.status = Outcome("retrying"), !.token = 0,
                                       !.error_type = IF kind = "run" THEN "none" ELSE @, !.error = "none"]
          BY <1>3, <2>3, <4>2, Zenon
        <5> QED
          BY <4>2, <5>1, SMT DEF Shapes, Gives
      <4> QED
        BY <4>1, <4>2
    <3> QED
      BY <1>1, <2>1, <3>1, <3>2, Zenon DEF Statuses, InFlight
  <2> QED
    BY <2>2, <2>3, Zenon
<1> QED
  BY <1>2, <1>3, Zenon

LEMMA RetryingRecovers ==
    ASSUME Shapes, NEW e \in Attempts, RecoverRetrying(e)
    PROVE  Recovers(e)
<1>1. exec[e] = "retrying" /\ exec[e] \in Active /\ exec[e] # "running"
  BY Zenon DEF RecoverRetrying, Active
<1>2. CASE Suppressed(e)
  BY <1>1, <1>2, Zenon DEF Suppressed, Recovers, Statuses, Ended, InFlight
<1>3. CASE exec' = [exec EXCEPT ![e] = "cancelled"] /\ UNCHANGED <<source, wait, jobs>>
  BY <1>1, <1>3, Zenon DEF Recovers, Statuses, Ended, InFlight
<1>4. CASE FailForGood(e)
  BY <1>1, <1>4, FailForGoodWrites, Zenon DEF Recovers, Statuses, Ended, InFlight
<1>5. CASE ~Overtaken(e) /\ Redispatch /\ exec' = [exec EXCEPT ![e] = "failed"]
  <2>1. source.status # "running"
    BY <1>5, Zenon DEF Overtaken, InFlight
  <2>2. Gives(e, "queued")
    BY <1>5, SMT DEF Redispatch, Gives, Shapes
  <2> QED
    BY <1>1, <1>5, <2>1, <2>2, Zenon DEF Recovers, Statuses, Ended, InFlight
<1> QED
  BY <1>2, <1>3, <1>4, <1>5, SMT DEF RecoverRetrying

LEMMA RecoversMoves ==
    ASSUME Shapes, NEW e \in Attempts, Recovers(e)
    PROVE  MovesOn
BY OneMoves, Zenon DEF Recovers

LEMMA FinalizeMoves ==
    ASSUME Shapes, FinalizeCancel
    PROVE  MovesOn
<1>1. exec' = [e \in Attempts |-> IF exec[e] = "retrying" THEN "cancelled" ELSE exec[e]]
  BY Zenon DEF FinalizeCancel
<1>2. \A e \in Attempts : exec'[e] \in Statuses
  BY <1>1, Numbered, Zenon DEF Statuses, Ended
<1>3. exec' \in Seq(Statuses) /\ Len(exec') = Len(exec)
  BY <1>1, <1>2, Numbered
<1> QED
  BY <1>1, <1>3, Zenon DEF MovesOn, Active, InFlight

LEMMA BeginMoves ==
    ASSUME Shapes, NEW e \in Attempts, Begin(e)
    PROVE  MovesOn
<1>1. CASE exec' = exec
  BY <1>1, NoneMoves
<1>2. CASE exec[e] = "queued" /\ exec' = [exec EXCEPT ![e] = "running"]
  BY <1>2, OneMoves, Zenon DEF Statuses, InFlight, Active
<1> QED
  BY <1>1, <1>2, Zenon DEF Begin

\* What the steps of everybody else leave alone.
Elsewhere == LoseJob \/ OthersEdit \/ GateCloses \/ GateOpens \/ RetryDue \/ AdminAsks \/ UNCHANGED vars
LEMMA ElsewhereRests ==
    ASSUME Elsewhere
    PROVE  UNCHANGED <<kind, fleet, source, exec, worker, report, items, commit>>
BY Zenon DEF Elsewhere, LoseJob, OthersEdit, GateCloses, GateOpens, RetryDue, AdminAsks, vars, world, body

\* The steps of the specification, sorted by who takes them.
LEMMA Steps ==
    ASSUME [Next]_vars
    PROVE  \/ Claim
           \/ \E e \in Attempts : WorkerStep(e)
           \/ \E e \in Attempts : Dies(e)
           \/ \E e \in Attempts : RecoverStale(e) \/ RecoverRetrying(e)
           \/ RecoverSource
           \/ FinalizeCancel
           \/ ReleaseBlocked
           \/ AdminWrites
           \/ Elsewhere
BY Zenon DEF Next, Scan, Elsewhere

LEMMA ClaimClaims ==
    ASSUME Claim
    PROVE  /\ Claimed \/ UNCHANGED <<exec, worker, source>>
           /\ UNCHANGED <<kind, fleet, report, items, commit, paper, reached, asked>>
BY Zenon DEF Claim, Claimed, world, body

LEMMA AttemptsMoveOn ==
    ASSUME Shapes, [Next]_vars
    PROVE  MovesOn \/ Claimed
<1>1. CASE Claim
  BY <1>1, ClaimClaims, NoneMoves, Zenon
<1>2. CASE \E e \in Attempts : WorkerStep(e)
  BY <1>2, ChildConcludes, BeginMoves, NoneMoves, ConcludesMoves, Zenon DEF Refused
<1>3. CASE \E e \in Attempts : Dies(e)
  BY <1>3, NoneMoves, Zenon DEF Dies
<1>4. CASE \E e \in Attempts : RecoverStale(e) \/ RecoverRetrying(e)
  BY <1>4, StaleRecovers, RetryingRecovers, RecoversMoves, Zenon
<1>5. CASE RecoverSource \/ ReleaseBlocked \/ AdminWrites
  BY <1>5, NoneMoves, Zenon DEF RecoverSource, ReleaseBlocked, AdminWrites
<1>6. CASE FinalizeCancel
  BY <1>6, FinalizeMoves
<1>7. CASE Elsewhere
  BY <1>7, ElsewhereRests, NoneMoves, Zenon
<1> QED
  BY <1>1, <1>2, <1>3, <1>4, <1>5, <1>6, <1>7, Steps, Zenon

\* What has ended stays as it is.
LEMMA EndedStays ==
    ASSUME Shapes, [Next]_vars, NEW e \in Attempts, exec[e] \in Ended
    PROVE  e \in Attempts' /\ exec'[e] = exec[e]
<1>1. exec[e] \notin Active
  BY Zenon DEF Ended, Active, InFlight
<1>2. CASE MovesOn
  BY <1>1, <1>2, Numbered, SMT DEF MovesOn, Attempts
<1>3. CASE Claimed
  BY <1>3, Numbered, SMT DEF Claimed, Attempts, Shapes
<1> QED
  BY <1>2, <1>3, AttemptsMoveOn

-----------------------------------------------------------------------------
(* Where the children are.                                                 *)

Is(e, k) ==
    /\ worker' \in Seq(Children)
    /\ Len(worker') = Len(worker)
    /\ worker'[e] = k
    /\ \A n \in Attempts : n # e => worker'[n] = worker[n]
Gone(e) == \E place \in Leaving : Is(e, [at |-> place, done |-> 0])

LEMMA ChildIs ==
    ASSUME Shapes, NEW e \in Attempts, NEW k \in Children, worker' = [worker EXCEPT ![e] = k]
    PROVE  Is(e, k)
BY Numbered, SMT DEF Shapes, Is

LEMMA MovesIs ==
    ASSUME Shapes, NEW e \in Attempts, NEW place \in Places, Moves(e, place)
    PROVE  Is(e, [at |-> place, done |-> IF place \in Leaving THEN 0 ELSE worker[e].done])
<1> DEFINE k == [at |-> place, done |-> IF place \in Leaving THEN 0 ELSE worker[e].done]
<1>1. worker[e] \in Children /\ DOMAIN worker = Attempts
  BY Numbered DEF Shapes
<1>2. k \in Children
  BY <1>1, SMT DEF Children
<1>3. worker' = [worker EXCEPT ![e] = k]
  BY <1>1, Zenon DEF Moves
<1> QED
  BY <1>2, <1>3, ChildIs

LEMMA IsLeaving ==
    /\ "ending" \in Leaving /\ "gone" \in Leaving
    /\ \A e, class : AfterFailure(e, class) \in Leaving
BY SMT DEF Leaving, AfterFailure

LEMMA MovesAt ==
    ASSUME Shapes, NEW e \in Attempts, NEW place \in Places, Moves(e, place)
    PROVE  worker'[e].at = place /\ \A n \in Attempts : n # e => worker'[n] = worker[n]
<1>1. Is(e, [at |-> place, done |-> IF place \in Leaving THEN 0 ELSE worker[e].done])
  BY MovesIs
<1> QED
  BY <1>1 DEF Is

LEMMA MovesAway ==
    ASSUME Shapes, NEW e \in Attempts, NEW place \in Leaving, Moves(e, place)
    PROVE  Gone(e)
<1>1. place \in Places
  BY Zenon DEF Places
<1> QED
  BY <1>1, MovesIs, Zenon DEF Gone

LEMMA MovesOnward ==
    ASSUME Shapes, NEW e \in Attempts, NEW place \in {"turned_away", "between", "inside"}, Moves(e, place)
    PROVE  Is(e, [at |-> place, done |-> worker[e].done])
<1>1. place \in Places /\ place \notin Leaving
  BY SMT DEF Places, Leaving
<1> QED
  BY <1>1, MovesIs, Zenon

\* What each step of a child makes of it.
LEMMA CloseItemIs ==
    ASSUME Shapes, NEW e \in Attempts, CloseItem(e)
    PROVE  Is(e, [at |-> "between", done |-> worker[e].done + 1])
<1>1. worker[e] \in Children
  BY Numbered
<1>2. [at |-> "between", done |-> worker[e].done + 1] \in Children
  BY <1>1, SMT DEF Children, Places
<1>3. worker' = [worker EXCEPT ![e] = [at |-> "between", done |-> worker[e].done + 1]]
  BY Zenon DEF CloseItem
<1> QED
  BY <1>2, <1>3, ChildIs
LEMMA CommitReachesIs ==
    ASSUME Shapes, NEW e \in Attempts, CommitReaches(e)
    PROVE  Is(e, [at |-> "between", done |-> 1])
<1>1. worker[e] \in Children /\ [at |-> "between", done |-> 1] \in Children
  BY Numbered, SMT DEF Children, Places
<1>3. worker' = [worker EXCEPT ![e] = [at |-> "between", done |-> 1]]
  BY Zenon DEF CommitReaches
<1> QED
  BY <1>1, <1>3, ChildIs
LEMMA CommitMarkedIs ==
    ASSUME Shapes, NEW e \in Attempts, CommitMarked(e)
    PROVE  Is(e, [at |-> "between", done |-> 2])
<1>1. worker[e] \in Children /\ [at |-> "between", done |-> 2] \in Children
  BY Numbered, SMT DEF Children, Places
<1>3. worker' = [worker EXCEPT ![e] = [at |-> "between", done |-> 2]]
  BY Zenon DEF CommitMarked
<1> QED
  BY <1>1, <1>3, ChildIs

LEMMA BeginIs ==
    ASSUME Shapes, NEW e \in Attempts, Begin(e)
    PROVE  \/ Gone(e) /\ exec' = exec
           \/ /\ Owns(e) /\ exec[e] = "queued" /\ exec' = [exec EXCEPT ![e] = "running"]
              /\ Is(e, [at |-> FirstPlace, done |-> worker[e].done])
<1>1. FirstPlace \in {"turned_away", "between", "inside"}
  BY Zenon DEF FirstPlace
<1> QED
  BY <1>1, MovesAway, IsLeaving, MovesOnward, Zenon DEF Begin

LEMMA ChildPlaces ==
    ASSUME Shapes, NEW e \in Attempts, WorkerStep(e)
    PROVE  \E k : Is(e, k)
<1>1. CASE Begin(e)
  BY <1>1, BeginIs, Zenon DEF Gone
<1>2. CASE TurnAway(e) \/ Conclude(e) \/ Fail(e) \/ Refresh(e) \/ Reports(e) \/ MarksFailure(e)
  BY <1>2, MovesAway, IsLeaving, Zenon DEF TurnAway, Conclude, Fail, Refresh, Reports, MarksFailure, Stops, Gone
<1>3. CASE OpenItem(e) \/ CommitBegins(e)
  BY <1>3, MovesAway, IsLeaving, MovesOnward, Zenon DEF OpenItem, CommitBegins, Stops, Gone
<1>4. CASE CloseItem(e) \/ CommitReaches(e) \/ CommitMarked(e)
  BY <1>4, CloseItemIs, CommitReachesIs, CommitMarkedIs, Zenon
<1> QED
  BY <1>1, <1>2, <1>3, <1>4, Zenon DEF WorkerStep

SourceShape == [status : SourceStatuses, token : Nat, error_type : {"none", "index"}, error : {"none", "index"}]
LEMMA WrittenAt ==
    ASSUME NEW D, NEW S, NEW f \in [D -> S], NEW n, NEW v \in S
    PROVE  [f EXCEPT ![n] = v] \in [D -> S]
OBVIOUS
LEMMA ConcludesShapes ==
    ASSUME Shapes, NEW e \in Attempts, NEW s \in DomainStatuses, Concludes(e, s)
    PROVE  source' \in SourceShape /\ source'.status = Outcome(s) /\ source'.token = 0
<1>1. PICK reason \in {"none", "index"} :
          source' = [source EXCEPT !.status = Outcome(s), !.token = 0, !.error = reason]
  BY Zenon DEF Concludes
<1>2. Outcome(s) \in SourceStatuses
  BY OutcomeIs, Zenon
<1>3. source \in SourceShape
  BY DEF Shapes, SourceShape
<1> QED
  <2> DEFINE m == [source EXCEPT !.status = Outcome(s), !.token = 0, !.error = reason]
  <2>1. m \in SourceShape /\ m.status = Outcome(s) /\ m.token = 0
    BY <1>2, <1>3 DEF SourceShape, m
  <2> HIDE DEF m
  <2>2. source' = m
    BY <1>1 DEF m
  <2> QED
    BY <2>1, <2>2, Zenon

LEMMA ItemsKept ==
    ASSUME Shapes, NEW e \in Attempts, WorkerStep(e)
    PROVE  items' \in [DOMAIN Items -> ItemStatuses] /\ kind' = kind
<1>4. items \in [DOMAIN Items -> ItemStatuses]
  BY DEF Shapes
<1>1. \A n : \A status \in ItemStatuses : [items EXCEPT ![n] = status] \in [DOMAIN Items -> ItemStatuses]
  BY <1>4, WrittenAt, Zenon
<1>2. Opened(e) \in [DOMAIN Items -> ItemStatuses]
  BY <1>1, Zenon DEF Opened, ItemStatuses
<1>3. \A status \in {"skipped", "failed", "succeeded"} : Closed(e, status) \in [DOMAIN Items -> ItemStatuses]
  BY <1>1, Zenon DEF Closed, ItemStatuses
<1>5. CASE Begin(e) \/ CommitBegins(e) \/ CommitReaches(e) \/ CommitMarked(e) \/ Refresh(e) \/ Reports(e) \/ MarksFailure(e)
  BY <1>4, <1>5, Zenon DEF Begin, CommitBegins, CommitReaches, CommitMarked, Refresh, Reports, MarksFailure, world, body
<1>6. CASE TurnAway(e) \/ Conclude(e) \/ OpenItem(e) \/ CloseItem(e)
  BY <1>2, <1>3, <1>4, <1>6, Zenon DEF TurnAway, Conclude, OpenItem, CloseItem, Stops, world
<1>7. CASE Fail(e)
  BY <1>3, <1>4, <1>7, Zenon DEF Fail, Stops, world
<1> QED
  BY <1>5, <1>6, <1>7, Zenon DEF WorkerStep

\* Each part of Shapes that a step may write.
SourceKept == source' \in SourceShape
WorkersKept == worker' \in Seq(Children) /\ Len(worker') = Len(worker)
ItemsAreKept == items' \in [DOMAIN Items -> ItemStatuses] /\ kind' = kind

LEMMA ChildKeepsShapes ==
    ASSUME Shapes, NEW e \in Attempts, WorkerStep(e)
    PROVE  SourceKept /\ WorkersKept
<1>1. source \in SourceShape
  BY DEF Shapes, SourceShape
<1>2. SourceKept
  BY <1>1, ChildConcludes, ConcludesShapes, Zenon DEF Begin, Refused, SourceKept
<1>3. WorkersKept
  BY ChildPlaces, Zenon DEF Is, WorkersKept
<1> QED
  BY <1>2, <1>3

LEMMA RecoveryKeepsShapes ==
    ASSUME Shapes, NEW e \in Attempts, RecoverStale(e) \/ RecoverRetrying(e)
    PROVE  SourceKept /\ worker' = worker /\ ItemsAreKept
<1>1. source \in SourceShape
  BY DEF Shapes, SourceShape
<1>2. worker' = worker /\ items' = items /\ kind' = kind
  BY Zenon DEF RecoverStale, RecoverRetrying, world, body
<1>3. ASSUME FailForGood(e) PROVE SourceKept
  <2>1. CASE source' = source
    BY <1>1, <2>1 DEF SourceKept
  <2>2. CASE source' = [source EXCEPT !.status = "failed_permanent", !.error_type = "none", !.error = "none"]
    BY <1>1, <2>2 DEF SourceKept, SourceShape, SourceStatuses
  <2> QED
    BY <1>3, <2>1, <2>2, Zenon DEF FailForGood
<1>4. ASSUME Redispatch PROVE SourceKept
  BY <1>1, <1>4 DEF Redispatch, SourceKept, SourceShape, SourceStatuses
<1>5. ASSUME RecoverStale(e) PROVE SourceKept
  <2>1. CASE source' = source
    BY <1>1, <2>1 DEF SourceKept
  <2>2. CASE source' = [source EXCEPT !.status = Outcome("retrying"), !.token = 0,
                                      !.error_type = IF kind = "run" THEN "none" ELSE @, !.error = "none"]
    <3>1. Outcome("retrying") \in SourceStatuses
      BY OutcomeIs, Zenon DEF DomainStatuses
    <3> QED
      BY <1>1, <2>2, <3>1 DEF SourceKept, SourceShape
  <2> QED
    BY <1>3, <1>5, <2>1, <2>2, Zenon DEF RecoverStale, Suppressed
<1>6. ASSUME RecoverRetrying(e) PROVE SourceKept
  <2>1. source' = source \/ FailForGood(e) \/ Redispatch
    BY <1>6, SMT DEF RecoverRetrying, Suppressed
  <2> QED
    BY <1>1, <1>3, <1>4, <2>1, Zenon DEF SourceKept
<1>7. ItemsAreKept
  BY <1>2 DEF Shapes, ItemsAreKept
<1> QED
  BY <1>2, <1>5, <1>6, <1>7

LEMMA Assembled ==
    ASSUME Shapes, SourceKept, WorkersKept, MovesOn, ItemsAreKept
    PROVE  Shapes'
BY DEF Shapes, SourceKept, SourceShape, WorkersKept, MovesOn, ItemsAreKept

LEMMA ShapesKept ==
    ASSUME Shapes, [Next]_vars
    PROVE  Shapes'
<1>1. /\ source' = source => SourceKept
      /\ worker' = worker => WorkersKept
      /\ items' = items /\ kind' = kind => ItemsAreKept
  BY DEF Shapes, SourceKept, SourceShape, WorkersKept, ItemsAreKept
<1>2. CASE Claim
  <2>1. ItemsAreKept
    BY <1>1, <1>2, ClaimClaims, Zenon
  <2>2. CASE UNCHANGED <<exec, worker, source>>
    BY <1>1, <2>1, <2>2, NoneMoves, Assembled, Zenon
  <2>3. CASE Claimed
    <3>1. [at |-> "launched", done |-> 0] \in Children /\ "queued" \in Statuses
      BY DEF Children, Places, Statuses, InFlight
    <3>2. worker' \in Seq(Children) /\ exec' \in Seq(Statuses) /\ Len(worker') = Len(exec')
      BY <2>3, <3>1 DEF Claimed, Shapes
    <3>3. SourceKept
      <4>1. Len(exec) + 1 \in Nat /\ source \in SourceShape
        BY DEF Shapes, SourceShape
      <4>2. source' = [source EXCEPT !.status = "running", !.token = Len(exec) + 1]
        BY <2>3 DEF Claimed
      <4> QED
        BY <4>1, <4>2 DEF SourceKept, SourceShape, SourceStatuses
    <3> QED
      BY <2>1, <3>2, <3>3 DEF Shapes, SourceKept, SourceShape, ItemsAreKept
  <2> QED
    BY <1>2, <2>2, <2>3, ClaimClaims, Zenon
<1>3. CASE \E e \in Attempts : WorkerStep(e)
  <2>1. PICK e \in Attempts : WorkerStep(e)
    BY <1>3
  <2>2. MovesOn
    BY <2>1, ChildConcludes, BeginMoves, NoneMoves, ConcludesMoves, Zenon DEF Refused
  <2> QED
    BY <2>1, <2>2, ChildKeepsShapes, ItemsKept, Assembled, Zenon DEF ItemsAreKept
<1>4. CASE \E e \in Attempts : Dies(e)
  <2>1. PICK e \in Attempts : Dies(e)
    BY <1>4
  <2>2. WorkersKept
    BY <2>1, MovesAway, IsLeaving, Zenon DEF Dies, Gone, Is, WorkersKept
  <2> QED
    BY <1>1, <2>1, <2>2, NoneMoves, Assembled, Zenon DEF Dies, body
<1>5. CASE \E e \in Attempts : RecoverStale(e) \/ RecoverRetrying(e)
  BY <1>1, <1>5, StaleRecovers, RetryingRecovers, RecoversMoves, RecoveryKeepsShapes, Assembled, Zenon
<1>6. CASE RecoverSource
  <2>1. SourceKept
    BY <1>6 DEF RecoverSource, Redispatch, Shapes, SourceKept, SourceShape, SourceStatuses
  <2> QED
    BY <1>1, <1>6, <2>1, NoneMoves, Assembled, Zenon DEF RecoverSource, world, body
<1>7. CASE FinalizeCancel
  <2>1. SourceKept
    BY <1>7 DEF FinalizeCancel, Shapes, SourceKept, SourceShape, SourceStatuses
  <2> QED
    BY <1>1, <1>7, <2>1, FinalizeMoves, Assembled, Zenon DEF FinalizeCancel, world, body
<1>8. CASE ReleaseBlocked
  <2>1. SourceKept
    BY <1>8 DEF ReleaseBlocked, Shapes, SourceKept, SourceShape, SourceStatuses
  <2> QED
    BY <1>1, <1>8, <2>1, NoneMoves, Assembled, Zenon DEF ReleaseBlocked, world, body
<1>9. CASE AdminWrites
  <2>1. SourceKept
    BY <1>9 DEF AdminWrites, Shapes, SourceKept, SourceShape, SourceStatuses
  <2> QED
    BY <1>1, <1>9, <2>1, NoneMoves, Assembled, Zenon DEF AdminWrites, body
<1>10. CASE Elsewhere
  BY <1>1, <1>10, ElsewhereRests, NoneMoves, Assembled, Zenon
<1> QED
  BY <1>2, <1>3, <1>4, <1>5, <1>6, <1>7, <1>8, <1>9, <1>10, Steps, Zenon

-----------------------------------------------------------------------------
(* One attempt at a time.                                                  *)

LEMMA TokenMoves ==
    ASSUME Shapes, OnlyTheLast, [Next]_vars
    PROVE  source'.token \in {0, source.token} \/ Claimed
<1>1. CASE Claim
  BY <1>1, ClaimClaims, Zenon
<1>2. CASE \E e \in Attempts : WorkerStep(e)
  BY <1>2, ChildConcludes, ConcludesShapes, Zenon DEF Begin, Refused
<1>3. CASE \E e \in Attempts : Dies(e)
  BY <1>3, Zenon DEF Dies
<1>4. CASE \E e \in Attempts : RecoverStale(e) \/ RecoverRetrying(e)
  BY <1>4, StaleRecovers, RetryingRecovers, Zenon DEF Recovers, Gives
<1>5. CASE RecoverSource
  BY <1>5, SMT DEF RecoverSource, Redispatch, Shapes
<1>6. CASE FinalizeCancel
  BY <1>6, SMT DEF FinalizeCancel, Shapes
<1>7. CASE ReleaseBlocked
  BY <1>7, SMT DEF ReleaseBlocked, Shapes
<1>8. CASE AdminWrites
  <2>1. CASE source' = [source EXCEPT !.status = "pending", !.error_type = "none", !.error = "none"]
    BY <2>1, SMT DEF Shapes
  <2>2. CASE source' = [source EXCEPT !.status = "blocked", !.error_type = "index", !.error = "index"]
    BY <2>2, SMT DEF Shapes
  <2>3. CASE source' = [source EXCEPT !.status = "cancel_requested", !.error_type = "none", !.error = "none"]
    BY <2>3, SMT DEF Shapes
  <2> QED
    BY <1>8, <2>1, <2>2, <2>3, Zenon DEF AdminWrites
<1>9. CASE Elsewhere
  BY <1>9, ElsewhereRests, Zenon
<1> QED
  BY <1>1, <1>2, <1>3, <1>4, <1>5, <1>6, <1>7, <1>8, <1>9, Steps, Zenon

LEMMA LastKept ==
    ASSUME Shapes, OnlyTheLast, [Next]_vars
    PROVE  LastInFlight'
<1>1. CASE Claimed
  <2>1. exec = <<>> \/ exec[Len(exec)] \notin InFlight
    BY <1>1, SMT DEF Claimed, CanClaim, Suppresses, Last
  <2>2. \A e \in Attempts : exec[e] \notin InFlight
    BY <2>1, Numbered, SMT DEF OnlyTheLast, LastInFlight, Shapes
  <2>3. Len(exec') = Len(exec) + 1 /\ \A e \in Attempts : exec'[e] = exec[e]
    BY <1>1, Numbered, SMT DEF Claimed, Shapes
  <2>4. source'.token = Len(exec')
    BY <1>1, <2>3, SMT DEF Claimed, Shapes
  <2>5. Attempts' = 1..Len(exec')
    BY ShapesKept DEF Shapes, Attempts
  <2>6. \A e \in Attempts' : e \in Attempts \/ e = Len(exec')
    BY <2>3, <2>5, Numbered, SMT
  <2> QED
    BY <2>2, <2>3, <2>4, <2>5, <2>6, Numbered, SMT DEF LastInFlight
<1>2. CASE MovesOn /\ ~Claimed
  <2>1. Len(exec') = Len(exec) /\ Attempts' = 1..Len(exec')
    BY <1>2, ShapesKept DEF MovesOn, Shapes, Attempts
  <2>2. \A e \in Attempts : exec'[e] \in InFlight => exec[e] \in InFlight
    BY <1>2, Zenon DEF MovesOn
  <2> QED
    BY <1>2, <2>1, <2>2, TokenMoves, Numbered, SMT DEF OnlyTheLast, LastInFlight
<1> QED
  BY <1>1, <1>2, AttemptsMoveOn

LEMMA LastEnds ==
    ASSUME Shapes, LastInFlight, NEW e \in Attempts, e = Len(exec), NEW s \in Statuses \ InFlight,
           exec' = [exec EXCEPT ![e] = s]
    PROVE  \A n \in Attempts' : exec'[n] \notin InFlight
<1>1. Attempts' = Attempts
  BY Numbered DEF Shapes, Attempts
<1>2. \A n \in Attempts : n # e => exec'[n] = exec[n]
  BY Numbered DEF Shapes
<1>3. exec'[e] = s
  BY Numbered DEF Shapes
<1> QED
  BY <1>1, <1>2, <1>3, Zenon DEF LastInFlight

\* Nothing in flight comes of what was not.
LEMMA StaysQuiet ==
    ASSUME Shapes, MovesOn, \A e \in Attempts : exec[e] \notin InFlight
    PROVE  \A e \in Attempts' : exec'[e] \notin InFlight
<1>1. Attempts' = Attempts
  BY DEF MovesOn, Shapes, Attempts
<1> QED
  BY <1>1, Zenon DEF MovesOn

LEMMA StatusKept ==
    ASSUME Shapes, DoneIsQuiet, MovesOn, source'.status = source.status, kind' = kind
    PROVE  DoneIsQuiet'
<1>1. Terminal' = Terminal
  BY Zenon DEF Terminal
<1> QED
  BY <1>1, StaysQuiet, Zenon DEF DoneIsQuiet

LEMMA NotDone ==
    ASSUME Shapes, kind' = kind, source'.status \notin Terminal
    PROVE  DoneIsQuiet'
BY Zenon DEF DoneIsQuiet, Terminal

LEMMA NotTerminal ==
    \A s \in {"running", "pending", "queued", "blocked", "cancel_requested"} : s \notin Terminal
BY SMT DEF Terminal

LEMMA ChildKeepsQuiet ==
    ASSUME Shapes, OnlyTheLast, NEW e \in Attempts, WorkerStep(e)
    PROVE  DoneIsQuiet'
<1>1. kind' = kind
  BY ItemsKept
<1>2. CASE Begin(e) \/ Refused
  BY <1>1, <1>2, BeginMoves, NoneMoves, StatusKept, Zenon DEF Begin, Refused, OnlyTheLast
<1>3. ASSUME NEW s \in DomainStatuses, Concludes(e, s) PROVE DoneIsQuiet'
  <2>1. e = Len(exec) /\ s \in Statuses \ InFlight
    BY <1>3, Zenon DEF Concludes, Holds, Owns, DomainStatuses, Ended, Statuses, InFlight
  <2> QED
    BY <1>3, <2>1, LastEnds, Zenon DEF Concludes, OnlyTheLast, DoneIsQuiet
<1> QED
  BY <1>2, <1>3, ChildConcludes, Zenon

LEMMA RecoveryKeepsQuiet ==
    ASSUME Shapes, OnlyTheLast, NEW e \in Attempts, RecoverStale(e) \/ RecoverRetrying(e)
    PROVE  DoneIsQuiet'
<1>1. Recovers(e) /\ kind' = kind /\ MovesOn
  BY StaleRecovers, RetryingRecovers, RecoversMoves, RecoveryKeepsShapes, Zenon DEF ItemsAreKept
<1>2. CASE source' = source
  BY <1>1, <1>2, StatusKept, Zenon DEF OnlyTheLast
<1>3. CASE Len(exec) = e
  BY <1>1, <1>3, LastEnds, Zenon DEF Recovers, OnlyTheLast, DoneIsQuiet
<1>4. CASE Gives(e, "queued")
  BY <1>1, <1>4, NotDone, NotTerminal, Zenon DEF Gives
<1> QED
  BY <1>1, <1>2, <1>3, <1>4, Zenon DEF Recovers, Owns

LEMMA QuietKept ==
    ASSUME Shapes, OnlyTheLast, [Next]_vars
    PROVE  DoneIsQuiet'
<1>1. CASE Claim
  <2>1. kind' = kind
    BY <1>1, ClaimClaims, Zenon
  <2>2. CASE Claimed
    BY <2>1, <2>2, NotDone, NotTerminal, SMT DEF Claimed, Shapes
  <2>3. CASE UNCHANGED <<exec, worker, source>>
    BY <2>1, <2>3, StatusKept, NoneMoves, Zenon DEF OnlyTheLast
  <2> QED
    BY <1>1, <2>2, <2>3, ClaimClaims, Zenon
<1>2. CASE \E e \in Attempts : WorkerStep(e)
  BY <1>2, ChildKeepsQuiet, Zenon
<1>3. CASE (\E e \in Attempts : Dies(e)) \/ Elsewhere
  BY <1>3, ElsewhereRests, StatusKept, NoneMoves, Zenon DEF Dies, OnlyTheLast
<1>4. CASE \E e \in Attempts : RecoverStale(e) \/ RecoverRetrying(e)
  BY <1>4, RecoveryKeepsQuiet, Zenon
<1>5. CASE RecoverSource
  <2>1. source'.status = "queued" /\ kind' = kind
    BY <1>5, SMT DEF RecoverSource, Redispatch, Shapes, world
  <2> QED
    BY <2>1, NotDone, NotTerminal, Zenon
<1>6. CASE FinalizeCancel
  <2>1. (\A e \in Attempts : exec[e] \notin InFlight) /\ MovesOn
    BY <1>6, FinalizeMoves, Zenon DEF FinalizeCancel
  <2> QED
    BY <2>1, StaysQuiet, Zenon DEF DoneIsQuiet
<1>7. CASE ReleaseBlocked
  <2>1. source'.status \in {"pending", "queued"} /\ kind' = kind
    BY <1>7, SMT DEF ReleaseBlocked, Shapes, world
  <2> QED
    BY <2>1, NotDone, NotTerminal, Zenon
<1>8. CASE AdminWrites
  <2>1. source'.status \in {"pending", "blocked", "cancel_requested"} /\ kind' = kind
    <3>1. CASE source' = [source EXCEPT !.status = "pending", !.error_type = "none", !.error = "none"]
      BY <1>8, <3>1, SMT DEF Shapes, AdminWrites
    <3>2. CASE source' = [source EXCEPT !.status = "blocked", !.error_type = "index", !.error = "index"]
      BY <1>8, <3>2, SMT DEF Shapes, AdminWrites
    <3>3. CASE source' = [source EXCEPT !.status = "cancel_requested", !.error_type = "none", !.error = "none"]
      BY <1>8, <3>3, SMT DEF Shapes, AdminWrites
    <3> QED
      BY <1>8, <3>1, <3>2, <3>3, Zenon DEF AdminWrites
  <2> QED
    BY <2>1, NotDone, NotTerminal, Zenon
<1> QED
  BY <1>1, <1>2, <1>3, <1>4, <1>5, <1>6, <1>7, <1>8, Steps, Zenon

\* What a runner has said stays true.
LEMMA ReportedKept ==
    ASSUME Shapes, Reported, [Next]_vars
    PROVE  Reported'
<1>1. CASE \E e \in Attempts : Reports(e)
  <2>1. PICK e \in Attempts : Reports(e)
    BY <1>1
  <2>2. /\ report'.of = e /\ report'.says = Report(exec[e])
        /\ exec' = exec /\ Attempts' = Attempts
    BY <2>1, Zenon DEF Reports, Attempts
  <2>3. Report(exec[e]) = "succeeded" => exec[e] = "succeeded"
    BY Zenon DEF Report
  <2> QED
    BY <2>2, <2>3, Zenon DEF Reported
<1>2. CASE report' = report
  BY <1>2, EndedStays, Zenon DEF Reported, Ended
<1>3. (\E e \in Attempts : Reports(e)) \/ report' = report
  <2>1. CASE Claim
    BY <2>1, ClaimClaims, Zenon
  <2>2. ASSUME NEW e \in Attempts, WorkerStep(e), ~Reports(e) PROVE report' = report
    BY <2>2, Zenon DEF WorkerStep, Begin, TurnAway, OpenItem, CloseItem, CommitBegins, CommitReaches,
                       CommitMarked, Refresh, Conclude, Fail, MarksFailure, world
  <2>3. CASE \E e \in Attempts : Dies(e)
    BY <2>3, Zenon DEF Dies
  <2>4. CASE \E e \in Attempts : RecoverStale(e) \/ RecoverRetrying(e)
    BY <2>4, Zenon DEF RecoverStale, RecoverRetrying, world
  <2>5. CASE RecoverSource \/ FinalizeCancel \/ ReleaseBlocked \/ AdminWrites
    BY <2>5, Zenon DEF RecoverSource, FinalizeCancel, ReleaseBlocked, AdminWrites, world
  <2>6. CASE Elsewhere
    BY <2>6, ElsewhereRests
  <2> QED
    BY <2>1, <2>2, <2>3, <2>4, <2>5, <2>6, Steps, Zenon
<1> QED
  BY <1>1, <1>2, <1>3, Zenon

-----------------------------------------------------------------------------
(* On one host the child at work is the one that holds the source.         *)

\* A child goes on with its work, leaves it, or concludes and leaves it.
Continues(e) == AtWork(e) /\ exec' = exec /\ \E k : Is(e, k)
LEMMA ChildGoesOn ==
    ASSUME Shapes, NEW e \in Attempts, WorkerStep(e)
    PROVE  \/ Begin(e)
           \/ Continues(e)
           \/ Gone(e) /\ exec' = exec
           \/ Gone(e) /\ \E s \in DomainStatuses : Concludes(e, s)
<1>1. CASE CloseItem(e) \/ CommitBegins(e) \/ CommitReaches(e) \/ CommitMarked(e)
  BY <1>1, ChildPlaces, Zenon DEF CloseItem, CommitBegins, CommitReaches, CommitMarked, Continues, AtWork, At
<1>2. CASE OpenItem(e)
  BY <1>2, MovesAway, IsLeaving, MovesOnward, Zenon DEF OpenItem, Stops, Continues, AtWork, At
<1>3. CASE TurnAway(e) \/ Refresh(e) \/ Conclude(e) \/ Fail(e) \/ Reports(e) \/ MarksFailure(e)
  <2>1. Gone(e)
    BY <1>3, MovesAway, IsLeaving, Zenon DEF TurnAway, Refresh, Conclude, Fail, Reports, MarksFailure, Stops
  <2>2. Refused \/ \E s \in DomainStatuses : Concludes(e, s)
    <3>1. ~Begin(e)
      BY <1>3, SMT DEF Begin, TurnAway, Refresh, Conclude, Fail, Reports, MarksFailure, At
    <3> QED
      BY <3>1, ChildConcludes, Zenon
  <2> QED
    BY <2>1, <2>2, Zenon DEF Refused
<1> QED
  BY <1>1, <1>2, <1>3, Zenon DEF WorkerStep

LEMMA HeldElse ==
    ASSUME Shapes, WorkIsHeld, fleet' = fleet, worker' = worker, Attempts' = Attempts,
           fleet = "one_host" => \A e \in Attempts : exec[e] = "running" /\ AtWork(e) => exec'[e] = exec[e]
    PROVE  WorkIsHeld'
BY Zenon DEF WorkIsHeld, AtWork

\* A step of one child: the others stay where they are, with what they hold.
LEMMA HeldByChild ==
    ASSUME Shapes, WorkIsHeld, NEW e \in Attempts, NEW k, Is(e, k), fleet' = fleet, Attempts' = Attempts,
           \A n \in Attempts : n # e => exec'[n] = exec[n],
           k.at \in {"turned_away", "between", "inside"} => exec'[e] = "running"
    PROVE  WorkIsHeld'
BY Zenon DEF WorkIsHeld, AtWork, Is

LEMMA ChildKeepsHeld ==
    ASSUME Shapes, WorkIsHeld, NEW e \in Attempts, WorkerStep(e)
    PROVE  WorkIsHeld'
<1>1. fleet' = fleet
  BY Zenon DEF WorkerStep, Begin, TurnAway, OpenItem, CloseItem, CommitBegins, CommitReaches,
               CommitMarked, Refresh, Conclude, Fail, Reports, MarksFailure, world
<1>2. ASSUME Gone(e), NEW s, exec' = [exec EXCEPT ![e] = s] \/ exec' = exec PROVE WorkIsHeld'
  <2>1. Attempts' = Attempts /\ \A n \in Attempts : n # e => exec'[n] = exec[n]
    BY <1>2 DEF Attempts, Shapes
  <2>2. PICK place \in Leaving : Is(e, [at |-> place, done |-> 0])
    BY <1>2 DEF Gone
  <2> QED
    BY <1>1, <2>1, <2>2, HeldByChild DEF Leaving
<1>3. CASE Continues(e)
  <2>1. Attempts' = Attempts /\ \A n \in Attempts : exec'[n] = exec[n]
    BY <1>3, Zenon DEF Continues, Attempts
  <2>2. fleet = "one_host" => exec'[e] = "running"
    BY <1>3, <2>1, Zenon DEF Continues, WorkIsHeld
  <2>3. fleet # "one_host" => WorkIsHeld'
    BY <1>1 DEF WorkIsHeld
  <2> QED
    BY <1>1, <1>3, <2>1, <2>2, <2>3, HeldByChild, Zenon DEF Continues
<1>4. CASE /\ exec[e] = "queued" /\ exec' = [exec EXCEPT ![e] = "running"]
           /\ Is(e, [at |-> FirstPlace, done |-> worker[e].done])
  <2>1. /\ Attempts' = Attempts /\ exec'[e] = "running"
        /\ \A n \in Attempts : n # e => exec'[n] = exec[n]
    BY <1>4 DEF Attempts, Shapes
  <2> QED
    BY <1>1, <1>4, <2>1, HeldByChild
<1> QED
  BY <1>2, <1>3, <1>4, ChildGoesOn, BeginIs, Zenon DEF Concludes

LEMMA HeldKept ==
    ASSUME Shapes, OnlyTheLast, WorkIsHeld, [Next]_vars
    PROVE  WorkIsHeld'
<1>1. CASE Claim
  <2>1. fleet' = fleet
    BY <1>1, ClaimClaims, Zenon
  <2>2. CASE UNCHANGED <<exec, worker, source>>
    BY <2>1, <2>2, Zenon DEF WorkIsHeld, AtWork, Attempts
  <2>3. CASE Claimed
    <3>1. \A e \in Attempts : exec'[e] = exec[e] /\ worker'[e] = worker[e]
      BY <2>3, Numbered DEF Claimed, Shapes
    <3>2. worker'[Len(exec) + 1] = [at |-> "launched", done |-> 0]
      BY <2>3, Numbered DEF Claimed, Shapes
    <3>3. \A e \in Attempts' : e \in Attempts \/ e = Len(exec) + 1
      BY <2>3, Numbered DEF Claimed, Shapes, Attempts
    <3> QED
      BY <2>1, <3>1, <3>2, <3>3, SMT DEF WorkIsHeld, AtWork
  <2> QED
    BY <1>1, <2>2, <2>3, ClaimClaims, Zenon
<1>2. CASE \E e \in Attempts : WorkerStep(e)
  BY <1>2, ChildKeepsHeld, Zenon
<1>3. CASE \E e \in Attempts : Dies(e)
  <2>1. PICK e \in Attempts : Dies(e)
    BY <1>3
  <2>2. PICK place \in Leaving : Is(e, [at |-> place, done |-> 0])
    BY <2>1, MovesAway, IsLeaving, Zenon DEF Dies, Gone
  <2>3. UNCHANGED <<fleet, exec>>
    BY <2>1, Zenon DEF Dies
  <2> QED
    BY <2>2, <2>3, HeldByChild DEF Attempts, Leaving
<1>4. CASE \E e \in Attempts : RecoverStale(e) \/ RecoverRetrying(e)
  <2>1. PICK e \in Attempts : RecoverStale(e) \/ RecoverRetrying(e)
    BY <1>4
  <2>2. Recovers(e) /\ worker' = worker /\ fleet' = fleet
    BY <2>1, StaleRecovers, RetryingRecovers, Zenon DEF RecoverStale, RecoverRetrying, world
  <2>3. PICK s \in Statuses : exec' = [exec EXCEPT ![e] = s]
    BY <2>2, Zenon DEF Recovers
  <2>4. Attempts' = Attempts /\ \A n \in Attempts : n # e => exec'[n] = exec[n]
    BY <2>3 DEF Attempts, Shapes
  <2>5. fleet = "one_host" /\ exec[e] = "running" => ~AtWork(e)
    BY <2>2, SMT DEF Recovers, OnlyTheLast, DoneIsQuiet, InFlight, AtWork, At
  <2> QED
    BY <2>2, <2>4, <2>5, HeldElse, Zenon
<1>5. CASE RecoverSource \/ ReleaseBlocked \/ AdminWrites \/ Elsewhere
  <2>1. UNCHANGED <<fleet, exec, worker>>
    BY <1>5, ElsewhereRests, Zenon DEF RecoverSource, ReleaseBlocked, AdminWrites, world
  <2> QED
    BY <2>1, HeldElse, Zenon DEF Attempts
<1>6. CASE FinalizeCancel
  <2>1. UNCHANGED <<fleet, worker>> /\ Attempts' = Attempts
    BY <1>6, FinalizeMoves, Zenon DEF FinalizeCancel, world, MovesOn, Attempts
  <2>2. \A e \in Attempts : exec[e] = "running" => exec'[e] = exec[e]
    BY <1>6, Zenon DEF FinalizeCancel, InFlight
  <2> QED
    BY <2>1, <2>2, HeldElse, Zenon
<1> QED
  BY <1>1, <1>2, <1>3, <1>4, <1>5, <1>6, Steps, Zenon

-----------------------------------------------------------------------------
(* How far the children are.                                               *)

LEMMA OneAtWork ==
    ASSUME Shapes, OnlyTheLast, WorkIsHeld, fleet = "one_host",
           NEW e \in Attempts, NEW n \in Attempts, AtWork(e), AtWork(n)
    PROVE  e = n
BY Zenon DEF WorkIsHeld, OnlyTheLast, LastInFlight, InFlight

\* Every other step leaves the children alone, but for one that is launched or dies.
LEMMA ChildrenStep ==
    ASSUME Shapes, [Next]_vars
    PROVE  \/ Claimed /\ UNCHANGED <<kind, fleet, items, commit, paper, reached>>
           \/ \E e \in Attempts : WorkerStep(e)
           \/ \E e \in Attempts : Gone(e) /\ UNCHANGED <<kind, fleet, source, exec, items, commit, paper, reached>>
           \/ worker' = worker /\ Attempts' = Attempts /\ UNCHANGED <<kind, fleet, items, commit>>
<1>1. CASE Claim
  BY <1>1, ClaimClaims, Zenon DEF Attempts
<1>2. CASE \E e \in Attempts : Dies(e)
  BY <1>2, MovesAway, IsLeaving, Zenon DEF Dies, body
<1>3. CASE \E e \in Attempts : RecoverStale(e) \/ RecoverRetrying(e)
  <2>1. MovesOn
    BY <1>3, StaleRecovers, RetryingRecovers, RecoversMoves, Zenon
  <2>2. Attempts' = Attempts
    BY <2>1 DEF MovesOn, Shapes, Attempts
  <2> QED
    BY <1>3, <2>2, Zenon DEF RecoverStale, RecoverRetrying, world, body
<1>4. CASE RecoverSource \/ ReleaseBlocked \/ AdminWrites
  BY <1>4, Zenon DEF RecoverSource, ReleaseBlocked, AdminWrites, world, body, Attempts
<1>5. CASE FinalizeCancel
  <2>1. Attempts' = Attempts
    BY <1>5, FinalizeMoves DEF MovesOn, Shapes, Attempts
  <2> QED
    BY <1>5, <2>1, Zenon DEF FinalizeCancel, world, body
<1>6. CASE Elsewhere
  BY <1>6, ElsewhereRests, Zenon DEF Attempts
<1> QED
  BY <1>1, <1>2, <1>3, <1>4, <1>5, <1>6, Steps, Zenon

LEMMA ClaimedAdds ==
    ASSUME Shapes, Claimed
    PROVE  /\ \A e \in Attempts : worker'[e] = worker[e] /\ exec'[e] = exec[e]
           /\ \A e \in Attempts' : e \in Attempts \/ worker'[e] = [at |-> "launched", done |-> 0]
<1>1. worker'[Len(exec) + 1] = [at |-> "launched", done |-> 0]
  BY Numbered DEF Claimed, Shapes
<1>2. \A e \in Attempts' : e \in Attempts \/ e = Len(exec) + 1
  BY Numbered DEF Claimed, Shapes, Attempts
<1>3. \A e \in Attempts : worker'[e] = worker[e] /\ exec'[e] = exec[e]
  BY Numbered DEF Claimed, Shapes
<1> QED
  BY <1>1, <1>2, <1>3, Zenon

LEMMA ChildKeepsAttempts ==
    ASSUME Shapes, NEW e \in Attempts, WorkerStep(e)
    PROVE  Attempts' = Attempts /\ kind' = kind /\ fleet' = fleet
<1>1. MovesOn
  BY ChildConcludes, BeginMoves, NoneMoves, ConcludesMoves, Zenon DEF Refused
<1>2. fleet' = fleet
  BY Zenon DEF WorkerStep, Begin, TurnAway, OpenItem, CloseItem, CommitBegins, CommitReaches,
               CommitMarked, Refresh, Conclude, Fail, Reports, MarksFailure, world
<1> QED
  BY <1>1, <1>2, ItemsKept DEF MovesOn, Shapes, Attempts

LEMMA ChildCounts ==
    ASSUME Shapes, Counted, NEW e \in Attempts, WorkerStep(e)
    PROVE  \E k : Is(e, k) /\ Counts(k)
<1>1. CASE Gone(e)
  BY <1>1, SMT DEF Gone, Counts, Leaving
<1>2. CASE Begin(e) /\ ~Gone(e)
  <2>1. worker[e].done = 0
    BY <1>2, Zenon DEF Begin, At, Counted, Counts
  <2>2. Counts([at |-> FirstPlace, done |-> 0])
    BY SMT DEF Counts, FirstPlace
  <2> QED
    BY <1>2, <2>1, <2>2, BeginIs, Zenon
<1>3. CASE OpenItem(e) /\ ~Gone(e)
  <2>1. Is(e, [at |-> "inside", done |-> worker[e].done]) /\ worker[e].done < Len(Items)
    BY <1>3, MovesOnward, MovesAway, IsLeaving, Zenon DEF OpenItem, Stops
  <2> QED
    BY <2>1, SMT DEF Counts
<1>4. CASE CommitBegins(e)
  <2>1. Is(e, [at |-> "inside", done |-> worker[e].done]) /\ kind # "run"
    BY <1>4, MovesOnward, Zenon DEF CommitBegins
  <2> QED
    BY <2>1, SMT DEF Counts
<1>5. CASE CloseItem(e) \/ CommitReaches(e) \/ CommitMarked(e)
  <2>1. \A d : Counts([at |-> "between", done |-> d])
    BY SMT DEF Counts
  <2> QED
    BY <1>5, <2>1, CloseItemIs, CommitReachesIs, CommitMarkedIs, Zenon
<1>6. CASE TurnAway(e) \/ Refresh(e) \/ Conclude(e) \/ Fail(e) \/ Reports(e) \/ MarksFailure(e)
  <2>1. Gone(e)
    BY <1>6, MovesAway, IsLeaving, Zenon DEF TurnAway, Refresh, Conclude, Fail, Reports, MarksFailure, Stops
  <2> QED
    BY <1>1, <2>1
<1> QED
  BY <1>1, <1>2, <1>3, <1>4, <1>5, <1>6, Zenon DEF WorkerStep

LEMMA CountedKept ==
    ASSUME Shapes, Counted, [Next]_vars
    PROVE  Counted'
<1>1. CASE Claimed /\ kind' = kind
  BY <1>1, ClaimedAdds, SMT DEF Counted, Counts
<1>2. ASSUME NEW e \in Attempts, NEW k, Is(e, k), Counts(k), kind' = kind, Attempts' = Attempts
      PROVE  Counted'
  BY <1>2, Zenon DEF Counted, Counts, Is
<1>3. CASE \E e \in Attempts : WorkerStep(e)
  BY <1>2, <1>3, ChildCounts, ChildKeepsAttempts, Zenon
<1>4. CASE \E e \in Attempts : Gone(e) /\ kind' = kind /\ exec' = exec
  <2>1. \A place \in Leaving : Counts([at |-> place, done |-> 0])
    BY SMT DEF Counts, Leaving
  <2> QED
    BY <1>2, <1>4, <2>1, Zenon DEF Gone, Attempts
<1>5. CASE worker' = worker /\ Attempts' = Attempts /\ kind' = kind
  BY <1>5, Zenon DEF Counted, Counts
<1> QED
  BY <1>1, <1>3, <1>4, <1>5, ChildrenStep, Zenon

\* Paperless holds the reviewed values only once they were brought there.
Brought == UNCHANGED <<paper, reached>> \/ reached' \/ (reached' = reached /\ (paper'.holds => paper.holds))
LEMMA PaperStep ==
    ASSUME Shapes, [Next]_vars
    PROVE  Brought
<1>1. CASE Claim
  BY <1>1, ClaimClaims, Zenon DEF Brought
<1>2. ASSUME NEW e \in Attempts, WorkerStep(e) PROVE Brought
  BY <1>2, Zenon DEF WorkerStep, Begin, TurnAway, OpenItem, CloseItem, CommitBegins, CommitReaches, Patched,
                     CommitMarked, Refresh, Conclude, Fail, Reports, MarksFailure, body, Brought
<1>3. CASE \E e \in Attempts : Dies(e) \/ RecoverStale(e) \/ RecoverRetrying(e)
  BY <1>3, Zenon DEF Dies, RecoverStale, RecoverRetrying, body, Brought
<1>4. CASE RecoverSource \/ FinalizeCancel \/ ReleaseBlocked \/ AdminWrites
  BY <1>4, Zenon DEF RecoverSource, FinalizeCancel, ReleaseBlocked, AdminWrites, body, Brought
<1>5. CASE OthersEdit
  <2>1. PICK keeps \in BOOLEAN : paper' = [changed |-> TRUE, holds |-> keeps /\ paper.holds]
    BY <1>5 DEF OthersEdit
  <2>2. paper'.holds = (keeps /\ paper.holds)
    BY <2>1, Zenon
  <2>3. reached' = reached
    BY <1>5 DEF OthersEdit
  <2> QED
    BY <2>2, <2>3, Zenon DEF Brought
<1>6. CASE Elsewhere /\ ~OthersEdit
  BY <1>6, Zenon DEF Elsewhere, LoseJob, GateCloses, GateOpens, RetryDue, AdminAsks, vars, body, Brought
<1> QED
  BY <1>1, <1>2, <1>3, <1>4, <1>5, <1>6, Steps, Zenon

LEMMA ChildReaches ==
    ASSUME Shapes, Counted, ReachInv, kind = "command", NEW e \in Attempts, WorkerStep(e)
    PROVE  \E k : Is(e, k) /\ (k.done > 0 => reached')
<1>1. CASE Gone(e)
  BY <1>1, SMT DEF Gone
<1>2. CASE Begin(e) /\ ~Gone(e)
  <2>1. worker[e].done = 0 /\ Is(e, [at |-> FirstPlace, done |-> 0])
    BY <1>2, BeginIs, Zenon DEF Begin, At, Counted, Counts
  <2> QED
    BY <2>1, SMT
<1>3. CASE CommitBegins(e)
  <2>1. Is(e, [at |-> "inside", done |-> worker[e].done]) /\ worker[e].done = 0
    BY <1>3, MovesOnward, Zenon DEF CommitBegins
  <2> QED
    BY <2>1, SMT
<1>4. CASE CommitReaches(e)
  <2>1. reached'
    BY <1>4, SMT DEF CommitReaches, CommitIsDone, Patched, ReachInv
  <2> QED
    BY <1>4, <2>1, CommitReachesIs
<1>5. CASE CommitMarked(e)
  <2>1. worker[e].done = 1 /\ reached' = reached
    BY <1>5, Zenon DEF CommitMarked
  <2>2. reached'
    BY <2>1, SMT DEF ReachInv
  <2> QED
    BY <1>5, <2>2, CommitMarkedIs
<1>6. ~OpenItem(e) /\ ~CloseItem(e)
  BY Zenon DEF OpenItem, CloseItem
<1>7. CASE TurnAway(e) \/ Refresh(e) \/ Conclude(e) \/ Fail(e) \/ Reports(e) \/ MarksFailure(e)
  BY <1>1, <1>7, MovesAway, IsLeaving, Zenon DEF TurnAway, Refresh, Conclude, Fail, Reports, MarksFailure, Stops
<1> QED
  BY <1>1, <1>2, <1>3, <1>4, <1>5, <1>6, <1>7, Zenon DEF WorkerStep

LEMMA ReachKept ==
    ASSUME Shapes, Counted, ReachInv, [Next]_vars
    PROVE  ReachInv'
<1> SUFFICES ASSUME kind' = "command" PROVE \A e \in Attempts' : worker'[e].done > 0 => reached'
  BY PaperStep, Zenon DEF ReachInv, Brought
<1>1. reached => reached'
  BY PaperStep, Zenon DEF Brought
<1>2. CASE Claimed /\ kind' = kind
  BY <1>1, <1>2, ClaimedAdds, SMT DEF ReachInv
<1>3. CASE \E e \in Attempts : WorkerStep(e)
  <2>1. PICK e \in Attempts : WorkerStep(e)
    BY <1>3
  <2>2. kind = "command" /\ Attempts' = Attempts
    BY <2>1, ChildKeepsAttempts, Zenon
  <2>3. PICK k : Is(e, k) /\ (k.done > 0 => reached')
    BY <2>1, <2>2, ChildReaches
  <2> QED
    BY <1>1, <2>2, <2>3, Zenon DEF ReachInv, Is
<1>4. CASE \E e \in Attempts : Gone(e) /\ kind' = kind /\ exec' = exec
  <2>1. PICK e \in Attempts : Gone(e)
    BY <1>4
  <2>2. worker'[e].done = 0 /\ \A n \in Attempts : n # e => worker'[n] = worker[n]
    BY <2>1, SMT DEF Gone, Is
  <2> QED
    BY <1>1, <1>4, <2>2, SMT DEF ReachInv, Attempts
<1>5. CASE worker' = worker /\ Attempts' = Attempts /\ kind' = kind
  BY <1>1, <1>5, Zenon DEF ReachInv
<1> QED
  BY <1>2, <1>3, <1>4, <1>5, ChildrenStep, Zenon

\* Only a child at work writes the items; the suggestion is written also by one
\* that has failed.
LEMMA WritersWork ==
    ASSUME NEW e \in Attempts, WorkerStep(e), ~AtWork(e)
    PROVE  (commit' = commit \/ MarksFailure(e)) /\ items' = items
BY SMT DEF WorkerStep, Begin, TurnAway, OpenItem, CloseItem, CommitBegins, CommitReaches, CommitMarked,
             Refresh, Conclude, Fail, Reports, MarksFailure, AtWork, At, body

\* Only a failure for good sends a child to mark its suggestion as failed.
LEMMA FailureMarks ==
    ASSUME Shapes, NEW e \in Attempts, WorkerStep(e), kind = "command", worker'[e].at = "marks_failed"
    PROVE  source'.status = "failed_permanent"
<1>1. \A place \in Places : Moves(e, place) => place = "marks_failed"
  BY MovesAt, Zenon
<1>2. "ending" \in Places /\ "gone" \in Places /\ "between" \in Places /\ "inside" \in Places /\ "turned_away" \in Places
  BY SMT DEF Places, Leaving
<1>3. ~Stops(e)
  BY <1>1, <1>2, Zenon DEF Stops
<1>4. FirstPlace # "marks_failed" /\ FirstPlace \in Places
  BY <1>2, Zenon DEF FirstPlace
<1>5. /\ ~Begin(e) /\ ~TurnAway(e) /\ ~OpenItem(e) /\ ~CommitBegins(e)
      /\ ~Refresh(e) /\ ~Conclude(e) /\ ~Reports(e) /\ ~MarksFailure(e)
  <2>1. ~Moves(e, "ending") /\ ~Moves(e, "gone") /\ ~Moves(e, "inside") /\ ~Moves(e, FirstPlace)
    BY <1>1, <1>2, <1>4, Zenon
  <2>2. ~Begin(e) /\ ~TurnAway(e) /\ ~OpenItem(e) /\ ~CommitBegins(e)
    BY <1>3, <2>1, Zenon DEF Begin, TurnAway, OpenItem, CommitBegins
  <2>3. ~Refresh(e) /\ ~Conclude(e) /\ ~Reports(e) /\ ~MarksFailure(e)
    BY <1>3, <2>1, Zenon DEF Refresh, Conclude, Reports, MarksFailure
  <2> QED
    BY <2>2, <2>3
<1>6. ~CloseItem(e) /\ ~CommitReaches(e) /\ ~CommitMarked(e)
  <2>1. \A d : ~Is(e, [at |-> "between", done |-> d])
    BY SMT DEF Is
  <2> QED
    BY <2>1, CloseItemIs, CommitReachesIs, CommitMarkedIs, Zenon
<1>7. PICK class : FailAttempt(e, class) /\ Moves(e, AfterFailure(e, class))
  BY <1>3, <1>5, <1>6, Zenon DEF WorkerStep, Fail
<1>8. AfterFailure(e, class) = "marks_failed"
  <2>1. AfterFailure(e, class) \in Places
    BY IsLeaving DEF Places
  <2> QED
    BY <1>1, <1>7, <2>1
<1>9. Holds(e) /\ ~ShouldRetry(class, e)
  BY <1>8, SMT DEF AfterFailure
<1>10. Finish(e, "failed_permanent", "none")
  BY <1>7, <1>9, Zenon DEF FailAttempt
<1>11. Concludes(e, "failed_permanent")
  BY <1>9, <1>10, Zenon DEF Finish, Concludes
<1>12. source'.status = Outcome("failed_permanent")
  BY <1>11, ConcludesShapes, Zenon DEF DomainStatuses, Ended
<1> QED
  BY <1>12, SMT DEF Outcome

\* Nobody asks anything of a command, and none that failed for good is touched again.
LEMMA FailedRests ==
    ASSUME Shapes, FailureStands, kind = "command", source.status = "failed_permanent", [Next]_vars
    PROVE  source' = source
<1>1. source.status \in Terminal
  BY SMT DEF Terminal
<1>2. CASE Claim
  <2>1. ~CanClaim
    BY SMT DEF CanClaim, Claimable
  <2> QED
    BY <1>2, <2>1, Zenon DEF Claim
<1>3. ASSUME NEW e \in Attempts, WorkerStep(e) PROVE source' = source
  BY <1>3, ChildConcludes, SMT DEF Begin, Refused, Concludes, Holds, Owns
<1>4. ASSUME NEW e \in Attempts, RecoverStale(e) \/ RecoverRetrying(e) PROVE source' = source
  BY <1>1, <1>4, SMT DEF RecoverStale, RecoverRetrying, Suppressed
<1>5. ~RecoverSource /\ ~FinalizeCancel /\ ~ReleaseBlocked /\ ~AdminWrites
  BY SMT DEF RecoverSource, Claimable, FinalizeCancel, ReleaseBlocked, AdminWrites, FailureStands
<1>6. CASE (\E e \in Attempts : Dies(e)) \/ Elsewhere
  BY <1>6, ElsewhereRests, Zenon DEF Dies
<1> QED
  BY <1>2, <1>3, <1>4, <1>5, <1>6, Steps, Zenon

LEMMA NobodyAsks ==
    ASSUME FailureStands, [Next]_vars
    PROVE  asked' # "nothing" => kind = "run"
<1>1. asked' \in {asked, "nothing"} \/ AdminAsks
  BY Zenon DEF Next, Scan, Claim, LoseJob, WorkerStep, Begin, TurnAway, OpenItem, CloseItem, CommitBegins, CommitReaches,
               CommitMarked, Refresh, Conclude, Fail, Reports, MarksFailure, Dies, RecoverSource, FinalizeCancel,
               ReleaseBlocked, RecoverStale, RecoverRetrying, AdminWrites, OthersEdit, GateCloses, GateOpens,
               RetryDue, vars, world
<1> QED
  BY <1>1, Zenon DEF FailureStands, AdminAsks

LEMMA FailureKept ==
    ASSUME Shapes, FailureStands, [Next]_vars
    PROVE  FailureStands'
<1>0. kind' = kind
  BY ChildrenStep, ChildKeepsAttempts, Zenon
<1> SUFFICES ASSUME kind = "command", NEW n \in Attempts', worker'[n].at = "marks_failed"
             PROVE  source'.status = "failed_permanent"
  BY <1>0, NobodyAsks, Zenon DEF FailureStands, At
<1>1. ASSUME n \in Attempts, worker'[n] = worker[n] PROVE source'.status = "failed_permanent"
  <2>1. source.status = "failed_permanent"
    BY <1>1, Zenon DEF FailureStands, At
  <2> QED
    BY <2>1, FailedRests, Zenon
<1>2. CASE Claimed
  BY <1>1, <1>2, ClaimedAdds, SMT
<1>3. ASSUME NEW e \in Attempts, WorkerStep(e) PROVE source'.status = "failed_permanent"
  <2>1. n \in Attempts /\ (n # e => worker'[n] = worker[n])
    BY <1>3, ChildKeepsAttempts, ChildPlaces, Zenon DEF Is
  <2> QED
    BY <1>1, <1>3, <2>1, FailureMarks, Zenon
<1>4. ASSUME NEW e \in Attempts, Dies(e) PROVE source'.status = "failed_permanent"
  <2>1. "gone" \in Places /\ Moves(e, "gone") /\ Attempts' = Attempts
    BY <1>4, IsLeaving, Zenon DEF Places, Dies, Attempts
  <2>2. worker'[e].at = "gone" /\ \A k \in Attempts : k # e => worker'[k] = worker[k]
    BY <2>1, MovesAt, Zenon
  <2> QED
    BY <1>1, <2>1, <2>2
<1>5. CASE worker' = worker /\ Attempts' = Attempts
  BY <1>1, <1>5
<1>6. \/ Claimed \/ (\E e \in Attempts : WorkerStep(e) \/ Dies(e)) \/ (worker' = worker /\ Attempts' = Attempts)
  <2>1. CASE Claim
    BY <2>1, ClaimClaims, Zenon DEF Attempts
  <2>2. CASE \E e \in Attempts : RecoverStale(e) \/ RecoverRetrying(e)
    <3>1. MovesOn
      BY <2>2, StaleRecovers, RetryingRecovers, RecoversMoves, Zenon
    <3>2. Attempts' = Attempts
      BY <3>1 DEF MovesOn, Shapes, Attempts
    <3> QED
      BY <2>2, <3>2, Zenon DEF RecoverStale, RecoverRetrying
  <2>3. CASE RecoverSource \/ ReleaseBlocked \/ AdminWrites \/ Elsewhere
    BY <2>3, ElsewhereRests, Zenon DEF RecoverSource, ReleaseBlocked, AdminWrites, Attempts
  <2>4. CASE FinalizeCancel
    <3>1. MovesOn
      BY <2>4, FinalizeMoves
    <3> QED
      BY <2>4, <3>1 DEF FinalizeCancel, MovesOn, Shapes, Attempts
  <2> QED
    BY <2>1, <2>2, <2>3, <2>4, Steps, Zenon
<1> QED
  BY <1>2, <1>3, <1>4, <1>5, <1>6, Zenon

\* On one host nobody works any more when a command that failed is marked so.
LEMMA NoLateFailure ==
    ASSUME Shapes, OnlyTheLast, WorkIsHeld, FailureStands, kind = "command", fleet = "one_host",
           NEW e \in Attempts, MarksFailure(e), NEW n \in Attempts, AtWork(n)
    PROVE  commit' = "retrying"
<1>1. CASE At(e, "marks_failed")
  <2>1. source.status \in Terminal
    BY <1>1, SMT DEF FailureStands, Terminal
  <2> QED
    BY <2>1, Zenon DEF OnlyTheLast, DoneIsQuiet, WorkIsHeld, InFlight
<1> QED
  BY <1>1, SMT DEF MarksFailure

LEMMA MarkKept ==
    ASSUME Shapes, OnlyTheLast, WorkIsHeld, Counted, FailureStands, MarkInv, [Next]_vars
    PROVE  MarkInv'
<1> SUFFICES ASSUME kind' = "command", fleet' = "one_host", NEW n \in Attempts', AtWork(n)', worker'[n].done = 2
             PROVE  commit' \in {"committed", "retrying"}
  BY Zenon DEF MarkInv
<1>1. CASE Claimed /\ UNCHANGED <<kind, fleet, commit>>
  BY <1>1, ClaimedAdds, SMT DEF MarkInv, AtWork
<1>2. CASE \E e \in Attempts : WorkerStep(e)
  <2>1. PICK e \in Attempts : WorkerStep(e)
    BY <1>2
  <2>2. kind = "command" /\ fleet = "one_host" /\ n \in Attempts
    BY <2>1, ChildKeepsAttempts, Zenon
  <2>3. CASE n # e
    <3>1. worker'[n] = worker[n]
      BY <2>1, <2>2, <2>3, ChildPlaces, Zenon DEF Is
    <3>2. AtWork(n) /\ commit \in {"committed", "retrying"}
      BY <2>2, <3>1, Zenon DEF MarkInv, AtWork
    <3>3. commit' = commit \/ MarksFailure(e)
      BY <2>1, <2>2, <2>3, <3>2, OneAtWork, WritersWork, Zenon
    <3> QED
      BY <2>2, <3>2, <3>3, NoLateFailure, Zenon
  <2>4. CASE n = e
    <3>1. ~Gone(e)
      BY <2>4, SMT DEF Gone, Is, AtWork, Leaving
    <3>2. CASE Begin(e)
      <4>1. worker[e].done = 0 /\ worker'[e] = [at |-> FirstPlace, done |-> worker[e].done]
        BY <3>1, <3>2, BeginIs, Zenon DEF Begin, At, Counted, Counts, Is
      <4> QED
        BY <2>4, <4>1, SMT
    <3>3. CASE CommitBegins(e)
      <4>1. worker[e].done = 0 /\ worker'[e] = [at |-> "inside", done |-> worker[e].done]
        BY <3>3, MovesOnward, Zenon DEF CommitBegins, Is
      <4> QED
        BY <2>4, <4>1, SMT
    <3>4. CASE CommitReaches(e)
      <4>1. worker'[e] = [at |-> "between", done |-> 1]
        BY <3>4, CommitReachesIs, Zenon DEF Is
      <4> QED
        BY <2>4, <4>1, SMT
    <3>5. CASE CommitMarked(e)
      BY <3>5, Zenon DEF CommitMarked
    <3>6. ~OpenItem(e) /\ ~CloseItem(e)
      BY <2>2, Zenon DEF OpenItem, CloseItem
    <3>7. ~(TurnAway(e) \/ Refresh(e) \/ Conclude(e) \/ Fail(e) \/ Reports(e) \/ MarksFailure(e))
      BY <3>1, MovesAway, IsLeaving, Zenon DEF TurnAway, Refresh, Conclude, Fail, Reports, MarksFailure, Stops
    <3> QED
      BY <2>1, <3>2, <3>3, <3>4, <3>5, <3>6, <3>7, Zenon DEF WorkerStep
  <2> QED
    BY <2>3, <2>4
<1>3. CASE \E e \in Attempts : Gone(e) /\ UNCHANGED <<kind, fleet, exec, commit>>
  <2>1. PICK e \in Attempts : Gone(e) /\ UNCHANGED <<kind, fleet, exec, commit>>
    BY <1>3
  <2>2. n # e
    BY <2>1, SMT DEF Gone, Is, AtWork, Leaving
  <2> QED
    BY <2>1, <2>2, Zenon DEF Gone, Is, MarkInv, AtWork, Attempts
<1>4. CASE worker' = worker /\ Attempts' = Attempts /\ UNCHANGED <<kind, fleet, commit>>
  BY <1>4, Zenon DEF MarkInv, AtWork
<1> QED
  BY <1>1, <1>2, <1>3, <1>4, ChildrenStep, Zenon

LEMMA ItemKept ==
    ASSUME Shapes, OnlyTheLast, WorkIsHeld, Counted, ItemInv, [Next]_vars
    PROVE  ItemInv'
<1> SUFFICES ASSUME kind' = "run", fleet' = "one_host", NEW n \in Attempts', AtWork(n)',
                    NEW i \in DOMAIN Items, i <= worker'[n].done
             PROVE  items'[i] = "succeeded"
  BY Zenon DEF ItemInv
<1> i \in Nat /\ i > 0
  BY DEF Items
<1>1. CASE Claimed /\ UNCHANGED <<kind, fleet, items>>
  BY <1>1, ClaimedAdds, SMT DEF ItemInv, AtWork
<1>2. CASE \E e \in Attempts : WorkerStep(e)
  <2>1. PICK e \in Attempts : WorkerStep(e)
    BY <1>2
  <2>2. kind = "run" /\ fleet = "one_host" /\ n \in Attempts
    BY <2>1, ChildKeepsAttempts, Zenon
  <2>3. CASE n # e
    <3>1. worker'[n] = worker[n]
      BY <2>1, <2>2, <2>3, ChildPlaces, Zenon DEF Is
    <3>2. AtWork(n) /\ items[i] = "succeeded"
      BY <2>2, <3>1, Zenon DEF ItemInv, AtWork
    <3> QED
      BY <2>1, <2>2, <2>3, <3>2, OneAtWork, WritersWork, Zenon
  <2>4. CASE n = e
    <3>1. ~Gone(e)
      BY <2>4, SMT DEF Gone, Is, AtWork, Leaving
    <3>2. CASE Begin(e)
      <4>1. worker[e].done = 0 /\ worker'[e] = [at |-> FirstPlace, done |-> worker[e].done]
        BY <3>1, <3>2, BeginIs, Zenon DEF Begin, At, Counted, Counts, Is
      <4> QED
        BY <2>4, <4>1, SMT
    <3>3. CASE OpenItem(e)
      <4>1. worker'[e] = [at |-> "inside", done |-> worker[e].done] /\ items' = Opened(e) /\ AtWork(e)
        BY <3>1, <3>3, MovesOnward, MovesAway, IsLeaving, Zenon DEF OpenItem, Stops, Is, AtWork, At
      <4>2. i <= worker[e].done /\ worker[e].done \in Nat
        BY <2>4, <4>1, Numbered, SMT DEF Children
      <4>3. items[i] = "succeeded"
        BY <2>2, <4>1, <4>2, Zenon DEF ItemInv
      <4>4. i # worker[e].done + 1
        BY <4>2
      <4> QED
        BY <4>1, <4>3, <4>4 DEF Opened, Shapes
    <3>4. CASE CloseItem(e)
      <4>1. /\ worker'[e] = [at |-> "between", done |-> worker[e].done + 1]
            /\ items' = Closed(e, "succeeded") /\ AtWork(e)
        BY <3>4, CloseItemIs, Zenon DEF CloseItem, Is, AtWork, At
      <4>2. i <= worker[e].done + 1 /\ worker[e].done \in Nat
        BY <2>4, <4>1, Numbered, SMT DEF Children
      <4>3. CASE i = worker[e].done + 1
        BY <4>1, <4>3 DEF Closed, Shapes
      <4>4. CASE i # worker[e].done + 1
        <5>1. i <= worker[e].done
          BY <4>2, <4>4
        <5>2. items[i] = "succeeded"
          BY <2>2, <4>1, <5>1, Zenon DEF ItemInv
        <5> QED
          BY <4>1, <4>4, <5>2 DEF Closed, Shapes
      <4> QED
        BY <4>3, <4>4
    <3>5. ~CommitBegins(e) /\ ~CommitReaches(e) /\ ~CommitMarked(e)
      BY <2>2, SMT DEF CommitBegins, CommitReaches, CommitMarked
    <3>6. ~(TurnAway(e) \/ Refresh(e) \/ Conclude(e) \/ Fail(e) \/ Reports(e) \/ MarksFailure(e))
      BY <3>1, MovesAway, IsLeaving, Zenon DEF TurnAway, Refresh, Conclude, Fail, Reports, MarksFailure, Stops
    <3> QED
      BY <2>1, <3>2, <3>3, <3>4, <3>5, <3>6, Zenon DEF WorkerStep
  <2> QED
    BY <2>3, <2>4
<1>3. CASE \E e \in Attempts : Gone(e) /\ UNCHANGED <<kind, fleet, exec, items>>
  <2>1. PICK e \in Attempts : Gone(e) /\ UNCHANGED <<kind, fleet, exec, items>>
    BY <1>3
  <2>2. n # e
    BY <2>1, SMT DEF Gone, Is, AtWork, Leaving
  <2> QED
    BY <2>1, <2>2, Zenon DEF Gone, Is, ItemInv, AtWork, Attempts
<1>4. CASE worker' = worker /\ Attempts' = Attempts /\ UNCHANGED <<kind, fleet, items>>
  BY <1>4, Zenon DEF ItemInv, AtWork
<1> QED
  BY <1>1, <1>2, <1>3, <1>4, ChildrenStep, Zenon

-----------------------------------------------------------------------------
(* A success is earned.                                                    *)

Successes == {"succeeded", "processed"}
Succeeds(e) == (Conclude(e) \/ Refresh(e)) /\ Concludes(e, "succeeded") /\ source'.status = Outcome("succeeded")

LEMMA ChildSucceeds ==
    ASSUME Shapes, NEW e \in Attempts, WorkerStep(e), source'.status \in Successes
    PROVE  source' = source \/ Succeeds(e)
<1>1. CASE Refused \/ Begin(e)
  BY <1>1, Zenon DEF Refused, Begin
<1>2. ASSUME NEW s \in DomainStatuses, Concludes(e, s) PROVE s = "succeeded"
  BY <1>2, ConcludesShapes, OutcomeIs, Zenon DEF Successes
<1>3. Concludes(e, "succeeded") => source'.status = Outcome("succeeded")
  BY ConcludesShapes, Zenon DEF DomainStatuses, Ended
<1>4. ASSUME Concludes(e, "succeeded") PROVE Conclude(e) \/ Refresh(e)
  <2>1. exec' # exec /\ exec'[e] = "succeeded"
    BY <1>4, SMT DEF Concludes, Holds, Shapes, Attempts
  <2>2. ~OpenItem(e) /\ ~CloseItem(e) /\ ~CommitBegins(e) /\ ~CommitReaches(e) /\ ~CommitMarked(e) /\ ~Reports(e) /\ ~MarksFailure(e)
    BY <2>1, Zenon DEF OpenItem, CloseItem, CommitBegins, CommitReaches, CommitMarked, Reports, MarksFailure, Stops
  <2>3. ~Begin(e)
    BY <1>4, <2>1, Zenon DEF Begin, Concludes, Holds
  <2>4. ~TurnAway(e)
    <3>1. SUFFICES ASSUME TurnAway(e) PROVE FALSE
      OBVIOUS
    <3>2. Concludes(e, "blocked")
      BY <2>1, <3>1, FinishConcludes, Zenon DEF TurnAway, Stops, Refused
    <3> QED
      BY <2>1, <3>2, SMT DEF Concludes, Shapes, Attempts
  <2>5. ~Fail(e)
    <3>1. SUFFICES ASSUME Fail(e) PROVE FALSE
      OBVIOUS
    <3>2. PICK s \in {"retrying", "failed_permanent"} : Concludes(e, s)
      BY <2>1, <3>1, FailConcludes, Zenon DEF Fail, Stops, Refused
    <3> QED
      BY <2>1, <3>2, SMT DEF Concludes, Shapes, Attempts
  <2> QED
    BY <2>2, <2>3, <2>4, <2>5, Zenon DEF WorkerStep
<1> QED
  BY <1>1, <1>2, <1>3, <1>4, ChildConcludes, Zenon DEF Succeeds

LEMMA SuccessStep ==
    ASSUME Shapes, [Next]_vars, source'.status \in Successes
    PROVE  \/ source' = source /\ ~Claimed
           \/ \E e \in Attempts : Succeeds(e)
<1>1. CASE Claimed
  BY <1>1, SMT DEF Claimed, Shapes, Successes
<1>2. CASE Claim
  BY <1>1, <1>2, ClaimClaims, Zenon
<1>3. CASE \E e \in Attempts : WorkerStep(e)
  BY <1>1, <1>3, ChildSucceeds, Zenon
<1>4. CASE (\E e \in Attempts : Dies(e)) \/ Elsewhere
  BY <1>1, <1>4, ElsewhereRests, Zenon DEF Dies
<1>5. CASE \E e \in Attempts : RecoverStale(e) \/ RecoverRetrying(e)
  <2>1. PICK e \in Attempts : Recovers(e)
    BY <1>5, StaleRecovers, RetryingRecovers
  <2>2. Outcome("retrying") \notin Successes
    BY OutcomeIs, Zenon DEF Successes, DomainStatuses
  <2> QED
    BY <1>1, <2>1, <2>2, SMT DEF Recovers, Gives, Successes
<1>6. CASE RecoverSource
  BY <1>6, SMT DEF RecoverSource, Redispatch, Shapes, Successes
<1>7. CASE FinalizeCancel
  BY <1>7, SMT DEF FinalizeCancel, Shapes, Successes
<1>8. CASE ReleaseBlocked
  BY <1>8, SMT DEF ReleaseBlocked, Shapes, Successes
<1>9. CASE AdminWrites
  <2>1. CASE source' = [source EXCEPT !.status = "pending", !.error_type = "none", !.error = "none"]
    BY <2>1, SMT DEF Shapes, Successes
  <2>2. CASE source' = [source EXCEPT !.status = "blocked", !.error_type = "index", !.error = "index"]
    BY <2>2, SMT DEF Shapes, Successes
  <2>3. CASE source' = [source EXCEPT !.status = "cancel_requested", !.error_type = "none", !.error = "none"]
    BY <2>3, SMT DEF Shapes, Successes
  <2> QED
    BY <1>9, <2>1, <2>2, <2>3, Zenon DEF AdminWrites
<1> QED
  BY <1>2, <1>3, <1>4, <1>5, <1>6, <1>7, <1>8, <1>9, Steps, Zenon

\* On one host nobody is at work once the source is done: only a child that failed
\* before may still mark the suggestion.
LEMMA DoneRests ==
    ASSUME Shapes, OnlyTheLast, WorkIsHeld, FailureStands, fleet = "one_host",
           source.status \in Terminal \intersect Successes, ~Claimed, [Next]_vars
    PROVE  items' = items /\ (kind = "command" => commit' \in {commit, "retrying"})
<1>1. \A e \in Attempts : ~AtWork(e)
  BY Zenon DEF OnlyTheLast, DoneIsQuiet, WorkIsHeld, InFlight
<1>2. items' = items /\ (commit' = commit \/ \E e \in Attempts : MarksFailure(e))
  BY <1>1, WritersWork, ChildrenStep, Zenon
<1>3. ASSUME kind = "command", NEW e \in Attempts, MarksFailure(e) PROVE commit' = "retrying"
  BY <1>3, SMT DEF FailureStands, MarksFailure, Successes
<1> QED
  BY <1>2, <1>3, Zenon

LEMMA FitsKept ==
    ASSUME Shapes, ProcessedFits, [Next]_vars
    PROVE  ProcessedFits' /\ kind' = kind /\ fleet' = fleet
<1>1. kind' = kind /\ fleet' = fleet
  BY ChildrenStep, ChildKeepsAttempts, Zenon
<1>2. Outcome("succeeded") = "processed" => kind = "webhook"
  BY SMT DEF Outcome
<1> QED
  BY <1>1, <1>2, SuccessStep, Zenon DEF ProcessedFits, Successes, Succeeds

LEMMA LastStays ==
    ASSUME Shapes, exec # <<>>, Last(exec) = "succeeded", ~Claimed, [Next]_vars
    PROVE  exec' # <<>> /\ Last(exec') = "succeeded"
<1>1. Len(exec) \in Attempts /\ exec[Len(exec)] = "succeeded"
  BY SMT DEF Last, Shapes, Attempts
<1>2. exec'[Len(exec)] = "succeeded"
  BY <1>1, EndedStays, Zenon DEF Ended
<1>3. Len(exec') = Len(exec) /\ exec' \in Seq(Statuses)
  BY AttemptsMoveOn, Zenon DEF MovesOn
<1> QED
  BY <1>1, <1>2, <1>3 DEF Last, Attempts, Shapes

LEMMA ConcludedLast ==
    ASSUME Shapes, NEW e \in Attempts, Concludes(e, "succeeded")
    PROVE  exec' # <<>> /\ Last(exec') = "succeeded"
<1>1. e = Len(exec) /\ exec' = [exec EXCEPT ![e] = "succeeded"]
  BY Zenon DEF Concludes, Holds, Owns
<1>2. Len(exec') = Len(exec) /\ exec'[e] = "succeeded"
  BY <1>1 DEF Shapes, Attempts
<1> QED
  BY <1>1, <1>2, Numbered DEF Last

LEMMA EarnedKept ==
    ASSUME IInv, [Next]_vars
    PROVE  SuccessIsEarned'
<1> USE DEF IInv
<1> SUFFICES ASSUME source'.status \in Successes
             PROVE  /\ exec' # <<>> /\ Last(exec') = "succeeded"
                    /\ kind' = "command" => reached' /\ (fleet' = "one_host" => commit' \in {"committed", "retrying"})
  BY Zenon DEF SuccessIsEarned, Successes
<1>0. kind' = kind /\ fleet' = fleet
  BY FitsKept
<1>1. CASE source' = source /\ ~Claimed
  <2>1. /\ exec # <<>> /\ Last(exec) = "succeeded"
        /\ kind = "command" => reached /\ (fleet = "one_host" => commit \in {"committed", "retrying"})
    BY <1>1, Zenon DEF SuccessIsEarned, Successes
  <2>2. kind = "command" => source.status \in Terminal \intersect Successes
    BY <1>1, SMT DEF ProcessedFits, Successes, Terminal
  <2>3. reached => reached'
    BY PaperStep, Zenon DEF Brought
  <2> QED
    BY <1>0, <1>1, <2>1, <2>2, <2>3, LastStays, DoneRests, Zenon DEF Progress
<1>2. ASSUME NEW e \in Attempts, Succeeds(e)
      PROVE  /\ exec' # <<>> /\ Last(exec') = "succeeded"
             /\ kind' = "command" => reached' /\ (fleet' = "one_host" => commit' \in {"committed", "retrying"})
  <2>1. exec' # <<>> /\ Last(exec') = "succeeded"
    BY <1>2, ConcludedLast, Zenon DEF Succeeds
  <2>2. ASSUME kind = "command" PROVE Conclude(e) /\ worker[e].done = 2 /\ AtWork(e) /\ commit' = commit
    BY <1>2, <2>2, SMT DEF Succeeds, Refresh, Conclude, WorkDone, AtWork, At
  <2>3. kind = "command" => reached
    BY <2>2, SMT DEF Progress, ReachInv
  <2>4. kind = "command" /\ fleet = "one_host" => commit \in {"committed", "retrying"}
    BY <2>2, Zenon DEF Progress, MarkInv
  <2>5. reached => reached'
    BY PaperStep, Zenon DEF Brought
  <2> QED
    BY <1>0, <2>1, <2>2, <2>3, <2>4, <2>5, Zenon
<1> QED
  BY <1>1, <1>2, SuccessStep

LEMMA CompleteKept ==
    ASSUME IInv, [Next]_vars
    PROVE  SucceededRunIsComplete'
<1> USE DEF IInv
<1> SUFFICES ASSUME kind' = "run", fleet' = "one_host", source'.status = "succeeded", NEW i \in DOMAIN Items
             PROVE  items'[i] = "succeeded"
  BY Zenon DEF SucceededRunIsComplete
<1>0. kind = "run" /\ fleet = "one_host"
  BY FitsKept, Zenon
<1>1. CASE source' = source /\ ~Claimed
  <2>1. source.status \in Terminal \intersect Successes
    BY <1>0, <1>1, SMT DEF Terminal, Successes
  <2>2. items[i] = "succeeded"
    BY <1>0, <1>1, Zenon DEF SucceededRunIsComplete
  <2> QED
    BY <1>0, <1>1, <2>1, <2>2, DoneRests, Zenon DEF Progress
<1>2. ASSUME NEW e \in Attempts, Succeeds(e) PROVE items'[i] = "succeeded"
  <2>1. Conclude(e) /\ worker[e].done = Len(Items) /\ AtWork(e)
    BY <1>0, <1>2, SMT DEF Succeeds, Refresh, Conclude, WorkDone, AtWork, At
  <2>2. items' = items
    <3>1. exec' # exec
      BY <1>2, SMT DEF Succeeds, Concludes, Holds, Shapes, Attempts
    <3> QED
      BY <2>1, <3>1, Zenon DEF Conclude, Stops
  <2>3. i <= worker[e].done
    BY <2>1 DEF Items
  <2> QED
    BY <1>0, <2>1, <2>2, <2>3, Zenon DEF Progress, ItemInv
<1> QED
  BY <1>1, <1>2, SuccessStep, Zenon DEF Successes

-----------------------------------------------------------------------------
(* The invariant, and what follows from it.                                *)

LEMMA InitIInv == Init => IInv
<1> SUFFICES ASSUME Init PROVE IInv
  OBVIOUS
<1> USE DEF Init
<1>1. PICK s \in Sources : kind = s[1] /\ fleet = s[2]
  OBVIOUS
<1>2. kind \in Kinds
  BY <1>1, SourcesAssumption DEF Kinds
<1>3. Attempts = {} /\ Len(exec) = 0
  BY DEF Attempts
<1>4. Shapes
  BY <1>2 DEF Shapes, SourceStatuses, ItemStatuses
<1> QED
  BY <1>3, <1>4, SMT DEF IInv, OnlyTheLast, LastInFlight, DoneIsQuiet, Reported, WorkIsHeld, Progress, Counted,
     ReachInv, FailureStands, MarkInv, ItemInv, ProcessedFits, SuccessIsEarned, SucceededRunIsComplete, Terminal

LEMMA NextIInv == IInv /\ [Next]_vars => IInv'
<1> SUFFICES ASSUME IInv, [Next]_vars PROVE IInv'
  OBVIOUS
<1> USE DEF IInv
<1>1. Shapes'
  BY ShapesKept
<1>2. OnlyTheLast'
  BY LastKept, QuietKept, Zenon DEF OnlyTheLast
<1>3. Reported' /\ WorkIsHeld'
  BY ReportedKept, HeldKept
<1>4. Progress'
  BY CountedKept, ReachKept, FailureKept, MarkKept, ItemKept, Zenon DEF Progress
<1>5. ProcessedFits' /\ SuccessIsEarned' /\ SucceededRunIsComplete'
  BY FitsKept, EarnedKept, CompleteKept
<1> QED
  BY <1>1, <1>2, <1>3, <1>4, <1>5

THEOREM Invariance == Spec => []IInv
BY InitIInv, NextIInv, PTL DEF Spec

\* However often jobs are repeated, lost or overtaken, at most one execution of a
\* source may still write (ActorInvocationClaimer::suppresses).
THEOREM OneAttemptAtATime == Spec => []OneActiveAttempt
<1>1. IInv => OneActiveAttempt
  <2> SUFFICES ASSUME IInv PROVE OneActiveAttempt
    OBVIOUS
  <2> DEFINE Open == {e \in Attempts : exec[e] \in InFlight}
  <2>1. Open \subseteq {Len(exec)}
    BY DEF IInv, OnlyTheLast, LastInFlight
  <2>2. IsFiniteSet({Len(exec)}) /\ Cardinality({Len(exec)}) = 1
    BY FS_Singleton
  <2>3. IsFiniteSet(Open) /\ Cardinality(Open) <= 1
    BY <2>1, <2>2, FS_Subset, Zenon
  <2> QED
    BY <2>3 DEF OneActiveAttempt
<1> QED
  BY <1>1, Invariance, PTL

\* A source succeeds through its newest execution; a review commit only once the
\* reviewed values were in Paperless, and on one host the suggestion says so unless
\* the child of an attempt that failed has marked it as retrying since.
THEOREM EarnsItsSuccess == Spec => []SuccessIsEarned
<1>1. IInv => SuccessIsEarned
  BY DEF IInv
<1> QED
  BY <1>1, Invariance, PTL

\* On one host a run that succeeded has no item that an older child left open.
THEOREM LeavesNoItemOpen == Spec => []SucceededRunIsComplete
<1>1. IInv => SucceededRunIsComplete
  BY DEF IInv
<1> QED
  BY <1>1, Invariance, PTL

\* Success is reported only of an execution that durably succeeded.
THEOREM ReportsWhatIsDurable == Spec => []ReportIsDurable
<1>1. IInv => ReportIsDurable
  BY DEF IInv, Reported, ReportIsDurable
<1> QED
  BY <1>1, Invariance, PTL

\* The outcome of an attempt is decided once, by the child or by recovery.
THEOREM DecidedOnce == Spec => OutcomeStands
<1>1. IInv /\ [Next]_vars => [\A e \in Attempts : exec[e] \in Ended => exec'[e] = exec[e]]_vars
  BY EndedStays, Zenon DEF IInv
<1> QED
  BY <1>1, Invariance, PTL DEF Spec, OutcomeStands

\* A running source moves on only with the execution whose token it carries,
\* unless an administrator overrides it.
THEOREM SourceAndAttemptSettle == Spec => SettlesTogether
<1> DEFINE Leaves == source.status = "running" /\ source'.status # "running" /\ asked' = asked /\ source.token # 0
           A == Leaves => exec'[source.token] \notin InFlight
<1>1. ASSUME IInv, [Next]_vars, Leaves PROVE exec'[source.token] \notin InFlight
  <2> USE DEF IInv
  <2>1. source.token \in Attempts /\ source.status \notin {"cancel_requested", "blocked"}
    BY <1>1, Numbered, SMT DEF OnlyTheLast, LastInFlight
  <2>2. CASE Claim
    <3>1. ASSUME Claimed PROVE source'.status = "running"
      BY <3>1, SMT DEF Claimed, Shapes
    <3> QED
      BY <1>1, <2>2, <3>1, ClaimClaims, Zenon
  <2>3. ASSUME NEW e \in Attempts, WorkerStep(e) PROVE exec'[source.token] \notin InFlight
    <3>1. PICK s \in DomainStatuses : Concludes(e, s)
      BY <1>1, <2>3, ChildConcludes, Zenon DEF Begin, Refused
    <3>2. source.token = e /\ exec'[e] = s
      BY <3>1, SMT DEF Concludes, Holds, Owns, Shapes, Attempts
    <3> QED
      BY <3>2, Zenon DEF DomainStatuses, Ended, InFlight
  <2>4. ASSUME NEW e \in Attempts, RecoverStale(e) \/ RecoverRetrying(e) PROVE exec'[source.token] \notin InFlight
    <3>1. Recovers(e) /\ source' # source
      BY <1>1, <2>4, StaleRecovers, RetryingRecovers, Zenon
    <3>2. source.token = e
      BY <1>1, <3>1, Zenon DEF Recovers, Owns
    <3> QED
      BY <3>1, <3>2, SMT DEF Recovers, Shapes, Attempts
  <2>5. CASE RecoverSource
    BY <2>1, <2>5, Zenon DEF RecoverSource, Active, InFlight
  <2>6. CASE FinalizeCancel \/ ReleaseBlocked
    BY <2>1, <2>6, Zenon DEF FinalizeCancel, ReleaseBlocked
  <2>7. CASE AdminWrites
    BY <1>1, <2>7, Zenon DEF AdminWrites
  <2>8. CASE (\E e \in Attempts : Dies(e)) \/ Elsewhere
    BY <1>1, <2>8, ElsewhereRests, Zenon DEF Dies
  <2> QED
    BY <1>1, <2>2, <2>3, <2>4, <2>5, <2>6, <2>7, <2>8, Steps, Zenon
<1>2. IInv /\ [Next]_vars => [A]_vars
  BY <1>1
<1> QED
  BY <1>2, Invariance, PTL DEF Spec, SettlesTogether

-----------------------------------------------------------------------------
(* How many attempts there can be.                                         *)

\* What may yet lead to an attempt: an execution that waits for its retry, a source
\* that can be claimed or released, a request of an administrator, a delivery that a
\* closed index can still block.
One(b) == IF b THEN 1 ELSE 0
Waiting == {e \in Attempts : exec[e] = "retrying"}
Due == \/ source.status \in {"pending", "queued", "retrying", "failed"}
       \/ source.status = "blocked" /\ (kind = "run" => source.error_type = "index")
Gated == kind = "webhook" /\ gate = "closed" /\ source.status # "blocked"
Pending == One(Due) + One(asked = "retry") + One(Gated)

\* Attempts beyond MaxAttempts, taken or still to come, have their cause.
AttemptsAreOwed ==
    Len(exec) >= MaxAttempts =>
        Len(exec) + Pending + Cardinality(Waiting) <= 2 * MaxAttempts + bound.admin + bound.closing
\* Only an early attempt is retried.
WaitingIsEarly == \A e \in Waiting : e < MaxAttempts
\* A source that runs has an execution that does.
RunningIsInFlight == source.status = "running" => exec # <<>> /\ source.token = Len(exec) /\ exec[Len(exec)] \in InFlight
\* Only a run is turned away, and error_type names the index in a blocked one only.
BlocksFit == /\ \A e \in Attempts : worker[e].at = "turned_away" => kind = "run"
             /\ kind = "run" /\ source.error_type = "index" => source.status = "blocked"
\* What is left of the types, for as many attempts as there are.
Rest ==
    /\ <<kind, fleet>> \in Sources
    /\ wait \in Nat /\ jobs \in 0..MaxJobs /\ gate \in {"open", "closed"} /\ commit \in CommitStatuses
    /\ paper \in [changed : BOOLEAN, holds : BOOLEAN] /\ reached \in BOOLEAN
    /\ asked \in {"nothing", "retry", "cancel"} /\ (asked = "retry" => bound.admin > 0)
    /\ bound \in [crash : 0..MaxCrashes, admin : 0..MaxAdmin, closing : 0..MaxClosings, edit : 0..MaxEdits]
    /\ report \in [of : 0..Len(exec), says : DomainStatuses \union {"none", "protocol-failure"}]
    /\ \A e \in Attempts : worker[e].done <= Len(Items)
\* No delivery succeeds: it is processed.
SucceededFits == source.status = "succeeded" => kind # "webhook"
Bounded == Rest /\ WaitingIsEarly /\ RunningIsInFlight /\ BlocksFit /\ SucceededFits /\ AttemptsAreOwed

LEMMA WaitingIs ==
    ASSUME Shapes
    PROVE  /\ IsFiniteSet(Waiting) /\ Cardinality(Waiting) \in Nat
           /\ \A S \in SUBSET Waiting : IsFiniteSet(S) /\ Cardinality(S) \in Nat /\ Cardinality(S) <= Cardinality(Waiting)
           /\ \A e \in Waiting : Cardinality(Waiting \ {e}) = Cardinality(Waiting) - 1
<1>1. Waiting \subseteq 1..Len(exec) /\ Len(exec) \in Nat
  BY Numbered DEF Waiting
<1>2. IsFiniteSet(1..Len(exec))
  BY <1>1, FS_Interval
<1>3. IsFiniteSet(Waiting)
  BY <1>1, <1>2, FS_Subset
<1>4. Cardinality(Waiting) \in Nat
  BY <1>3, FS_CardinalityType
<1>5. \A S \in SUBSET Waiting : IsFiniteSet(S) /\ Cardinality(S) <= Cardinality(Waiting)
  BY <1>3, FS_Subset
<1>6. \A S \in SUBSET Waiting : Cardinality(S) \in Nat
  BY <1>5, FS_CardinalityType
<1>7. \A e \in Waiting : Cardinality(Waiting \ {e}) = Cardinality(Waiting) - 1
  BY <1>3, FS_RemoveElement
<1> QED
  BY <1>3, <1>4, <1>5, <1>6, <1>7

LEMMA EarlyAreFew ==
    ASSUME Shapes, WaitingIsEarly
    PROVE  Cardinality(Waiting) <= MaxAttempts - 1
<1>1. MaxAttempts \in Nat /\ MaxAttempts > 0 /\ MaxAttempts - 1 \in Nat
  BY MaxAttemptsAssumption
<1>2. Waiting \subseteq 1..(MaxAttempts - 1)
  BY <1>1, Numbered DEF Waiting, WaitingIsEarly
<1>3. IsFiniteSet(1..(MaxAttempts - 1)) /\ Cardinality(1..(MaxAttempts - 1)) = MaxAttempts - 1
  <2>1. Cardinality(1..(MaxAttempts - 1)) = IF 1 > MaxAttempts - 1 THEN 0 ELSE (MaxAttempts - 1) - 1 + 1
    BY <1>1, FS_Interval
  <2> QED
    BY <1>1, <2>1, FS_Interval
<1> QED
  BY <1>2, <1>3, FS_Subset

\* A step that issues no attempt, and uses up a cause for every one it makes possible.
Spends ==
    /\ Len(exec') = Len(exec)
    /\ Pending' + Cardinality(Waiting') + bound.admin + bound.closing
         <= Pending + Cardinality(Waiting) + bound'.admin + bound'.closing

LEMMA PendingIs ==
    /\ Pending \in 0..3 /\ Pending' \in 0..3
    /\ Pending = 0 \/ Due \/ asked = "retry" \/ Gated
BY SMT DEF Pending, One

LEMMA SpendsKeeps ==
    ASSUME Shapes, Shapes', Rest, Rest', AttemptsAreOwed, Len(exec) >= MaxAttempts => Spends, Len(exec') = Len(exec)
    PROVE  AttemptsAreOwed'
<1>1. Cardinality(Waiting) \in Int
  BY WaitingIs
<1>2. Cardinality(Waiting') \in Int
  <2>1. Waiting' \subseteq 1..Len(exec') /\ Len(exec') \in Nat
    BY DEF Waiting, Attempts, Shapes
  <2>2. IsFiniteSet(1..Len(exec'))
    BY <2>1, FS_Interval
  <2>3. IsFiniteSet(Waiting')
    BY <2>1, <2>2, FS_Subset
  <2> QED
    BY <2>3, FS_CardinalityType
<1>3. bound.admin \in Int /\ bound.closing \in Int /\ bound'.admin \in Int /\ bound'.closing \in Int /\ MaxAttempts \in Int
  BY BoundsAssumption, MaxAttemptsAssumption DEF Rest
<1>4. Len(exec) \in Int
  BY Numbered
<1>5. Pending \in Int /\ Pending' \in Int
  BY PendingIs
<1>6. SUFFICES ASSUME Len(exec) >= MaxAttempts
               PROVE  Len(exec) + Pending' + Cardinality(Waiting') <= 2 * MaxAttempts + bound'.admin + bound'.closing
  BY Zenon DEF AttemptsAreOwed
<1>7. /\ Len(exec) + Pending + Cardinality(Waiting) <= 2 * MaxAttempts + bound.admin + bound.closing
      /\ Pending' + Cardinality(Waiting') + bound.admin + bound.closing
           <= Pending + Cardinality(Waiting) + bound'.admin + bound'.closing
  BY <1>6, Zenon DEF AttemptsAreOwed, Spends
<1> DEFINE n == Len(exec)
           w == Cardinality(Waiting)
           ww == Cardinality(Waiting')
           a == bound.admin
           aa == bound'.admin
           c == bound.closing
           cc == bound'.closing
           p == Pending
           pp == Pending'
<1>8. n + p + w <= 2 * MaxAttempts + a + c /\ pp + ww + a + c <= p + w + aa + cc
  BY <1>7
<1>9. n \in Int /\ w \in Int /\ ww \in Int /\ a \in Int /\ aa \in Int /\ c \in Int /\ cc \in Int /\ p \in Int /\ pp \in Int
  BY <1>1, <1>2, <1>3, <1>4, <1>5
<1> HIDE DEF n, w, ww, a, aa, c, cc, p, pp
<1>10. n + pp + ww <= 2 * MaxAttempts + aa + cc
  BY <1>3, <1>8, <1>9
<1> QED
  BY <1>10 DEF n, w, ww, a, aa, c, cc, p, pp

\* No more executions wait than before.
LEMMA Spent ==
    ASSUME Shapes, Shapes', Rest, Rest', Len(exec') = Len(exec), Waiting' \subseteq Waiting,
           Pending' + bound.admin + bound.closing <= Pending + bound'.admin + bound'.closing
    PROVE  Spends
<1>1. Cardinality(Waiting) \in Int /\ Cardinality(Waiting') \in Int /\ Cardinality(Waiting') <= Cardinality(Waiting)
  BY WaitingIs
<1>2. bound.admin \in Int /\ bound.closing \in Int /\ bound'.admin \in Int /\ bound'.closing \in Int
  BY BoundsAssumption DEF Rest
<1>3. Pending \in Int /\ Pending' \in Int
  BY PendingIs
<1>4. \A p, pp, w, ww, a, c, aa, cc \in Int :
        pp + a + c <= p + aa + cc /\ ww <= w => pp + ww + a + c <= p + w + aa + cc
  BY SMT
<1> QED
  BY <1>1, <1>2, <1>3, <1>4, Zenon DEF Spends

\* One of those that waited makes the source due.
LEMMA SpentOnRetry ==
    ASSUME Shapes, Shapes', Rest, Rest', Len(exec') = Len(exec), bound' = bound,
           NEW e \in Waiting, Waiting' = Waiting \ {e}, Pending' <= Pending + 1
    PROVE  Spends
<1>1. Cardinality(Waiting) \in Int /\ Cardinality(Waiting') = Cardinality(Waiting) - 1
  BY WaitingIs
<1>2. bound.admin \in Int /\ bound.closing \in Int
  BY BoundsAssumption DEF Rest
<1>3. Pending \in Int /\ Pending' \in Int
  BY PendingIs
<1>4. \A p, pp, w, a, c \in Int : pp <= p + 1 => pp + (w - 1) + a + c <= p + w + a + c
  BY SMT
<1>5. Pending' + (Cardinality(Waiting) - 1) + bound.admin + bound.closing
        <= Pending + Cardinality(Waiting) + bound.admin + bound.closing
  BY <1>1, <1>2, <1>3, <1>4, Zenon
<1> QED
  BY <1>1, <1>5, Zenon DEF Spends

-----------------------------------------------------------------------------
(* What concluding, recovering and dispatching say of the statuses.        *)

\* What a child that concludes has found out.
ConcludesFit(e, s) ==
    /\ Concludes(e, s)
    /\ s = "retrying" => e < MaxAttempts
    /\ s = "blocked" => kind = "run" \/ (kind = "webhook" /\ gate = "closed")

LEMMA Fits ==
    ASSUME NEW e, NEW s, Concludes(e, s) \/ Refused, s \notin {"retrying", "blocked"}
    PROVE  ConcludesFit(e, s) \/ Refused
BY Zenon DEF ConcludesFit

LEMMA FailFits ==
    ASSUME NEW e, NEW class, FailAttempt(e, class)
    PROVE  ConcludesFit(e, "retrying") \/ ConcludesFit(e, "failed_permanent") \/ Refused
<1>1. CASE ShouldRetry(class, e)
  BY <1>1, Zenon DEF FailAttempt, ShouldRetry, ScheduleRetry, Concludes, ConcludesFit, Refused
<1>2. CASE ~ShouldRetry(class, e)
  <2>1. Finish(e, "failed_permanent", "none")
    BY <1>2, Zenon DEF FailAttempt
  <2> QED
    BY <2>1, FinishConcludes, Fits, Zenon
<1> QED
  BY <1>1, <1>2

LEMMA ChildConcludesFit ==
    ASSUME Shapes, Rest, BlocksFit, NEW e \in Attempts, WorkerStep(e)
    PROVE  \/ Begin(e)
           \/ Refused
           \/ \E s \in DomainStatuses : ConcludesFit(e, s)
<1>1. CASE TurnAway(e)
  <2>1. kind = "run"
    BY <1>1, Zenon DEF TurnAway, At, BlocksFit
  <2>2. Refused \/ Concludes(e, "blocked")
    BY <1>1, FinishConcludes, Zenon DEF TurnAway, Stops, Refused
  <2> QED
    BY <2>1, <2>2, Zenon DEF ConcludesFit, DomainStatuses, Ended
<1>2. CASE OpenItem(e) \/ CloseItem(e) \/ CommitBegins(e) \/ CommitReaches(e) \/ CommitMarked(e) \/ Reports(e) \/ MarksFailure(e)
  BY <1>2, Zenon DEF OpenItem, CloseItem, CommitBegins, CommitReaches, CommitMarked, Reports, MarksFailure, Stops, Refused
<1>3. CASE Refresh(e)
  <2>1. PICK s \in RefreshOutcomes \union DeleteOutcomes :
            Finish(e, s, IF s = "blocked" THEN "index" ELSE "none")
    BY <1>3, Zenon DEF Refresh
  <2>2. s \in DomainStatuses /\ s # "retrying"
    BY <2>1, Zenon DEF RefreshOutcomes, DeleteOutcomes, DomainStatuses, Ended
  <2>3. s = "blocked" => kind = "webhook" /\ gate = "closed"
    BY <1>3, <2>1, Zenon DEF RefreshOutcomes, DeleteOutcomes, Rest, Refresh
  <2>4. Concludes(e, s) \/ Refused
    BY <2>1, FinishConcludes, Zenon
  <2> QED
    BY <2>2, <2>3, <2>4, Zenon DEF ConcludesFit
<1>4. CASE Conclude(e)
  <2>1. Refused \/ Concludes(e, "succeeded")
    BY <1>4, FinishConcludes, Zenon DEF Conclude, Stops, Refused
  <2> QED
    BY <2>1, Fits, Zenon DEF DomainStatuses, Ended
<1>5. CASE Fail(e)
  <2>1. Refused \/ \E class \in {Classify(f) : f \in Failures} : FailAttempt(e, class)
    BY <1>5, Zenon DEF Fail, Stops, Refused
  <2> QED
    BY <2>1, FailFits, Zenon DEF DomainStatuses, Ended
<1> QED
  BY <1>1, <1>2, <1>3, <1>4, <1>5, Zenon DEF WorkerStep

\* What recovering one attempt has found out.  A source that runs is settled with it.
RecoversFit(e) ==
    /\ exec[e] \in Active
    /\ \E s \in Statuses \ InFlight : /\ exec' = [exec EXCEPT ![e] = s] /\ s # "succeeded"
                                      /\ s = "retrying" => e < MaxAttempts /\ exec[e] \in InFlight
    /\ \/ source' = source /\ (source.status = "running" /\ source.token = e => Len(exec) # e)
       \/ /\ Len(exec) = e /\ source.status \notin Terminal \union {"cancel_requested"}
          /\ source' = [source EXCEPT !.status = "failed_permanent", !.error_type = "none", !.error = "none"]
       \/ /\ Owns(e) /\ exec'[e] = "retrying"
          /\ source' = [source EXCEPT !.status = Outcome("retrying"), !.token = 0,
                                      !.error_type = IF kind = "run" THEN "none" ELSE @, !.error = "none"]
       \/ source.status # "running" /\ exec[e] = "retrying" /\ exec'[e] = "failed" /\ Redispatch

LEMMA EndsFit ==
    \A s \in {"skipped", "cancelled", "failed", "failed_permanent"} : 
        s \in Statuses \ InFlight /\ s \notin {"retrying", "succeeded"}
BY DEF Statuses, Ended, InFlight

LEMMA FailsFit ==
    ASSUME Shapes, NEW e \in Attempts, exec[e] \in Active, FailForGood(e)
    PROVE  RecoversFit(e)
<1>1. "failed_permanent" \in Statuses \ InFlight /\ "failed_permanent" \notin {"retrying", "succeeded"}
  BY DEF Statuses, Ended, InFlight
<1>2. exec' = [exec EXCEPT ![e] = "failed_permanent"]
  BY DEF FailForGood
<1>3. CASE Len(exec) = e /\ source.token \in {e, 0} /\ source.status \notin Terminal \union {"cancel_requested"}
  BY <1>1, <1>2, <1>3, Zenon DEF FailForGood, RecoversFit
<1>4. CASE ~(Len(exec) = e /\ source.token \in {e, 0} /\ source.status \notin Terminal \union {"cancel_requested"})
  <2>1. source' = source
    BY <1>4, Zenon DEF FailForGood
  <2>2. source.status = "running" => source.status \notin Terminal \union {"cancel_requested"}
    BY NotTerminal
  <2> QED
    BY <1>1, <1>2, <1>4, <2>1, <2>2, Zenon DEF RecoversFit
<1> QED
  BY <1>3, <1>4

LEMMA StaleFits ==
    ASSUME Shapes, LastInFlight, NEW e \in Attempts, RecoverStale(e)
    PROVE  RecoversFit(e)
<1> USE DEF RecoverStale
<1>1. exec[e] \in InFlight /\ exec[e] \in Active /\ e = Len(exec)
  BY Zenon DEF Active, LastInFlight
<1>2. CASE source.status \in Terminal
  <2>1. exec' = [exec EXCEPT ![e] = "skipped"] /\ source' = source
    BY <1>2, Zenon DEF Suppressed
  <2>2. source.status # "running"
    BY <1>2, NotTerminal
  <2> QED
    BY <1>1, <2>1, <2>2, EndsFit, Zenon DEF RecoversFit
<1>3. CASE source.status \notin Terminal
  <2>1. CASE e >= MaxAttempts
    BY <1>1, <1>3, <2>1, FailsFit, Zenon
  <2>2. CASE ~(e >= MaxAttempts)
    <3>1. exec' = [exec EXCEPT ![e] = "retrying"] /\ e < MaxAttempts
      BY <1>3, <2>2, Numbered, MaxAttemptsAssumption
    <3>2. exec'[e] = "retrying" /\ "retrying" \in Statuses \ InFlight
      BY <3>1 DEF Shapes, Attempts, Statuses, InFlight
    <3>3. CASE ~Owns(e)
      <4>1. source' = source
        BY <1>3, <2>2, <3>3, Zenon
      <4> QED
        BY <1>1, <3>1, <3>2, <3>3, <4>1, Zenon DEF RecoversFit, Owns
    <3>4. CASE Owns(e)
      <4>1. source' = [source EXCEPT !.status = Outcome("retrying"), !.token = 0,
                                     !.error_type = IF kind = "run" THEN "none" ELSE @, !.error = "none"]
        BY <1>3, <2>2, <3>4, Zenon
      <4> QED
        BY <1>1, <3>1, <3>2, <3>4, <4>1, Zenon DEF RecoversFit
    <3> QED
      BY <3>3, <3>4
  <2> QED
    BY <2>1, <2>2
<1> QED
  BY <1>2, <1>3

LEMMA RetryingFits ==
    ASSUME Shapes, RunningIsInFlight, NEW e \in Attempts, RecoverRetrying(e)
    PROVE  RecoversFit(e)
<1>1. exec[e] = "retrying" /\ exec[e] \in Active
  BY Zenon DEF RecoverRetrying, Active
<1>2. source.status = "running" => Len(exec) # e
  BY <1>1, Zenon DEF RunningIsInFlight, InFlight
<1>3. CASE Suppressed(e)
  <2>1. exec' = [exec EXCEPT ![e] = "skipped"] /\ source' = source
    BY <1>3, Zenon DEF Suppressed
  <2> QED
    BY <1>1, <1>2, <2>1, EndsFit, Zenon DEF RecoversFit
<1>4. CASE exec' = [exec EXCEPT ![e] = "cancelled"] /\ UNCHANGED <<source, wait, jobs>>
  BY <1>1, <1>2, <1>4, EndsFit, Zenon DEF RecoversFit
<1>5. CASE FailForGood(e)
  BY <1>1, <1>5, FailsFit
<1>6. CASE ~Overtaken(e) /\ Redispatch /\ exec' = [exec EXCEPT ![e] = "failed"]
  <2>1. source.status # "running"
    BY <1>6, Zenon DEF Overtaken, InFlight
  <2>2. exec'[e] = "failed" /\ "failed" \in Statuses \ InFlight /\ "failed" # "retrying"
    BY <1>6 DEF Shapes, Attempts, Statuses, Ended, InFlight
  <2> QED
    BY <1>1, <1>6, <2>1, <2>2, Zenon DEF RecoversFit
<1> QED
  BY <1>3, <1>4, <1>5, <1>6, SMT DEF RecoverRetrying

\* What is written to one execution.
LEMMA Written ==
    ASSUME Shapes, NEW e \in Attempts, NEW s \in Statuses, exec' = [exec EXCEPT ![e] = s]
    PROVE  /\ Len(exec') = Len(exec) /\ Attempts' = Attempts
           /\ exec'[e] = s
           /\ \A n \in Attempts : n # e => exec'[n] = exec[n]
BY Numbered DEF Shapes, Attempts

LEMMA DomainAreStatuses == \A s \in DomainStatuses : s \in Statuses \ InFlight
BY DEF DomainStatuses, Statuses, Ended, InFlight

\* The outcome of an attempt leaves nothing due, but for a retry and a block.
LEMMA OutcomeDue ==
    ASSUME Shapes, NEW s \in DomainStatuses, s # "retrying"
    PROVE  /\ Outcome(s) \notin {"pending", "queued", "retrying", "failed", "running"}
           /\ s # "blocked" => Outcome(s) # "blocked"
           /\ s = "blocked" => Outcome(s) = "blocked"
BY SMT DEF Shapes, Outcome, DomainStatuses, Ended, Kinds

LEMMA ConcludesSpends ==
    ASSUME IInv, Bounded, Shapes', Rest', NEW e \in Attempts, NEW s \in DomainStatuses, ConcludesFit(e, s),
           UNCHANGED <<kind, gate, asked, bound>>, Len(exec) >= MaxAttempts
    PROVE  Spends
<1> USE DEF IInv, Bounded
<1>1. /\ Concludes(e, s) /\ source.status = "running" /\ e = Len(exec) /\ exec[e] = "running"
      /\ exec' = [exec EXCEPT ![e] = s]
  BY Zenon DEF ConcludesFit, Concludes, Holds, Owns
<1>2. s # "retrying" /\ s \in Statuses
  BY <1>1, MaxAttemptsAssumption, Numbered, DomainAreStatuses DEF ConcludesFit
<1>3. Len(exec') = Len(exec) /\ Waiting' \subseteq Waiting
  <2>1. Len(exec') = Len(exec) /\ Attempts' = Attempts /\ exec'[e] = s /\ \A n \in Attempts : n # e => exec'[n] = exec[n]
    BY <1>1, <1>2, Written
  <2> QED
    BY <1>2, <2>1, Zenon DEF Waiting
<1>4. /\ source'.status = Outcome(s) /\ source'.error_type = source.error_type
  BY <1>1 DEF Concludes, Shapes
<1>5. Pending' <= Pending
  <2>1. kind = "run" => source.error_type # "index"
    BY <1>1, Zenon DEF BlocksFit
  <2>2. /\ Outcome(s) \notin {"pending", "queued", "retrying", "failed", "running"}
        /\ s # "blocked" => Outcome(s) # "blocked"
        /\ s = "blocked" => Outcome(s) = "blocked"
    BY <1>2, OutcomeDue
  <2>3. CASE s # "blocked"
    <3>1. ~Due'
      BY <1>4, <2>2, <2>3 DEF Due
    <3>2. Gated' = Gated
      BY <1>1, <1>4, <2>2, <2>3 DEF Gated
    <3> QED
      BY <3>1, <3>2 DEF Pending, One
  <2>4. CASE s = "blocked" /\ kind = "run"
    <3>1. ~Due'
      BY <1>4, <2>1, <2>2, <2>4 DEF Due
    <3>2. ~Gated'
      BY <2>4 DEF Gated
    <3> QED
      BY <3>1, <3>2 DEF Pending, One
  <2>5. CASE s = "blocked" /\ kind = "webhook" /\ gate = "closed"
    <3>1. Gated /\ ~Gated'
      BY <1>1, <1>4, <2>2, <2>5 DEF Gated
    <3> QED
      BY <3>1 DEF Pending, One
  <2> QED
    BY <2>3, <2>4, <2>5, Zenon DEF ConcludesFit
<1>6. bound.admin \in Int /\ bound.closing \in Int /\ Pending \in Int /\ Pending' \in Int
  BY PendingIs, BoundsAssumption DEF Rest
<1>7. Pending' + bound.admin + bound.closing <= Pending + bound'.admin + bound'.closing
  BY <1>5, <1>6
<1> QED
  BY <1>3, <1>7, Spent

LEMMA RecoversSpends ==
    ASSUME IInv, Bounded, Shapes', Rest', NEW e \in Attempts, RecoversFit(e),
           UNCHANGED <<kind, gate, asked, bound>>, Len(exec) >= MaxAttempts
    PROVE  Spends
<1> USE DEF IInv, Bounded
<1>1. PICK s \in Statuses \ InFlight : exec' = [exec EXCEPT ![e] = s] /\
          (s = "retrying" => e < MaxAttempts /\ exec[e] \in InFlight)
  BY Zenon DEF RecoversFit
<1>2. s # "retrying"
  BY <1>1, MaxAttemptsAssumption, Numbered DEF OnlyTheLast, LastInFlight
<1>3. Len(exec') = Len(exec) /\ Attempts' = Attempts /\ exec'[e] = s /\ \A n \in Attempts : n # e => exec'[n] = exec[n]
  BY <1>1, Written
<1>4. Waiting' = Waiting \ {e}
  BY <1>2, <1>3, Zenon DEF Waiting
<1>5. bound.admin \in Int /\ bound.closing \in Int /\ Pending \in Int /\ Pending' \in Int
  BY PendingIs, BoundsAssumption DEF Rest
<1>6. Pending' <= Pending => Spends
  <2>1. Pending' <= Pending => Pending' + bound.admin + bound.closing <= Pending + bound'.admin + bound'.closing
    BY <1>5
  <2> QED
    BY <1>3, <1>4, <2>1, Spent
<1>7. CASE source' = source
  <2>1. Pending' = Pending
    BY <1>7 DEF Pending, One, Due, Gated
  <2> QED
    BY <1>5, <1>6, <2>1
<1>8. CASE source' = [source EXCEPT !.status = "failed_permanent", !.error_type = "none", !.error = "none"]
  <2>1. source'.status = "failed_permanent"
    BY <1>8 DEF Shapes
  <2>2. ~Due'
    BY <2>1 DEF Due
  <2>3. Gated' => Gated \/ Due
    BY <2>1 DEF Gated, Due
  <2>4. Pending' <= Pending
    BY <2>2, <2>3 DEF Pending, One
  <2> QED
    BY <1>6, <2>4
<1>9. exec'[e] # "retrying"
  BY <1>2, <1>3
<1>10. CASE source.status # "running" /\ exec[e] = "retrying" /\ Redispatch
  <2>1. e \in Waiting
    BY <1>10 DEF Waiting
  <2>2. source'.status = "queued"
    BY <1>10 DEF Redispatch, Shapes
  <2>3. Gated' => Gated \/ Due
    BY <2>2 DEF Gated, Due
  <2>4. Pending' <= Pending + 1
    BY <2>3 DEF Pending, One
  <2> QED
    BY <1>3, <1>4, <2>1, <2>4, SpentOnRetry
<1> QED
  BY <1>7, <1>8, <1>9, <1>10, Zenon DEF RecoversFit

\* A claim takes the source that was due, or is the first beyond MaxAttempts.
LEMMA ClaimOwes ==
    ASSUME IInv, Bounded, Shapes', Rest', Claimed, UNCHANGED <<kind, gate, asked, bound>>
    PROVE  AttemptsAreOwed'
<1> USE DEF IInv, Bounded
<1>1. /\ Len(exec') = Len(exec) + 1 /\ Len(exec) \in Nat
      /\ \A e \in Attempts : exec'[e] = exec[e]
      /\ exec'[Len(exec) + 1] = "queued"
      /\ Attempts' = Attempts \union {Len(exec) + 1}
  BY DEF Claimed, Shapes, Attempts
<1>2. Waiting' = Waiting
  BY <1>1 DEF Waiting, Attempts
<1>3. Cardinality(Waiting) \in Nat /\ Cardinality(Waiting) <= MaxAttempts - 1
  BY WaitingIs, EarlyAreFew
<1>4. MaxAttempts \in Nat \ {0} /\ bound.admin \in Nat /\ bound.closing \in Nat /\ UNCHANGED bound
  BY MaxAttemptsAssumption, BoundsAssumption DEF Rest
<1>5. source'.status = "running" /\ source.status \in {"pending", "queued", "retrying", "failed"}
  BY SMT DEF Claimed, CanClaim, Claimable, Shapes
<1>6. Due /\ ~Due' /\ Gated' = Gated
  BY <1>5 DEF Due, Gated
<1> DEFINE w == Cardinality(Waiting)
           n == Len(exec)
           a == bound.admin
           c == bound.closing
           g == One(asked = "retry") + One(Gated)
<1>7. Pending = 1 + g /\ Pending' = g /\ g \in 0..2
  BY <1>6 DEF Pending, One
<1>8. g <= a + 1
  BY <1>4 DEF Rest, One
<1>9. n >= MaxAttempts => n + Pending + w <= 2 * MaxAttempts + a + c
  BY DEF AttemptsAreOwed
<1>10. n \in Nat /\ w \in Nat /\ w <= MaxAttempts - 1 /\ a \in Nat /\ c \in Nat /\ MaxAttempts \in Nat
  BY <1>1, <1>3, <1>4
<1>11. /\ Len(exec') = n + 1 /\ Cardinality(Waiting') = w
       /\ 2 * MaxAttempts + bound'.admin + bound'.closing = 2 * MaxAttempts + a + c
  BY <1>1, <1>2, <1>4
<1> HIDE DEF w, n, a, c, g
<1>12. SUFFICES ASSUME n + 1 >= MaxAttempts PROVE n + 1 + Pending' + w <= 2 * MaxAttempts + a + c
  BY <1>11, Zenon DEF AttemptsAreOwed
<1>13. CASE n >= MaxAttempts
  BY <1>7, <1>9, <1>10, <1>13
<1>14. CASE n + 1 = MaxAttempts
  BY <1>7, <1>8, <1>10, <1>14
<1> QED
  BY <1>10, <1>12, <1>13, <1>14

\* The steps that leave every execution as it is.
LEMMA StillSpends ==
    ASSUME Shapes, Shapes', Rest, Rest', exec' = exec,
           Pending' + bound.admin + bound.closing <= Pending + bound'.admin + bound'.closing
    PROVE  Spends
<1>1. Waiting' = Waiting
  BY DEF Waiting, Attempts
<1> QED
  BY <1>1, Spent

LEMMA OwedKept ==
    ASSUME IInv, Bounded, Shapes', Rest', [Next]_vars
    PROVE  AttemptsAreOwed'
<1> USE DEF IInv, Bounded
<1>0. /\ bound.admin \in Int /\ bound.closing \in Int /\ Pending \in Int /\ Pending' \in Int
      /\ exec' = exec /\ bound' = bound /\ Pending' <= Pending => AttemptsAreOwed'
      /\ exec' = exec /\ Pending' + bound.admin + bound.closing <= Pending + bound'.admin + bound'.closing => AttemptsAreOwed'
  <2>1. bound.admin \in Int /\ bound.closing \in Int /\ Pending \in Int /\ Pending' \in Int
    BY PendingIs, BoundsAssumption DEF Rest
  <2>2. exec' = exec /\ Pending' + bound.admin + bound.closing <= Pending + bound'.admin + bound'.closing => AttemptsAreOwed'
    BY StillSpends, SpendsKeeps, Zenon
  <2>3. bound' = bound /\ Pending' <= Pending => Pending' + bound.admin + bound.closing <= Pending + bound'.admin + bound'.closing
    BY <2>1
  <2> QED
    BY <2>1, <2>2, <2>3
<1>1. source' = source /\ UNCHANGED <<kind, gate, asked>> => Pending' = Pending
  BY DEF Pending, One, Due, Gated
<1>2. CASE Claim
  <2>1. UNCHANGED <<kind, gate, asked, bound>>
    BY <1>2, Zenon DEF Claim, world
  <2>2. CASE UNCHANGED <<exec, worker, source>>
    <3>1. Pending' <= Pending
      BY <1>0, <1>1, <2>1, <2>2
    <3> QED
      BY <1>0, <2>1, <2>2, <3>1
  <2> QED
    BY <1>2, <2>1, <2>2, ClaimClaims, ClaimOwes, Zenon
<1>3. CASE \E e \in Attempts : WorkerStep(e)
  <2>1. PICK e \in Attempts : WorkerStep(e)
    BY <1>3
  <2>2. UNCHANGED <<kind, gate, asked, bound>>
    BY <2>1, Zenon DEF WorkerStep, Begin, TurnAway, OpenItem, CloseItem, CommitBegins, CommitReaches,
                       CommitMarked, Refresh, Conclude, Fail, Reports, MarksFailure, world
  <2>3. CASE Begin(e)
    <3>1. source' = source /\ MovesOn
      BY <2>3, BeginMoves, Zenon DEF Begin, body
    <3>2. Len(exec') = Len(exec) /\ Attempts' = Attempts
      BY <3>1 DEF MovesOn, Shapes, Attempts
    <3>3. Waiting' \subseteq Waiting
      <4>1. CASE exec' = exec
        BY <3>2, <4>1 DEF Waiting
      <4>2. CASE exec' = [exec EXCEPT ![e] = "running"]
        <5>1. \A n \in Attempts : exec'[n] = "retrying" => exec[n] = "retrying"
          BY <4>2, Written DEF Statuses, InFlight
        <5> QED
          BY <3>2, <5>1 DEF Waiting
      <4> QED
        BY <2>3, <4>1, <4>2, BeginIs, Zenon
    <3>4. Pending' + bound.admin + bound.closing <= Pending + bound'.admin + bound'.closing
      BY <1>0, <1>1, <2>2, <3>1
    <3> QED
      BY <3>2, <3>3, <3>4, Spent, SpendsKeeps
  <2>4. CASE Refused
    <3>1. Pending' <= Pending
      BY <1>0, <1>1, <2>2, <2>4 DEF Refused
    <3> QED
      BY <1>0, <2>2, <2>4, <3>1, Zenon DEF Refused
  <2>5. ASSUME NEW s \in DomainStatuses, ConcludesFit(e, s) PROVE AttemptsAreOwed'
    <3>1. Len(exec') = Len(exec)
      BY <2>5, ConcludesMoves, Zenon DEF MovesOn, ConcludesFit
    <3> QED
      BY <2>2, <2>5, <3>1, ConcludesSpends, SpendsKeeps, Zenon
  <2> QED
    BY <2>1, <2>3, <2>4, <2>5, ChildConcludesFit, Zenon
<1>4. CASE \E e \in Attempts : RecoverStale(e) \/ RecoverRetrying(e)
  <2>1. PICK e \in Attempts : RecoverStale(e) \/ RecoverRetrying(e)
    BY <1>4
  <2>2. UNCHANGED <<kind, gate, asked, bound>>
    BY <2>1, Zenon DEF RecoverStale, RecoverRetrying, world
  <2>3. RecoversFit(e)
    BY <2>1, StaleFits, RetryingFits, Zenon DEF OnlyTheLast
  <2>4. Len(exec') = Len(exec)
    BY <2>1, StaleRecovers, RetryingRecovers, RecoversMoves, Zenon DEF MovesOn
  <2> QED
    BY <2>2, <2>3, <2>4, RecoversSpends, SpendsKeeps, Zenon
<1>5. CASE RecoverSource
  <2>1. source.status # "running"
    <3>1. exec # <<>> => Len(exec) \in Attempts
      BY DEF Shapes, Attempts
    <3> QED
      BY <1>5, <3>1, Zenon DEF RecoverSource, RunningIsInFlight, Active
  <2>2. source.status \in {"pending", "queued", "retrying", "failed"} /\ source'.status = "queued"
    BY <1>5, <2>1, SMT DEF RecoverSource, Claimable, Redispatch, Shapes
  <2>3. UNCHANGED <<kind, gate, asked, bound, exec>>
    BY <1>5, Zenon DEF RecoverSource, world
  <2>4. Due /\ Gated' = Gated
    BY <2>2, <2>3 DEF Due, Gated
  <2>5. Pending' <= Pending
    BY <2>3, <2>4 DEF Pending, One
  <2> QED
    BY <1>0, <2>3, <2>5
<1>6. CASE FinalizeCancel
  <2>1. UNCHANGED <<kind, gate, asked, bound>> /\ source.status = "cancel_requested"
    BY <1>6, Zenon DEF FinalizeCancel, world
  <2>2. source'.status = "cancelled"
    BY <1>6, SMT DEF FinalizeCancel, Shapes
  <2>3. ~Due' /\ Gated' = Gated
    BY <2>1, <2>2 DEF Due, Gated
  <2>4. Pending' <= Pending
    BY <2>1, <2>3 DEF Pending, One
  <2>5. exec' = [e \in Attempts |-> IF exec[e] = "retrying" THEN "cancelled" ELSE exec[e]]
    BY <1>6, Zenon DEF FinalizeCancel
  <2>6. Len(exec') = Len(exec) /\ Attempts' = Attempts
    BY <1>6, FinalizeMoves DEF MovesOn, Shapes, Attempts
  <2>7. Waiting' \subseteq Waiting
    BY <2>5, <2>6 DEF Waiting
  <2>8. Pending' + bound.admin + bound.closing <= Pending + bound'.admin + bound'.closing
    BY <1>0, <2>1, <2>4
  <2> QED
    BY <2>6, <2>7, <2>8, Spent, SpendsKeeps
<1>7. CASE ReleaseBlocked
  <2>1. UNCHANGED <<kind, gate, asked, bound, exec>> /\ gate = "open"
    BY <1>7, Zenon DEF ReleaseBlocked, world
  <2>2. Due /\ ~Gated'
    BY <1>7, <2>1 DEF ReleaseBlocked, Due, Gated
  <2>3. Pending' <= Pending
    BY <2>1, <2>2 DEF Pending, One
  <2> QED
    BY <1>0, <2>1, <2>3
<1>8. CASE AdminWrites
  <2>1. UNCHANGED <<kind, gate, bound, exec>> /\ asked' = "nothing" /\ asked \in {"retry", "cancel"}
    BY <1>8, Zenon DEF AdminWrites
  <2>2. CASE asked = "retry"
    <3>1. ~Gated'
      BY <1>8, <2>1, <2>2 DEF AdminWrites, Gated, Shapes, Rest
    <3> QED
      BY <1>0, <2>1, <2>2, <3>1 DEF Pending, One
  <2>3. CASE asked = "cancel"
    <3>1. source'.status = "cancel_requested"
      BY <1>8, <2>1, <2>3 DEF AdminWrites, Shapes
    <3>2. ~Due' /\ (Gated' => Gated \/ Due)
      BY <2>1, <3>1 DEF Due, Gated
    <3> QED
      BY <1>0, <2>1, <2>3, <3>2 DEF Pending, One
  <2> QED
    BY <2>1, <2>2, <2>3
<1>9. CASE AdminAsks
  <2>1. UNCHANGED <<kind, gate, source, exec>> /\ asked = "nothing"
    BY <1>9, Zenon DEF AdminAsks
  <2>2. bound'.admin = bound.admin + 1 /\ bound'.closing = bound.closing
    BY <1>9 DEF AdminAsks, Rest
  <2>3. Due' = Due /\ Gated' = Gated
    BY <2>1 DEF Due, Gated
  <2>4. Pending' <= Pending + 1
    BY <2>1, <2>3 DEF Pending, One
  <2> QED
    BY <1>0, <2>1, <2>2, <2>4
<1>10. CASE GateCloses
  <2>1. UNCHANGED <<kind, asked, source, exec>>
    BY <1>10, Zenon DEF GateCloses
  <2>2. bound'.admin = bound.admin /\ bound'.closing = bound.closing + 1
    BY <1>10 DEF GateCloses, Rest
  <2>3. Due' = Due
    BY <2>1 DEF Due
  <2>4. Pending' <= Pending + 1
    BY <2>1, <2>3 DEF Pending, One
  <2> QED
    BY <1>0, <2>1, <2>2, <2>4
<1>11. CASE GateOpens
  <2>1. UNCHANGED <<kind, asked, source, exec, bound>> /\ gate' = "open"
    BY <1>11, Zenon DEF GateOpens
  <2>2. Due' = Due /\ ~Gated'
    BY <2>1 DEF Due, Gated
  <2>3. Pending' <= Pending
    BY <2>1, <2>2 DEF Pending, One
  <2> QED
    BY <1>0, <2>1, <2>3
<1>12. CASE (\E e \in Attempts : Dies(e)) \/ LoseJob \/ OthersEdit \/ RetryDue \/ UNCHANGED vars
  <2>1. UNCHANGED <<kind, gate, asked, source, exec>>
    BY <1>12, Zenon DEF Dies, LoseJob, OthersEdit, RetryDue, vars, world
  <2>2. bound'.admin = bound.admin /\ bound'.closing = bound.closing
    BY <1>12 DEF Dies, LoseJob, OthersEdit, RetryDue, vars, world, Rest
  <2> QED
    BY <1>0, <1>1, <2>1, <2>2
<1> QED
  BY <1>2, <1>3, <1>4, <1>5, <1>6, <1>7, <1>8, <1>9, <1>10, <1>11, <1>12, Steps, Zenon DEF Elsewhere

-----------------------------------------------------------------------------
(* The rest of the invariant.                                              *)

\* Who waits for a retry after a step either waited before or is early.
LEMMA EarlyKept ==
    ASSUME IInv, Bounded, [Next]_vars
    PROVE  WaitingIsEarly'
<1> USE DEF IInv, Bounded
<1> SUFFICES ASSUME NEW n \in Attempts', exec'[n] = "retrying"
             PROVE  n < MaxAttempts
  BY Zenon DEF WaitingIsEarly, Waiting
<1>1. CASE Attempts' = Attempts /\ exec'[n] = exec[n]
  BY <1>1 DEF WaitingIsEarly, Waiting
<1>2. CASE Claim
  <2>1. CASE Claimed
    <3>1. n \in Attempts => exec'[n] = exec[n]
      BY <2>1, ClaimedAdds
    <3>2. n \notin Attempts => exec'[n] = "queued"
      BY <2>1 DEF Claimed, Shapes, Attempts
    <3> QED
      BY <3>1, <3>2 DEF WaitingIsEarly, Waiting
  <2>2. CASE exec' = exec
    BY <1>1, <2>2 DEF Attempts
  <2> QED
    BY <1>2, <2>1, <2>2, ClaimClaims, Zenon
<1>3. ASSUME NEW e \in Attempts, NEW s \in Statuses, exec' = [exec EXCEPT ![e] = s], s = "retrying" => e < MaxAttempts
      PROVE  n < MaxAttempts
  <2>1. Attempts' = Attempts /\ exec'[e] = s /\ \A m \in Attempts : m # e => exec'[m] = exec[m]
    BY <1>3, Written
  <2> QED
    BY <1>1, <1>3, <2>1, Zenon
<1>4. CASE \E e \in Attempts : WorkerStep(e)
  <2>1. PICK e \in Attempts : WorkerStep(e)
    BY <1>4
  <2>2. CASE Begin(e)
    BY <1>1, <1>3, <2>2, BeginIs, Zenon DEF Attempts, Statuses, InFlight
  <2>3. CASE Refused
    BY <1>1, <2>3, Zenon DEF Attempts, Refused
  <2>4. ASSUME NEW s \in DomainStatuses, ConcludesFit(e, s) PROVE n < MaxAttempts
    BY <1>3, <2>4, DomainAreStatuses, Zenon DEF ConcludesFit, Concludes
  <2> QED
    BY <2>1, <2>2, <2>3, <2>4, ChildConcludesFit, Zenon
<1>5. CASE \E e \in Attempts : RecoverStale(e) \/ RecoverRetrying(e)
  <2>1. PICK e \in Attempts : RecoversFit(e)
    BY <1>5, StaleFits, RetryingFits, Zenon DEF OnlyTheLast
  <2> QED
    BY <1>3, <2>1, Zenon DEF RecoversFit
<1>6. CASE FinalizeCancel
  <2>1. exec' = [e \in Attempts |-> IF exec[e] = "retrying" THEN "cancelled" ELSE exec[e]]
    BY <1>6, Zenon DEF FinalizeCancel
  <2> QED
    BY <2>1 DEF Attempts
<1>7. CASE exec' = exec
  BY <1>1, <1>7 DEF Attempts
<1>8. RecoverSource \/ ReleaseBlocked \/ AdminWrites \/ Elsewhere \/ (\E e \in Attempts : Dies(e)) => exec' = exec
  BY ElsewhereRests, Zenon DEF RecoverSource, ReleaseBlocked, AdminWrites, Dies
<1> QED
  BY <1>2, <1>4, <1>5, <1>6, <1>7, <1>8, Steps, Zenon

LEMMA RunningStays ==
    ASSUME Shapes, RunningIsInFlight, source' = source, Len(exec') = Len(exec), exec' \in Seq(Statuses),
           source.status = "running" => exec'[Len(exec)] \in InFlight
    PROVE  RunningIsInFlight'
BY DEF RunningIsInFlight, Shapes

LEMMA RunningKept ==
    ASSUME IInv, Bounded, [Next]_vars
    PROVE  RunningIsInFlight'
<1> USE DEF IInv, Bounded
<1>1. CASE source'.status # "running"
  BY <1>1 DEF RunningIsInFlight
<1>2. CASE source' = source /\ exec' = exec
  BY <1>2 DEF RunningIsInFlight
<1>3. CASE Claim
  <2>1. CASE Claimed
    BY <2>1 DEF Claimed, Shapes, RunningIsInFlight, InFlight
  <2> QED
    BY <1>2, <1>3, <2>1, ClaimClaims, Zenon
<1>4. CASE \E e \in Attempts : WorkerStep(e)
  <2>1. PICK e \in Attempts : WorkerStep(e)
    BY <1>4
  <2>2. CASE Begin(e)
    <3>1. source' = source
      BY <2>2, Zenon DEF Begin
    <3>2. CASE exec' = [exec EXCEPT ![e] = "running"]
      <4>1. /\ Len(exec') = Len(exec) /\ exec'[e] = "running" /\ exec' \in Seq(Statuses)
            /\ \A n \in Attempts : n # e => exec'[n] = exec[n]
        BY <2>2, <3>2, Written, BeginMoves DEF Statuses, InFlight, MovesOn
      <4>2. source.status = "running" => Len(exec) \in Attempts /\ exec[Len(exec)] \in InFlight
        BY DEF RunningIsInFlight, Shapes, Attempts
      <4>3. source.status = "running" => exec'[Len(exec)] \in InFlight
        BY <4>1, <4>2, Zenon DEF InFlight
      <4> QED
        BY <3>1, <4>1, <4>3, RunningStays
    <3> QED
      BY <1>2, <2>2, <3>1, <3>2, BeginIs, Zenon
  <2>3. CASE Refused
    BY <1>2, <2>3, Zenon DEF Refused
  <2>4. ASSUME NEW s \in DomainStatuses, Concludes(e, s) PROVE RunningIsInFlight'
    BY <1>1, <2>4, ConcludesShapes, OutcomeIs, Zenon
  <2> QED
    BY <2>1, <2>2, <2>3, <2>4, ChildConcludes, Zenon
<1>5. CASE \E e \in Attempts : RecoverStale(e) \/ RecoverRetrying(e)
  <2>1. PICK e \in Attempts : RecoversFit(e)
    BY <1>5, StaleFits, RetryingFits, Zenon DEF OnlyTheLast
  <2>2. PICK s \in Statuses : exec' = [exec EXCEPT ![e] = s]
    BY <2>1, Zenon DEF RecoversFit
  <2>3. /\ Len(exec') = Len(exec) /\ exec' \in Seq(Statuses)
        /\ \A n \in Attempts : n # e => exec'[n] = exec[n]
    <3>1. exec' \in Seq(Statuses)
      BY <1>5, StaleRecovers, RetryingRecovers, RecoversMoves, Zenon DEF MovesOn
    <3> QED
      BY <2>2, <3>1, Written
  <2>4. CASE source' = source /\ (source.status = "running" /\ source.token = e => Len(exec) # e)
    <3>1. source.status = "running" => Len(exec) \in Attempts /\ exec[Len(exec)] \in InFlight /\ Len(exec) # e
      BY <2>4 DEF RunningIsInFlight, Shapes, Attempts
    <3>2. source.status = "running" => exec'[Len(exec)] \in InFlight
      BY <2>3, <3>1, Zenon
    <3> QED
      BY <2>3, <2>4, <3>2, RunningStays
  <2>5. CASE source' = [source EXCEPT !.status = "failed_permanent", !.error_type = "none", !.error = "none"]
    BY <1>1, <2>5 DEF Shapes
  <2>6. CASE source' = [source EXCEPT !.status = Outcome("retrying"), !.token = 0,
                                      !.error_type = IF kind = "run" THEN "none" ELSE @, !.error = "none"]
    <3>1. Outcome("retrying") # "running"
      BY OutcomeIs, Zenon DEF DomainStatuses
    <3> QED
      BY <1>1, <2>6, <3>1 DEF Shapes
  <2>7. CASE Redispatch
    BY <1>1, <2>7 DEF Redispatch, Shapes
  <2> QED
    BY <2>1, <2>4, <2>5, <2>6, <2>7, Zenon DEF RecoversFit
<1>6. RecoverSource \/ FinalizeCancel \/ ReleaseBlocked \/ AdminWrites => source'.status # "running"
  <2>1. RecoverSource => source'.status # "running"
    BY DEF RecoverSource, Redispatch, Shapes
  <2>2. FinalizeCancel => source'.status # "running"
    BY DEF FinalizeCancel, Shapes
  <2>3. ReleaseBlocked => source'.status # "running"
    BY DEF ReleaseBlocked, Shapes
  <2>4. AdminWrites => source'.status # "running"
    BY DEF AdminWrites, Shapes
  <2> QED
    BY <2>1, <2>2, <2>3, <2>4
<1>7. Elsewhere \/ (\E e \in Attempts : Dies(e)) => source' = source /\ exec' = exec
  BY ElsewhereRests, Zenon DEF Dies
<1> QED
  BY <1>1, <1>2, <1>3, <1>4, <1>5, <1>6, <1>7, Steps, Zenon

\* A source whose error_type names the index is blocked, or none of this is about it.
TypeFits == kind = "run" /\ source.error_type = "index" => source.status = "blocked"

LEMMA TypeFitsKept ==
    ASSUME IInv, Bounded, [Next]_vars
    PROVE  TypeFits'
<1> USE DEF IInv, Bounded
<1>0. TypeFits /\ kind' = kind
  BY FitsKept DEF TypeFits, BlocksFit
<1>1. CASE source' = source
  BY <1>0, <1>1 DEF TypeFits
<1>2. ASSUME source.status # "blocked", source'.error_type = source.error_type PROVE TypeFits'
  BY <1>0, <1>2 DEF TypeFits
<1>3. ASSUME source'.error_type = "none" PROVE TypeFits'
  BY <1>3 DEF TypeFits
<1>4. CASE Claim
  <2>1. CASE Claimed
    <3>1. source.status # "blocked" /\ source'.error_type = source.error_type
      BY <2>1 DEF Claimed, CanClaim, Claimable, Shapes
    <3> QED
      BY <1>2, <3>1
  <2> QED
    BY <1>1, <1>4, <2>1, ClaimClaims, Zenon
<1>5. CASE \E e \in Attempts : WorkerStep(e)
  <2>1. PICK e \in Attempts : WorkerStep(e)
    BY <1>5
  <2>2. ASSUME NEW s \in DomainStatuses, Concludes(e, s) PROVE TypeFits'
    <3>1. source.status # "blocked"
      BY <2>2, Zenon DEF Concludes, Holds, Owns
    <3>2. source'.error_type = source.error_type
      BY <2>2 DEF Concludes, Shapes
    <3> QED
      BY <1>2, <3>1, <3>2
  <2> QED
    BY <1>1, <2>1, <2>2, ChildConcludes, Zenon DEF Begin, Refused
<1>6. ASSUME Redispatch PROVE TypeFits'
  <2>1. source'.error_type = IF kind = "run" THEN "none" ELSE source.error_type
    BY <1>6 DEF Redispatch, Shapes
  <2> QED
    BY <1>0, <2>1 DEF TypeFits
<1>7. CASE \E e \in Attempts : RecoverStale(e) \/ RecoverRetrying(e)
  <2>1. PICK e \in Attempts : RecoversFit(e)
    BY <1>7, StaleFits, RetryingFits, Zenon DEF OnlyTheLast
  <2>2. CASE source' = [source EXCEPT !.status = "failed_permanent", !.error_type = "none", !.error = "none"]
    BY <1>3, <2>2 DEF Shapes
  <2>3. CASE source' = [source EXCEPT !.status = Outcome("retrying"), !.token = 0,
                                      !.error_type = IF kind = "run" THEN "none" ELSE @, !.error = "none"]
    <3>1. source'.error_type = IF kind = "run" THEN "none" ELSE source.error_type
      BY <2>3 DEF Shapes
    <3> QED
      BY <1>0, <3>1 DEF TypeFits
  <2> QED
    BY <1>1, <1>6, <2>1, <2>2, <2>3, Zenon DEF RecoversFit
<1>8. CASE RecoverSource
  BY <1>6, <1>8, Zenon DEF RecoverSource
<1>9. CASE FinalizeCancel
  <2>1. source.status # "blocked" /\ source'.error_type = source.error_type
    BY <1>9 DEF FinalizeCancel, Shapes
  <2> QED
    BY <1>2, <2>1
<1>10. CASE ReleaseBlocked
  <2>1. source'.error_type = IF kind = "run" THEN "none" ELSE source.error_type
    BY <1>10 DEF ReleaseBlocked, Shapes
  <2> QED
    BY <1>0, <2>1 DEF TypeFits
<1>11. CASE AdminWrites
  <2>1. CASE source' = [source EXCEPT !.status = "pending", !.error_type = "none", !.error = "none"]
    BY <1>3, <2>1 DEF Shapes
  <2>2. CASE source' = [source EXCEPT !.status = "blocked", !.error_type = "index", !.error = "index"]
    BY <2>2 DEF Shapes, TypeFits
  <2>3. CASE source' = [source EXCEPT !.status = "cancel_requested", !.error_type = "none", !.error = "none"]
    BY <1>3, <2>3 DEF Shapes
  <2> QED
    BY <1>11, <2>1, <2>2, <2>3, Zenon DEF AdminWrites
<1>12. Elsewhere \/ (\E e \in Attempts : Dies(e)) => source' = source
  BY ElsewhereRests, Zenon DEF Dies
<1> QED
  BY <1>1, <1>4, <1>5, <1>7, <1>8, <1>9, <1>10, <1>11, <1>12, Steps, Zenon

\* What a child's step makes of its place and of how far it is.
ChildFits(k) == (k.at = "turned_away" => kind = "run") /\ k.done <= Len(Items)
ChildrenFit == \A e \in Attempts : ChildFits(worker[e])

LEMMA ChildStepFits ==
    ASSUME Shapes, Counted, ChildrenFit, NEW e \in Attempts, WorkerStep(e)
    PROVE  \E k : Is(e, k) /\ ChildFits(k)
<1>0. Len(Items) = 3 /\ worker[e] \in Children /\ worker[e].done \in Nat
  BY Numbered DEF Items, Children
<1>1. CASE Begin(e)
  <2>1. CASE Gone(e)
    BY <1>0, <2>1 DEF Gone, ChildFits, Leaving
  <2>2. CASE Is(e, [at |-> FirstPlace, done |-> worker[e].done])
    <3>1. ChildFits([at |-> FirstPlace, done |-> worker[e].done])
      BY DEF FirstPlace, ChildFits, ChildrenFit
    <3> QED
      BY <2>2, <3>1
  <2> QED
    BY <1>1, <2>1, <2>2, BeginIs
<1>2. CASE Gone(e)
  BY <1>0, <1>2 DEF Gone, ChildFits, Leaving
<1>3. CASE Is(e, [at |-> "inside", done |-> worker[e].done])
  <2>1. ChildFits([at |-> "inside", done |-> worker[e].done])
    BY DEF ChildFits, ChildrenFit
  <2> QED
    BY <1>3, <2>1
<1>4. CASE CloseItem(e)
  <2>1. worker[e].done < Len(Items)
    BY <1>4, Zenon DEF CloseItem, At, Counted, Counts
  <2>2. ChildFits([at |-> "between", done |-> worker[e].done + 1])
    BY <1>0, <2>1 DEF ChildFits
  <2> QED
    BY <1>4, <2>2, CloseItemIs
<1>5. CASE CommitReaches(e)
  <2>1. ChildFits([at |-> "between", done |-> 1])
    BY <1>0 DEF ChildFits
  <2> QED
    BY <1>5, <2>1, CommitReachesIs
<1>6. CASE CommitMarked(e)
  <2>1. ChildFits([at |-> "between", done |-> 2])
    BY <1>0 DEF ChildFits
  <2> QED
    BY <1>6, <2>1, CommitMarkedIs
<1>7. CASE OpenItem(e) \/ CommitBegins(e)
  BY <1>2, <1>3, <1>7, MovesAway, IsLeaving, MovesOnward, Zenon DEF OpenItem, CommitBegins, Stops
<1>8. CASE TurnAway(e) \/ Refresh(e) \/ Conclude(e) \/ Fail(e) \/ Reports(e) \/ MarksFailure(e)
  BY <1>2, <1>8, MovesAway, IsLeaving, Zenon DEF TurnAway, Refresh, Conclude, Fail, Reports, MarksFailure, Stops
<1> QED
  BY <1>1, <1>4, <1>5, <1>6, <1>7, <1>8, Zenon DEF WorkerStep

LEMMA ChildrenFitKept ==
    ASSUME IInv, ChildrenFit, [Next]_vars
    PROVE  ChildrenFit'
<1> USE DEF IInv
<1>0. kind' = kind /\ \A k : ChildFits(k)' = ChildFits(k)
  BY FitsKept DEF ChildFits
<1>1. CASE Claimed
  <2>1. ChildFits([at |-> "launched", done |-> 0])
    BY DEF ChildFits, Items
  <2> QED
    BY <1>0, <1>1, <2>1, ClaimedAdds, Zenon DEF ChildrenFit, ChildFits
<1>2. ASSUME NEW e \in Attempts, NEW k, Is(e, k), ChildFits(k), Attempts' = Attempts
      PROVE  ChildrenFit'
  BY <1>0, <1>2, Zenon DEF Is, ChildrenFit, ChildFits
<1>3. CASE \E e \in Attempts : WorkerStep(e)
  BY <1>2, <1>3, ChildStepFits, ChildKeepsAttempts, Zenon DEF Progress
<1>4. CASE \E e \in Attempts : Gone(e) /\ exec' = exec
  <2>1. ASSUME NEW place \in Leaving PROVE ChildFits([at |-> place, done |-> 0])
    BY DEF ChildFits, Items, Leaving
  <2> QED
    BY <1>2, <1>4, <2>1, Zenon DEF Gone, Attempts
<1>5. CASE worker' = worker /\ Attempts' = Attempts
  BY <1>0, <1>5, Zenon DEF ChildrenFit, ChildFits
<1> QED
  BY <1>1, <1>3, <1>4, <1>5, ChildrenStep, Zenon

\* The steps of the other variables.
Typed ==
    /\ wait \in Nat /\ jobs \in 0..MaxJobs /\ gate \in {"open", "closed"} /\ commit \in CommitStatuses
    /\ paper \in [changed : BOOLEAN, holds : BOOLEAN] /\ reached \in BOOLEAN
Asked ==
    /\ asked \in {"nothing", "retry", "cancel"} /\ (asked = "retry" => bound.admin > 0)
    /\ bound \in [crash : 0..MaxCrashes, admin : 0..MaxAdmin, closing : 0..MaxClosings, edit : 0..MaxEdits]

LEMMA BackoffIs ==
    ASSUME NEW e \in Nat, e > 0
    PROVE  Backoff(e) \in Nat
BY SMT DEF Backoff, Delays

LEMMA WaitKept ==
    ASSUME Shapes, wait \in Nat, [Next]_vars
    PROVE  wait' \in Nat
<1>1. ASSUME NEW e \in Attempts, NEW s, NEW reason, Finish(e, s, reason) PROVE wait' \in Nat
  <2>1. wait' = 0 \/ wait' = wait
    BY <1>1, Zenon DEF Finish
  <2> QED
    BY <2>1
<1>2. ASSUME NEW e \in Attempts, NEW class, FailAttempt(e, class) PROVE wait' \in Nat
  <2>1. Backoff(e) \in Nat
    BY Numbered, BackoffIs
  <2> QED
    BY <1>1, <1>2, <2>1, Zenon DEF FailAttempt, ScheduleRetry
<1>3. CASE \E e \in Attempts : WorkerStep(e)
  BY <1>1, <1>2, <1>3, Zenon DEF WorkerStep, Begin, TurnAway, OpenItem, CloseItem, CommitBegins, CommitReaches,
                                 CommitMarked, Refresh, Conclude, Fail, Reports, MarksFailure, Stops
<1>4. CASE \E e \in Attempts : RecoverStale(e) \/ RecoverRetrying(e)
  <2>1. PICK e \in Attempts : RecoverStale(e) \/ RecoverRetrying(e)
    BY <1>4
  <2>2. wait' = wait \/ wait' = 0
    BY <2>1, SMT DEF RecoverStale, RecoverRetrying, Suppressed, FailForGood
  <2> QED
    BY <2>2
<1>5. CASE Claim \/ (\E e \in Attempts : Dies(e)) \/ RecoverSource \/ FinalizeCancel \/ ReleaseBlocked \/ AdminWrites \/ Elsewhere
  <2>1. wait' = wait \/ wait' = 0
    BY <1>5, Zenon DEF Claim, Dies, RecoverSource, FinalizeCancel, ReleaseBlocked, AdminWrites, Elsewhere, LoseJob,
                       OthersEdit, GateCloses, GateOpens, RetryDue, AdminAsks, vars
  <2> QED
    BY <2>1
<1> QED
  BY <1>3, <1>4, <1>5, Steps, Zenon

LEMMA JobsKept ==
    ASSUME jobs \in 0..MaxJobs, [Next]_vars
    PROVE  jobs' \in 0..MaxJobs
<1>1. CASE jobs' = jobs
  BY <1>1
<1>2. CASE jobs > 0 /\ jobs' = jobs - 1
  BY <1>2 DEF MaxJobs
<1>3. CASE Redispatch
  BY <1>3 DEF Redispatch, MaxJobs
<1>4. CASE \E e \in Attempts : WorkerStep(e)
  BY <1>1, <1>4, Zenon DEF WorkerStep, Begin, TurnAway, OpenItem, CloseItem, CommitBegins, CommitReaches,
                           CommitMarked, Refresh, Conclude, Fail, Reports, MarksFailure
<1>5. CASE \E e \in Attempts : RecoverStale(e) \/ RecoverRetrying(e)
  <2>1. PICK e \in Attempts : RecoverStale(e) \/ RecoverRetrying(e)
    BY <1>5
  <2>2. jobs' = jobs \/ Redispatch
    BY <2>1, SMT DEF RecoverStale, RecoverRetrying, Suppressed, FailForGood
  <2> QED
    BY <1>1, <1>3, <2>2
<1>6. CASE Claim \/ (\E e \in Attempts : Dies(e)) \/ RecoverSource \/ FinalizeCancel \/ ReleaseBlocked \/ AdminWrites \/ Elsewhere
  BY <1>1, <1>2, <1>3, <1>6, Zenon DEF Claim, Dies, RecoverSource, FinalizeCancel, ReleaseBlocked, AdminWrites, Elsewhere, LoseJob,
                       OthersEdit, GateCloses, GateOpens, RetryDue, AdminAsks, vars
<1> QED
  BY <1>4, <1>5, <1>6, Steps, Zenon

LEMMA PaperTyped ==
    ASSUME paper \in [changed : BOOLEAN, holds : BOOLEAN], reached \in BOOLEAN, commit \in CommitStatuses, [Next]_vars
    PROVE  paper' \in [changed : BOOLEAN, holds : BOOLEAN] /\ reached' \in BOOLEAN /\ commit' \in CommitStatuses
<1> DEFINE KeptTyped == paper' \in [changed : BOOLEAN, holds : BOOLEAN] /\ reached' \in BOOLEAN
<1>1. ASSUME UNCHANGED <<paper, reached>> PROVE KeptTyped
  BY <1>1
<1>2. ASSUME Patched PROVE KeptTyped
  BY <1>2 DEF Patched
<1>3. CASE \E e \in Attempts : WorkerStep(e)
  <2>1. PICK e \in Attempts : WorkerStep(e)
    BY <1>3
  <2>2. UNCHANGED <<paper, reached>> \/ Patched
    BY <2>1, Zenon DEF WorkerStep, Begin, TurnAway, OpenItem, CloseItem, CommitBegins, CommitReaches,
                       CommitMarked, Refresh, Conclude, Fail, Reports, MarksFailure, body
  <2>3. commit' \in {commit, "running", "committed", "retrying", "failed"}
    BY <2>1, Zenon DEF WorkerStep, Begin, TurnAway, OpenItem, CloseItem, CommitBegins, CommitReaches,
                       CommitMarked, Refresh, Conclude, Fail, Reports, MarksFailure, body
  <2> QED
    BY <1>1, <1>2, <2>2, <2>3 DEF CommitStatuses
<1>4. CASE OthersEdit
  BY <1>4 DEF OthersEdit
<1>5. CASE UNCHANGED <<paper, reached, commit>>
  BY <1>5
<1>6. Claim \/ (\E e \in Attempts : Dies(e) \/ RecoverStale(e) \/ RecoverRetrying(e)) \/ RecoverSource \/ FinalizeCancel
        \/ ReleaseBlocked \/ AdminWrites \/ Elsewhere => OthersEdit \/ UNCHANGED <<paper, reached, commit>>
  BY Zenon DEF Claim, Dies, RecoverStale, RecoverRetrying, RecoverSource, FinalizeCancel, ReleaseBlocked, AdminWrites,
               Elsewhere, LoseJob, GateCloses, GateOpens, RetryDue, AdminAsks, vars, body
<1> QED
  BY <1>3, <1>4, <1>5, <1>6, Steps, Zenon

LEMMA AskedKept ==
    ASSUME Asked, [Next]_vars
    PROVE  Asked'
<1>1. CASE UNCHANGED <<asked, bound>>
  BY <1>1 DEF Asked
<1>2. CASE AdminWrites
  BY <1>2 DEF Asked, AdminWrites
<1>3. CASE AdminAsks
  BY <1>3, BoundsAssumption DEF Asked, AdminAsks
<1>4. CASE LoseJob \/ \E e \in Attempts : Dies(e)
  BY <1>4, BoundsAssumption DEF Asked, LoseJob, Dies
<1>5. CASE OthersEdit
  BY <1>5, BoundsAssumption DEF Asked, OthersEdit
<1>6. CASE GateCloses
  BY <1>6, BoundsAssumption DEF Asked, GateCloses
<1>7. Claim \/ (\E e \in Attempts : WorkerStep(e)) \/ RecoverSource \/ FinalizeCancel \/ ReleaseBlocked \/ GateOpens
        \/ RetryDue \/ UNCHANGED vars \/ (\E e \in Attempts : RecoverStale(e) \/ RecoverRetrying(e))
        => UNCHANGED <<asked, bound>>
  BY Zenon DEF Claim, WorkerStep, Begin, TurnAway, OpenItem, CloseItem, CommitBegins, CommitReaches, CommitMarked, Refresh,
               Conclude, Fail, Reports, MarksFailure, RecoverSource, FinalizeCancel, ReleaseBlocked, GateOpens, RetryDue, RecoverStale,
               RecoverRetrying, vars, world
<1> QED
  BY <1>1, <1>2, <1>3, <1>4, <1>5, <1>6, <1>7, Steps, Zenon DEF Elsewhere

LEMMA GateKept ==
    ASSUME gate \in {"open", "closed"}, [Next]_vars
    PROVE  gate' \in {"open", "closed"}
<1>1. CASE gate' = gate
  BY <1>1
<1>2. gate' = gate \/ gate' = "open" \/ gate' = "closed"
  BY Zenon DEF Next, Scan, Claim, LoseJob, WorkerStep, Begin, TurnAway, OpenItem, CloseItem, CommitBegins, CommitReaches,
               CommitMarked, Refresh, Conclude, Fail, Reports, MarksFailure, Dies, RecoverSource, FinalizeCancel, ReleaseBlocked, RecoverStale,
               RecoverRetrying, AdminAsks, AdminWrites, OthersEdit, GateCloses, GateOpens, RetryDue, vars, world
<1> QED
  BY <1>1, <1>2

\* What a runner reports is of an execution there is.
ReportFits == report \in [of : 0..Len(exec), says : DomainStatuses \union {"none", "protocol-failure"}]
LEMMA ReportKept ==
    ASSUME Shapes, ReportFits, [Next]_vars
    PROVE  ReportFits'
<1>1. Len(exec) \in Nat /\ Len(exec') \in Nat /\ Len(exec') >= Len(exec)
  <2>1. CASE MovesOn
    BY <2>1, Numbered DEF MovesOn
  <2>2. CASE Claimed
    BY <2>2, Numbered DEF Claimed, Shapes
  <2> QED
    BY <2>1, <2>2, AttemptsMoveOn
<1>2. CASE report' = report
  BY <1>1, <1>2 DEF ReportFits
<1>3. ASSUME NEW e \in Attempts, Reports(e) PROVE ReportFits'
  <2>1. e \in 0..Len(exec') /\ Report(exec[e]) \in DomainStatuses \union {"none", "protocol-failure"}
    BY <1>1, Numbered DEF Report
  <2> QED
    BY <1>3, <2>1 DEF Reports, ReportFits
<1>4. report' = report \/ \E e \in Attempts : Reports(e)
  BY Zenon DEF Next, Scan, Claim, LoseJob, WorkerStep, Begin, TurnAway, OpenItem, CloseItem, CommitBegins, CommitReaches,
               CommitMarked, Refresh, Conclude, Fail, MarksFailure, Dies, RecoverSource, FinalizeCancel, ReleaseBlocked, RecoverStale,
               RecoverRetrying, AdminAsks, AdminWrites, OthersEdit, GateCloses, GateOpens, RetryDue, vars, world
<1> QED
  BY <1>2, <1>3, <1>4, Zenon

-----------------------------------------------------------------------------
(* The types.                                                              *)

LEMMA RestIs ==
    Rest <=> /\ <<kind, fleet>> \in Sources /\ Typed /\ Asked /\ ReportFits
             /\ \A e \in Attempts : worker[e].done <= Len(Items)
BY Zenon DEF Rest, Typed, Asked, ReportFits
LEMMA ChildrenFitIs ==
    /\ ChildrenFit <=> /\ \A e \in Attempts : worker[e].at = "turned_away" => kind = "run"
                       /\ \A e \in Attempts : worker[e].done <= Len(Items)
    /\ BlocksFit <=> (\A e \in Attempts : worker[e].at = "turned_away" => kind = "run") /\ TypeFits
BY Zenon DEF ChildrenFit, ChildFits, BlocksFit, TypeFits

LEMMA SucceededFitsKept ==
    ASSUME IInv, SucceededFits, [Next]_vars
    PROVE  SucceededFits'
<1>1. kind' = kind
  BY FitsKept DEF IInv
<1>2. Outcome("succeeded") = "succeeded" => kind # "webhook"
  BY SMT DEF Outcome
<1> QED
  BY <1>1, <1>2, SuccessStep, Zenon DEF IInv, SucceededFits, Successes, Succeeds

LEMMA BoundedKept == IInv /\ Bounded /\ [Next]_vars => Bounded'
<1> SUFFICES ASSUME IInv, Bounded, [Next]_vars PROVE Bounded'
  OBVIOUS
<1>1. Shapes' /\ kind' = kind /\ fleet' = fleet
  BY ShapesKept, FitsKept DEF IInv
<1>2. Typed'
  BY WaitKept, JobsKept, PaperTyped, GateKept DEF Typed, IInv, Bounded, Rest
<1>3. Asked' /\ ReportFits'
  BY AskedKept, ReportKept, RestIs, Zenon DEF IInv, Bounded
<1>4. ChildrenFit'
  BY ChildrenFitKept, ChildrenFitIs, RestIs, Zenon DEF Bounded
<1>5. Rest'
  <2>1. <<kind', fleet'>> \in Sources
    BY <1>1, Zenon DEF Bounded, Rest
  <2> QED
    BY <1>2, <1>3, <1>4, <2>1 DEF Rest, Typed, Asked, ReportFits, ChildrenFit, ChildFits
<1>6. BlocksFit'
  BY <1>4, TypeFitsKept DEF BlocksFit, TypeFits, ChildrenFit, ChildFits
<1>7. AttemptsAreOwed'
  BY <1>1, <1>5, OwedKept
<1> QED
  BY <1>5, <1>6, <1>7, EarlyKept, RunningKept, SucceededFitsKept DEF Bounded

LEMMA InitBounded == Init => Bounded
<1> SUFFICES ASSUME Init PROVE Bounded
  OBVIOUS
<1>1. PICK s \in Sources : kind = s[1] /\ fleet = s[2]
  BY DEF Init
<1>2. <<kind, fleet>> \in Sources
  BY <1>1, SourcesAssumption
<1>3. Attempts = {} /\ Len(exec) = 0
  BY DEF Attempts, Init
<1>4. Rest
  <2>1. bound \in [crash : 0..MaxCrashes, admin : 0..MaxAdmin, closing : 0..MaxClosings, edit : 0..MaxEdits]
    BY BoundsAssumption DEF Init
  <2>2. report \in [of : 0..Len(exec), says : DomainStatuses \union {"none", "protocol-failure"}]
    BY <1>3 DEF Init
  <2>3. wait \in Nat /\ jobs \in 0..MaxJobs /\ gate \in {"open", "closed"} /\ commit \in CommitStatuses
    BY DEF Init, MaxJobs, CommitStatuses
  <2>4. paper \in [changed : BOOLEAN, holds : BOOLEAN] /\ reached \in BOOLEAN /\ asked = "nothing"
    BY DEF Init
  <2> QED
    BY <1>2, <1>3, <2>1, <2>2, <2>3, <2>4, Zenon DEF Rest
<1>5. WaitingIsEarly /\ RunningIsInFlight /\ BlocksFit /\ SucceededFits
  BY <1>3 DEF WaitingIsEarly, Waiting, RunningIsInFlight, BlocksFit, SucceededFits, Init
<1>6. AttemptsAreOwed
  BY <1>3, MaxAttemptsAssumption DEF AttemptsAreOwed
<1> QED
  BY <1>4, <1>5, <1>6 DEF Bounded

\* The variables keep their types, and a source is attempted no more often than
\* its attempts, an administrator, the release of a block and the recovery of an
\* earlier attempt account for.
THEOREM TypeCorrect == Spec => []TypeOK
<1>1. Init => IInv /\ Bounded
  BY InitIInv, InitBounded
<1>2. IInv /\ Bounded /\ [Next]_vars => (IInv /\ Bounded)'
  BY NextIInv, BoundedKept
<1>3. IInv /\ Bounded => TypeOK
  <2> SUFFICES ASSUME IInv, Bounded PROVE TypeOK
    OBVIOUS
  <2>1. Len(exec) \in Nat /\ Len(exec) <= MaxIssued
    <3>1. MaxAttempts \in Nat /\ bound.admin \in 0..MaxAdmin /\ bound.closing \in 0..MaxClosings /\ MaxAdmin \in Nat /\ MaxClosings \in Nat
      BY BoundsAssumption, MaxAttemptsAssumption DEF Bounded, Rest
    <3>2. Cardinality(Waiting) \in Nat /\ Pending \in Nat /\ Len(exec) \in Nat
      BY WaitingIs, PendingIs, Numbered DEF IInv
    <3>3. Len(exec) >= MaxAttempts => Len(exec) <= 2 * MaxAttempts + bound.admin + bound.closing
      <4>1. Len(exec) >= MaxAttempts => Len(exec) + Pending + Cardinality(Waiting) <= 2 * MaxAttempts + bound.admin + bound.closing
        BY DEF Bounded, AttemptsAreOwed
      <4> QED
        BY <3>1, <3>2, <4>1
    <3> QED
      BY <3>1, <3>2, <3>3 DEF MaxIssued
  <2>2. source.token \in 0..MaxIssued /\ report.of \in 0..MaxIssued /\ MaxIssued \in Nat
    <3>1. source.token \in 0..Len(exec) /\ report.of \in 0..Len(exec)
      BY DEF IInv, OnlyTheLast, LastInFlight, Bounded, Rest
    <3>2. MaxIssued \in Nat
      BY BoundsAssumption, MaxAttemptsAssumption DEF MaxIssued
    <3> QED
      BY <2>1, <3>1, <3>2
  <2>3. source \in [status : SourceStatuses, token : 0..MaxIssued, error_type : {"none", "index"}, error : {"none", "index"}]
    BY <2>2 DEF IInv, Shapes
  <2>4. report \in [of : 0..MaxIssued, says : DomainStatuses \union {"none", "protocol-failure"}]
    BY <2>2 DEF Bounded, Rest
  <2>5. worker \in Seq([at : Places, done : 0..Len(Items)])
    <3>1. \A e \in 1..Len(worker) : worker[e] \in [at : Places, done : 0..Len(Items)]
      <4>1. Attempts = 1..Len(worker) /\ Len(Items) \in Nat
        BY Numbered DEF IInv, Shapes, Items
      <4>2. \A e \in Attempts : worker[e] \in Children /\ worker[e].done <= Len(Items)
        BY Numbered DEF IInv, Bounded, Rest
      <4> QED
        BY <4>1, <4>2 DEF Children
    <3>2. worker \in Seq(Children)
      BY DEF IInv, Shapes
    <3> DEFINE T == [at : Places, done : 0..Len(Items)]
    <3>3. \A e \in 1..Len(worker) : worker[e] \in T
      BY <3>1
    <3> HIDE DEF T
    <3>4. worker \in Seq(T)
      BY <3>2, <3>3
    <3> QED
      BY <3>4 DEF T
  <2>6. kind \in Kinds /\ exec \in Seq(InFlight \union Ended \union {"retrying"}) /\ Len(worker) = Len(exec)
        /\ items \in [DOMAIN Items -> ItemStatuses]
    BY DEF IInv, Shapes, Statuses
  <2>7. /\ <<kind, fleet>> \in Sources /\ wait \in Nat /\ jobs \in 0..MaxJobs /\ gate \in {"open", "closed"} /\ commit \in CommitStatuses
        /\ paper \in [changed : BOOLEAN, holds : BOOLEAN] /\ reached \in BOOLEAN /\ asked \in {"nothing", "retry", "cancel"}
        /\ bound \in [crash : 0..MaxCrashes, admin : 0..MaxAdmin, closing : 0..MaxClosings, edit : 0..MaxEdits]
    BY Zenon DEF Bounded, Rest
  <2> QED
    BY <2>1, <2>3, <2>4, <2>5, <2>6, <2>7, Zenon DEF TypeOK, Places
<1> QED
  BY <1>1, <1>2, <1>3, PTL DEF Spec

-----------------------------------------------------------------------------
(* The ledger.                                                             *)

\* The attempts as the ledger has them.
Entries == [e \in Attempts |-> Entry(exec[e])]
EntryStates == {"open", "waiting"} \union Ended

LEMMA EntryIs ==
    ASSUME NEW s \in Statuses
    PROVE  /\ Entry(s) \in EntryStates
           /\ Entry(s) = "open" <=> s \in InFlight
           /\ Entry(s) = "waiting" <=> s = "retrying"
           /\ s \in Ended => Entry(s) = s
BY DEF Entry, EntryStates, Statuses, InFlight, Ended

LEMMA EntriesAre ==
    ASSUME Shapes
    PROVE  /\ Entries \in Seq(EntryStates) /\ Len(Entries) = Len(exec) /\ DOMAIN Entries = Attempts
           /\ \A e \in Attempts : Entries[e] = Entry(exec[e])
<1>1. Attempts = 1..Len(exec) /\ Len(exec) \in Nat /\ \A e \in Attempts : exec[e] \in Statuses
  BY Numbered
<1>2. \A e \in Attempts : Entry(exec[e]) \in EntryStates
  BY <1>1, EntryIs
<1>3. Entries \in [1..Len(exec) -> EntryStates]
  BY <1>1, <1>2 DEF Entries
<1> HIDE DEF EntryStates
<1>4. Entries \in Seq(EntryStates) /\ Len(Entries) = Len(exec)
  BY <1>1, <1>3
<1> QED
  BY <1>4 DEF Entries

\* The status of one execution is written to one entry.
LEMMA EntryWritten ==
    ASSUME Shapes, NEW e \in Attempts, NEW s \in Statuses, exec' = [exec EXCEPT ![e] = s]
    PROVE  Entries' = [Entries EXCEPT ![e] = Entry(s)]
<1>1. Attempts' = Attempts /\ exec'[e] = s /\ \A n \in Attempts : n # e => exec'[n] = exec[n]
  BY Written
<1>2. Entries' = [n \in Attempts |-> IF n = e THEN Entry(s) ELSE Entry(exec[n])]
  BY <1>1 DEF Entries
<1>3. [Entries EXCEPT ![e] = Entry(s)] = [n \in Attempts |-> IF n = e THEN Entry(s) ELSE Entry(exec[n])]
  BY DEF Entries
<1> QED
  BY <1>2, <1>3

LEMMA StandingIs ==
    /\ Standing = "running" <=> source.status = "running"
    /\ Standing = "succeeded" <=> source.status \in Successes
    /\ Standing = "idle" <=> source.status \notin Successes \union {"running"}
    /\ source' = source => Standing' = Standing
BY SMT DEF Standing, Successes

LEMMA StandingNext ==
    /\ source'.status = "running" => Standing' = "running"
    /\ source'.status \in Successes => Standing' = "succeeded"
    /\ source'.status \notin Successes \union {"running"} => Standing' = "idle"
BY SMT DEF Standing, Successes

LEMMA LedgerRests ==
    ASSUME Entries' = Entries, Standing' = Standing, asked' = asked
    PROVE  UNCHANGED Ledger!ledger
BY DEF Ledger!ledger, Entries

\* One attempt is closed or put off; the source stays unless it ran under it.
LEMMA LedgerCloses ==
    ASSUME Shapes, NEW e \in Attempts, NEW s \in Statuses \ InFlight, exec' = [exec EXCEPT ![e] = s],
           exec[e] \in Active, s = "retrying" => exec[e] \in InFlight, s # "succeeded", asked' = asked,
           Standing' = IF source.status = "running" /\ e = Len(exec) THEN "idle" ELSE Standing
    PROVE  Ledger!LedgerNext
<1>1. Entries' = [Entries EXCEPT ![e] = Entry(s)] /\ Len(Entries) = Len(exec) /\ DOMAIN Entries = Attempts
  BY EntryWritten, EntriesAre
<1>2. Entries[e] \in {"open", "waiting"} /\ (exec[e] \in InFlight => Entries[e] = "open")
  BY EntriesAre DEF Entry, Active
<1>3. (s = "retrying" /\ Entry(s) = "waiting") \/ Entry(s) \in Ended \ {"succeeded"}
  BY DEF Entry, Statuses, Ended, InFlight
<1>4. Ledger!Runs(e) <=> source.status = "running" /\ e = Len(exec)
  BY <1>1, StandingIs DEF Ledger!Runs, Entries
<1>5. Ledger!Closed(e)
  <2>1. \/ /\ Entries[e] \in {"open", "waiting"}
           /\ \E how \in Ledger!Closings \ {"succeeded"} : Entries' = [Entries EXCEPT ![e] = how]
        \/ /\ Entries[e] = "open"
           /\ Entries' = [Entries EXCEPT ![e] = "waiting"]
    BY <1>1, <1>2, <1>3 DEF Ledger!Closings, Ended
  <2>2. Standing' = IF Ledger!Runs(e) THEN "idle" ELSE Standing
    BY <1>4
  <2> QED
    BY <2>1, <2>2 DEF Ledger!Closed, Entries
<1>6. e \in DOMAIN Entries
  BY <1>1
<1> QED
  BY <1>5, <1>6 DEF Ledger!LedgerNext, Entries

LEMMA LedgerSucceeds ==
    ASSUME Shapes, NEW e \in Attempts, Concludes(e, "succeeded")
    PROVE  asked' = asked => Ledger!LedgerNext
<1>1. /\ source.status = "running" /\ e = Len(exec) /\ exec[e] = "running"
      /\ exec' = [exec EXCEPT ![e] = "succeeded"]
  BY Zenon DEF Concludes, Holds, Owns
<1>2. Standing = "running" /\ Standing' = "succeeded"
  <2>1. source'.status = Outcome("succeeded")
    BY ConcludesShapes DEF DomainStatuses, Ended
  <2>2. Outcome("succeeded") \in Successes
    BY SMT DEF Outcome, Successes
  <2> QED
    BY <1>1, <2>1, <2>2, StandingIs, StandingNext
<1>3. Entries[e] = "open" /\ Entries' = [Entries EXCEPT ![e] = "succeeded"] /\ Len(Entries) = Len(exec) /\ e \in DOMAIN Entries
  <2>1. "succeeded" \in Statuses /\ Entry("succeeded") = "succeeded" /\ Entry("running") = "open"
    BY DEF Statuses, Ended, InFlight, Entry
  <2>2. Entries' = [Entries EXCEPT ![e] = "succeeded"]
    BY <1>1, <2>1, EntryWritten
  <2>3. Entries[e] = "open" /\ Len(Entries) = Len(exec) /\ e \in DOMAIN Entries
    BY <1>1, <2>1, EntriesAre
  <2> QED
    BY <2>2, <2>3
<1>4. Ledger!Runs(e)
  BY <1>1, <1>2, <1>3 DEF Ledger!Runs, Entries
<1>5. asked' = asked => Ledger!Succeeded(e)
  BY <1>2, <1>3, <1>4 DEF Ledger!Succeeded, Entries
<1> QED
  BY <1>3, <1>5 DEF Ledger!LedgerNext, Entries

LEMMA LedgerGrants ==
    ASSUME Shapes, OnlyTheLast, Claimed, asked' = asked
    PROVE  Ledger!LedgerNext
<1>1. \A e \in Attempts : exec[e] \notin InFlight
  BY DEF Claimed, CanClaim, Suppresses, OnlyTheLast, LastInFlight, Last, Attempts, Shapes
<1>2. Standing = "idle" /\ Standing' = "running"
  <2>1. source.status \notin Successes \union {"running"}
    BY SMT DEF Claimed, CanClaim, Claimable, Successes
  <2>2. source'.status = "running"
    BY DEF Claimed, Shapes
  <2> QED
    BY <2>1, <2>2, StandingIs, StandingNext
<1>3. \A e \in DOMAIN Entries : Entries[e] # "open"
  BY <1>1, EntriesAre, EntryIs, Numbered
<1>4. Entries' = Append(Entries, "open")
  <2>1. /\ Attempts' = 1..(Len(exec) + 1) /\ exec'[Len(exec) + 1] = "queued" /\ Len(exec) \in Nat /\ Attempts = 1..Len(exec)
        /\ \A e \in Attempts : exec'[e] = exec[e]
    BY DEF Claimed, Shapes, Attempts
  <2>2. Entries' = [e \in 1..(Len(exec) + 1) |-> IF e = Len(exec) + 1 THEN "open" ELSE Entries[e]]
    BY <2>1 DEF Entries, Entry, InFlight
  <2>3. Append(Entries, "open") = [e \in 1..(Len(exec) + 1) |-> IF e = Len(exec) + 1 THEN "open" ELSE Entries[e]]
    <3> DEFINE f == Entries
               g == Append(f, "open")
    <3>1. f \in Seq(EntryStates) /\ Len(f) = Len(exec)
      BY EntriesAre
    <3>2. "open" \in EntryStates
      BY DEF EntryStates
    <3> HIDE DEF f, EntryStates
    <3>3. g \in Seq(EntryStates) /\ Len(g) = Len(exec) + 1
      BY <3>1, <3>2
    <3>4. \A e \in 1..(Len(exec) + 1) : g[e] = IF e = Len(exec) + 1 THEN "open" ELSE f[e]
      BY <3>1, <2>1
    <3> HIDE DEF g
    <3>5. g = [e \in 1..(Len(exec) + 1) |-> IF e = Len(exec) + 1 THEN "open" ELSE f[e]]
      BY <3>3, <3>4
    <3> QED
      BY <3>5 DEF f, g
  <2> QED
    BY <2>2, <2>3
<1>5. Ledger!Granted
  BY <1>2, <1>3, <1>4 DEF Ledger!Granted, Ledger!NoneOpen, Entries
<1> QED
  BY <1>5 DEF Ledger!LedgerNext

\* A step that leaves the executions and the kind of source it is alone.
LEMMA LedgerStill ==
    ASSUME exec' = exec, asked' = asked,
           \/ source' = source
           \/ source.status \notin Successes \union {"running"} /\ source'.status \notin Successes \union {"running"}
    PROVE  UNCHANGED Ledger!ledger
<1>1. Entries' = Entries
  BY DEF Entries, Attempts
<1>2. Standing' = Standing
  BY StandingIs, StandingNext
<1> QED
  BY <1>1, <1>2, LedgerRests

LEMMA LedgerChild ==
    ASSUME IInv, Bounded, NEW e \in Attempts, WorkerStep(e)
    PROVE  Ledger!LedgerNext \/ UNCHANGED Ledger!ledger
<1> USE DEF IInv, Bounded
<1>0. asked' = asked
  BY Zenon DEF WorkerStep, Begin, TurnAway, OpenItem, CloseItem, CommitBegins, CommitReaches, CommitMarked, Refresh,
               Conclude, Fail, Reports, MarksFailure, world
<1>1. CASE Begin(e)
  <2>1. source' = source
    BY <1>1, Zenon DEF Begin
  <2>2. CASE exec[e] = "queued" /\ exec' = [exec EXCEPT ![e] = "running"]
    <3>1. "running" \in Statuses /\ Entry("running") = "open" /\ Entry("queued") = "open"
      BY DEF Statuses, InFlight, Entry
    <3>2. Entries' = [Entries EXCEPT ![e] = "open"] /\ Entries[e] = "open"
      BY <2>2, <3>1, EntryWritten, EntriesAre
    <3>3. Entries' = Entries
      BY <3>2 DEF Entries
    <3> QED
      BY <1>0, <2>1, <3>3, StandingIs, LedgerRests
  <2> QED
    BY <1>0, <1>1, <2>1, <2>2, BeginIs, LedgerStill, Zenon
<1>2. CASE Refused
  BY <1>0, <1>2, LedgerStill, Zenon DEF Refused
<1>3. ASSUME NEW s \in DomainStatuses, Concludes(e, s) PROVE Ledger!LedgerNext
  <2>1. CASE s = "succeeded"
    BY <1>0, <1>3, <2>1, LedgerSucceeds
  <2>2. CASE s # "succeeded"
    <3>1. /\ source.status = "running" /\ e = Len(exec) /\ exec[e] = "running"
          /\ exec' = [exec EXCEPT ![e] = s]
      BY <1>3, Zenon DEF Concludes, Holds, Owns
    <3>2. Standing' = "idle"
      <4>1. source'.status = Outcome(s)
        BY <1>3, ConcludesShapes
      <4>2. Outcome(s) \notin Successes \union {"running"}
        BY <2>2, OutcomeIs DEF Successes
      <4> QED
        BY <4>1, <4>2, StandingNext
    <3>3. s \in Statuses \ InFlight /\ exec[e] \in Active /\ exec[e] \in InFlight
      BY <3>1, DomainAreStatuses DEF Active, InFlight
    <3> QED
      BY <1>0, <2>2, <3>1, <3>2, <3>3, LedgerCloses
  <2> QED
    BY <2>1, <2>2
<1> QED
  BY <1>1, <1>2, <1>3, ChildConcludes, Zenon

LEMMA LedgerRecovers ==
    ASSUME IInv, Bounded, NEW e \in Attempts, RecoverStale(e) \/ RecoverRetrying(e)
    PROVE  Ledger!LedgerNext
<1> USE DEF IInv, Bounded
<1>0. asked' = asked
  BY Zenon DEF RecoverStale, RecoverRetrying, world
<1>1. RecoversFit(e)
  BY StaleFits, RetryingFits, Zenon DEF OnlyTheLast
<1>2. PICK s \in Statuses \ InFlight :
          exec' = [exec EXCEPT ![e] = s] /\ s # "succeeded" /\ (s = "retrying" => exec[e] \in InFlight)
  BY <1>1, Zenon DEF RecoversFit
<1>3. exec[e] \in Active
  BY <1>1, Zenon DEF RecoversFit
<1>4. ASSUME source'.status \notin Successes \union {"running"}, source.status \notin Successes,
             source.status = "running" => e = Len(exec)
      PROVE  Standing' = IF source.status = "running" /\ e = Len(exec) THEN "idle" ELSE Standing
  BY <1>4, StandingIs, StandingNext
<1>5. source.status \in Successes => source.status \in Terminal
  BY SMT DEF ProcessedFits, SucceededFits, Successes, Terminal, Shapes, Kinds
<1>6. Standing' = IF source.status = "running" /\ e = Len(exec) THEN "idle" ELSE Standing
  <2>1. CASE source' = source /\ (source.status = "running" /\ source.token = e => Len(exec) # e)
    <3>1. ~(source.status = "running" /\ e = Len(exec))
      BY <2>1 DEF RunningIsInFlight
    <3> QED
      BY <2>1, <3>1, StandingIs
  <2>2. CASE /\ Len(exec) = e /\ source.status \notin Terminal \union {"cancel_requested"}
             /\ source' = [source EXCEPT !.status = "failed_permanent", !.error_type = "none", !.error = "none"]
    <3>1. source'.status = "failed_permanent"
      BY <2>2 DEF Shapes
    <3> QED
      BY <1>4, <1>5, <2>2, <3>1 DEF Successes
  <2>3. CASE /\ Owns(e)
             /\ source' = [source EXCEPT !.status = Outcome("retrying"), !.token = 0,
                                         !.error_type = IF kind = "run" THEN "none" ELSE @, !.error = "none"]
    <3>1. source'.status = Outcome("retrying") /\ source.status = "running" /\ e = Len(exec)
      BY <2>3 DEF Shapes, Owns
    <3>2. Outcome("retrying") \notin Successes \union {"running"}
      BY OutcomeIs DEF DomainStatuses, Successes
    <3> QED
      BY <1>4, <3>1, <3>2 DEF Successes
  <2>4. CASE source.status # "running" /\ Redispatch
    <3>1. source'.status = "queued" /\ source.status \notin Terminal
      BY <2>4 DEF Redispatch, Shapes
    <3> QED
      BY <1>4, <1>5, <2>4, <3>1 DEF Successes
  <2> QED
    BY <1>1, <2>1, <2>2, <2>3, <2>4, Zenon DEF RecoversFit
<1> QED
  BY <1>0, <1>2, <1>3, <1>6, LedgerCloses

LEMMA LedgerGivesUp ==
    ASSUME IInv, FinalizeCancel
    PROVE  Ledger!LedgerNext
<1> USE DEF IInv
<1>1. /\ source.status = "cancel_requested" /\ \A e \in Attempts : exec[e] \notin InFlight
      /\ exec' = [e \in Attempts |-> IF exec[e] = "retrying" THEN "cancelled" ELSE exec[e]]
      /\ asked' = asked
  BY Zenon DEF FinalizeCancel, world
<1>2. source'.status = "cancelled"
  BY DEF FinalizeCancel, Shapes
<1>3. Standing = "idle" /\ Standing' = "idle"
  BY <1>1, <1>2, StandingIs, StandingNext DEF Successes
<1>4. \A e \in DOMAIN Entries : Entries[e] # "open"
  BY <1>1, EntriesAre, EntryIs, Numbered
<1>5. Attempts' = Attempts
  BY <1>1 DEF Attempts
<1>6. Entries' = [e \in DOMAIN Entries |-> IF Entries[e] = "waiting" THEN "cancelled" ELSE Entries[e]]
  <2>1. \A e \in Attempts : Entry(exec'[e]) = IF Entry(exec[e]) = "waiting" THEN "cancelled" ELSE Entry(exec[e])
    <3>1. Entry("cancelled") = "cancelled"
      BY DEF Entry, InFlight
    <3>2. \A e \in Attempts : Entry(exec[e]) = "waiting" <=> exec[e] = "retrying"
      BY EntryIs, Numbered
    <3>3. \A e \in Attempts : exec'[e] = IF exec[e] = "retrying" THEN "cancelled" ELSE exec[e]
      BY <1>1
    <3> HIDE DEF Entry
    <3> QED
      BY <3>1, <3>2, <3>3
  <2> QED
    BY <1>5, <2>1 DEF Entries
<1>7. Ledger!GivenUp
  BY <1>1, <1>3, <1>4, <1>6 DEF Ledger!GivenUp, Ledger!NoneOpen, Entries
<1> QED
  BY <1>7 DEF Ledger!LedgerNext

LEMMA LedgerStep ==
    ASSUME IInv, Bounded, [Next]_vars
    PROVE  [Ledger!LedgerNext]_(Ledger!ledger)
<1> USE DEF IInv, Bounded
<1>1. CASE Claim
  <2>1. CASE UNCHANGED <<exec, worker, source>>
    BY <1>1, <2>1, ClaimClaims, LedgerStill, Zenon
  <2> QED
    BY <1>1, <2>1, ClaimClaims, LedgerGrants, Zenon
<1>2. CASE \E e \in Attempts : WorkerStep(e)
  BY <1>2, LedgerChild, Zenon
<1>3. CASE \E e \in Attempts : RecoverStale(e) \/ RecoverRetrying(e)
  BY <1>3, LedgerRecovers, Zenon
<1>4. CASE FinalizeCancel
  BY <1>4, LedgerGivesUp
<1>5. CASE RecoverSource
  <2>1. source.status # "running"
    <3>1. exec # <<>> => Len(exec) \in Attempts
      BY DEF Shapes, Attempts
    <3> QED
      BY <1>5, <3>1, Zenon DEF RecoverSource, RunningIsInFlight, Active
  <2>2. source.status \notin Successes /\ source'.status = "queued"
    BY <1>5, <2>1 DEF RecoverSource, Claimable, Redispatch, Shapes, Successes
  <2>3. exec' = exec /\ asked' = asked
    BY <1>5, Zenon DEF RecoverSource, world
  <2> QED
    BY <2>1, <2>2, <2>3, LedgerStill DEF Successes
<1>6. CASE ReleaseBlocked
  <2>1. source.status = "blocked" /\ source'.status \in {"pending", "queued"}
    BY <1>6 DEF ReleaseBlocked, Shapes
  <2>2. exec' = exec /\ asked' = asked
    BY <1>6, Zenon DEF ReleaseBlocked, world
  <2> QED
    BY <2>1, <2>2, LedgerStill DEF Successes
<1>7. CASE AdminWrites
  <2>1. asked # "nothing" /\ asked' = "nothing" /\ exec' = exec
    BY <1>7, Zenon DEF AdminWrites
  <2>2. source'.status \in {"pending", "blocked", "cancel_requested"}
    BY <1>7 DEF AdminWrites, Shapes
  <2>3. Standing' = "idle"
    BY <2>2, StandingNext DEF Successes
  <2>4. Entries' = Entries
    BY <2>1 DEF Entries, Attempts
  <2>5. Ledger!Overridden
    BY <2>1, <2>3, <2>4 DEF Ledger!Overridden, Entries
  <2> QED
    BY <2>5 DEF Ledger!LedgerNext
<1>8. CASE AdminAsks
  <2>1. asked = "nothing" /\ asked' # "nothing" /\ exec' = exec /\ source' = source
    BY <1>8, Zenon DEF AdminAsks
  <2>2. Entries' = Entries /\ Standing' = Standing
    BY <2>1, StandingIs DEF Entries, Attempts
  <2>3. Ledger!Requested
    BY <2>1, <2>2 DEF Ledger!Requested, Entries
  <2> QED
    BY <2>3 DEF Ledger!LedgerNext
<1>9. CASE (\E e \in Attempts : Dies(e)) \/ LoseJob \/ OthersEdit \/ GateCloses \/ GateOpens \/ RetryDue \/ UNCHANGED vars
  <2>1. exec' = exec /\ source' = source /\ asked' = asked
    BY <1>9, Zenon DEF Dies, LoseJob, OthersEdit, GateCloses, GateOpens, RetryDue, vars, world
  <2> QED
    BY <2>1, LedgerStill
<1> QED
  BY <1>1, <1>2, <1>3, <1>4, <1>5, <1>6, <1>7, <1>8, <1>9, Steps, Zenon DEF Elsewhere

\* Attempts and source keep the promise of AttemptLedger: one attempt at a time, each
\* closed once, and the source settled by the attempt that runs it, in the step that
\* closes the attempt, or taken away by an administrator.
THEOREM ImplementsLedger == Spec => KeepsLedger
<1>1. Init => Ledger!LedgerInit
  <2> SUFFICES ASSUME Init PROVE Ledger!LedgerInit
    OBVIOUS
  <2>1. Attempts = {} /\ Standing = "idle" /\ asked = "nothing"
    BY DEF Init, Attempts, Standing
  <2>2. Entries = <<>>
    BY <2>1 DEF Entries
  <2> QED
    BY <2>1, <2>2 DEF Ledger!LedgerInit, Entries
<1>2. Spec => [](IInv /\ Bounded)
  <2>1. Init => IInv /\ Bounded
    BY InitIInv, InitBounded
  <2>2. IInv /\ Bounded /\ [Next]_vars => (IInv /\ Bounded)'
    BY NextIInv, BoundedKept
  <2> QED
    BY <2>1, <2>2, PTL DEF Spec
<1>3. IInv /\ Bounded /\ [Next]_vars => [Ledger!LedgerNext]_(Ledger!ledger)
  BY LedgerStep
<1> QED
  BY <1>1, <1>2, <1>3, PTL DEF Spec, KeepsLedger, Ledger!LedgerSpec
=============================================================================
