---------------------------- MODULE StagedBatch ----------------------------
(***************************************************************************)
(* One staged document batch: the document runs of a poll whose candidates *)
(* are all decided (PollCandidates), worked through in global phases by    *)
(* one child at a time.                                                    *)
(*                                                                         *)
(* Laravel seals the target set and links its runs to one command          *)
(* (StagedDocumentBatchDispatcher).  Each attempt is a Python child under  *)
(* the command's fence (actors/document_batch, actors/document): it brings *)
(* every run that has not succeeded through a phase before any run enters  *)
(* the next.  A child may be taken for dead and go on; what it still       *)
(* writes is refused, because each write locks the command row by version  *)
(* and token.  The attempt protocol itself is the subject of               *)
(* ActorExecution; here a queued command is claimed and a running one is   *)
(* recovered in one step each.                                             *)
(***************************************************************************)
EXTENDS PollCandidates

\* A blocked batch that is released is claimed again whatever its attempts.
MaxIssued == MaxAttempts + MaxClosings + 1

\* The item types of a run, in the order the whole set goes through them.
Phases == <<"paperless_fetch", "embedding", "ocr", "classification", "judge", "review_suggestion">>
FetchPhase == 1
EmbeddingPhase == 2
OcrPhase == 3
ReviewPhase == 6
\* The phases in which the items are found by the document (observe_phase).
Observed == EmbeddingPhase..(ReviewPhase - 1)
\* "complete": succeeded or, for ocr and judge, skipped.
ItemStatuses == {"absent", "running", "complete", "failed"}
Settled == {"succeeded", "failed_permanent"}

VARIABLES
    command,    \* the staged_document_batch command: status and token (the attempt)
    batch,      \* the runs that are linked to it
    items,      \* of each run and phase: status, and the attempt that opened it last
    embedded,   \* documents whose target embedding is stored
    suggested,  \* runs whose review suggestion is stored
    child       \* the Python child of each attempt

vars == <<polling, handoff, command, batch, runs, items, embedded, suggested, child, gate, bound>>
rows == <<runs, items, embedded, suggested>>
origin == <<polling, handoff, batch>>

Attempts == DOMAIN child
Children == [at : {"launched", "turned_away", "next", "inside", "made", "closed", "failing", "gone"},
             todo : SUBSET Runs, phase : 1..(Len(Phases) + 1), left : SUBSET Runs,
             verdict : {"none", "retrying", "failed_permanent"}]

TypeOK ==
    /\ PollTypeOK
    /\ command \in [status : {"none", "blocked", "queued", "running", "pending"} \union Settled, token : 0..MaxIssued]
    /\ batch \subseteq Runs
    /\ items \in [Runs -> [DOMAIN Phases -> [status : ItemStatuses, by : 0..MaxIssued]]]
    /\ embedded \subseteq Runs
    /\ suggested \subseteq Runs
    /\ child \in Seq(Children)
    /\ Len(child) <= MaxIssued

Init ==
    /\ PollInit
    /\ command = [status |-> "none", token |-> 0]
    /\ batch = {}
    /\ items = [d \in Runs |-> [p \in DOMAIN Phases |-> [status |-> "absent", by |-> 0]]]
    /\ embedded = {} /\ suggested = {}
    /\ child = <<>>

-----------------------------------------------------------------------------
(* Laravel: dispatch, claim, recovery, release.                            *)

\* dispatchForPollCommand: one command per poll, once its target set is sealed,
\* with every target attached.  A command that waits for its next attempt takes
\* up targets that came too late; otherwise they are left.
Sealed == poll.status = "succeeded" /\ \A d \in Runs : candidate[d].status \notin Unsealed
Targets == {d \in Runs \ batch : runs[d] \in {"pending", "blocked"}}
Attach == /\ batch' = batch \union Targets
          /\ command' = [command EXCEPT !.status = IF \E d \in Targets : runs[d] = "blocked" THEN "blocked" ELSE "queued"]
\* Mutant: the target set is not asked to be sealed.
DispatchUnsealed ==
    /\ command.status \in {"none", "pending"} /\ poll.status = "succeeded" /\ Targets # {}
    /\ Attach
    /\ UNCHANGED <<polling, handoff, rows, child, gate, bound>>
Dispatch ==
    /\ command.status \in {"none", "pending"} /\ Sealed /\ Targets # {}
    /\ Attach
    /\ UNCHANGED <<polling, handoff, rows, child, gate, bound>>

Claim ==
    /\ command.status = "queued"
    /\ Len(child) < MaxIssued
    /\ command' = [status |-> "running", token |-> Len(child) + 1]
    /\ child' = Append(child, [at |-> "launched", todo |-> {}, phase |-> FetchPhase, left |-> {}, verdict |-> "none"])
    /\ UNCHANGED <<origin, rows, gate, bound>>

\* A child that is gone, or silent for an hour on another host.
TakenForDead ==
    /\ command.status = "running"
    /\ \/ child[command.token].at = "gone" /\ UNCHANGED bound
       \/ /\ child[command.token].at # "gone" /\ bound.crash > 0
          /\ bound' = [bound EXCEPT !.crash = @ - 1]
\* Its attempt is handed over; the last one takes the children with it.
\* Mutant: the children are left as they are.
RecoverCommandOnly ==
    /\ TakenForDead
    /\ command' = [status |-> IF command.token >= MaxAttempts THEN "failed_permanent" ELSE "queued", token |-> 0]
    /\ UNCHANGED <<origin, rows, child, gate>>
Recover ==
    /\ TakenForDead
    /\ IF command.token >= MaxAttempts
         THEN /\ command' = [status |-> "failed_permanent", token |-> 0]
              /\ runs' = [d \in Runs |-> IF d \in batch /\ runs[d] \notin Settled THEN "failed_permanent" ELSE runs[d]]
         ELSE /\ command' = [status |-> "queued", token |-> 0]
              /\ UNCHANGED runs
    /\ UNCHANGED <<origin, items, embedded, suggested, child, gate>>

\* The backoff of a retrying attempt is over.
Redispatch ==
    /\ command.status = "pending"
    /\ command' = [command EXCEPT !.status = "queued"]
    /\ UNCHANGED <<origin, rows, child, gate, bound>>

\* Found by one blocked run; all of them and the command go back together.
ReleaseBlocked ==
    /\ gate = "open"
    /\ command.status = "blocked"
    /\ \E d \in batch : runs[d] = "blocked"
    /\ runs' = [d \in Runs |-> IF d \in batch /\ runs[d] = "blocked" THEN "pending" ELSE runs[d]]
    /\ command' = [command EXCEPT !.status = "queued"]
    /\ UNCHANGED <<origin, items, embedded, suggested, child, gate, bound>>

-----------------------------------------------------------------------------
(* The Python child.                                                       *)

\* ensure_staged_batch_active, and the lock every write of a child takes.
Owns(e) == command.status = "running" /\ command.token = e
At(e, place) == child[e].at = place
\* A child on its way out has forgotten how far it was; one that failed for good
\* leaves the runs it knew on record.
Gone(e) == child' = [child EXCEPT ![e] = [at |-> "gone", todo |-> {}, phase |-> FetchPhase, left |-> {}, verdict |-> "none"]]
\* A child takes its runs through one phase after the other, each time in order of id.
RunOf(e) == Min(child[e].left)
PhaseOf(e) == child[e].phase
Finished(e) == PhaseOf(e) = Len(Phases) + 1 \/ child[e].todo = {}
NextRun(e) ==
    LET last == child[e].left = {RunOf(e)} IN
    child' = [child EXCEPT ![e] = [at |-> "next", todo |-> child[e].todo, verdict |-> "none",
                                   phase |-> IF last THEN PhaseOf(e) + 1 ELSE PhaseOf(e),
                                   left |-> IF last THEN child[e].todo ELSE child[e].left \ {RunOf(e)}]]
Moves(e, place) == child' = [child EXCEPT ![e] = [@ EXCEPT !.at = place]]
\* One run of those that are left is turned away or marked.
OneLess(e) == child' = [child EXCEPT ![e] = [@ EXCEPT !.left = child[e].left \ {RunOf(e)}]]

\* run_by_document_id: where the item is found by the document, the last run of
\* the document in the target set gets it.
ItemRun(e) ==
    IF PhaseOf(e) \in Observed THEN Max({n \in child[e].todo : document[n] = document[RunOf(e)]})
    ELSE RunOf(e)

\* What a step writes: the item of its phase, its run, a stored result.
ItemOpened(e) == [items EXCEPT ![ItemRun(e)][PhaseOf(e)] = [status |-> "running", by |-> e]]
ItemClosed(e, status) == [items EXCEPT ![ItemRun(e)][PhaseOf(e)].status = status]
RunMarked(d, status) == [runs EXCEPT ![d] = status]
EmbeddingStored(e) == IF PhaseOf(e) = EmbeddingPhase THEN embedded \union {document[RunOf(e)]} ELSE embedded
SuggestionStored(e) == IF PhaseOf(e) = ReviewPhase THEN suggested \union {RunOf(e)} ELSE suggested

\* A fence that is lost stops the child where it is, without another write.
LosesFence(e) == ~Owns(e) /\ Gone(e) /\ UNCHANGED rows

\* The shared lease is taken, readiness read on its session, the execution
\* started and the target set listed.  Runs that succeeded are not repeated.
Start(e) ==
    /\ At(e, "launched")
    /\ \/ LosesFence(e)
       \/ /\ Owns(e)
          /\ LET todo == {d \in batch : runs[d] # "succeeded"} IN
             child' = [child EXCEPT ![e] =
                         [at |-> IF gate = "open" \/ todo = {} THEN "next" ELSE "turned_away",
                          todo |-> todo, phase |-> FetchPhase, left |-> todo, verdict |-> "none"]]
          /\ UNCHANGED rows
    /\ UNCHANGED <<origin, command, gate, bound>>

\* Every remaining run is blocked, one transaction each, and then the command.
\* Mutant: the command is blocked first.
TurnAwayCommandFirst(e) ==
    /\ At(e, "turned_away") /\ Owns(e)
    /\ command' = [status |-> "blocked", token |-> 0]
    /\ Gone(e)
    /\ UNCHANGED <<origin, rows, gate, bound>>
TurnAway(e) ==
    /\ At(e, "turned_away")
    /\ \/ LosesFence(e) /\ UNCHANGED command
       \/ /\ Owns(e) /\ child[e].left # {}
          /\ runs' = RunMarked(RunOf(e), "blocked")
          /\ OneLess(e)
          /\ UNCHANGED <<command, items, embedded, suggested>>
       \/ /\ Owns(e) /\ child[e].left = {}
          /\ command' = [status |-> "blocked", token |-> 0]
          /\ Gone(e)
          /\ UNCHANGED rows
    /\ UNCHANGED <<origin, gate, bound>>

\* The run is marked running (not for the last phase) and its item opened.
\* Mutant: the item is opened without asking for the fence.
OpenUnfenced(e) ==
    /\ At(e, "next") /\ ~Finished(e)
    /\ items' = ItemOpened(e)
    /\ Moves(e, "inside")
    /\ UNCHANGED <<origin, command, runs, embedded, suggested, gate, bound>>
Open(e) ==
    /\ At(e, "next") /\ ~Finished(e)
    /\ \/ LosesFence(e)
       \/ /\ Owns(e)
          /\ runs' = IF PhaseOf(e) # ReviewPhase THEN RunMarked(ItemRun(e), "running") ELSE runs
          /\ items' = ItemOpened(e)
          /\ Moves(e, "inside")
          /\ UNCHANGED <<embedded, suggested>>
    /\ UNCHANGED <<origin, command, gate, bound>>

\* The call of the phase returned.  After a model call the fence is asked again,
\* and what is stored is stored under it.  Everything that goes wrong in OCR is
\* caught there, a lost fence included: the next step will notice it.
\* Mutant: an embedding that could not be stored is passed over.
WorkLenient(e) ==
    /\ At(e, "inside") /\ Owns(e)
    /\ \/ embedded' = EmbeddingStored(e)
       \/ embedded' = embedded
    /\ suggested' = SuggestionStored(e)
    /\ Moves(e, "made")
    /\ UNCHANGED <<origin, command, runs, items, gate, bound>>
Work(e) ==
    /\ At(e, "inside")
    /\ \/ PhaseOf(e) \notin {FetchPhase, OcrPhase} /\ LosesFence(e)
       \/ /\ PhaseOf(e) \in {FetchPhase, OcrPhase} \/ Owns(e)
          /\ embedded' = EmbeddingStored(e)
          /\ suggested' = SuggestionStored(e)
          /\ Moves(e, "made")
          /\ UNCHANGED <<runs, items>>
    /\ UNCHANGED <<origin, command, gate, bound>>

\* The item is closed if this attempt still is the one that opened it.
Close(e) ==
    /\ At(e, "made")
    /\ \/ LosesFence(e)
       \/ /\ Owns(e)
          /\ items[ItemRun(e)][PhaseOf(e)].by = e
          /\ items' = ItemClosed(e, "complete")
          /\ IF PhaseOf(e) = ReviewPhase THEN Moves(e, "closed")
             ELSE NextRun(e)
          /\ UNCHANGED <<runs, embedded, suggested>>
    /\ UNCHANGED <<origin, command, gate, bound>>

MarkSucceeded(e) ==
    /\ At(e, "closed")
    /\ \/ LosesFence(e)
       \/ /\ Owns(e)
          /\ runs' = RunMarked(RunOf(e), "succeeded")
          /\ NextRun(e)
          /\ UNCHANGED <<items, embedded, suggested>>
    /\ UNCHANGED <<origin, command, gate, bound>>

\* All runs are through -- or had been before this attempt.
Conclude(e) ==
    /\ At(e, "next") /\ Finished(e)
    /\ \/ LosesFence(e) /\ UNCHANGED command
       \/ /\ Owns(e)
          /\ command' = [status |-> "succeeded", token |-> 0]
          /\ Gone(e)
          /\ UNCHANGED rows
    /\ UNCHANGED <<origin, gate, bound>>

\* A call fails: the open item is closed as failed if that succeeds, and every
\* run of this attempt, those that already succeeded in it included, will follow.
\* An attempt that could not read its target set knows of no runs.
Fail(e) ==
    /\ \/ child[e].at \in {"launched", "turned_away", "next", "made", "closed"}
       \/ At(e, "inside") /\ PhaseOf(e) # OcrPhase
    /\ \/ Owns(e) /\ child[e].at \in {"inside", "made"} /\ items[ItemRun(e)][PhaseOf(e)].by = e
          /\ items' = ItemClosed(e, "failed")
       \/ UNCHANGED items
    /\ \E retryable \in BOOLEAN :
         child' = [child EXCEPT ![e] =
                     [at |-> "failing", todo |-> child[e].todo, phase |-> FetchPhase, left |-> child[e].todo,
                      verdict |-> IF retryable /\ e < MaxAttempts THEN "retrying" ELSE "failed_permanent"]]
    /\ UNCHANGED <<origin, command, runs, embedded, suggested, gate, bound>>

\* The runs are marked one by one, then ExecutionLifecycle.fail settles the attempt.
\* Mutant: the command takes the status its runs get.
SettleAlike(e) ==
    /\ At(e, "failing") /\ Owns(e)
    /\ IF child[e].left # {}
         THEN /\ runs' = RunMarked(RunOf(e), child[e].verdict)
              /\ OneLess(e)
              /\ UNCHANGED command
         ELSE /\ command' = [status |-> child[e].verdict, token |-> 0]
              /\ Gone(e)
              /\ UNCHANGED runs
    /\ UNCHANGED <<origin, items, embedded, suggested, gate, bound>>
Settle(e) ==
    /\ At(e, "failing")
    /\ \/ LosesFence(e) /\ UNCHANGED command
       \/ /\ Owns(e) /\ child[e].left # {}
          /\ runs' = RunMarked(RunOf(e), child[e].verdict)
          /\ OneLess(e)
          /\ UNCHANGED <<command, items, embedded, suggested>>
       \/ /\ Owns(e) /\ child[e].left = {} /\ child[e].verdict = "retrying"
          /\ command' = [status |-> "pending", token |-> 0]
          /\ Gone(e)
          /\ UNCHANGED rows
       \/ /\ Owns(e) /\ child[e].left = {} /\ child[e].verdict = "failed_permanent"
          /\ command' = [status |-> "failed_permanent", token |-> 0]
          /\ Moves(e, "gone")
          /\ UNCHANGED rows
    /\ UNCHANGED <<origin, gate, bound>>

Dies(e) ==
    /\ ~At(e, "gone")
    /\ bound.crash > 0
    /\ bound' = [bound EXCEPT !.crash = @ - 1]
    /\ Gone(e)
    /\ UNCHANGED <<origin, command, rows, gate>>

ChildStep(e) == \/ Start(e) \/ TurnAway(e) \/ Open(e) \/ Work(e) \/ Close(e) \/ MarkSucceeded(e)
                \/ Conclude(e) \/ Fail(e) \/ Settle(e)

-----------------------------------------------------------------------------
(* The embedding index: whoever makes it stale or builds it needs the      *)
(* advisory lock that a child shares for as long as it lives.              *)

HoldsLease(e) == child[e].at \notin {"launched", "gone"}
GateCloses ==
    /\ gate = "open"
    /\ bound.closing > 0
    /\ \A e \in Attempts : ~HoldsLease(e)
    /\ gate' = "closed"
    /\ bound' = [bound EXCEPT !.closing = @ - 1]
    /\ UNCHANGED <<origin, command, rows, child>>
GateOpens ==
    /\ gate = "closed"
    /\ gate' = "open"
    /\ UNCHANGED <<origin, command, rows, child, bound>>

Next ==
    \/ PollStep /\ UNCHANGED <<command, batch, items, embedded, suggested, child>>
    \/ Dispatch \/ Claim \/ Recover \/ Redispatch \/ ReleaseBlocked
    \/ \E e \in Attempts : ChildStep(e) \/ Dies(e)
    \/ GateCloses \/ GateOpens

Spec == Init /\ [][Next]_vars

\* Queue workers and the minutely scan run, some child goes on, the index gets ready.
Fairness ==
    /\ PollFairness
    /\ WF_command(Dispatch \/ Claim \/ Recover \/ Redispatch \/ ReleaseBlocked)
    /\ WF_child(\E e \in Attempts : ChildStep(e))
    /\ WF_gate(GateOpens)
FairSpec == Spec /\ Fairness

-----------------------------------------------------------------------------
(* What a batch promises.                                                  *)

\* No attempt takes a run into OCR, classification, judge or review before the
\* target embedding of the document of every run of the set is stored, late ones
\* included (the ordering of _run_staged_document_phases; retries begin again at
\* the fetch).
ContextComesFirst ==
    [][\A d \in Runs, p \in DOMAIN Phases :
         p > EmbeddingPhase /\ items'[d][p].by # items[d][p].by => \A n \in batch : document[n] \in embedded]_vars

\* A later run of the batch is of the same document, and has its middle items.
Shadowed(d) == \E n \in batch : n > d /\ document[n] = document[d]
\* The last attempt failed for good before it had read its target set.
Unread == child # <<>> /\ LET k == child[Len(child)] IN
                          k.at = "gone" /\ k.verdict = "failed_permanent" /\ k.todo = {}

\* A run that succeeded has the embedding of its document, its suggestion and its
\* items complete -- but for the items that a later run of the same document got
\* instead; a batch that succeeded has only such runs, a batch that failed for
\* good leaves none on its way unless its last attempt never knew them, and a
\* blocked one can be found by the release.
RunIsWhole(d) ==
    /\ document[d] \in embedded /\ d \in suggested
    /\ \A p \in DOMAIN Phases : items[d][p].status = "complete" \/ (p \in Observed /\ Shadowed(d))
ChildrenAgree ==
    /\ \A d \in Runs : runs[d] = "succeeded" => RunIsWhole(d)
    /\ command.status = "succeeded" => \A d \in batch : runs[d] = "succeeded"
    /\ command.status = "failed_permanent" => Unread \/ \A d \in batch : runs[d] \in Settled
    /\ command.status = "blocked" => \E d \in batch : runs[d] = "blocked"

\* Once a later attempt has opened an item, no earlier attempt touches it again,
\* and no attempt changes a run, an item or a stored result once the batch is
\* settled: children that were taken for dead are refused by the fence.
NoLateWrites ==
    [][/\ \A d \in Runs, p \in DOMAIN Phases : items'[d][p].by >= items[d][p].by
       /\ command.status \in Settled =>
            /\ UNCHANGED <<items, embedded, suggested>>
            /\ \A d \in batch : runs'[d] = runs[d]]_vars

\* A batch is dispatched with every run its poll has started, and every run of it
\* comes from a completed candidate: nothing is left behind to wait for a batch
\* that has already gone.  Only what a child persisted after it had lost the poll
\* may come too late.
SealedSetIsAttached ==
    command.status # "none" =>
        /\ \A d \in Runs : runs[d] # "absent" /\ candidate[d].owned => d \in batch
        /\ \A d \in batch : candidate[d].status = "completed"

\* What was decided about a candidate stays, although two consumers may hold a
\* lease of it one after the other and both go on.
CandidateStays ==
    [][\A d \in Runs : candidate[d].status \in {"completed", "skipped"} => candidate'[d] = candidate[d]]_vars

\* From the inbox to the batch a document gets one place, with Temporal or with a
\* run here and never with both; its candidate is completed only once it has its
\* place, and decided only once; a batch takes every run that waits, and no
\* candidate is open when it does: CandidateHandoff is implemented.
Stage(d) == CASE candidate[d].status = "none" -> "unseen"
              [] candidate[d].status \in Unsealed -> "open"
              [] OTHER -> candidate[d].status
Place(d) == CASE d \in elsewhere -> IF runs[d] = "absent" THEN "temporal" ELSE "both"
              [] d \in batch -> "batch"
              [] OTHER -> IF runs[d] = "absent" THEN "nowhere" ELSE "waiting"
Stages == [d \in Runs |-> Stage(d)]
Places == [d \in Runs |-> Place(d)]
Handoff == INSTANCE CandidateHandoff WITH Documents <- Runs, stage <- Stages, place <- Places
KeepsHandoff == Handoff!HandoffSpec

\* Whatever dies, fails or is blocked, a poll that started runs has them settled
\* by a batch in the end.
BatchSettles == <>[](command.status \in Settled \/ \A d \in Runs : runs[d] = "absent")
=============================================================================
