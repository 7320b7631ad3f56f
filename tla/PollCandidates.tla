--------------------------- MODULE PollCandidates ---------------------------
(***************************************************************************)
(* A poll of the old kind: from the Paperless inbox to document runs.      *)
(*                                                                         *)
(* A Python child lists the inbox, persists a candidate for every document *)
(* it sees, publishes that it is through and finishes its command          *)
(* (actors/maintenance, jobs/poll_candidates).  Once the command has       *)
(* succeeded, Laravel's consumers -- the queue job that ran the child, and *)
(* the recovery scan -- lease the candidates one by one and start the runs *)
(* (PollCandidateConsumer, DocumentPipelineStarter::start).  The runs wait *)
(* until their batch is dispatched, which is the subject of StagedBatch.   *)
(* What a child persists is not fenced; what a consumer decides is.        *)
(***************************************************************************)
EXTENDS Integers, Sequences, FiniteSets, FiniteSetsExt

CONSTANTS
    NumRuns,        \* what polls may find: a document in one of its versions
    DocumentMaps,   \* which findings may be versions of one document
    MaxAttempts,    \* max_attempts (5 in the code)
    MaxClosings,    \* bound: how often the embedding index stops being ready
    Budgets         \* bounds: how often, in one behaviour, a child or consumer of the poll dies,
                    \* stalls or fails (stall), a child of the batch dies or is silent (crash), and the
                    \* index stops being ready (closing)

ASSUME NumRunsAssumption == NumRuns \in Nat \ {0}
ASSUME AttemptsAssumption == MaxAttempts \in Nat \ {0}
ASSUME BudgetsAssumption ==
    MaxClosings \in Nat /\ Budgets \subseteq [stall : Nat, crash : Nat, closing : 0..MaxClosings]

\* A finding, its candidate and the run that is started for it bear one number.
Runs == 1..NumRuns
ASSUME DocumentsAssumption == DocumentMaps \subseteq [Runs -> Runs]
Consumers == {"job", "scan"}
PollStatuses == {"queued", "running", "succeeded", "skipped", "blocked", "failed_permanent"}
CandidateStatuses == {"none", "ready", "claimed", "completed", "skipped"}
Unsealed == {"ready", "claimed"}
RunStatuses == {"absent", "pending", "blocked", "running", "retrying", "succeeded", "failed_permanent"}

VARIABLES
    poll,       \* the poll command: status, token (the attempt), and whether an attempt said it was through
    poller,     \* the Python child of each attempt
    candidate,  \* poll_candidates: status, claim_version, marker, and whether its child owned the poll
    consumer,   \* what each consumer holds: a candidate, the version of its lease, the run started
    elsewhere,  \* findings that were coalesced with the Temporal run of their document
    document,   \* the document that each finding is a version of
    runs,       \* status of each run; a blocked one names the index
    gate,       \* whether the embedding index is ready
    bound       \* how much of each bound is left

polling == <<poll, poller>>
handoff == <<candidate, consumer, elsewhere, document>>

PollTypeOK ==
    /\ poll \in [status : PollStatuses, token : 0..MaxAttempts, through : BOOLEAN]
    /\ poller \in Seq([at : {"launched", "persisting", "through", "gone"}, left : SUBSET Runs])
    /\ Len(poller) <= MaxAttempts
    /\ candidate \in [Runs -> [status : CandidateStatuses, version : Nat, marked : BOOLEAN, owned : BOOLEAN]]
    /\ consumer \in [Consumers -> [of : 0..NumRuns, version : Nat, started : BOOLEAN]]
    /\ elsewhere \subseteq Runs
    /\ document \in [Runs -> Runs]
    /\ runs \in [Runs -> RunStatuses]
    /\ gate \in {"open", "closed"}
    /\ bound \in [stall : Nat, crash : Nat, closing : 0..MaxClosings]

Free == [of |-> 0, version |-> 0, started |-> FALSE]
PollInit ==
    /\ poll = [status |-> "queued", token |-> 0, through |-> FALSE]
    /\ poller = <<>>
    /\ candidate = [d \in Runs |-> [status |-> "none", version |-> 0, marked |-> FALSE, owned |-> FALSE]]
    /\ consumer = [c \in Consumers |-> Free]
    /\ elsewhere = {} /\ document \in DocumentMaps
    /\ runs = [d \in Runs |-> "absent"]
    /\ gate \in {"open", "closed"}
    /\ bound \in Budgets

Stall == bound.stall > 0 /\ bound' = [bound EXCEPT !.stall = @ - 1]

-----------------------------------------------------------------------------
(* The poll command and its child.                                         *)

ClaimPoll ==
    /\ poll.status = "queued"
    /\ poll' = [poll EXCEPT !.status = "running", !.token = Len(poller) + 1]
    /\ poller' = Append(poller, [at |-> "launched", left |-> {}])
    /\ UNCHANGED <<handoff, runs, gate, bound>>

OwnsPoll(p) == poll.status = "running" /\ poll.token = p
PollEnds(status) == poll' = [poll EXCEPT !.status = status, !.token = 0]
PollerGone(p) == poller' = [poller EXCEPT ![p] = [at |-> "gone", left |-> {}]]

\* Without an inbox tag there is nothing to poll, without an index no poll.  The
\* inbox lists a document once, in the version it has then.
OneVersionEach(listed) == \A d, n \in listed : document[d] = document[n] => d = n
ListInbox(p) ==
    /\ poller[p].at = "launched"
    /\ \/ ~OwnsPoll(p) /\ PollerGone(p) /\ UNCHANGED poll
       \/ OwnsPoll(p) /\ PollerGone(p) /\ PollEnds("skipped")
       \/ OwnsPoll(p) /\ gate = "closed" /\ PollerGone(p) /\ PollEnds("blocked")
       \/ /\ OwnsPoll(p) /\ gate = "open"
          /\ \E listed \in SUBSET Runs :
               OneVersionEach(listed) /\ poller' = [poller EXCEPT ![p] = [at |-> "persisting", left |-> listed]]
          /\ UNCHANGED poll
    /\ UNCHANGED <<handoff, runs, gate, bound>>

\* persist_poll_candidate: idempotent, and not fenced.
PersistCandidate(p) ==
    /\ poller[p].at = "persisting" /\ poller[p].left # {}
    /\ LET d == Min(poller[p].left) IN
       /\ poller' = [poller EXCEPT ![p].left = @ \ {d}]
       /\ \E marked \in BOOLEAN :
            candidate' = [candidate EXCEPT ![d] =
                IF @.status = "none" THEN [status |-> "ready", version |-> 0, marked |-> marked, owned |-> OwnsPoll(p)]
                ELSE @]
    /\ UNCHANGED <<poll, consumer, elsewhere, document, runs, gate, bound>>

\* poll.reconciliation.completed is published before the command is finished.
PublishThrough(p) ==
    /\ poller[p].at = "persisting" /\ poller[p].left = {}
    /\ poller' = [poller EXCEPT ![p].at = "through"]
    /\ poll' = [poll EXCEPT !.through = TRUE]
    /\ UNCHANGED <<handoff, runs, gate, bound>>

FinishPoll(p) ==
    /\ poller[p].at = "through"
    /\ IF OwnsPoll(p) THEN PollEnds("succeeded") ELSE UNCHANGED poll
    /\ PollerGone(p)
    /\ UNCHANGED <<handoff, runs, gate, bound>>

AttemptOver(p) == PollEnds(IF p < MaxAttempts THEN "queued" ELSE "failed_permanent")
FailPoll(p) ==
    /\ poller[p].at # "gone"
    /\ Stall
    /\ \/ OwnsPoll(p) /\ (AttemptOver(p) \/ PollEnds("failed_permanent"))
       \/ ~OwnsPoll(p) /\ UNCHANGED poll
    /\ PollerGone(p)
    /\ UNCHANGED <<handoff, runs, gate>>

PollerDies(p) ==
    /\ poller[p].at # "gone"
    /\ Stall
    /\ PollerGone(p)
    /\ UNCHANGED <<poll, handoff, runs, gate>>

\* A child that is gone, or silent on another host, loses the command.
RecoverPoll ==
    /\ poll.status = "running"
    /\ \/ poller[poll.token].at = "gone" /\ UNCHANGED bound
       \/ poller[poll.token].at # "gone" /\ Stall
    /\ AttemptOver(poll.token)
    /\ UNCHANGED <<poller, handoff, runs, gate>>

\* reconcileCompletedPollCommands: an attempt was through, whatever came of it.
RestorePoll ==
    /\ poll.status = "failed_permanent" /\ poll.through
    /\ PollEnds("succeeded")
    /\ UNCHANGED <<poller, handoff, runs, gate, bound>>

-----------------------------------------------------------------------------
(* The consumers.                                                          *)

\* A lease that somebody still works under runs out only if he stalls.
Held(d) == \E c \in Consumers : consumer[c].of = d /\ consumer[c].version = candidate[d].version
\* Mutant: claimCandidate does not look again at a candidate that the query had found.
LeasableAsFound(d) ==
    \/ candidate[d].status # "none" /\ ~Held(d) /\ candidate[d].version < 3 /\ UNCHANGED bound
    \/ candidate[d].status = "claimed" /\ Held(d) /\ Stall
\* claimCandidate looks again at a candidate that the query had found.
Leasable(d) ==
    \/ candidate[d].status = "ready" /\ UNCHANGED bound
    \/ candidate[d].status = "claimed" /\ ~Held(d) /\ UNCHANGED bound
    \/ candidate[d].status = "claimed" /\ Held(d) /\ Stall
ClaimCandidate(c) ==
    /\ consumer[c] = Free
    /\ poll.status = "succeeded"
    /\ \E d \in Runs :
         /\ Leasable(d)
         /\ candidate' = [candidate EXCEPT ![d] = [@ EXCEPT !.status = "claimed", !.version = candidate[d].version + 1]]
         /\ consumer' = [consumer EXCEPT ![c] = [of |-> d, version |-> candidate[d].version + 1, started |-> FALSE]]
    /\ UNCHANGED <<polling, elsewhere, document, runs, gate>>

\* claimedQuery: the version of the lease must still be the candidate's.
Decides(c, status) ==
    LET d == consumer[c].of IN
    /\ candidate' = IF candidate[d].status = "claimed" /\ candidate[d].version = consumer[c].version
                      THEN [candidate EXCEPT ![d].status = status] ELSE candidate
    /\ consumer' = [consumer EXCEPT ![c] = Free]

SkipMarked(c) ==
    /\ consumer[c].of # 0 /\ candidate[consumer[c].of].marked
    /\ Decides(c, "skipped")
    /\ UNCHANGED <<polling, elsewhere, document, runs, gate, bound>>

\* start with deferDispatch: coalesced with the document's run that Temporal owns,
\* or with the run of an earlier lease; a new run only waits for its batch.
Temporals(d) == \E n \in elsewhere : document[n] = document[d]
StartRun(c) ==
    LET d == consumer[c].of IN
    /\ d # 0 /\ ~consumer[c].started /\ ~candidate[d].marked
    /\ \/ d \in elsewhere /\ UNCHANGED <<runs, elsewhere>>
       \/ runs[d] # "absent" /\ UNCHANGED <<runs, elsewhere>>
       \/ /\ d \notin elsewhere /\ runs[d] = "absent"
          /\ \/ elsewhere' = elsewhere \union {d} /\ UNCHANGED runs
             \/ /\ ~Temporals(d)
                /\ runs' = [runs EXCEPT ![d] = IF gate = "open" THEN "pending" ELSE "blocked"]
                /\ UNCHANGED elsewhere
    /\ consumer' = [consumer EXCEPT ![c].started = TRUE]
    /\ UNCHANGED <<polling, candidate, document, gate, bound>>

CompleteClaim(c) ==
    /\ consumer[c].started
    /\ Decides(c, "completed")
    /\ UNCHANGED <<polling, elsewhere, document, runs, gate, bound>>

StartFails(c) ==
    /\ consumer[c].of # 0 /\ ~consumer[c].started /\ ~candidate[consumer[c].of].marked
    /\ Stall
    /\ Decides(c, "ready")
    /\ UNCHANGED <<polling, elsewhere, document, runs, gate>>

ConsumerDies(c) ==
    /\ consumer[c] # Free
    /\ Stall
    /\ consumer' = [consumer EXCEPT ![c] = Free]
    /\ UNCHANGED <<polling, candidate, elsewhere, document, runs, gate>>

PollerStep(p) == ListInbox(p) \/ PersistCandidate(p) \/ PublishThrough(p) \/ FinishPoll(p)
ConsumerStep(c) == SkipMarked(c) \/ StartRun(c) \/ CompleteClaim(c)
PollStep ==
    \/ ClaimPoll \/ RecoverPoll \/ RestorePoll
    \/ \E p \in DOMAIN poller : PollerStep(p) \/ FailPoll(p) \/ PollerDies(p)
    \/ \E c \in Consumers : ClaimCandidate(c) \/ ConsumerStep(c) \/ StartFails(c) \/ ConsumerDies(c)

\* Queue workers and the minutely scan run, and some child and some consumer goes on.
PollFairness ==
    /\ WF_polling(ClaimPoll \/ RecoverPoll \/ RestorePoll)
    /\ WF_poller(\E p \in DOMAIN poller : PollerStep(p))
    /\ WF_handoff(ClaimCandidate("scan"))
    /\ WF_handoff(\E c \in Consumers : ConsumerStep(c))
=============================================================================
