------------------------ MODULE PollCandidatesProofs ------------------------
(***************************************************************************)
(* What every step of a poll keeps, for any number of findings, attempts   *)
(* and stalls: the types, the fence of the command, and what candidates,   *)
(* leases and runs say about each other.  StagedBatchProofs builds on it.  *)
(***************************************************************************)
EXTENDS PollCandidates, FiniteSetTheorems, TLAPS

\* The command belongs to its newest attempt, and attempts are left when it waits.
PollFence ==
    /\ poll.status = "queued" => Len(poller) < MaxAttempts
    /\ poll.status = "running" => Len(poller) > 0 /\ poll.token = Len(poller)

\* What a candidate says of its run, and its run of it.
Started(d) == runs[d] # "absent" \/ d \in elsewhere
Agrees(d) ==
    /\ runs[d] # "absent" => candidate[d].status # "none" /\ ~candidate[d].marked
    /\ candidate[d].status = "none" => ~candidate[d].owned
    /\ candidate[d].status = "completed" => Started(d)
    /\ candidate[d].status = "skipped" => candidate[d].marked

\* A consumer holds a real candidate, and remembers what it has started.
Remembers(c) ==
    LET d == consumer[c].of IN
    /\ d # 0 => candidate[d].status # "none"
    /\ consumer[c].started => d # 0 /\ Started(d) /\ ~candidate[d].marked

PollInv ==
    /\ PollTypeOK
    /\ PollFence
    /\ \A d \in Runs : Agrees(d)
    /\ \A c \in Consumers : Remembers(c)

-----------------------------------------------------------------------------

\* A nonempty set of runs has a least one.
LEMMA HasLeast == \A S \in SUBSET Runs : S # {} => \E x \in S : \A y \in S : x <= y
  <1> SUFFICES ASSUME NEW S \in SUBSET Runs, S # {} PROVE \E x \in S : \A y \in S : x <= y
    OBVIOUS
  <1> DEFINE UpTo(x) == {y \in S : y <= x}
  <1> DEFINE F == {UpTo(x) : x \in S}
  <1> DEFINE R == StrictSubsetOrdering(Runs)
  <1> DEFINE D == FiniteSubsetsOf(Runs)
  <1>1. IsFiniteSet(Runs)
    BY NumRunsAssumption, FS_Interval DEF Runs
  <1>2. IsWellFoundedOn(R, D)
    BY <1>1, FS_StrictSubsetOrderingWellFounded
  <1>3. F \subseteq D /\ F # {}
    <2>1. \A x \in S : UpTo(x) \in SUBSET Runs
      OBVIOUS
    <2>2. \A x \in S : IsFiniteSet(UpTo(x))
      BY <1>1, <2>1, FS_Subset
    <2> QED
      BY <2>1, <2>2 DEF FiniteSubsetsOf
  <1>4. PICK T \in F : \A U \in F : ~(<<U, T>> \in R)
    <2> HIDE DEF F, R, D
    <2> QED
      BY <1>2, <1>3, WFMin
  <1>5. PICK x \in S : T = UpTo(x)
    BY <1>4
  <1>6. ASSUME NEW y \in S, ~(x <= y) PROVE FALSE
    <2>1. S \subseteq Int
      BY NumRunsAssumption DEF Runs
    <2>2. y < x /\ x \in Int /\ y \in Int /\ x <= x
      BY <2>1, <1>6
    <2>3. \A z \in S : z <= y => z <= x
      BY <2>1, <2>2
    <2>4. UpTo(y) \subseteq UpTo(x) /\ x \in UpTo(x) /\ x \notin UpTo(y)
      BY <2>2, <2>3, <1>6
    <2>5. <<UpTo(y), T>> \in R
      BY <2>4, <1>5 DEF StrictSubsetOrdering
    <2> QED
      BY <2>5, <1>4
  <1> QED
    BY <1>6
LEMMA LeastRun == \A S \in SUBSET Runs : S # {} => Min(S) \in S /\ \A y \in S : Min(S) <= y
  BY HasLeast DEF Min

\* And it has a greatest one: the least of it, counted from the other end.
LEMMA GreatestRun == \A S \in SUBSET Runs : S # {} => Max(S) \in S /\ \A y \in S : Max(S) >= y
  <1> SUFFICES ASSUME NEW S \in SUBSET Runs, S # {} PROVE Max(S) \in S /\ \A y \in S : Max(S) >= y
    OBVIOUS
  <1> DEFINE Other(y) == NumRuns + 1 - y
  <1>1. \A y \in Runs : y \in Int /\ Other(y) \in Runs
    BY NumRunsAssumption DEF Runs
  <1>2. PICK T \in SUBSET Runs : T = {Other(y) : y \in S}
    BY <1>1
  <1>3. PICK t \in T : \A u \in T : t <= u
    BY <1>2, HasLeast
  <1>4. PICK x \in S : t = Other(x)
    BY <1>2, <1>3
  <1>5. ASSUME NEW y \in S PROVE x >= y
    <2>1. Other(x) <= Other(y) /\ x \in Int /\ y \in Int
      BY <1>1, <1>2, <1>3, <1>4
    <2> QED
      BY <2>1, NumRunsAssumption
  <1>6. \E z \in S : \A y \in S : z >= y
    BY <1>4, <1>5
  <1> QED
    BY <1>6 DEF Max

\* A poll begins in the invariant: nothing is claimed, found or started.
LEMMA InitPoll == PollInit => PollInv
  <1> SUFFICES ASSUME PollInit PROVE PollInv
    OBVIOUS
  <1>1. PollTypeOK
    BY AttemptsAssumption, NumRunsAssumption, BudgetsAssumption, DocumentsAssumption
       DEF PollInit, PollTypeOK, PollStatuses, CandidateStatuses, RunStatuses, Consumers, Free
  <1>2. PollFence
    BY AttemptsAssumption DEF PollInit, PollFence
  <1>3. \A d \in Runs : Agrees(d)
    BY DEF PollInit, Agrees
  <1>4. \A c \in Consumers : Remembers(c)
    BY DEF PollInit, Remembers, Free
  <1> QED
    BY <1>1, <1>2, <1>3, <1>4 DEF PollInv

-----------------------------------------------------------------------------
(* The command and its child.                                              *)

\* Every attempt's child is one the code knows.
Pollers == [at : {"launched", "persisting", "through", "gone"}, left : SUBSET Runs]

Polls == [status : PollStatuses, token : 0..MaxAttempts, through : BOOLEAN]
PollTypes ==
    /\ poll \in Polls
    /\ poller \in Seq(Pollers)
    /\ Len(poller) \in Nat
    /\ DOMAIN poller = 1..Len(poller)
    /\ Len(poller) <= MaxAttempts
LEMMA Types == PollTypeOK => PollTypes
  BY DEF PollTypeOK, PollTypes, Polls, Pollers

\* What ending a poll, or an attempt of it, makes of the command.
LEMMA Ends ==
  ASSUME PollTypeOK, NEW status \in PollStatuses, PollEnds(status)
  PROVE  poll' \in Polls /\ poll'.status = status
  <1>1. poll \in Polls /\ 0 \in 0..MaxAttempts
    BY AttemptsAssumption DEF PollTypeOK, Polls
  <1>2. poll' = [status |-> status, token |-> 0, through |-> poll.through]
    BY <1>1 DEF PollEnds, Polls
  <1> QED
    BY <1>1, <1>2 DEF Polls
LEMMA Over ==
  ASSUME PollTypeOK, NEW p \in 1..MaxAttempts, AttemptOver(p)
  PROVE  /\ poll' \in Polls
         /\ poll'.status \in {"queued", "failed_permanent"}
         /\ poll'.status = "queued" => p < MaxAttempts
  BY Ends DEF AttemptOver, PollStatuses

\* Replacing one child's record leaves a sequence of children.
LEMMA OnePoller ==
  ASSUME PollTypeOK, NEW p \in DOMAIN poller, NEW k \in Pollers,
         poller' = [poller EXCEPT ![p] = k]
  PROVE  poller' \in Seq(Pollers) /\ Len(poller') = Len(poller)
  BY Types DEF PollTypes

\* What only the command and its children change leaves the agreement alone.
LEMMA PollerOnly ==
  ASSUME PollInv, UNCHANGED <<handoff, runs>>, PollTypeOK', PollFence'
  PROVE  PollInv'
  BY DEF PollInv, handoff, Agrees, Remembers, Started

\* The command is claimed, its child goes on, fails, dies or is taken for dead.
LEMMA PollerSteps ==
  ASSUME PollInv, NEW p \in DOMAIN poller,
         \/ ListInbox(p) \/ PublishThrough(p) \/ FinishPoll(p) \/ FailPoll(p) \/ PollerDies(p)
  PROVE  PollInv'
  <1>1. PollTypeOK /\ PollFence /\ PollTypes
    BY Types DEF PollInv
  <1>2. p \in 1..Len(poller) /\ p \in 1..MaxAttempts /\ poller[p] \in Pollers
    BY <1>1, AttemptsAssumption DEF PollTypes
  <1>3. PICK k \in Pollers : poller' = [poller EXCEPT ![p] = k]
    <2>1. CASE ListInbox(p)
      BY <1>1, <1>2, <2>1 DEF ListInbox, PollerGone, Pollers
    <2>2. CASE PublishThrough(p)
      <3>1. poller' = [poller EXCEPT ![p] = [poller[p] EXCEPT !.at = "through"]]
        BY <2>2 DEF PublishThrough
      <3> QED
        BY <1>2, <3>1 DEF Pollers
    <2>3. CASE FinishPoll(p) \/ FailPoll(p) \/ PollerDies(p)
      BY <2>3 DEF FinishPoll, FailPoll, PollerDies, PollerGone, Pollers
    <2> QED
      BY <2>1, <2>2, <2>3
  <1>4. poller' \in Seq(Pollers) /\ Len(poller') = Len(poller)
    BY <1>1, <1>3, OnePoller
  <1>5. UNCHANGED <<handoff, runs, gate>>
    BY DEF ListInbox, PublishThrough, FinishPoll, FailPoll, PollerDies
  <1>6. bound' \in [stall : Nat, crash : Nat, closing : 0..MaxClosings]
    BY <1>1 DEF PollTypeOK, ListInbox, PublishThrough, FinishPoll, FailPoll, PollerDies, Stall
  <1>7. poll' \in Polls /\ PollFence'
    <2>1. CASE UNCHANGED poll
      BY <1>1, <1>4, <2>1 DEF PollTypes, PollFence
    <2>2. CASE PollEnds("skipped") \/ PollEnds("blocked") \/ PollEnds("succeeded") \/ PollEnds("failed_permanent")
      BY <1>1, <1>4, <2>2, Ends DEF PollFence, PollStatuses
    <2>3. CASE PublishThrough(p)
      <3>1. poll' \in Polls /\ poll'.status = poll.status /\ poll'.token = poll.token
        BY <1>1, <2>3 DEF PollTypes, Polls, PublishThrough
      <3> QED
        BY <1>1, <1>4, <3>1 DEF PollFence
    <2>4. CASE OwnsPoll(p) /\ AttemptOver(p)
      BY <1>1, <1>2, <1>4, <2>4, Over DEF PollFence, OwnsPoll
    <2> QED
      BY <2>1, <2>2, <2>3, <2>4 DEF ListInbox, FinishPoll, FailPoll, PollerDies
  <1>8. PollTypeOK'
    BY <1>1, <1>4, <1>5, <1>6, <1>7 DEF PollTypeOK, PollTypes, Polls, Pollers, handoff
  <1> QED
    BY <1>5, <1>7, <1>8, PollerOnly

\* A poll is claimed for its next attempt.
LEMMA ClaimPollKeeps == ASSUME PollInv, ClaimPoll PROVE PollInv'
  <1>1. PollTypeOK /\ PollFence /\ PollTypes
    BY Types DEF PollInv
  <1> DEFINE k == [at |-> "launched", left |-> {}]
  <1>2. k \in Pollers /\ Len(poller) < MaxAttempts /\ poller' = Append(poller, k)
    BY <1>1 DEF Pollers, PollFence, ClaimPoll
  <1>3. poller' \in Seq(Pollers) /\ Len(poller') = Len(poller) + 1
    BY <1>1, <1>2 DEF PollTypes
  <1>4. poll' \in Polls /\ poll'.status = "running" /\ poll'.token = Len(poller) + 1
    <2>1. poll \in Polls /\ Len(poller) + 1 \in 0..MaxAttempts /\ "running" \in PollStatuses
      BY <1>1, <1>2, AttemptsAssumption DEF PollTypes, PollStatuses
    <2>2. poll' = [status |-> "running", token |-> Len(poller) + 1, through |-> poll.through]
      BY <2>1 DEF ClaimPoll, Polls
    <2> QED
      BY <2>1, <2>2 DEF Polls
  <1>5. PollFence'
    BY <1>1, <1>3, <1>4 DEF PollFence, PollTypes
  <1>6. PollTypeOK'
    BY <1>1, <1>2, <1>3, <1>4, AttemptsAssumption DEF PollTypeOK, PollTypes, Polls, ClaimPoll, Pollers, handoff
  <1> QED
    BY <1>5, <1>6, PollerOnly DEF ClaimPoll

\* A poll is taken from a child that is gone or silent, or restored.
LEMMA RecoverPollKeeps == ASSUME PollInv, RecoverPoll \/ RestorePoll PROVE PollInv'
  <1>1. PollTypeOK /\ PollFence /\ PollTypes
    BY Types DEF PollInv
  <1>2. CASE RestorePoll
    <2>1. poll' \in Polls /\ poll'.status = "succeeded" /\ UNCHANGED <<poller, handoff, runs, gate, bound>>
      BY <1>1, <1>2, Ends DEF RestorePoll, PollStatuses
    <2> QED
      BY <1>1, <2>1, PollerOnly DEF PollTypeOK, PollFence, Polls, handoff
  <1>3. CASE RecoverPoll
    <2>1. poll.token \in 1..MaxAttempts /\ poll.token = Len(poller)
      BY <1>1, <1>3, AttemptsAssumption DEF PollFence, PollTypes, RecoverPoll
    <2>2. /\ poll' \in Polls /\ poll'.status # "running" /\ (poll'.status = "queued" => Len(poller) < MaxAttempts)
          /\ UNCHANGED <<poller, handoff, runs, gate>>
      BY <1>1, <1>3, <2>1, Over DEF RecoverPoll
    <2>3. bound' \in [stall : Nat, crash : Nat, closing : 0..MaxClosings]
      BY <1>1, <1>3 DEF PollTypeOK, RecoverPoll, Stall
    <2> QED
      BY <1>1, <2>2, <2>3, PollerOnly DEF PollTypeOK, PollFence, Polls, handoff
  <1> QED
    BY <1>2, <1>3

-----------------------------------------------------------------------------
(* Candidates and their consumers.                                         *)

Candidates == [status : CandidateStatuses, version : Nat, marked : BOOLEAN, owned : BOOLEAN]
Leases == [of : 0..NumRuns, version : Nat, started : BOOLEAN]
Bounds == [stall : Nat, crash : Nat, closing : 0..MaxClosings]

\* Changing one candidate, one lease or one run keeps the others and the types.
LEMMA OneCandidate ==
  ASSUME PollTypeOK, NEW d \in Runs, NEW k \in Candidates, candidate' = [candidate EXCEPT ![d] = k]
  PROVE  /\ candidate' \in [Runs -> Candidates] /\ candidate'[d] = k
         /\ \A o \in Runs \ {d} : candidate'[o] = candidate[o]
  BY DEF PollTypeOK, Candidates
LEMMA OneLease ==
  ASSUME PollTypeOK, NEW c \in Consumers, NEW k \in Leases, consumer' = [consumer EXCEPT ![c] = k]
  PROVE  /\ consumer' \in [Consumers -> Leases] /\ consumer'[c] = k
         /\ \A o \in Consumers \ {c} : consumer'[o] = consumer[o]
  BY DEF PollTypeOK, Leases
LEMMA SpentBound == ASSUME PollTypeOK, UNCHANGED bound \/ Stall PROVE bound' \in Bounds
  <1>1. bound \in Bounds
    BY DEF PollTypeOK, Bounds
  <1>2. CASE Stall
    <2>1. bound' = [stall |-> bound.stall - 1, crash |-> bound.crash, closing |-> bound.closing]
      BY <1>1, <1>2 DEF Stall, Bounds
    <2>2. bound.stall - 1 \in Nat
      BY <1>1, <1>2 DEF Stall, Bounds
    <2> QED
      BY <1>1, <2>1, <2>2 DEF Bounds
  <1> QED
    BY <1>1, <1>2
LEMMA HandoffTypes ==
  PollTypeOK <=> /\ PollTypes /\ candidate \in [Runs -> Candidates] /\ consumer \in [Consumers -> Leases]
                 /\ elsewhere \subseteq Runs /\ document \in [Runs -> Runs] /\ runs \in [Runs -> RunStatuses]
                 /\ gate \in {"open", "closed"} /\ bound \in Bounds
  BY DEF PollTypeOK, PollTypes, Polls, Pollers, Candidates, Leases, Bounds
LEMMA Nobody == Free \in Leases /\ Free.of = 0 /\ ~Free.started
  BY NumRunsAssumption DEF Free, Leases

\* What changing some fields of a candidate or a lease makes of it.
LEMMA Decided ==
  ASSUME NEW r \in Candidates, NEW status, NEW k, k = [r EXCEPT !.status = status]
  PROVE  k = [status |-> status, version |-> r.version, marked |-> r.marked, owned |-> r.owned]
  BY DEF Candidates
LEMMA Begun ==
  ASSUME NEW r \in Leases, NEW k, k = [r EXCEPT !.started = TRUE]
  PROVE  k = [of |-> r.of, version |-> r.version, started |-> TRUE]
  BY DEF Leases

\* persist_poll_candidate adds a candidate that is ready, or nothing.
LEMMA PersistKeeps == ASSUME PollInv, NEW p \in DOMAIN poller, PersistCandidate(p) PROVE PollInv'
  <1>1. PollTypeOK /\ PollFence /\ PollTypes
    BY Types DEF PollInv
  <1> DEFINE d == Min(poller[p].left)
  <1>2. p \in 1..Len(poller) /\ poller[p] \in Pollers /\ d \in Runs
    <2>1. p \in 1..Len(poller) /\ poller[p] \in Pollers
      BY <1>1 DEF PollTypes
    <2>2. poller[p].left \in SUBSET Runs /\ poller[p].left # {}
      BY <2>1 DEF PersistCandidate, Pollers
    <2> QED
      BY <2>1, <2>2, LeastRun
  <1> HIDE DEF d
  <1> DEFINE k == [poller[p] EXCEPT !.left = @ \ {d}]
  <1>3. k \in Pollers /\ poller' = [poller EXCEPT ![p] = k]
    BY <1>2 DEF PersistCandidate, Pollers, d
  <1>4. poller' \in Seq(Pollers) /\ Len(poller') = Len(poller)
    BY <1>1, <1>2, <1>3, OnePoller
  <1>5. PICK m \in BOOLEAN :
          candidate' = [candidate EXCEPT ![d] =
              IF @.status = "none" THEN [status |-> "ready", version |-> 0, marked |-> m, owned |-> OwnsPoll(p)]
              ELSE @]
    BY DEF PersistCandidate, d
  <1> DEFINE n == [status |-> "ready", version |-> 0, marked |-> m, owned |-> OwnsPoll(p)]
  <1>6. n \in Candidates /\ candidate[d] \in Candidates
    BY <1>1, <1>2, <1>5 DEF Candidates, CandidateStatuses, PollTypeOK, OwnsPoll
  <1>7. /\ candidate' \in [Runs -> Candidates]
        /\ candidate'[d] = IF candidate[d].status = "none" THEN n ELSE candidate[d]
        /\ \A o \in Runs \ {d} : candidate'[o] = candidate[o]
    <2> DEFINE w == IF candidate[d].status = "none" THEN n ELSE candidate[d]
    <2>1. w \in Candidates
      BY <1>6
    <2>2. candidate' = [candidate EXCEPT ![d] = w]
      BY <1>5
    <2> HIDE DEF w, n
    <2>3. /\ candidate' \in [Runs -> Candidates] /\ candidate'[d] = w
          /\ \A o \in Runs \ {d} : candidate'[o] = candidate[o]
      BY <1>1, <1>2, <2>1, <2>2, OneCandidate
    <2> QED
      BY <2>3 DEF w
  <1>8. UNCHANGED <<poll, consumer, elsewhere, document, runs, gate, bound>>
    BY DEF PersistCandidate
  <1>9. PollTypeOK' /\ PollFence'
    BY <1>1, <1>4, <1>7, <1>8, HandoffTypes DEF PollTypeOK, PollFence, Pollers, Candidates
  <1>10. \A o \in Runs : Agrees(o)'
    BY <1>7, <1>8 DEF PollInv, Agrees, Started
  <1>11. \A c \in Consumers : Remembers(c)'
    <2> SUFFICES ASSUME NEW c \in Consumers PROVE Remembers(c)'
      OBVIOUS
    <2>1. consumer[c].of \in 0..NumRuns /\ Remembers(c)
      BY <1>1 DEF PollTypeOK, PollInv
    <2>2. consumer[c].of # 0 => consumer[c].of \in Runs
      BY <2>1 DEF Runs
    <2> QED
      BY <1>7, <1>8, <2>1, <2>2 DEF Remembers, Started
  <1> QED
    BY <1>9, <1>10, <1>11 DEF PollInv

\* A lease is taken by a consumer that has none, on a candidate that exists.
LEMMA ClaimCandidateKeeps == ASSUME PollInv, NEW c \in Consumers, ClaimCandidate(c) PROVE PollInv'
  <1>1. PollTypeOK /\ PollFence /\ PollTypes
    BY Types DEF PollInv
  <1>2. PICK d \in Runs :
          /\ Leasable(d)
          /\ candidate' = [candidate EXCEPT ![d] = [@ EXCEPT !.status = "claimed", !.version = candidate[d].version + 1]]
          /\ consumer' = [consumer EXCEPT ![c] = [of |-> d, version |-> candidate[d].version + 1, started |-> FALSE]]
    BY DEF ClaimCandidate
  <1> DEFINE k == [status |-> "claimed", version |-> candidate[d].version + 1,
                   marked |-> candidate[d].marked, owned |-> candidate[d].owned]
  <1> DEFINE l == [of |-> d, version |-> candidate[d].version + 1, started |-> FALSE]
  <1>3. candidate[d] \in Candidates /\ candidate[d].status \in {"ready", "claimed"}
    BY <1>1, <1>2 DEF PollTypeOK, Candidates, Leasable
  <1>4. k \in Candidates /\ l \in Leases
    BY <1>2, <1>3 DEF Candidates, Leases, CandidateStatuses, Runs
  <1>5. candidate' = [candidate EXCEPT ![d] = k]
    <2>1. \A m : m = [candidate[d] EXCEPT !.status = "claimed", !.version = candidate[d].version + 1] => m = k
      <3> SUFFICES ASSUME NEW m, m = [candidate[d] EXCEPT !.status = "claimed", !.version = candidate[d].version + 1]
                   PROVE  m = k
        OBVIOUS
      <3> QED
        BY <1>3 DEF Candidates
    <2> HIDE DEF k
    <2> QED
      BY <1>2, <2>1
  <1>6. consumer' = [consumer EXCEPT ![c] = l]
    BY <1>2
  <1>7. l.of = d /\ ~l.started /\ k.status = "claimed" /\ k.marked = candidate[d].marked /\ k.owned = candidate[d].owned
    OBVIOUS
  <1> HIDE DEF k, l
  <1>8. /\ candidate' \in [Runs -> Candidates] /\ candidate'[d] = k
        /\ \A o \in Runs \ {d} : candidate'[o] = candidate[o]
    BY <1>1, <1>4, <1>5, OneCandidate
  <1>9. /\ consumer' \in [Consumers -> Leases] /\ consumer'[c] = l
        /\ \A o \in Consumers \ {c} : consumer'[o] = consumer[o]
    BY <1>1, <1>4, <1>6, OneLease
  <1>10. UNCHANGED <<poll, poller, elsewhere, document, runs, gate>> /\ bound' \in Bounds
    BY <1>1, <1>2, SpentBound DEF ClaimCandidate, Leasable, polling
  <1>11. PollTypeOK' /\ PollFence'
    BY <1>1, <1>8, <1>9, <1>10 DEF PollTypeOK, PollFence, Bounds, Candidates, Leases
  <1>12. \A o \in Runs : Agrees(o)'
    BY <1>3, <1>7, <1>8, <1>10 DEF PollInv, Agrees, Started
  <1>13. \A o \in Consumers : Remembers(o)'
    <2> SUFFICES ASSUME NEW o \in Consumers PROVE Remembers(o)'
      OBVIOUS
    <2>1. consumer[o].of \in 0..NumRuns /\ Remembers(o)
      BY <1>1 DEF PollTypeOK, PollInv
    <2>2. consumer[o].of # 0 => consumer[o].of \in Runs
      BY <2>1 DEF Runs
    <2>3. CASE o = c
      BY <1>7, <1>8, <1>9, <2>3 DEF Remembers
    <2>4. CASE o # c
      BY <1>3, <1>7, <1>8, <1>9, <1>10, <2>1, <2>2, <2>4 DEF Remembers, Started
    <2> QED
      BY <2>3, <2>4
  <1> QED
    BY <1>11, <1>12, <1>13 DEF PollInv

\* A decision is written only over the lease it was made under.
LEMMA DecisionKeeps ==
  ASSUME PollInv, NEW c \in Consumers, SkipMarked(c) \/ CompleteClaim(c) \/ StartFails(c)
  PROVE  PollInv'
  <1>1. PollTypeOK /\ PollFence /\ PollTypes /\ Remembers(c)
    BY Types DEF PollInv
  <1> DEFINE d == consumer[c].of
  <1>2. PICK status \in {"skipped", "completed", "ready"} :
          /\ Decides(c, status)
          /\ status = "skipped" => candidate[d].marked
          /\ status = "completed" => Started(d)
    BY <1>1 DEF SkipMarked, CompleteClaim, StartFails, Remembers
  <1>3. d \in Runs
    <2>1. d \in 0..NumRuns /\ d # 0
      BY <1>1 DEF PollTypeOK, SkipMarked, CompleteClaim, StartFails, Remembers
    <2> QED
      BY <2>1 DEF Runs
  <1>4. UNCHANGED <<poll, poller, elsewhere, document, runs, gate>> /\ bound' \in Bounds
    BY <1>1, SpentBound DEF SkipMarked, CompleteClaim, StartFails, polling
  <1>5. /\ consumer' \in [Consumers -> Leases] /\ consumer'[c] = Free
        /\ \A o \in Consumers \ {c} : consumer'[o] = consumer[o]
    BY <1>1, <1>2, Nobody, OneLease DEF Decides
  <1> HIDE DEF d
  <1> DEFINE k == [status |-> status, version |-> candidate[d].version,
                   marked |-> candidate[d].marked, owned |-> candidate[d].owned]
  <1>6. candidate[d] \in Candidates
    BY <1>1, <1>3 DEF PollTypeOK, Candidates
  <1>7. k \in Candidates
    BY <1>2, <1>6 DEF Candidates, CandidateStatuses
  <1>8. k.status = status /\ k.marked = candidate[d].marked /\ k.owned = candidate[d].owned
    OBVIOUS
  <1>9. UNCHANGED candidate \/ (candidate[d].status = "claimed" /\ candidate' = [candidate EXCEPT ![d] = k])
    <2>1. k = [candidate[d] EXCEPT !.status = status]
      BY <1>6, Decided
    <2> HIDE DEF k
    <2> QED
      BY <1>2, <2>1 DEF Decides, d
  <1> HIDE DEF k
  <1>10. /\ candidate' \in [Runs -> Candidates]
         /\ candidate'[d] = candidate[d] \/ (candidate[d].status = "claimed" /\ candidate'[d] = k)
         /\ \A o \in Runs \ {d} : candidate'[o] = candidate[o]
    BY <1>1, <1>3, <1>7, <1>9, OneCandidate DEF PollTypeOK, Candidates
  <1>11. PollTypeOK' /\ PollFence'
    BY <1>1, <1>4, <1>5, <1>10 DEF PollTypeOK, PollFence, Bounds, Candidates, Leases
  <1>12. \A o \in Runs : Agrees(o)'
    BY <1>2, <1>4, <1>8, <1>10 DEF PollInv, Agrees, Started, d
  <1>13. \A o \in Consumers : Remembers(o)'
    <2> SUFFICES ASSUME NEW o \in Consumers PROVE Remembers(o)'
      OBVIOUS
    <2>1. consumer[o].of \in 0..NumRuns /\ Remembers(o)
      BY <1>1 DEF PollTypeOK, PollInv
    <2>2. consumer[o].of # 0 => consumer[o].of \in Runs
      BY <2>1 DEF Runs
    <2>3. CASE o = c
      BY <1>5, <2>3, Nobody DEF Remembers
    <2>4. CASE o # c
      BY <1>2, <1>4, <1>5, <1>8, <1>10, <2>1, <2>2, <2>4 DEF Remembers, Started
    <2> QED
      BY <2>3, <2>4
  <1> QED
    BY <1>11, <1>12, <1>13 DEF PollInv

\* A consumer that dies forgets its lease; the candidate stays as it is.
LEMMA ConsumerDiesKeeps == ASSUME PollInv, NEW c \in Consumers, ConsumerDies(c) PROVE PollInv'
  <1>1. PollTypeOK /\ PollFence /\ PollTypes
    BY Types DEF PollInv
  <1>2. /\ consumer' \in [Consumers -> Leases] /\ consumer'[c] = Free
        /\ \A o \in Consumers \ {c} : consumer'[o] = consumer[o]
    BY <1>1, Nobody, OneLease DEF ConsumerDies
  <1>3. UNCHANGED <<poll, poller, candidate, elsewhere, document, runs, gate>> /\ bound' \in Bounds
    BY <1>1, SpentBound DEF ConsumerDies, polling
  <1>4. PollTypeOK' /\ PollFence'
    BY <1>1, <1>2, <1>3 DEF PollTypeOK, PollFence, Bounds, Leases
  <1> QED
    BY <1>2, <1>3, <1>4, Nobody DEF PollInv, Agrees, Remembers, Started

\* A start makes a run that was absent wait, or finds the one that exists.
LEMMA StartRunKeeps == ASSUME PollInv, NEW c \in Consumers, StartRun(c) PROVE PollInv'
  <1>1. PollTypeOK /\ PollFence /\ PollTypes /\ Remembers(c)
    BY Types DEF PollInv
  <1>2. PICK d \in Runs : d = consumer[c].of /\ ~candidate[d].marked /\ candidate[d].status # "none" /\ consumer[c] \in Leases
    <2>1. consumer[c].of \in 0..NumRuns /\ consumer[c].of # 0 /\ consumer[c] \in Leases
      BY <1>1 DEF PollTypeOK, StartRun, Leases
    <2> QED
      BY <1>1, <2>1 DEF Runs, StartRun, Remembers
  <1> DEFINE l == [of |-> d, version |-> consumer[c].version, started |-> TRUE]
  <1>3. l \in Leases /\ l.of = d /\ l.started
    BY <1>2 DEF Leases, Runs
  <1>4. consumer' = [consumer EXCEPT ![c] = l]
    <2>1. l = [consumer[c] EXCEPT !.started = TRUE]
      BY <1>2, Begun
    <2> HIDE DEF l
    <2> QED
      BY <2>1 DEF StartRun
  <1>5. UNCHANGED <<poll, poller, candidate, document, gate, bound>>
    BY DEF StartRun, polling
  <1>6. /\ elsewhere' \subseteq Runs /\ elsewhere \subseteq elsewhere' /\ runs' \in [Runs -> RunStatuses]
        /\ \A o \in Runs : runs'[o] = runs[o] \/ (o = d /\ runs[o] = "absent" /\ runs'[o] \in {"pending", "blocked"})
        /\ Started(d)'
    <2>1. elsewhere \subseteq Runs /\ runs \in [Runs -> RunStatuses]
      BY <1>1 DEF PollTypeOK
    <2>2. \/ UNCHANGED <<runs, elsewhere>> /\ Started(d)
          \/ elsewhere' = elsewhere \union {d} /\ UNCHANGED runs
          \/ /\ runs[d] = "absent" /\ UNCHANGED elsewhere
             /\ \E status \in {"pending", "blocked"} : runs' = [runs EXCEPT ![d] = status]
      BY <1>2 DEF StartRun, Started
    <2>3. CASE \E status \in {"pending", "blocked"} : runs' = [runs EXCEPT ![d] = status]
      <3>1. PICK status \in {"pending", "blocked"} : runs' = [runs EXCEPT ![d] = status]
        BY <2>3
      <3>2. (runs[d] = "absent" /\ UNCHANGED elsewhere) \/ UNCHANGED runs
        BY <2>2
      <3>3. runs'[d] = status /\ \A o \in Runs \ {d} : runs'[o] = runs[o]
        BY <1>2, <2>1, <3>1
      <3>4. runs' \in [Runs -> RunStatuses] /\ "absent" \notin {"pending", "blocked"}
        BY <1>2, <2>1, <3>1 DEF RunStatuses
      <3> QED
        BY <1>2, <2>1, <2>2, <3>2, <3>3, <3>4 DEF Started
    <2>4. CASE UNCHANGED runs
      BY <1>2, <2>1, <2>2, <2>4 DEF Started
    <2> QED
      BY <2>2, <2>3, <2>4
  <1> HIDE DEF l
  <1>7. /\ consumer' \in [Consumers -> Leases] /\ consumer'[c] = l
        /\ \A o \in Consumers \ {c} : consumer'[o] = consumer[o]
    BY <1>1, <1>3, <1>4, OneLease
  <1>8. PollTypeOK' /\ PollFence'
    BY <1>1, <1>5, <1>6, <1>7 DEF PollTypeOK, PollFence, Leases
  <1>9. \A o \in Runs : Started(o) => Started(o)'
    BY <1>6 DEF Started
  <1>10. \A o \in Runs : Agrees(o)'
    BY <1>2, <1>5, <1>6, <1>9 DEF PollInv, Agrees
  <1>11. \A o \in Consumers : Remembers(o)'
    <2> SUFFICES ASSUME NEW o \in Consumers PROVE Remembers(o)'
      OBVIOUS
    <2>1. consumer[o].of \in 0..NumRuns /\ Remembers(o)
      BY <1>1 DEF PollTypeOK, PollInv
    <2>2. consumer[o].of # 0 => consumer[o].of \in Runs
      BY <2>1 DEF Runs
    <2>3. CASE o = c
      <3>1. d # 0 /\ consumer'[c].of = d /\ candidate'[d] = candidate[d]
        BY <1>2, <1>3, <1>5, <1>7, NumRunsAssumption DEF Runs
      <3> QED
        BY <1>2, <1>6, <2>3, <3>1 DEF Remembers
    <2>4. CASE o # c
      BY <1>5, <1>7, <1>9, <2>1, <2>2, <2>4 DEF Remembers
    <2> QED
      BY <2>3, <2>4
  <1> QED
    BY <1>8, <1>10, <1>11 DEF PollInv

-----------------------------------------------------------------------------
(* What a step of the poll keeps, and what a batch may rely on.            *)

\* Every step of the poll keeps its invariant.
LEMMA PollStepKeeps == ASSUME PollInv, PollStep PROVE PollInv'
  <1>1. CASE ClaimPoll \/ RecoverPoll \/ RestorePoll
    BY <1>1, ClaimPollKeeps, RecoverPollKeeps
  <1>2. CASE \E p \in DOMAIN poller : PollerStep(p) \/ FailPoll(p) \/ PollerDies(p)
    BY <1>2, PollerSteps, PersistKeeps DEF PollerStep
  <1>3. CASE \E c \in Consumers : ClaimCandidate(c) \/ ConsumerStep(c) \/ StartFails(c) \/ ConsumerDies(c)
    BY <1>3, ClaimCandidateKeeps, DecisionKeeps, StartRunKeeps, ConsumerDiesKeeps DEF ConsumerStep
  <1> QED
    BY <1>1, <1>2, <1>3 DEF PollStep

\* What was decided about a candidate stays; only an owner of the poll adds an
\* owned one.
LEMMA DecidedStays ==
  ASSUME PollInv, PollStep, NEW d \in Runs
  PROVE  /\ candidate[d].status \in {"completed", "skipped"} => candidate'[d] = candidate[d]
         /\ candidate'[d].owned => candidate[d].owned \/ poll.status = "running"
  <1>1. PollTypeOK /\ candidate[d] \in Candidates /\ candidate \in [Runs -> Candidates]
    BY DEF PollInv, PollTypeOK, Candidates
  <1>2. CASE UNCHANGED candidate
    BY <1>2
  <1>3. CASE \E p \in DOMAIN poller : PersistCandidate(p)
    <2>1. PICK p \in DOMAIN poller : PersistCandidate(p)
      BY <1>3
    <2>2. PICK o, m :
            /\ m \in BOOLEAN
            /\ candidate' = [candidate EXCEPT ![o] =
                 IF @.status = "none" THEN [status |-> "ready", version |-> 0, marked |-> m, owned |-> OwnsPoll(p)]
                 ELSE @]
      BY <2>1 DEF PersistCandidate
    <2> QED
      BY <1>1, <2>2 DEF OwnsPoll
  <1>4. CASE \E c \in Consumers : ClaimCandidate(c)
    <2>1. PICK o \in Runs :
            /\ candidate[o].status \in {"ready", "claimed"}
            /\ candidate' = [candidate EXCEPT ![o] = [@ EXCEPT !.status = "claimed", !.version = candidate[o].version + 1]]
      BY <1>4 DEF ClaimCandidate, Leasable
    <2>2. [candidate[o] EXCEPT !.status = "claimed", !.version = candidate[o].version + 1].owned = candidate[o].owned
      BY <1>1, <2>1 DEF Candidates
    <2> QED
      BY <1>1, <2>1, <2>2
  <1>5. CASE \E c \in Consumers : SkipMarked(c) \/ CompleteClaim(c) \/ StartFails(c)
    <2>1. PICK o, status :
            \/ UNCHANGED candidate
            \/ candidate[o].status = "claimed" /\ candidate' = [candidate EXCEPT ![o].status = status]
      BY <1>5 DEF SkipMarked, CompleteClaim, StartFails, Decides
    <2>2. [candidate[d] EXCEPT !.status = status].owned = candidate[d].owned
      BY <1>1 DEF Candidates
    <2> QED
      BY <1>1, <2>1, <2>2
  <1> QED
    BY <1>2, <1>3, <1>4, <1>5
       DEF PollStep, PollerStep, ConsumerStep, ClaimPoll, RecoverPoll, RestorePoll, ListInbox, PublishThrough,
           FinishPoll, FailPoll, PollerDies, StartRun, ConsumerDies, handoff

\* A poll that succeeded stays so.
LEMMA SucceededStays == ASSUME PollInv, PollStep, poll.status = "succeeded" PROVE poll'.status = "succeeded"
  <1>1. PollTypes
    BY Types DEF PollInv
  <1>2. CASE \E p \in DOMAIN poller : PublishThrough(p)
    BY <1>1, <1>2 DEF PublishThrough, PollTypes, Polls
  <1>3. CASE UNCHANGED poll
    BY <1>3
  <1> QED
    BY <1>2, <1>3
       DEF PollStep, PollerStep, ConsumerStep, ClaimPoll, RecoverPoll, RestorePoll, ListInbox, PersistCandidate,
           FinishPoll, FailPoll, PollerDies, StartRun, ConsumerDies, ClaimCandidate, SkipMarked, CompleteClaim,
           StartFails, OwnsPoll, handoff, polling

\* The poll touches a run only to make it wait, and never one whose candidate
\* has been decided.
LEMMA OnlyStarts ==
  ASSUME PollInv, PollStep, NEW d \in Runs
  PROVE  /\ UNCHANGED gate
         /\ \/ runs'[d] = runs[d]
            \/ /\ runs[d] = "absent" /\ runs'[d] \in {"pending", "blocked"}
               /\ candidate[d].status \notin {"completed", "skipped"}
  <1>1. PollTypeOK
    BY DEF PollInv
  <1>2. CASE UNCHANGED <<runs, gate>>
    BY <1>2
  <1>3. CASE \E c \in Consumers : StartRun(c)
    <2>1. PICK c \in Consumers : StartRun(c)
      BY <1>3
    <2>2. PICK o : o = consumer[c].of
      OBVIOUS
    <2>3. UNCHANGED gate
      BY <2>1 DEF StartRun
    <2>4. CASE UNCHANGED runs
      BY <2>3, <2>4
    <2>5. CASE ~UNCHANGED runs
      <3>1. /\ runs[o] = "absent" /\ o \notin elsewhere /\ ~candidate[o].marked
            /\ \E status \in {"pending", "blocked"} : runs' = [runs EXCEPT ![o] = status]
        BY <2>1, <2>2, <2>5 DEF StartRun
      <3>2. o = d \/ runs'[d] = runs[d]
        BY <1>1, <3>1 DEF PollTypeOK
      <3>3. CASE o = d
        <4>1. Agrees(d)
          BY DEF PollInv
        <4>2. candidate[d].status \notin {"completed", "skipped"}
          BY <3>1, <3>3, <4>1 DEF Agrees, Started
        <4> QED
          BY <1>1, <2>3, <3>1, <3>3, <4>2 DEF PollTypeOK
      <3> QED
        BY <2>3, <3>2, <3>3
    <2> QED
      BY <2>4, <2>5
  <1> QED
    BY <1>2, <1>3
       DEF PollStep, PollerStep, ConsumerStep, ClaimPoll, RecoverPoll, RestorePoll, ListInbox, PersistCandidate,
           PublishThrough, FinishPoll, FailPoll, PollerDies, ConsumerDies, ClaimCandidate, SkipMarked, CompleteClaim,
           StartFails

\* Which document a finding is a version of does not change.
LEMMA DocumentStays == ASSUME PollStep PROVE UNCHANGED document
  BY DEF PollStep, PollerStep, ConsumerStep, ClaimPoll, RecoverPoll, RestorePoll, ListInbox, PersistCandidate,
         PublishThrough, FinishPoll, FailPoll, PollerDies, ConsumerDies, ClaimCandidate, SkipMarked, StartRun,
         CompleteClaim, StartFails, handoff

\* Whoever changes runs that exist, the gate or the bounds alone keeps the poll.
LEMMA OthersKeepPoll ==
  ASSUME PollInv, UNCHANGED <<polling, handoff>>, runs' \in [Runs -> RunStatuses],
         gate' \in {"open", "closed"}, bound' \in Bounds,
         \A d \in Runs : runs[d] = "absent" <=> runs'[d] = "absent"
  PROVE  PollInv'
  <1>1. PollTypeOK' /\ PollFence'
    BY DEF PollInv, PollTypeOK, PollFence, polling, handoff, Bounds
  <1>2. \A d \in Runs : Started(d)' = Started(d)
    BY DEF Started, handoff
  <1>3. \A d \in Runs : Agrees(d)'
    BY <1>2 DEF PollInv, Agrees, handoff
  <1>4. \A c \in Consumers : Remembers(c)'
    <2> SUFFICES ASSUME NEW c \in Consumers PROVE Remembers(c)'
      OBVIOUS
    <2>1. consumer[c].of \in 0..NumRuns /\ Remembers(c) /\ UNCHANGED <<consumer, candidate, elsewhere>>
      BY DEF PollInv, PollTypeOK, handoff
    <2>2. consumer[c].of # 0 => consumer[c].of \in Runs
      BY <2>1 DEF Runs
    <2> QED
      BY <2>1, <2>2 DEF Remembers, Started
  <1> QED
    BY <1>1, <1>3, <1>4 DEF PollInv
=============================================================================
