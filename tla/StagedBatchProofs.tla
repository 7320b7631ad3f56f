-------------------------- MODULE StagedBatchProofs --------------------------
(***************************************************************************)
(* What holds of a staged batch for any number of runs, attempts, consumers*)
(* that stall and children that die: its types, its fence, the sealed set, *)
(* the order of its phases, and that runs and command agree.  The          *)
(* invariant says how far the one child that owns the command has brought  *)
(* the batch, and that nobody else can write.                              *)
(***************************************************************************)
EXTENDS StagedBatch, PollCandidatesProofs

-----------------------------------------------------------------------------
(* The batch.                                                              *)

\* Once the batch exists, what its poll owned is decided and attached.
SealInv ==
    /\ command.status # "none" =>
         /\ poll.status = "succeeded"
         /\ \A d \in Runs : candidate[d].owned => candidate[d].status \in {"completed", "skipped"}
         /\ \A d \in Runs : runs[d] # "absent" /\ candidate[d].owned => d \in batch
    /\ \A d \in batch : candidate[d].status = "completed"

\* A run that is not in the batch has not been touched.
MemberInv ==
    /\ \A d \in Runs : d \notin batch => runs[d] \in {"absent", "pending", "blocked"}
    /\ \A d \in batch : runs[d] # "absent"
    /\ command.status = "none" => batch = {} /\ child = <<>>
    /\ \A e \in Attempts : child[e].todo \subseteq batch

\* The command belongs to its newest attempt, and no item is of a later one.
FenceInv ==
    /\ command.status = "running" => Len(child) > 0 /\ command.token = Len(child)
    /\ \A d \in Runs, p \in DOMAIN Phases : items[d][p].by <= Len(child)

\* What a child knows of itself; it takes its runs in order of id.
Fits(k) ==
    /\ k.left \subseteq k.todo
    /\ \A d \in k.left, n \in k.todo : n > d => n \in k.left
    /\ k.at \in {"next", "inside", "made", "closed"} /\ k.todo # {} => k.left # {}
    /\ k.at \in {"inside", "made", "closed"} => k.todo # {} /\ k.phase \in DOMAIN Phases
    /\ k.at = "closed" => k.phase = ReviewPhase
    /\ k.at = "failing" => k.verdict # "none"
    /\ k.at = "launched" => k.todo = {}
    /\ k.at = "turned_away" => k.todo # {}
ChildInv == \A e \in Attempts : Fits(child[e])

\* How far the owner of the command has brought the batch.
Done(k, d, p) == p < k.phase \/ (p = k.phase /\ d \notin k.left)
DoneBy(k, d, p) ==
    /\ items[d][p].status = "complete" \/ (p \in Observed /\ Shadowed(d))
    /\ p = EmbeddingPhase => document[d] \in embedded
    /\ p = ReviewPhase => d \in suggested /\ runs[d] = "succeeded"
Works(k) ==
    /\ \A d \in k.todo, p \in DOMAIN Phases : Done(k, d, p) => DoneBy(k, d, p)
    /\ \A d \in k.todo : ~Done(k, d, ReviewPhase) => runs[d] # "succeeded"
    /\ k.at \in {"made", "closed"} =>
         /\ k.phase = EmbeddingPhase => document[Min(k.left)] \in embedded
         /\ k.phase = ReviewPhase => Min(k.left) \in suggested
    /\ k.at = "closed" => items[Min(k.left)][ReviewPhase].status = "complete"
Blind(k) == k.at = "failing" /\ k.todo = {}
Claims(k) ==
    /\ k.at \notin {"launched", "gone"} /\ ~Blind(k) => \A d \in batch \ k.todo : runs[d] = "succeeded"
    /\ k.at \in {"next", "inside", "made", "closed"} => Works(k)
    /\ k.at = "turned_away" => \A d \in k.todo \ k.left : runs[d] = "blocked"
    /\ k.at = "failing" /\ k.verdict = "failed_permanent" => \A d \in k.todo \ k.left : runs[d] \in Settled
OwnerInv == command.status = "running" => Claims(child[command.token])

BatchInv == SealInv /\ MemberInv /\ FenceInv /\ ChildInv /\ OwnerInv /\ ChildrenAgree
IInv == TypeOK /\ PollInv /\ BatchInv

-----------------------------------------------------------------------------
(* Types and places.                                                       *)

Commands == [status : {"none", "blocked", "queued", "running", "pending"} \union Settled, token : 0..MaxIssued]
Items == [status : ItemStatuses, by : 0..MaxIssued]
ItemRows == [Runs -> [DOMAIN Phases -> Items]]
BatchTypes ==
    /\ command \in Commands
    /\ batch \subseteq Runs
    /\ items \in ItemRows
    /\ embedded \subseteq Runs /\ suggested \subseteq Runs
    /\ child \in Seq(Children)
    /\ Len(child) \in Nat /\ Len(child) <= MaxIssued
    /\ Attempts = 1..Len(child)
LEMMA PhaseFacts == DOMAIN Phases = 1..6 /\ Len(Phases) = 6 /\ Observed = 2..5
  BY DEF Phases, Observed, EmbeddingPhase, ReviewPhase
LEMMA IssuedFacts == MaxIssued \in Nat /\ MaxIssued > 0 /\ MaxAttempts \in Nat /\ MaxAttempts <= MaxIssued
  BY AttemptsAssumption, BudgetsAssumption DEF MaxIssued
LEMMA TypesOfBatch == TypeOK <=> PollTypeOK /\ BatchTypes
  BY DEF TypeOK, BatchTypes, Commands, Items, ItemRows, Attempts

\* A batch begins in the invariant.
LEMMA InitIInv == Init => IInv
  <1> SUFFICES ASSUME Init PROVE IInv
    OBVIOUS
  <1>1. PollInv
    BY InitPoll DEF Init
  <1>2. command = [status |-> "none", token |-> 0] /\ batch = {} /\ child = <<>> /\ embedded = {} /\ suggested = {}
    BY DEF Init
  <1>3. runs = [d \in Runs |-> "absent"]
    BY DEF Init, PollInit
  <1>4. items \in ItemRows /\ \A d \in Runs, p \in DOMAIN Phases : items[d][p].by = 0
    BY IssuedFacts DEF Init, ItemRows, Items, ItemStatuses
  <1>5. TypeOK
    BY <1>1, <1>2, <1>4, IssuedFacts, TypesOfBatch DEF BatchTypes, Commands, Attempts, PollInv
  <1>6. SealInv /\ MemberInv /\ FenceInv
    BY <1>2, <1>3, <1>4 DEF SealInv, MemberInv, FenceInv, Attempts
  <1>7. ChildInv /\ OwnerInv /\ ChildrenAgree
    BY <1>2, <1>3 DEF ChildInv, OwnerInv, ChildrenAgree, Attempts
  <1> QED
    BY <1>1, <1>5, <1>6, <1>7 DEF IInv, BatchInv

-----------------------------------------------------------------------------
(* One child.                                                              *)

\* The newest attempt is the only one that may own the command.
LEMMA OwnerIsNewest ==
  ASSUME IInv, NEW e \in Attempts
  PROVE  /\ e \in 1..Len(child) /\ e \in 1..MaxIssued /\ child[e] \in Children /\ Fits(child[e])
         /\ child[e].todo \subseteq batch
         /\ Owns(e) => e = Len(child) /\ Claims(child[e])
  <1>1. BatchTypes /\ FenceInv /\ MemberInv /\ ChildInv /\ OwnerInv
    BY TypesOfBatch DEF IInv, BatchInv
  <1>2. e \in 1..Len(child) /\ e \in 1..MaxIssued /\ child[e] \in Children
    BY <1>1, IssuedFacts DEF BatchTypes
  <1> QED
    BY <1>1, <1>2 DEF FenceInv, MemberInv, ChildInv, OwnerInv, Owns

\* What is written is of the types, stays within the batch, is of no later attempt,
\* and leaves a run that succeeded whole.
RowsFit ==
    /\ runs' \in [Runs -> RunStatuses] /\ items' \in ItemRows /\ embedded' \subseteq Runs /\ suggested' \subseteq Runs
    /\ \A d \in Runs : d \notin batch => runs'[d] = runs[d]
    /\ \A d \in batch : runs'[d] # "absent"
    /\ \A d \in Runs, p \in DOMAIN Phases : items'[d][p].by <= Len(child)
    /\ \A d \in Runs : runs'[d] = "succeeded" => RunIsWhole(d)'

\* A step of one child that leaves the command alone keeps the invariant if the
\* child fits, what it claims is so when it owns the command, nothing is written
\* when it does not, and a run that succeeded is whole.
LEMMA OneChild ==
  ASSUME IInv, NEW e \in Attempts, child[e].at # "gone", NEW k \in Children, child' = [child EXCEPT ![e] = k],
         Fits(k), k.todo \subseteq batch,
         UNCHANGED <<origin, command, gate>>, bound' \in Bounds,
         RowsFit, Owns(e) => Claims(k)', Owns(e) \/ UNCHANGED rows
  PROVE  IInv'
  <1>1. /\ TypeOK /\ PollInv /\ SealInv /\ MemberInv /\ FenceInv /\ ChildInv /\ OwnerInv /\ ChildrenAgree
        /\ PollTypeOK /\ BatchTypes
    BY TypesOfBatch DEF IInv, BatchInv
  <1>2. e \in 1..Len(child) /\ (Owns(e) => command.status = "running" /\ command.token = e)
    BY OwnerIsNewest DEF Owns
  <1>3. /\ child' \in Seq(Children) /\ Len(child') = Len(child) /\ Attempts' = Attempts /\ child'[e] = k
        /\ \A o \in Attempts \ {e} : child'[o] = child[o]
    BY <1>1, <1>2 DEF BatchTypes, Attempts
  <1>4. PollInv'
    <2>1. gate' \in {"open", "closed"} /\ \A d \in Runs : runs[d] = "absent" <=> runs'[d] = "absent"
      BY <1>1 DEF MemberInv, PollTypeOK, RowsFit
    <2> QED
      BY <1>1, <2>1, OthersKeepPoll DEF origin, RowsFit
  <1>5. TypeOK'
    BY <1>1, <1>3, <1>4 DEF TypeOK, PollInv, origin, Items, ItemRows, Attempts, RowsFit
  <1>6. SealInv'
    <2>1. UNCHANGED <<poll, candidate, batch>>
      BY DEF origin, polling, handoff
    <2>2. \A d \in Runs : d \notin batch => runs'[d] = runs[d]
      BY DEF RowsFit
    <2> QED
      BY <1>1, <2>1, <2>2 DEF SealInv
  <1>7. MemberInv' /\ FenceInv' /\ ChildInv'
    BY <1>1, <1>3 DEF MemberInv, FenceInv, ChildInv, origin, RowsFit
  <1>8. OwnerInv'
    <2> SUFFICES ASSUME command.status = "running" PROVE Claims(child[command.token])'
      BY DEF OwnerInv
    <2>1. command.token \in Attempts
      BY <1>1 DEF FenceInv, BatchTypes
    <2>2. CASE command.token = e
      BY <1>3, <2>2 DEF Owns
    <2>3. CASE command.token # e
      <3>1. UNCHANGED <<rows, batch>> /\ child'[command.token] = child[command.token]
        BY <1>3, <2>1, <2>3 DEF Owns, origin
      <3>2. Claims(child[command.token])
        BY <1>1 DEF OwnerInv
      <3>3. document' = document
        BY DEF origin, handoff
      <3> QED
        BY <3>1, <3>2, <3>3 DEF Claims, Blind, Works, DoneBy, Done, Shadowed, rows
    <2> QED
      BY <2>2, <2>3
  <1>9. ChildrenAgree'
    <2>1. UNCHANGED <<command, batch>> /\ (command.status # "running" => UNCHANGED rows)
      BY <1>2 DEF origin
    <2>2. Unread => Unread'
      <3> SUFFICES ASSUME Unread PROVE Unread'
        OBVIOUS
      <3>1. Len(child) \in Attempts /\ child # <<>> /\ child[Len(child)].at = "gone"
        BY <1>1 DEF Unread, BatchTypes
      <3>2. child'[Len(child)] = child[Len(child)] /\ child' # <<>>
        BY <1>3, <3>1
      <3> QED
        BY <1>3, <3>2 DEF Unread
    <2> QED
      BY <1>1, <2>1, <2>2 DEF ChildrenAgree, RowsFit, rows
  <1> QED
    BY <1>4, <1>5, <1>6, <1>7, <1>8, <1>9 DEF IInv, BatchInv

\* Nothing written is fine; so is one run of the batch that is marked otherwise
\* than succeeded.
LEMMA NothingWritten == ASSUME IInv, UNCHANGED <<rows, batch, document>> PROVE RowsFit
  <1>1. PollTypeOK /\ BatchTypes /\ MemberInv /\ FenceInv /\ ChildrenAgree
    BY TypesOfBatch DEF IInv, BatchInv
  <1> QED
    BY <1>1 DEF RowsFit, rows, BatchTypes, PollTypeOK, MemberInv, FenceInv, ChildrenAgree, RunIsWhole, Shadowed
LEMMA OneRunMarked ==
  ASSUME IInv, NEW d \in batch, NEW status \in {"blocked", "running", "retrying", "failed_permanent"},
         runs' = RunMarked(d, status), UNCHANGED <<items, embedded, suggested, batch, document>>
  PROVE  /\ RowsFit
         /\ runs'[d] = status /\ \A o \in Runs \ {d} : runs'[o] = runs[o]
  <1>1. PollTypeOK /\ BatchTypes /\ MemberInv /\ FenceInv /\ ChildrenAgree
    BY TypesOfBatch DEF IInv, BatchInv
  <1>2. d \in Runs /\ runs \in [Runs -> RunStatuses]
    BY <1>1 DEF BatchTypes, PollTypeOK
  <1>3. runs'[d] = status /\ \A o \in Runs \ {d} : runs'[o] = runs[o]
    BY <1>2 DEF RunMarked
  <1>4. runs' \in [Runs -> RunStatuses]
    BY <1>2 DEF RunMarked, RunStatuses
  <1>5. /\ items \in ItemRows /\ embedded \subseteq Runs /\ suggested \subseteq Runs
        /\ \A o \in Runs, p \in DOMAIN Phases : items[o][p].by <= Len(child)
    BY <1>1 DEF BatchTypes, FenceInv
  <1>6. \A o \in batch : runs'[o] # "absent"
    BY <1>1, <1>2, <1>3 DEF MemberInv, BatchTypes
  <1>7. \A o \in Runs : runs'[o] = "succeeded" => RunIsWhole(o)'
    BY <1>1, <1>3 DEF ChildrenAgree, RunIsWhole, Shadowed
  <1> QED
    BY <1>3, <1>4, <1>5, <1>6, <1>7 DEF RowsFit

\* What a child that leaves is afterwards.
LEMMA IsGone ==
  ASSUME NEW e \in Attempts, Gone(e)
  PROVE  \E k \in Children : /\ k.at = "gone" /\ k.todo = {} /\ k.left = {} /\ Fits(k)
                             /\ child' = [child EXCEPT ![e] = k]
  <1>1. PICK k : k = [at |-> "gone", todo |-> {}, phase |-> FetchPhase, left |-> {}, verdict |-> "none"]
    OBVIOUS
  <1>2. k \in Children /\ Fits(k) /\ k.todo = {} /\ k.left = {} /\ k.at = "gone" /\ child' = [child EXCEPT ![e] = k]
    BY <1>1, PhaseFacts DEF Children, Fits, FetchPhase, Gone
  <1> QED
    BY <1>2

\* A child that leaves, for whatever reason, keeps the invariant.
LEMMA LeavingKeeps ==
  ASSUME IInv, NEW e \in Attempts, child[e].at # "gone", Gone(e), UNCHANGED <<origin, rows, command, gate>>, bound' \in Bounds
  PROVE  IInv'
  <1>1. PICK k \in Children : /\ k.at = "gone" /\ k.todo = {} /\ k.left = {} /\ Fits(k)
                               /\ child' = [child EXCEPT ![e] = k]
    BY IsGone
  <1>2. Claims(k)'
    BY <1>1 DEF Claims
  <1>3. RowsFit
    BY NothingWritten DEF origin, handoff
  <1> QED
    BY <1>1, <1>2, <1>3, OneChild

\* The run a child is at is one of those left, and so one of the batch.
LEMMA RunOfIsLeft ==
  ASSUME IInv, NEW e \in Attempts, child[e].left # {}
  PROVE  /\ RunOf(e) \in child[e].left /\ RunOf(e) \in child[e].todo /\ RunOf(e) \in batch /\ RunOf(e) \in Runs
         /\ \A d \in child[e].left \ {RunOf(e)}, n \in child[e].todo : n > d => n \in child[e].left \ {RunOf(e)}
  <1>1. child[e] \in Children /\ Fits(child[e]) /\ child[e].todo \subseteq batch /\ batch \subseteq Runs
    BY OwnerIsNewest DEF IInv, TypeOK
  <1>2. child[e].left \in SUBSET Runs
    BY <1>1 DEF Children
  <1>3. RunOf(e) \in child[e].left /\ \A y \in child[e].left : RunOf(e) <= y
    BY <1>2, LeastRun DEF RunOf
  <1>4. ASSUME NEW d \in child[e].left \ {RunOf(e)}, NEW n \in child[e].todo, n > d
        PROVE  n \in child[e].left \ {RunOf(e)}
    <2>1. RunOf(e) <= d /\ RunOf(e) \in Runs /\ d \in Runs /\ n \in Runs
      BY <1>1, <1>2, <1>3
    <2>2. n # RunOf(e)
      BY <1>4, <2>1, NumRunsAssumption DEF Runs
    <2> QED
      BY <1>1, <1>4, <2>2 DEF Fits
  <1> QED
    BY <1>1, <1>3, <1>4 DEF Fits

\* The run that gets the item is one of those left, and of the same document: in
\* the phases that find it by the document the last one of it.
LEMMA ItemRunFacts ==
  ASSUME IInv, NEW e \in Attempts, child[e].left # {}
  PROVE  /\ ItemRun(e) \in child[e].left /\ ItemRun(e) \in child[e].todo /\ ItemRun(e) \in batch /\ ItemRun(e) \in Runs
         /\ PhaseOf(e) \notin Observed => ItemRun(e) = RunOf(e)
         /\ ItemRun(e) # RunOf(e) => Shadowed(RunOf(e))
  <1>1. /\ child[e] \in Children /\ Fits(child[e]) /\ child[e].todo \subseteq batch /\ batch \subseteq Runs
        /\ RunOf(e) \in child[e].left /\ RunOf(e) \in child[e].todo /\ RunOf(e) \in batch /\ RunOf(e) \in Runs
    BY OwnerIsNewest, RunOfIsLeft DEF IInv, TypeOK
  <1>2. CASE PhaseOf(e) \notin Observed
    BY <1>1, <1>2 DEF ItemRun
  <1>3. CASE PhaseOf(e) \in Observed
    <2>1. PICK S \in SUBSET Runs : S = {n \in child[e].todo : document[n] = document[RunOf(e)]}
      BY <1>1
    <2>2. ItemRun(e) = Max(S) /\ RunOf(e) \in S
      BY <1>1, <1>3, <2>1 DEF ItemRun
    <2>3. ItemRun(e) \in S /\ ItemRun(e) >= RunOf(e)
      BY <2>2, GreatestRun
    <2>4. ItemRun(e) = RunOf(e) \/ ItemRun(e) > RunOf(e)
      BY <1>1, <2>1, <2>3, NumRunsAssumption DEF Runs
    <2>5. ItemRun(e) \in child[e].todo /\ document[ItemRun(e)] = document[RunOf(e)]
      BY <2>1, <2>3
    <2>6. ItemRun(e) \in child[e].left
      BY <1>1, <2>4, <2>5 DEF Fits
    <2>7. ItemRun(e) # RunOf(e) => Shadowed(RunOf(e))
      BY <1>1, <2>4, <2>5 DEF Shadowed
    <2> QED
      BY <1>1, <1>3, <2>5, <2>6, <2>7
  <1> QED
    BY <1>2, <1>3

\* What moving a child, or taking one run from those left, makes of its record.
LEMMA Moved ==
  ASSUME NEW r \in Children, NEW place, NEW k, k = [r EXCEPT !.at = place]
  PROVE  k = [at |-> place, todo |-> r.todo, phase |-> r.phase, left |-> r.left, verdict |-> r.verdict]
  BY DEF Children
LEMMA Lessened ==
  ASSUME NEW r \in Children, NEW left, NEW k, k = [r EXCEPT !.left = left]
  PROVE  k = [at |-> r.at, todo |-> r.todo, phase |-> r.phase, left |-> left, verdict |-> r.verdict]
  BY DEF Children

-----------------------------------------------------------------------------
(* The steps of a child.                                                   *)

\* The owner that starts takes up every run that has not succeeded.
LEMMA StartKeeps == ASSUME IInv, NEW e \in Attempts, Start(e) PROVE IInv'
  <1>1. PollTypeOK /\ BatchTypes
    BY TypesOfBatch DEF IInv
  <1>2. UNCHANGED <<origin, command, gate, rows>> /\ bound' \in Bounds /\ child[e].at # "gone"
    BY <1>1 DEF Start, LosesFence, PollTypeOK, Bounds, At
  <1>3. CASE LosesFence(e)
    BY <1>2, <1>3, LeavingKeeps DEF LosesFence
  <1>4. CASE ~LosesFence(e)
    <2>1. PICK todo : todo = {d \in batch : runs[d] # "succeeded"}
      OBVIOUS
    <2>2. PICK place \in {"next", "turned_away"} : place = IF gate = "open" \/ todo = {} THEN "next" ELSE "turned_away"
      OBVIOUS
    <2>3. PICK k : k = [at |-> place, todo |-> todo, phase |-> FetchPhase, left |-> todo, verdict |-> "none"]
      OBVIOUS
    <2>4. child' = [child EXCEPT ![e] = k]
      BY <1>4, <2>1, <2>2, <2>3 DEF Start
    <2>5. k \in Children /\ Fits(k) /\ k.todo \subseteq batch
      BY <1>1, <2>1, <2>2, <2>3, PhaseFacts DEF Children, Fits, FetchPhase, BatchTypes
    <2>6. Claims(k)'
      <3>1. UNCHANGED <<runs, batch, items, embedded, suggested>>
        BY <1>2 DEF origin, rows
      <3>2. \A d \in k.todo, p \in DOMAIN Phases : ~Done(k, d, p)
        BY <2>3, PhaseFacts DEF Done, FetchPhase
      <3>3. \A d \in k.todo : runs[d] # "succeeded"
        BY <2>1, <2>3
      <3>4. \A d \in batch \ k.todo : runs[d] = "succeeded"
        BY <2>1, <2>3
      <3> QED
        BY <2>2, <2>3, <3>1, <3>2, <3>3, <3>4 DEF Claims, Works, Done, FetchPhase, EmbeddingPhase, ReviewPhase
    <2> QED
      BY <1>2, <2>4, <2>5, <2>6, NothingWritten, OneChild DEF origin, handoff
  <1> QED
    BY <1>3, <1>4

\* The command changes while no row does; it keeps the invariant if the batch is
\* then as its status says.
LEMMA CommandAlone ==
  ASSUME IInv, UNCHANGED <<polling, handoff, rows, gate, bound>>, NEW status, command' = [status |-> status, token |-> 0],
         status \in {"blocked", "queued", "pending"} \union Settled, batch \subseteq batch', command.status # "none" \/ child = <<>>,
         child' \in Seq(Children), Len(child') = Len(child), ChildInv',
         \A e \in Attempts : child'[e].todo \subseteq child[e].todo,
         MemberInv', SealInv',
         status = "succeeded" => \A d \in batch' : runs[d] = "succeeded",
         status = "failed_permanent" => Unread' \/ \A d \in batch' : runs[d] \in Settled,
         status = "blocked" => \E d \in batch' : runs[d] = "blocked",
         batch' \subseteq Runs
  PROVE  IInv'
  <1>1. /\ TypeOK /\ PollInv /\ FenceInv /\ ChildrenAgree /\ PollTypeOK /\ BatchTypes
    BY TypesOfBatch DEF IInv, BatchInv
  <1>2. command' \in Commands /\ command'.status = status /\ status \notin {"none", "running"}
    BY IssuedFacts DEF Commands, Settled
  <1>3. PollInv'
    BY <1>1, OthersKeepPoll DEF PollTypeOK, rows, Bounds
  <1>4. TypeOK'
    BY <1>1, <1>2, <1>3 DEF TypeOK, PollInv, rows, Commands, Attempts
  <1>5. FenceInv' /\ OwnerInv'
    BY <1>1, <1>2 DEF FenceInv, OwnerInv, rows
  <1>6. ChildrenAgree'
    <2>1. \A d \in Runs : Shadowed(d) => Shadowed(d)'
      BY DEF Shadowed, handoff
    <2>2. \A d \in Runs : RunIsWhole(d) => RunIsWhole(d)'
      BY <2>1 DEF RunIsWhole, rows, handoff
    <2> QED
      BY <1>1, <1>2, <2>2 DEF ChildrenAgree, rows
  <1> QED
    BY <1>3, <1>4, <1>5, <1>6 DEF IInv, BatchInv

\* The owner settles the command and leaves.
LEMMA OwnerEnds ==
  ASSUME IInv, NEW e \in Attempts, Owns(e), UNCHANGED <<origin, rows, gate, bound>>,
         NEW k \in Children, child' = [child EXCEPT ![e] = k], Fits(k), k.at = "gone", k.todo \subseteq child[e].todo,
         NEW status \in {"blocked", "pending"} \union Settled, command' = [status |-> status, token |-> 0],
         status = "succeeded" => \A d \in batch : runs[d] = "succeeded",
         status = "failed_permanent" => \/ \A d \in batch : runs[d] \in Settled
                                        \/ k.verdict = "failed_permanent" /\ k.todo = {},
         status = "blocked" => \E d \in batch : runs[d] = "blocked"
  PROVE  IInv'
  <1>1. BatchTypes /\ SealInv /\ MemberInv /\ ChildInv
    BY TypesOfBatch DEF IInv, BatchInv
  <1>2. e \in 1..Len(child) /\ e = Len(child)
    BY OwnerIsNewest
  <1>3. /\ child' \in Seq(Children) /\ Len(child') = Len(child) /\ Attempts' = Attempts /\ child'[e] = k
        /\ \A o \in Attempts \ {e} : child'[o] = child[o]
    BY <1>1, <1>2 DEF BatchTypes, Attempts
  <1>4. ChildInv' /\ \A o \in Attempts : child'[o].todo \subseteq child[o].todo
    BY <1>1, <1>2, <1>3 DEF ChildInv
  <1>5. UNCHANGED <<polling, handoff, batch>> /\ command.status = "running" /\ command'.status = status /\ status # "none"
    BY DEF origin, Owns, Settled
  <1>6. MemberInv'
    BY <1>1, <1>3, <1>4, <1>5 DEF MemberInv, rows
  <1>7. SealInv'
    BY <1>1, <1>5 DEF SealInv, polling, handoff, rows
  <1>8. status = "failed_permanent" => Unread' \/ \A d \in batch' : runs[d] \in Settled
    <2>1. child' # <<>>
      BY <1>2, <1>3
    <2> QED
      BY <1>2, <1>3, <1>5, <2>1 DEF Unread
  <1> QED
    BY <1>1, <1>3, <1>4, <1>5, <1>6, <1>7, <1>8, CommandAlone DEF BatchTypes

\* Runs are turned away one after the other, and then the command.
LEMMA TurnAwayKeeps == ASSUME IInv, NEW e \in Attempts, TurnAway(e) PROVE IInv'
  <1>1. PollTypeOK /\ BatchTypes
    BY TypesOfBatch DEF IInv
  <1>2. UNCHANGED <<origin, gate, bound>> /\ document' = document /\ bound' \in Bounds /\ child[e].at # "gone"
    BY <1>1 DEF TurnAway, PollTypeOK, Bounds, At, origin, handoff
  <1>3. CASE LosesFence(e) /\ UNCHANGED command
    BY <1>2, <1>3, LeavingKeeps DEF LosesFence
  <1>4. child[e] \in Children /\ Fits(child[e]) /\ child[e].todo \subseteq batch /\ child[e].at = "turned_away"
    BY OwnerIsNewest DEF TurnAway, At
  <1>5. CASE Owns(e) /\ child[e].left # {} /\ runs' = RunMarked(RunOf(e), "blocked") /\ OneLess(e)
             /\ UNCHANGED <<command, items, embedded, suggested>>
    <2>1. PICK d \in batch : d = RunOf(e) /\ d \in child[e].left /\ d \in child[e].todo
      BY <1>5, RunOfIsLeft
    <2>2. PICK k : k = [at |-> "turned_away", todo |-> child[e].todo, phase |-> child[e].phase,
                        left |-> child[e].left \ {d}, verdict |-> child[e].verdict]
      OBVIOUS
    <2>3. child' = [child EXCEPT ![e] = k]
      <3>1. ASSUME NEW m, m = [child[e] EXCEPT !.left = child[e].left \ {d}] PROVE m = k
        BY <3>1, <1>4, <2>2, Lessened
      <3> QED
        BY <1>5, <2>1, <3>1 DEF OneLess
    <2>4. k \in Children /\ Fits(k) /\ k.todo \subseteq batch
      BY <1>4, <1>5, <2>1, <2>2, RunOfIsLeft DEF Children, Fits
    <2>5. RowsFit /\ runs'[d] = "blocked" /\ \A o \in Runs \ {d} : runs'[o] = runs[o]
      BY <1>2, <1>5, <2>1, OneRunMarked DEF origin
    <2>6. Claims(child[e]) /\ batch' = batch /\ batch \subseteq Runs
      BY <1>1, <1>2, <1>5, OwnerIsNewest DEF origin, BatchTypes
    <2>7. Claims(k)'
      BY <1>4, <2>1, <2>2, <2>5, <2>6 DEF Claims, Blind
    <2> QED
      BY <1>2, <1>5, <2>3, <2>4, <2>5, <2>7, OneChild
  <1>6. CASE Owns(e) /\ child[e].left = {} /\ command' = [status |-> "blocked", token |-> 0] /\ Gone(e) /\ UNCHANGED rows
    <2>1. Claims(child[e])
      BY <1>6, OwnerIsNewest
    <2>2. \E d \in batch : runs[d] = "blocked"
      BY <1>4, <1>6, <2>1 DEF Claims, Fits
    <2>3. PICK k \in Children : /\ k.at = "gone" /\ k.todo = {} /\ Fits(k) /\ child' = [child EXCEPT ![e] = k]
      BY <1>6, IsGone
    <2> QED
      BY <1>2, <1>6, <2>2, <2>3, OwnerEnds DEF Settled
  <1> QED
    BY <1>3, <1>5, <1>6 DEF TurnAway

\* Runs follow the verdict one after the other, and then the command.
LEMMA SettleKeeps == ASSUME IInv, NEW e \in Attempts, Settle(e) PROVE IInv'
  <1>1. PollTypeOK /\ BatchTypes
    BY TypesOfBatch DEF IInv
  <1>2. UNCHANGED <<origin, gate, bound>> /\ document' = document /\ bound' \in Bounds /\ child[e].at # "gone"
    BY <1>1 DEF Settle, PollTypeOK, Bounds, At, origin, handoff
  <1>3. CASE LosesFence(e) /\ UNCHANGED command
    BY <1>2, <1>3, LeavingKeeps DEF LosesFence
  <1>4. /\ child[e] \in Children /\ Fits(child[e]) /\ child[e].todo \subseteq batch /\ child[e].at = "failing"
        /\ child[e].verdict \in {"retrying", "failed_permanent"}
    BY OwnerIsNewest DEF Settle, At, Children, Fits
  <1>5. CASE Owns(e) /\ child[e].left # {} /\ runs' = RunMarked(RunOf(e), child[e].verdict) /\ OneLess(e)
             /\ UNCHANGED <<command, items, embedded, suggested>>
    <2>1. PICK d \in batch : d = RunOf(e) /\ d \in child[e].left /\ d \in child[e].todo
      BY <1>5, RunOfIsLeft
    <2>2. PICK k : k = [at |-> "failing", todo |-> child[e].todo, phase |-> child[e].phase,
                        left |-> child[e].left \ {d}, verdict |-> child[e].verdict]
      OBVIOUS
    <2>3. child' = [child EXCEPT ![e] = k]
      <3>1. ASSUME NEW m, m = [child[e] EXCEPT !.left = child[e].left \ {d}] PROVE m = k
        BY <3>1, <1>4, <2>2, Lessened
      <3> QED
        BY <1>5, <2>1, <3>1 DEF OneLess
    <2>4. k \in Children /\ Fits(k) /\ k.todo \subseteq batch
      BY <1>4, <1>5, <2>1, <2>2, RunOfIsLeft DEF Children, Fits
    <2>5. RowsFit /\ runs'[d] = child[e].verdict /\ \A o \in Runs \ {d} : runs'[o] = runs[o]
      BY <1>2, <1>4, <1>5, <2>1, OneRunMarked DEF origin
    <2>6. Claims(child[e]) /\ batch' = batch /\ batch \subseteq Runs
      BY <1>1, <1>2, <1>5, OwnerIsNewest DEF origin, BatchTypes
    <2>7. Claims(k)'
      BY <1>4, <2>1, <2>2, <2>5, <2>6 DEF Claims, Blind, Settled
    <2> QED
      BY <1>2, <1>5, <2>3, <2>4, <2>5, <2>7, OneChild
  <1>6. CASE /\ Owns(e) /\ child[e].left = {} /\ Gone(e) /\ UNCHANGED rows
             /\ command' = [status |-> "pending", token |-> 0]
    <2>1. PICK k \in Children : /\ k.at = "gone" /\ k.todo = {} /\ Fits(k) /\ child' = [child EXCEPT ![e] = k]
      BY <1>6, IsGone
    <2> QED
      BY <1>2, <1>6, <2>1, OwnerEnds DEF Settled
  <1>7. CASE /\ Owns(e) /\ child[e].left = {} /\ child[e].verdict = "failed_permanent" /\ Moves(e, "gone") /\ UNCHANGED rows
             /\ command' = [status |-> "failed_permanent", token |-> 0]
    <2>1. Claims(child[e])
      BY <1>7, OwnerIsNewest
    <2>2. (\A d \in batch : runs[d] \in Settled) \/ child[e].todo = {}
      BY <1>4, <1>7, <2>1 DEF Claims, Blind, Settled
    <2>3. PICK k : k = [at |-> "gone", todo |-> child[e].todo, phase |-> child[e].phase, left |-> child[e].left,
                        verdict |-> child[e].verdict]
      OBVIOUS
    <2>4. child' = [child EXCEPT ![e] = k]
      <3>1. ASSUME NEW m, m = [child[e] EXCEPT !.at = "gone"] PROVE m = k
        BY <3>1, <1>4, <2>3, Moved
      <3> QED
        BY <1>7, <3>1 DEF Moves
    <2>5. k \in Children /\ Fits(k) /\ k.at = "gone" /\ k.todo = child[e].todo /\ k.verdict = "failed_permanent"
      BY <1>4, <1>7, <2>3 DEF Children, Fits
    <2> QED
      BY <1>2, <1>7, <2>2, <2>4, <2>5, OwnerEnds DEF Settled
  <1> QED
    BY <1>3, <1>5, <1>6, <1>7 DEF Settle

\* A batch whose runs are all through has succeeded.
LEMMA ConcludeKeeps == ASSUME IInv, NEW e \in Attempts, Conclude(e) PROVE IInv'
  <1>1. PollTypeOK /\ BatchTypes
    BY TypesOfBatch DEF IInv
  <1>2. UNCHANGED <<origin, gate, bound>> /\ document' = document /\ bound' \in Bounds /\ child[e].at # "gone"
    BY <1>1 DEF Conclude, PollTypeOK, Bounds, At, origin, handoff
  <1>3. CASE LosesFence(e) /\ UNCHANGED command
    BY <1>2, <1>3, LeavingKeeps DEF LosesFence
  <1>4. CASE Owns(e) /\ command' = [status |-> "succeeded", token |-> 0] /\ Gone(e) /\ UNCHANGED rows
    <2>1. Claims(child[e]) /\ child[e].at = "next" /\ (child[e].phase = 7 \/ child[e].todo = {})
      BY <1>4, OwnerIsNewest, PhaseFacts DEF Conclude, At, Finished, PhaseOf
    <2>2. \A d \in child[e].todo : runs[d] = "succeeded"
      BY <2>1, PhaseFacts DEF Claims, Works, Done, DoneBy, ReviewPhase
    <2>3. \A d \in batch : runs[d] = "succeeded"
      BY <2>1, <2>2 DEF Claims, Blind
    <2>4. PICK k \in Children : /\ k.at = "gone" /\ k.todo = {} /\ Fits(k) /\ child' = [child EXCEPT ![e] = k]
      BY <1>4, IsGone
    <2> QED
      BY <1>2, <1>4, <2>3, <2>4, OwnerEnds DEF Settled
  <1> QED
    BY <1>3, <1>4 DEF Conclude

\* A child between two runs or inside one has a run at hand and a phase of it.
LEMMA WorkingFacts ==
  ASSUME IInv, NEW e \in Attempts,
         child[e].at \in {"inside", "made", "closed"} \/ (child[e].at = "next" /\ ~Finished(e))
  PROVE  /\ child[e] \in Children /\ Fits(child[e]) /\ child[e].todo \subseteq batch
         /\ PhaseOf(e) \in 1..6 /\ child[e].todo # {} /\ child[e].left # {}
         /\ RunOf(e) \in child[e].left /\ RunOf(e) \in child[e].todo /\ RunOf(e) \in batch /\ RunOf(e) \in Runs
         /\ ItemRun(e) \in child[e].left /\ ItemRun(e) \in child[e].todo /\ ItemRun(e) \in batch /\ ItemRun(e) \in Runs
         /\ PhaseOf(e) \notin Observed => ItemRun(e) = RunOf(e)
         /\ ItemRun(e) # RunOf(e) => Shadowed(RunOf(e))
         /\ Owns(e) => /\ Claims(child[e]) /\ Works(child[e])
                       /\ runs[RunOf(e)] # "succeeded" /\ runs[ItemRun(e)] # "succeeded"
  <1>1. child[e] \in Children /\ Fits(child[e]) /\ child[e].todo \subseteq batch /\ (Owns(e) => Claims(child[e]))
    BY OwnerIsNewest
  <1>2. PhaseOf(e) \in 1..6 /\ child[e].todo # {} /\ child[e].left # {}
    BY <1>1, PhaseFacts DEF Fits, Finished, PhaseOf, Children
  <1>3. RunOf(e) \in child[e].left /\ RunOf(e) \in child[e].todo /\ RunOf(e) \in batch /\ RunOf(e) \in Runs
    BY <1>2, RunOfIsLeft
  <1>4. /\ ItemRun(e) \in child[e].left /\ ItemRun(e) \in child[e].todo /\ ItemRun(e) \in batch /\ ItemRun(e) \in Runs
        /\ PhaseOf(e) \notin Observed => ItemRun(e) = RunOf(e)
        /\ ItemRun(e) # RunOf(e) => Shadowed(RunOf(e))
    BY <1>2, ItemRunFacts
  <1>5. ASSUME Owns(e) PROVE Works(child[e]) /\ runs[RunOf(e)] # "succeeded" /\ runs[ItemRun(e)] # "succeeded"
    <2>1. Works(child[e])
      BY <1>1, <1>5 DEF Claims
    <2>2. ~Done(child[e], RunOf(e), ReviewPhase) /\ ~Done(child[e], ItemRun(e), ReviewPhase)
      BY <1>2, <1>3, <1>4 DEF Done, ReviewPhase, PhaseOf
    <2> QED
      BY <1>3, <1>4, <2>1, <2>2 DEF Works
  <1> QED
    BY <1>1, <1>2, <1>3, <1>4, <1>5

\* An item is opened, of a run that has not succeeded.
LEMMA OpenKeeps == ASSUME IInv, NEW e \in Attempts, Open(e) PROVE IInv'
  <1>1. PollTypeOK /\ BatchTypes /\ FenceInv /\ MemberInv /\ ChildrenAgree
    BY TypesOfBatch DEF IInv, BatchInv
  <1>2. UNCHANGED <<origin, command, gate, bound>> /\ document' = document /\ bound' \in Bounds /\ child[e].at # "gone"
    BY <1>1 DEF Open, PollTypeOK, Bounds, At, origin, handoff
  <1>3. CASE LosesFence(e)
    BY <1>2, <1>3, LeavingKeeps DEF LosesFence
  <1>4. CASE /\ Owns(e) /\ items' = ItemOpened(e) /\ Moves(e, "inside") /\ UNCHANGED <<embedded, suggested>>
             /\ runs' = IF PhaseOf(e) # ReviewPhase THEN RunMarked(ItemRun(e), "running") ELSE runs
    <2>1. child[e].at = "next" /\ ~Finished(e)
      BY DEF Open, At
    <2>2. PICK d, p : d = ItemRun(e) /\ p = PhaseOf(e)
      OBVIOUS
    <2>3. /\ child[e] \in Children /\ Fits(child[e]) /\ child[e].todo \subseteq batch /\ p \in 1..6
          /\ d \in child[e].left /\ d \in child[e].todo /\ d \in batch /\ d \in Runs
          /\ Claims(child[e]) /\ Works(child[e]) /\ runs[d] # "succeeded" /\ p = child[e].phase
      BY <1>4, <2>1, <2>2, WorkingFacts DEF PhaseOf
    <2>4. PICK k : k = [at |-> "inside", todo |-> child[e].todo, phase |-> p, left |-> child[e].left, verdict |-> child[e].verdict]
      OBVIOUS
    <2>5. child' = [child EXCEPT ![e] = k]
      <3>1. ASSUME NEW m, m = [child[e] EXCEPT !.at = "inside"] PROVE m = k
        BY <3>1, <2>3, <2>4, Moved
      <3> QED
        BY <1>4, <3>1 DEF Moves
    <2>6. k \in Children /\ Fits(k) /\ k.todo \subseteq batch
      BY <2>1, <2>3, <2>4, PhaseFacts DEF Children, Fits
    <2>7. runs' \in [Runs -> RunStatuses] /\ runs'[d] # "succeeded" /\ runs'[d] # "absent"
          /\ \A o \in Runs \ {d} : runs'[o] = runs[o]
      BY <1>1, <1>4, <2>2, <2>3 DEF PollTypeOK, RunMarked, RunStatuses, MemberInv
    <2>8. PICK w \in Items : w = [status |-> "running", by |-> e]
      <3>1. e \in 0..MaxIssued /\ "running" \in ItemStatuses
        BY OwnerIsNewest, IssuedFacts DEF ItemStatuses
      <3>2. [status |-> "running", by |-> e] \in Items
        BY <3>1 DEF Items
      <3> QED
        BY <3>2
    <2>9. /\ items' = [items EXCEPT ![d][p] = w] /\ w.by = Len(child)
      BY <1>4, <2>2, <2>8, OwnerIsNewest DEF ItemOpened
    <2>10. /\ items' \in ItemRows
           /\ items'[d][p] = w /\ \A q \in DOMAIN Phases \ {p} : items'[d][q] = items[d][q]
           /\ \A o \in Runs \ {d} : items'[o] = items[o]
      BY <1>1, <2>3, <2>8, <2>9, PhaseFacts DEF BatchTypes, ItemRows
    <2>11. RowsFit
      <3>1. \A o \in Runs, q \in DOMAIN Phases : items'[o][q].by <= Len(child)
        BY <1>1, <2>9, <2>10 DEF FenceInv, BatchTypes
      <3>2. \A o \in batch : runs'[o] # "absent"
        BY <1>1, <2>7 DEF MemberInv, BatchTypes
      <3>3. \A o \in Runs : runs'[o] = "succeeded" => RunIsWhole(o)'
        BY <1>1, <1>2, <1>4, <2>7, <2>10 DEF ChildrenAgree, RunIsWhole, Shadowed, origin
      <3> QED
        BY <1>1, <1>4, <2>3, <2>7, <2>10, <3>1, <3>2, <3>3 DEF RowsFit, BatchTypes
    <2>12. Claims(k)'
      <3>1. batch' = batch /\ document' = document /\ UNCHANGED <<embedded, suggested>>
        BY <1>2, <1>4 DEF origin
      <3>2. \A o \in batch \ k.todo : runs'[o] = "succeeded"
        BY <1>1, <2>1, <2>3, <2>4, <2>7 DEF Claims, Blind, BatchTypes
      <3>3. \A o, q : Done(k, o, q) <=> Done(child[e], o, q)
        BY <2>3, <2>4 DEF Done
      <3>4. ~Done(k, d, p) /\ (p # 6 => ~Done(k, d, 6)) /\ (p # 6 => \A o : ~Done(k, o, 6))
        BY <2>3, <2>4 DEF Done
      <3>5. \A o \in k.todo, q \in DOMAIN Phases : Done(k, o, q) => DoneBy(k, o, q)'
        <4> SUFFICES ASSUME NEW o \in k.todo, NEW q \in DOMAIN Phases, Done(k, o, q) PROVE DoneBy(k, o, q)'
          OBVIOUS
        <4>1. DoneBy(child[e], o, q) /\ o \in Runs
          BY <1>1, <2>3, <2>4, <3>3 DEF Works, BatchTypes
        <4>2. items'[o][q] = items[o][q]
          BY <2>10, <3>4, <4>1
        <4>3. q = 6 => runs'[o] = runs[o]
          BY <2>7, <3>4, <4>1, <1>4, <2>2 DEF ReviewPhase
        <4> QED
          BY <3>1, <4>1, <4>2, <4>3 DEF DoneBy, ReviewPhase, Shadowed
      <3>6. \A o \in k.todo : ~Done(k, o, ReviewPhase) => runs'[o] # "succeeded"
        BY <1>1, <2>3, <2>4, <2>7, <3>3 DEF Works, BatchTypes
      <3> QED
        BY <2>4, <3>1, <3>2, <3>5, <3>6 DEF Claims, Works, Done
    <2> QED
      BY <1>2, <1>4, <2>5, <2>6, <2>11, <2>12, OneChild
  <1> QED
    BY <1>3, <1>4 DEF Open

\* What a phase made is stored under the fence; a child that lost it stores nothing.
LEMMA WorkKeeps == ASSUME IInv, NEW e \in Attempts, Work(e) PROVE IInv'
  <1>1. PollTypeOK /\ BatchTypes /\ FenceInv /\ MemberInv /\ ChildrenAgree
    BY TypesOfBatch DEF IInv, BatchInv
  <1>2. UNCHANGED <<origin, command, gate, bound>> /\ document' = document /\ bound' \in Bounds /\ child[e].at # "gone"
    BY <1>1 DEF Work, PollTypeOK, Bounds, At, origin, handoff
  <1>3. CASE LosesFence(e)
    BY <1>2, <1>3, LeavingKeeps DEF LosesFence
  <1>4. CASE /\ PhaseOf(e) \in {FetchPhase, OcrPhase} \/ Owns(e)
             /\ embedded' = EmbeddingStored(e) /\ suggested' = SuggestionStored(e)
             /\ Moves(e, "made") /\ UNCHANGED <<runs, items>>
    <2>1. child[e].at = "inside"
      BY DEF Work, At
    <2>2. /\ child[e] \in Children /\ Fits(child[e]) /\ child[e].todo \subseteq batch /\ PhaseOf(e) \in 1..6
          /\ RunOf(e) \in Runs /\ (Owns(e) => Claims(child[e]) /\ Works(child[e]))
      BY <2>1, WorkingFacts
    <2>3. PICK k : k = [at |-> "made", todo |-> child[e].todo, phase |-> child[e].phase, left |-> child[e].left,
                        verdict |-> child[e].verdict]
      OBVIOUS
    <2>4. child' = [child EXCEPT ![e] = k]
      <3>1. ASSUME NEW m, m = [child[e] EXCEPT !.at = "made"] PROVE m = k
        BY <3>1, <2>2, <2>3, Moved
      <3> QED
        BY <1>4, <3>1 DEF Moves
    <2>5. k \in Children /\ Fits(k) /\ k.todo \subseteq batch
      BY <2>1, <2>2, <2>3 DEF Children, Fits
    <2>6. embedded \subseteq embedded' /\ embedded' \subseteq Runs /\ suggested \subseteq suggested' /\ suggested' \subseteq Runs
      BY <1>1, <1>4, <2>2 DEF EmbeddingStored, SuggestionStored, BatchTypes, PollTypeOK
    <2>7. Owns(e) \/ UNCHANGED rows
      BY <1>4 DEF EmbeddingStored, SuggestionStored, rows, FetchPhase, OcrPhase, EmbeddingPhase, ReviewPhase
    <2>8. RowsFit
      <3>1. \A o \in Runs : runs'[o] = "succeeded" => RunIsWhole(o)'
        BY <1>1, <1>2, <1>4, <2>6 DEF ChildrenAgree, RunIsWhole, Shadowed, origin
      <3> QED
        BY <1>1, <1>4, <2>6, <3>1 DEF RowsFit, BatchTypes, PollTypeOK, MemberInv, FenceInv
    <2>9. ASSUME Owns(e) PROVE Claims(k)'
      <3>1. Claims(child[e]) /\ Works(child[e]) /\ batch' = batch /\ document' = document
        BY <1>2, <2>2, <2>9 DEF origin
      <3>2. \A o, q : Done(k, o, q) <=> Done(child[e], o, q)
        BY <2>3 DEF Done
      <3>3. \A o, q : DoneBy(child[e], o, q) => DoneBy(k, o, q)'
        BY <1>4, <2>6, <3>1 DEF DoneBy, Shadowed
      <3>4. /\ k.phase = EmbeddingPhase => document[Min(k.left)] \in embedded'
            /\ k.phase = ReviewPhase => Min(k.left) \in suggested'
        BY <1>4, <2>3 DEF EmbeddingStored, SuggestionStored, RunOf, PhaseOf
      <3>5. Works(k)'
        BY <1>4, <2>3, <3>1, <3>2, <3>3, <3>4 DEF Works, Done
      <3> QED
        BY <1>4, <2>1, <2>3, <3>1, <3>5 DEF Claims, Blind
    <2> QED
      BY <1>2, <1>4, <2>4, <2>5, <2>7, <2>8, <2>9, OneChild
  <1> QED
    BY <1>3, <1>4 DEF Work

\* Going on to the next run makes exactly this run done in this phase.
LEMMA NextFacts ==
  ASSUME IInv, NEW e \in Attempts, child[e].at \in {"made", "closed"}, NextRun(e)
  PROVE  \E k \in Children :
           /\ child' = [child EXCEPT ![e] = k] /\ Fits(k) /\ k.at = "next" /\ k.todo = child[e].todo
           /\ \A o \in k.todo, q \in DOMAIN Phases :
                Done(k, o, q) <=> Done(child[e], o, q) \/ (o = RunOf(e) /\ q = PhaseOf(e))
  <1>1. /\ child[e] \in Children /\ Fits(child[e]) /\ PhaseOf(e) \in 1..6 /\ child[e].todo # {}
        /\ RunOf(e) \in child[e].left /\ RunOf(e) \in child[e].todo
    BY WorkingFacts
  <1>2. PICK left : left = IF child[e].left = {RunOf(e)} THEN child[e].todo ELSE child[e].left \ {RunOf(e)}
    OBVIOUS
  <1>3. PICK phase : phase = IF child[e].left = {RunOf(e)} THEN PhaseOf(e) + 1 ELSE PhaseOf(e)
    OBVIOUS
  <1>4. PICK k : k = [at |-> "next", todo |-> child[e].todo, verdict |-> "none", phase |-> phase, left |-> left]
    OBVIOUS
  <1>5. child' = [child EXCEPT ![e] = k]
    BY <1>2, <1>3, <1>4 DEF NextRun
  <1>6. phase \in 1..7 /\ left \subseteq child[e].todo /\ left # {}
    BY <1>1, <1>2, <1>3 DEF Fits
  <1>7. k \in Children
    BY <1>1, <1>4, <1>6, PhaseFacts DEF Children
  <1>8. Fits(k)
    <2>1. \A d \in left, n \in child[e].todo : n > d => n \in left
      BY <1>1, <1>2, RunOfIsLeft
    <2> QED
      BY <1>4, <1>6, <2>1 DEF Fits
  <1>9. ASSUME NEW o \in k.todo, NEW q \in DOMAIN Phases
        PROVE  Done(k, o, q) <=> Done(child[e], o, q) \/ (o = RunOf(e) /\ q = PhaseOf(e))
    <2>1. CASE child[e].left = {RunOf(e)}
      <3>1. Done(k, o, q) <=> q < PhaseOf(e) + 1
        BY <1>2, <1>3, <1>4, <1>9, <2>1 DEF Done
      <3>2. Done(child[e], o, q) <=> q < PhaseOf(e) \/ (q = PhaseOf(e) /\ o # RunOf(e))
        BY <2>1 DEF Done, PhaseOf
      <3> QED
        BY <1>1, <3>1, <3>2, PhaseFacts
    <2>2. CASE child[e].left # {RunOf(e)}
      <3>1. Done(k, o, q) <=> q < PhaseOf(e) \/ (q = PhaseOf(e) /\ o \notin child[e].left \ {RunOf(e)})
        BY <1>2, <1>3, <1>4, <2>2 DEF Done
      <3>2. Done(child[e], o, q) <=> q < PhaseOf(e) \/ (q = PhaseOf(e) /\ o \notin child[e].left)
        BY DEF Done, PhaseOf
      <3> QED
        BY <3>1, <3>2
    <2> QED
      BY <2>1, <2>2
  <1> QED
    BY <1>4, <1>5, <1>7, <1>8, <1>9

\* An item is closed only by the attempt that opened it.
LEMMA CloseKeeps == ASSUME IInv, NEW e \in Attempts, Close(e) PROVE IInv'
  <1>1. PollTypeOK /\ BatchTypes /\ FenceInv /\ MemberInv /\ ChildrenAgree
    BY TypesOfBatch DEF IInv, BatchInv
  <1>2. UNCHANGED <<origin, command, gate, bound>> /\ document' = document /\ bound' \in Bounds /\ child[e].at # "gone"
    BY <1>1 DEF Close, PollTypeOK, Bounds, At, origin, handoff
  <1>3. CASE LosesFence(e)
    BY <1>2, <1>3, LeavingKeeps DEF LosesFence
  <1>4. CASE /\ Owns(e) /\ items' = ItemClosed(e, "complete")
             /\ (IF PhaseOf(e) = ReviewPhase THEN Moves(e, "closed") ELSE NextRun(e))
             /\ UNCHANGED <<runs, embedded, suggested>>
    <2>1. child[e].at = "made"
      BY DEF Close, At
    <2>2. PICK d, m, p : d = RunOf(e) /\ m = ItemRun(e) /\ p = PhaseOf(e)
      OBVIOUS
    <2>3. /\ child[e] \in Children /\ Fits(child[e]) /\ child[e].todo \subseteq batch /\ p \in 1..6 /\ p = child[e].phase
          /\ d \in child[e].left /\ d \in child[e].todo /\ d \in batch /\ d \in Runs /\ d = Min(child[e].left)
          /\ m \in Runs /\ (p \notin Observed => m = d) /\ (m # d => Shadowed(d)) /\ runs[m] # "succeeded"
          /\ Claims(child[e]) /\ Works(child[e]) /\ runs[d] # "succeeded"
      BY <1>4, <2>1, <2>2, WorkingFacts DEF PhaseOf, RunOf
    <2>4. /\ items' \in ItemRows /\ items'[m][p].status = "complete"
          /\ \A o \in Runs, q \in DOMAIN Phases : items'[o][q].by = items[o][q].by
          /\ \A o \in Runs, q \in DOMAIN Phases : o # m \/ q # p => items'[o][q] = items[o][q]
      <3>1. items' = [items EXCEPT ![m][p].status = "complete"]
        BY <1>4, <2>2 DEF ItemClosed
      <3>2. items \in ItemRows /\ p \in DOMAIN Phases
        BY <1>1, <2>3, PhaseFacts DEF BatchTypes
      <3>3. items[m][p] \in Items /\ items[m] \in [DOMAIN Phases -> Items]
        BY <2>3, <3>2 DEF ItemRows
      <3>4. PICK w : w = [items[m][p] EXCEPT !.status = "complete"]
        OBVIOUS
      <3>5. w \in Items /\ w.status = "complete" /\ w.by = items[m][p].by
        BY <3>3, <3>4 DEF Items, ItemStatuses
      <3>6. items' = [items EXCEPT ![m][p] = w]
        BY <3>1, <3>4
      <3>7. items'[m] = [items[m] EXCEPT ![p] = w] /\ \A o \in Runs \ {m} : items'[o] = items[o]
        BY <2>3, <3>2, <3>6 DEF ItemRows
      <3>8. items' \in ItemRows
        BY <2>3, <3>2, <3>3, <3>5, <3>6 DEF ItemRows
      <3> QED
        BY <2>3, <3>2, <3>3, <3>5, <3>7, <3>8
    <2>5. RowsFit
      <3>1. \A o \in Runs : runs'[o] = "succeeded" => RunIsWhole(o)'
        BY <1>1, <1>2, <1>4, <2>3, <2>4 DEF ChildrenAgree, RunIsWhole, Shadowed, origin
      <3>2. \A o \in Runs, q \in DOMAIN Phases : items'[o][q].by <= Len(child)
        BY <1>1, <2>4 DEF FenceInv
      <3>3. /\ runs' \in [Runs -> RunStatuses] /\ embedded' \subseteq Runs /\ suggested' \subseteq Runs
            /\ runs' = runs /\ \A o \in batch : runs'[o] # "absent"
        BY <1>1, <1>4 DEF BatchTypes, PollTypeOK, MemberInv
      <3> QED
        BY <2>4, <3>1, <3>2, <3>3 DEF RowsFit
    <2>6. batch' = batch /\ document' = document /\ UNCHANGED <<runs, embedded, suggested>> /\ batch \subseteq Runs
      BY <1>1, <1>2, <1>4 DEF origin, BatchTypes
    <2>7. \A k, o, q : o \in Runs /\ q \in DOMAIN Phases /\ DoneBy(child[e], o, q) => DoneBy(k, o, q)'
      BY <2>4, <2>6 DEF DoneBy, Shadowed
    <2>8. CASE p = ReviewPhase /\ Moves(e, "closed")
      <3>1. PICK k : k = [at |-> "closed", todo |-> child[e].todo, phase |-> child[e].phase, left |-> child[e].left,
                          verdict |-> child[e].verdict]
        OBVIOUS
      <3>2. child' = [child EXCEPT ![e] = k]
        <4>1. ASSUME NEW n, n = [child[e] EXCEPT !.at = "closed"] PROVE n = k
          BY <4>1, <2>3, <3>1, Moved
        <4> QED
          BY <2>8, <4>1 DEF Moves
      <3>3. k \in Children /\ Fits(k) /\ k.todo \subseteq batch
        BY <2>1, <2>3, <2>8, <3>1 DEF Children, Fits
      <3>4. \A o, q : Done(k, o, q) <=> Done(child[e], o, q)
        BY <3>1 DEF Done
      <3>5. Works(k)'
        <4>1. m = d /\ items'[d][ReviewPhase].status = "complete"
          BY <2>3, <2>4, <2>8, PhaseFacts DEF ReviewPhase
        <4> QED
          BY <2>1, <2>3, <2>6, <2>7, <2>8, <3>1, <3>4, <4>1 DEF Works, Done
      <3>6. Claims(k)'
        BY <2>1, <2>3, <2>6, <3>1, <3>5 DEF Claims, Blind
      <3> QED
        BY <1>2, <1>4, <2>5, <3>2, <3>3, <3>6, OneChild
    <2>9. CASE p # ReviewPhase /\ NextRun(e)
      <3>1. PICK k \in Children :
              /\ child' = [child EXCEPT ![e] = k] /\ Fits(k) /\ k.at = "next" /\ k.todo = child[e].todo
              /\ \A o \in k.todo, q \in DOMAIN Phases :
                   Done(k, o, q) <=> Done(child[e], o, q) \/ (o = d /\ q = p)
        BY <2>1, <2>2, <2>9, NextFacts
      <3>2. ASSUME NEW o \in k.todo, NEW q \in DOMAIN Phases, Done(k, o, q) PROVE DoneBy(k, o, q)'
        <4>1. CASE Done(child[e], o, q)
          BY <2>3, <2>6, <2>7, <3>1, <3>2, <4>1 DEF Works
        <4>2. CASE o = d /\ q = p
          <5>1. Shadowed(d)' = Shadowed(d)
            BY <2>6 DEF Shadowed
          <5>2. items'[d][p].status = "complete" \/ (p \in Observed /\ Shadowed(d)')
            BY <2>3, <2>4, <5>1
          <5> QED
            BY <2>1, <2>3, <2>6, <2>9, <4>2, <5>2 DEF Works, DoneBy
        <4> QED
          BY <3>1, <3>2, <4>1, <4>2
      <3>3. \A o \in k.todo : ~Done(k, o, ReviewPhase) => runs'[o] # "succeeded"
        BY <2>3, <2>6, <3>1, PhaseFacts DEF Works, ReviewPhase
      <3>4. Works(k)'
        BY <3>1, <3>2, <3>3 DEF Works, Done
      <3>5. Claims(k)'
        BY <2>1, <2>3, <2>6, <3>1, <3>4 DEF Claims, Blind
      <3> QED
        BY <1>2, <1>4, <2>3, <2>5, <3>1, <3>5, OneChild
    <2> QED
      BY <1>4, <2>2, <2>8, <2>9
  <1> QED
    BY <1>3, <1>4 DEF Close

\* A run succeeds only when every phase of it is done.
LEMMA MarkSucceededKeeps == ASSUME IInv, NEW e \in Attempts, MarkSucceeded(e) PROVE IInv'
  <1>1. PollTypeOK /\ BatchTypes /\ FenceInv /\ MemberInv /\ ChildrenAgree
    BY TypesOfBatch DEF IInv, BatchInv
  <1>2. UNCHANGED <<origin, command, gate, bound>> /\ document' = document /\ bound' \in Bounds /\ child[e].at # "gone"
    BY <1>1 DEF MarkSucceeded, PollTypeOK, Bounds, At, origin, handoff
  <1>3. CASE LosesFence(e)
    BY <1>2, <1>3, LeavingKeeps DEF LosesFence
  <1>4. CASE /\ Owns(e) /\ runs' = RunMarked(RunOf(e), "succeeded") /\ NextRun(e)
             /\ UNCHANGED <<items, embedded, suggested>>
    <2>1. child[e].at = "closed"
      BY DEF MarkSucceeded, At
    <2>2. PICK d : d = RunOf(e)
      OBVIOUS
    <2>3. /\ child[e] \in Children /\ Fits(child[e]) /\ child[e].todo \subseteq batch
          /\ PhaseOf(e) = ReviewPhase /\ child[e].phase = ReviewPhase
          /\ d \in child[e].left /\ d \in child[e].todo /\ d \in batch /\ d \in Runs /\ d = Min(child[e].left)
          /\ Claims(child[e]) /\ Works(child[e])
      BY <1>4, <2>1, <2>2, WorkingFacts DEF PhaseOf, RunOf, Fits
    <2>4. runs' \in [Runs -> RunStatuses] /\ runs'[d] = "succeeded" /\ \A o \in Runs \ {d} : runs'[o] = runs[o]
      BY <1>1, <1>4, <2>2, <2>3 DEF PollTypeOK, RunMarked, RunStatuses
    <2>5. batch' = batch /\ document' = document /\ UNCHANGED <<items, embedded, suggested>> /\ batch \subseteq Runs
      BY <1>1, <1>2, <1>4 DEF origin, BatchTypes
    <2>6. RunIsWhole(d)
      <3>1. \A q \in DOMAIN Phases : q # ReviewPhase => DoneBy(child[e], d, q)
        BY <2>3, PhaseFacts DEF Works, Done, ReviewPhase
      <3>2. items[d][ReviewPhase].status = "complete" /\ d \in suggested
        BY <2>1, <2>3 DEF Works
      <3> QED
        BY <3>1, <3>2, PhaseFacts DEF RunIsWhole, DoneBy, EmbeddingPhase, ReviewPhase
    <2>7. RowsFit
      <3>1. \A o \in Runs : runs'[o] = "succeeded" => RunIsWhole(o)'
        BY <1>1, <2>4, <2>5, <2>6 DEF ChildrenAgree, RunIsWhole, Shadowed
      <3>2. /\ items' \in ItemRows /\ embedded' \subseteq Runs /\ suggested' \subseteq Runs
            /\ \A o \in Runs, q \in DOMAIN Phases : items'[o][q].by <= Len(child)
        BY <1>1, <2>5 DEF BatchTypes, FenceInv
      <3>3. \A o \in batch : runs'[o] # "absent"
        BY <1>1, <2>4, <2>5 DEF MemberInv
      <3> QED
        BY <2>3, <2>4, <3>1, <3>2, <3>3 DEF RowsFit
    <2>8. PICK k \in Children :
            /\ child' = [child EXCEPT ![e] = k] /\ Fits(k) /\ k.at = "next" /\ k.todo = child[e].todo
            /\ \A o \in k.todo, q \in DOMAIN Phases :
                 Done(k, o, q) <=> Done(child[e], o, q) \/ (o = RunOf(e) /\ q = PhaseOf(e))
      BY <1>4, <2>1, NextFacts
    <2>9. ASSUME NEW o \in k.todo, NEW q \in DOMAIN Phases, Done(k, o, q) PROVE DoneBy(k, o, q)'
      <3>1. CASE Done(child[e], o, q)
        <4>1. DoneBy(child[e], o, q) /\ o \in Runs
          BY <2>3, <2>5, <2>8, <2>9, <3>1 DEF Works
        <4> QED
          BY <2>4, <2>5, <4>1 DEF DoneBy, Shadowed
      <3>2. CASE o = d /\ q = ReviewPhase
        BY <2>1, <2>3, <2>4, <2>5, <3>2 DEF Works, DoneBy, EmbeddingPhase, ReviewPhase
      <3> QED
        BY <2>2, <2>3, <2>8, <2>9, <3>1, <3>2
    <2>10. \A o \in k.todo : ~Done(k, o, ReviewPhase) => runs'[o] # "succeeded"
      BY <2>2, <2>3, <2>4, <2>5, <2>8, PhaseFacts DEF Works, ReviewPhase
    <2>11. Works(k)'
      BY <2>8, <2>9, <2>10 DEF Works, Done
    <2>12. \A o \in batch' \ k.todo : runs'[o] = "succeeded"
      BY <2>1, <2>3, <2>4, <2>5, <2>8 DEF Claims, Blind
    <2>13. Claims(k)'
      BY <2>8, <2>11, <2>12 DEF Claims
    <2> QED
      BY <1>2, <1>4, <2>3, <2>7, <2>8, <2>13, OneChild
  <1> QED
    BY <1>3, <1>4 DEF MarkSucceeded

\* A failure leaves the runs as they are until they are marked.
LEMMA FailKeeps == ASSUME IInv, NEW e \in Attempts, Fail(e) PROVE IInv'
  <1>1. PollTypeOK /\ BatchTypes /\ FenceInv /\ MemberInv /\ ChildrenAgree
    BY TypesOfBatch DEF IInv, BatchInv
  <1>2. UNCHANGED <<origin, command, runs, embedded, suggested, gate, bound>> /\ bound' \in Bounds
    BY <1>1 DEF Fail, PollTypeOK, Bounds
  <1>3. PICK verdict \in {"retrying", "failed_permanent"} :
          child' = [child EXCEPT ![e] = [at |-> "failing", todo |-> child[e].todo, phase |-> FetchPhase,
                                         left |-> child[e].todo, verdict |-> verdict]]
    BY DEF Fail
  <1>4. PICK k : k = [at |-> "failing", todo |-> child[e].todo, phase |-> FetchPhase, left |-> child[e].todo, verdict |-> verdict]
    OBVIOUS
  <1>5. child[e] \in Children /\ Fits(child[e]) /\ child[e].todo \subseteq batch /\ (Owns(e) => Claims(child[e]))
        /\ child[e].at # "gone" /\ (child[e].at = "launched" => child[e].todo = {}) /\ child[e].at # "failing"
    BY OwnerIsNewest DEF Fail, At, Fits
  <1>6. child' = [child EXCEPT ![e] = k] /\ k \in Children /\ Fits(k) /\ k.todo \subseteq batch
    BY <1>3, <1>4, <1>5, PhaseFacts DEF Children, Fits, FetchPhase
  <1>7. Owns(e) => Claims(k)'
    BY <1>2, <1>4, <1>5 DEF Claims, Blind, origin
  <1>8. RowsFit /\ (Owns(e) \/ UNCHANGED rows)
    <2>1. CASE UNCHANGED items
      BY <1>2, <2>1, NothingWritten DEF origin, handoff, rows
    <2>2. CASE Owns(e) /\ child[e].at \in {"inside", "made"} /\ items' = ItemClosed(e, "failed")
      <3>1. PICK d, p : d = ItemRun(e) /\ p = PhaseOf(e)
        OBVIOUS
      <3>2. p \in DOMAIN Phases /\ d \in Runs /\ runs[d] # "succeeded"
        BY <2>2, <3>1, WorkingFacts, PhaseFacts
      <3>3. items' = [items EXCEPT ![d][p].status = "failed"] /\ items \in ItemRows
        BY <1>1, <2>2, <3>1 DEF ItemClosed, BatchTypes
      <3>4. items[d][p] \in Items /\ items[d] \in [DOMAIN Phases -> Items]
        BY <3>2, <3>3 DEF ItemRows
      <3>5. PICK w : w = [items[d][p] EXCEPT !.status = "failed"]
        OBVIOUS
      <3>6. w \in Items /\ w.by = items[d][p].by
        BY <3>4, <3>5 DEF Items, ItemStatuses
      <3>7. items' = [items EXCEPT ![d][p] = w]
        BY <3>3, <3>5
      <3>8. items'[d] = [items[d] EXCEPT ![p] = w] /\ \A o \in Runs \ {d} : items'[o] = items[o]
        BY <3>2, <3>3, <3>7 DEF ItemRows
      <3>9. items' \in ItemRows
        BY <3>2, <3>3, <3>4, <3>6, <3>7 DEF ItemRows
      <3>10. \A o \in Runs, q \in DOMAIN Phases : items'[o][q].by <= Len(child)
        BY <1>1, <3>2, <3>4, <3>6, <3>8 DEF FenceInv
      <3>11. \A o \in Runs : runs'[o] = "succeeded" => RunIsWhole(o)'
        BY <1>1, <1>2, <3>2, <3>8 DEF ChildrenAgree, RunIsWhole, Shadowed, origin, handoff
      <3> QED
        BY <1>1, <1>2, <2>2, <3>9, <3>10, <3>11 DEF RowsFit, BatchTypes, PollTypeOK, MemberInv
    <2> QED
      BY <2>1, <2>2 DEF Fail
  <1> QED
    BY <1>2, <1>5, <1>6, <1>7, <1>8, OneChild

\* A child that dies, or was taken for dead, keeps the invariant.
LEMMA DiesKeeps == ASSUME IInv, NEW e \in Attempts, Dies(e) PROVE IInv'
  <1>1. bound \in Bounds /\ bound.crash > 0 /\ bound' = [bound EXCEPT !.crash = @ - 1]
    BY DEF IInv, TypeOK, PollTypeOK, Bounds, Dies
  <1>2. bound' = [stall |-> bound.stall, crash |-> bound.crash - 1, closing |-> bound.closing]
    BY <1>1 DEF Bounds
  <1>3. bound' \in Bounds
    BY <1>1, <1>2 DEF Bounds
  <1> QED
    BY <1>3, LeavingKeeps DEF Dies, At

-----------------------------------------------------------------------------
(* Laravel's steps, the poll's, and the gate's.                            *)

\* What a batch is dispatched with has been started, and its candidate completed.
LEMMA DispatchKeeps == ASSUME IInv, Dispatch PROVE IInv'
  <1>1. /\ PollTypeOK /\ BatchTypes /\ SealInv /\ MemberInv /\ FenceInv /\ ChildInv /\ ChildrenAgree
        /\ \A d \in Runs : Agrees(d)
    BY TypesOfBatch DEF IInv, BatchInv, PollInv
  <1>2. /\ poll.status = "succeeded" /\ \A d \in Runs : candidate[d].status \notin {"ready", "claimed"}
        /\ command.status \in {"none", "pending"}
        /\ UNCHANGED <<polling, handoff, rows, child, gate, bound>>
    BY DEF Dispatch, Sealed, Unsealed
  <1>3. batch' = batch \union Targets /\ batch' \subseteq Runs
    BY <1>1 DEF Dispatch, Attach, Targets, BatchTypes
  <1>4. PICK status \in {"blocked", "queued"} :
          /\ command' = [command EXCEPT !.status = status]
          /\ status = "blocked" => \E d \in batch' : runs[d] = "blocked"
    BY <1>3 DEF Dispatch, Attach
  <1>5. command' = [status |-> status, token |-> command.token]
    BY <1>1, <1>4 DEF BatchTypes, Commands
  <1>6. command' \in Commands /\ command'.status = status
    BY <1>1, <1>5 DEF BatchTypes, Commands
  <1>7. PollInv'
    BY <1>1, <1>2, OthersKeepPoll DEF IInv, PollTypeOK, Bounds, rows
  <1>8. TypeOK'
    BY <1>1, <1>2, <1>3, <1>6, <1>7 DEF IInv, TypeOK, PollInv, Commands, rows, Attempts
  <1>9. \A d \in Targets : candidate[d].status = "completed"
    <2> SUFFICES ASSUME NEW d \in Targets PROVE candidate[d].status = "completed"
      OBVIOUS
    <2>1. d \in Runs /\ runs[d] # "absent"
      BY DEF Targets
    <2>2. candidate[d].status \in CandidateStatuses /\ Agrees(d)
      BY <1>1, <2>1 DEF PollTypeOK
    <2> QED
      BY <1>2, <2>1, <2>2 DEF Agrees, CandidateStatuses
  <1>10. \A d \in Runs : candidate[d].owned => candidate[d].status \in {"completed", "skipped"}
    BY <1>1, <1>2 DEF Agrees, CandidateStatuses, PollTypeOK
  <1>11. \A d \in Runs : runs[d] # "absent" => d \in batch'
    BY <1>1, <1>3 DEF MemberInv, Targets
  <1>12. SealInv'
    BY <1>1, <1>2, <1>3, <1>9, <1>10, <1>11 DEF SealInv, polling, handoff, rows
  <1>13. MemberInv'
    BY <1>1, <1>2, <1>3, <1>6 DEF MemberInv, Targets, rows, Attempts
  <1>14. FenceInv' /\ ChildInv' /\ OwnerInv'
    BY <1>1, <1>2, <1>6 DEF FenceInv, ChildInv, OwnerInv, rows, Attempts
  <1>15. ChildrenAgree'
    BY <1>1, <1>2, <1>3, <1>4, <1>6 DEF ChildrenAgree, RunIsWhole, Shadowed, rows, handoff
  <1> QED
    BY <1>7, <1>8, <1>12, <1>13, <1>14, <1>15 DEF IInv, BatchInv

\* A claim appends the attempt that owns the command.
LEMMA ClaimKeeps == ASSUME IInv, Claim PROVE IInv'
  <1>1. PollTypeOK /\ BatchTypes /\ SealInv /\ MemberInv /\ FenceInv /\ ChildInv /\ ChildrenAgree
    BY TypesOfBatch DEF IInv, BatchInv
  <1>2. /\ command.status = "queued" /\ Len(child) < MaxIssued
        /\ command' = [status |-> "running", token |-> Len(child) + 1]
        /\ UNCHANGED <<origin, rows, gate, bound>>
    BY DEF Claim
  <1> DEFINE k == [at |-> "launched", todo |-> {}, phase |-> FetchPhase, left |-> {}, verdict |-> "none"]
  <1>3. k \in Children /\ Fits(k) /\ k.todo = {} /\ k.at = "launched" /\ child' = Append(child, k)
    BY PhaseFacts DEF Children, Fits, FetchPhase, Claim
  <1> HIDE DEF k
  <1>4. /\ child' \in Seq(Children) /\ Len(child') = Len(child) + 1 /\ Attempts' = 1..(Len(child) + 1)
        /\ child'[Len(child) + 1] = k /\ \A o \in Attempts : child'[o] = child[o]
    BY <1>1, <1>3 DEF BatchTypes, Attempts
  <1>5. PollInv'
    BY <1>1, <1>2, OthersKeepPoll DEF IInv, PollTypeOK, Bounds, rows, origin
  <1>6. command' \in Commands /\ command'.status = "running" /\ command'.token = Len(child) + 1
    BY <1>1, <1>2, IssuedFacts DEF BatchTypes, Commands
  <1>7. TypeOK'
    BY <1>1, <1>2, <1>4, <1>5, <1>6 DEF BatchTypes, TypeOK, PollInv, Commands, ItemRows, Items, rows, origin
  <1>8. SealInv'
    BY <1>1, <1>2, <1>6 DEF SealInv, origin, polling, handoff, rows
  <1>9. \A o \in Attempts' : o \in Attempts \/ o = Len(child) + 1
    BY <1>1, <1>4 DEF BatchTypes
  <1>10. MemberInv' /\ ChildInv'
    <2>1. \A o \in Attempts' : child'[o].todo \subseteq batch /\ Fits(child'[o])
      BY <1>1, <1>3, <1>4, <1>9 DEF MemberInv, ChildInv
    <2> QED
      BY <1>1, <1>2, <1>6, <2>1 DEF MemberInv, ChildInv, origin, rows
  <1>11. FenceInv'
    <2>1. \A d \in Runs, p \in DOMAIN Phases : items[d][p].by \in Nat /\ items[d][p].by <= Len(child)
      BY <1>1, IssuedFacts DEF FenceInv, BatchTypes, ItemRows, Items
    <2>2. Len(child) \in Nat
      BY <1>1 DEF BatchTypes
    <2> QED
      BY <1>2, <1>4, <1>6, <2>1, <2>2 DEF FenceInv, rows
  <1>12. OwnerInv' /\ ChildrenAgree'
    BY <1>1, <1>2, <1>3, <1>4, <1>6 DEF OwnerInv, Claims, ChildrenAgree, RunIsWhole, Shadowed, rows, origin, handoff
  <1> QED
    BY <1>5, <1>7, <1>8, <1>10, <1>11, <1>12 DEF IInv, BatchInv

\* An attempt is taken back; the last one takes the runs with it, but none that
\* has settled.
LEMMA RecoverKeepsBatch == ASSUME IInv, Recover PROVE IInv'
  <1>1. PollTypeOK /\ BatchTypes /\ SealInv /\ MemberInv /\ FenceInv /\ ChildInv /\ ChildrenAgree
    BY TypesOfBatch DEF IInv, BatchInv
  <1>2. /\ command.status = "running"
        /\ UNCHANGED <<origin, items, embedded, suggested, child, gate>>
    BY DEF Recover, TakenForDead
  <1>3. bound' \in Bounds
    <2>1. bound \in Bounds
      BY <1>1 DEF PollTypeOK, Bounds
    <2>2. CASE UNCHANGED bound
      BY <2>1, <2>2
    <2>3. CASE bound.crash > 0 /\ bound' = [bound EXCEPT !.crash = @ - 1]
      <3>1. bound' = [stall |-> bound.stall, crash |-> bound.crash - 1, closing |-> bound.closing]
        BY <2>1, <2>3 DEF Bounds
      <3> QED
        BY <2>1, <2>3, <3>1 DEF Bounds
    <2> QED
      BY <2>2, <2>3 DEF Recover, TakenForDead
  <1>4. PICK status \in {"queued", "failed_permanent"} : command' = [status |-> status, token |-> 0]
    BY DEF Recover
  <1>5. /\ runs' \in [Runs -> RunStatuses]
        /\ \A d \in Runs : runs'[d] = runs[d] \/ (d \in batch /\ runs'[d] = "failed_permanent")
        /\ status = "failed_permanent" => \A d \in batch : runs'[d] \in Settled
    BY <1>1, <1>4 DEF Recover, BatchTypes, PollTypeOK, RunStatuses, Settled
  <1>6. \A d \in Runs : runs[d] = "absent" <=> runs'[d] = "absent"
    BY <1>1, <1>5 DEF MemberInv
  <1>7. PollInv'
    BY <1>1, <1>2, <1>3, <1>5, <1>6, OthersKeepPoll DEF IInv, PollTypeOK, origin
  <1>8. command' \in Commands /\ command'.status = status
    BY <1>4, IssuedFacts DEF Commands, Settled
  <1>9. TypeOK'
    BY <1>1, <1>2, <1>7, <1>8 DEF IInv, TypeOK, PollInv, Commands, origin, Attempts
  <1>10. SealInv'
    BY <1>1, <1>2, <1>6, <1>8 DEF SealInv, origin, polling, handoff
  <1>11. MemberInv' /\ FenceInv' /\ ChildInv' /\ OwnerInv'
    BY <1>1, <1>2, <1>4, <1>5, <1>6, <1>8 DEF BatchTypes, MemberInv, FenceInv, ChildInv, OwnerInv, origin, Attempts
  <1>12. ChildrenAgree'
    <2>1. \A d \in Runs : runs'[d] = "succeeded" => RunIsWhole(d)'
      BY <1>1, <1>2, <1>5 DEF ChildrenAgree, RunIsWhole, Shadowed, origin, handoff
    <2> QED
      BY <1>2, <1>4, <1>5, <1>8, <2>1 DEF ChildrenAgree, origin
  <1> QED
    BY <1>7, <1>9, <1>10, <1>11, <1>12 DEF IInv, BatchInv

\* A batch is queued again, by its backoff or because the index is ready.
LEMMA QueuedAgainKeeps == ASSUME IInv, Redispatch \/ ReleaseBlocked PROVE IInv'
  <1>1. PollTypeOK /\ BatchTypes /\ SealInv /\ MemberInv /\ FenceInv /\ ChildInv /\ ChildrenAgree
    BY TypesOfBatch DEF IInv, BatchInv
  <1>2. /\ command.status \in {"pending", "blocked"} /\ command' = [command EXCEPT !.status = "queued"]
        /\ UNCHANGED <<origin, items, embedded, suggested, child, gate, bound>>
    BY DEF Redispatch, ReleaseBlocked, rows
  <1>3. /\ runs' \in [Runs -> RunStatuses]
        /\ \A d \in Runs : runs'[d] = runs[d] \/ (d \in batch /\ runs'[d] = "pending")
    BY <1>1 DEF Redispatch, ReleaseBlocked, rows, PollTypeOK, RunStatuses
  <1>4. \A d \in Runs : runs[d] = "absent" <=> runs'[d] = "absent"
    BY <1>1, <1>3 DEF MemberInv
  <1>5. PollInv'
    BY <1>1, <1>2, <1>3, <1>4, OthersKeepPoll DEF IInv, PollTypeOK, Bounds, origin
  <1>6. command' = [status |-> "queued", token |-> command.token]
    BY <1>1, <1>2 DEF BatchTypes, Commands
  <1>7. command' \in Commands /\ command'.status = "queued"
    BY <1>1, <1>6 DEF BatchTypes, Commands
  <1>8. TypeOK'
    BY <1>1, <1>2, <1>5, <1>7 DEF IInv, TypeOK, PollInv, Commands, origin, Attempts
  <1>9. SealInv'
    BY <1>1, <1>2, <1>4, <1>7 DEF SealInv, origin, polling, handoff
  <1>10. MemberInv' /\ FenceInv' /\ ChildInv' /\ OwnerInv'
    BY <1>1, <1>2, <1>3, <1>4, <1>7 DEF BatchTypes, MemberInv, FenceInv, ChildInv, OwnerInv, origin, Attempts
  <1>11. ChildrenAgree'
    <2>1. \A d \in Runs : runs'[d] = "succeeded" => RunIsWhole(d)'
      BY <1>1, <1>2, <1>3 DEF ChildrenAgree, RunIsWhole, Shadowed, origin, handoff
    <2> QED
      BY <1>7, <2>1 DEF ChildrenAgree
  <1> QED
    BY <1>5, <1>8, <1>9, <1>10, <1>11 DEF IInv, BatchInv

\* The poll leaves the runs of the batch alone, and what it may still add was not
\* owned by it.
LEMMA PollKeepsBatch ==
  ASSUME IInv, PollStep, UNCHANGED <<command, batch, items, embedded, suggested, child>>
  PROVE  IInv'
  <1>1. /\ PollInv /\ PollTypeOK /\ BatchTypes /\ SealInv /\ MemberInv /\ FenceInv /\ ChildInv /\ OwnerInv
        /\ ChildrenAgree
    BY TypesOfBatch DEF IInv, BatchInv
  <1>2. PollInv'
    BY <1>1, PollStepKeeps
  <1>3. TypeOK'
    BY <1>1, <1>2 DEF IInv, TypeOK, PollInv, Attempts
  <1>4. \A d \in Runs : \/ runs'[d] = runs[d]
                         \/ /\ runs[d] = "absent" /\ runs'[d] \in {"pending", "blocked"}
                            /\ candidate[d].status \notin {"completed", "skipped"}
    BY <1>1, OnlyStarts
  <1>5. \A d \in batch : d \in Runs /\ runs'[d] = runs[d]
    BY <1>1, <1>4 DEF MemberInv, BatchTypes
  <1>6. \A d \in Runs : candidate[d].status \in {"completed", "skipped"} => candidate'[d] = candidate[d]
    BY <1>1, DecidedStays
  <1>7. SealInv'
    <2>1. \A d \in batch : candidate'[d].status = "completed"
      BY <1>1, <1>5, <1>6 DEF SealInv
    <2>2. CASE command.status # "none"
      <3>1. poll.status = "succeeded" /\ poll'.status = "succeeded"
        BY <1>1, <2>2, SucceededStays DEF SealInv
      <3>2. \A d \in Runs : candidate'[d].owned => candidate[d].owned
        BY <1>1, <3>1, DecidedStays
      <3>3. \A d \in Runs : candidate[d].owned => candidate[d].status \in {"completed", "skipped"}
        BY <1>1, <2>2 DEF SealInv
      <3>4. \A d \in Runs : runs'[d] # "absent" /\ candidate'[d].owned => d \in batch
        BY <1>1, <1>4, <2>2, <3>2, <3>3 DEF SealInv
      <3> QED
        BY <1>6, <2>1, <3>1, <3>2, <3>3, <3>4 DEF SealInv
    <2> QED
      BY <2>1, <2>2 DEF SealInv
  <1>8. MemberInv' /\ FenceInv' /\ ChildInv'
    BY <1>1, <1>4, <1>5 DEF MemberInv, FenceInv, ChildInv, Attempts
  <1>9. document' = document
    BY DocumentStays
  <1>10. OwnerInv'
    <2> SUFFICES ASSUME command.status = "running" PROVE Claims(child[command.token])'
      BY DEF OwnerInv
    <2>1. PICK k : k = child[command.token]
      OBVIOUS
    <2>2. Claims(k) /\ k.todo \subseteq batch
      BY <1>1, <2>1 DEF OwnerInv, MemberInv, FenceInv, BatchTypes
    <2>3. Claims(k)'
      BY <1>5, <1>9, <2>2 DEF Claims, Blind, Works, DoneBy, Done, Shadowed
    <2> QED
      BY <2>1, <2>3
  <1>11. ChildrenAgree'
    <2>1. \A d \in Runs : runs'[d] = "succeeded" => RunIsWhole(d)'
      BY <1>1, <1>4, <1>9 DEF ChildrenAgree, RunIsWhole, Shadowed
    <2>2. Unread => Unread'
      BY DEF Unread
    <2> QED
      BY <1>1, <1>5, <2>1, <2>2 DEF ChildrenAgree
  <1> QED
    BY <1>2, <1>3, <1>7, <1>8, <1>10, <1>11 DEF IInv, BatchInv

\* The index becomes ready or stops being so, and nothing else changes.
LEMMA GateKeeps == ASSUME IInv, GateCloses \/ GateOpens \/ UNCHANGED vars PROVE IInv'
  <1>1. /\ PollInv /\ PollTypeOK /\ BatchTypes /\ SealInv /\ MemberInv /\ FenceInv /\ ChildInv /\ OwnerInv
        /\ ChildrenAgree
    BY TypesOfBatch DEF IInv, BatchInv
  <1>2. UNCHANGED <<origin, command, rows, child>> /\ gate' \in {"open", "closed"}
    BY <1>1 DEF GateCloses, GateOpens, vars, origin, rows, PollTypeOK
  <1>3. bound' \in Bounds
    <2>1. bound \in Bounds
      BY <1>1 DEF PollTypeOK, Bounds
    <2>2. CASE GateCloses
      <3>1. bound' = [stall |-> bound.stall, crash |-> bound.crash, closing |-> bound.closing - 1] /\ bound.closing > 0
        BY <2>1, <2>2 DEF Bounds, GateCloses
      <3>2. bound.closing - 1 \in 0..MaxClosings
        BY <2>1, <3>1, BudgetsAssumption DEF Bounds
      <3> QED
        BY <2>1, <3>1, <3>2 DEF Bounds
    <2> QED
      BY <2>1, <2>2 DEF GateOpens, vars
  <1>4. PollInv'
    BY <1>1, <1>2, <1>3, OthersKeepPoll DEF PollTypeOK, origin, rows
  <1>5. TypeOK'
    BY <1>1, <1>2, <1>4 DEF IInv, TypeOK, PollInv, origin, rows, Attempts
  <1>6. SealInv'
    BY <1>1, <1>2 DEF SealInv, origin, polling, handoff, rows
  <1>7. MemberInv' /\ FenceInv' /\ ChildInv'
    BY <1>1, <1>2 DEF MemberInv, FenceInv, ChildInv, origin, rows, Attempts
  <1>8. OwnerInv' /\ ChildrenAgree'
    BY <1>1, <1>2 DEF OwnerInv, Claims, Blind, Works, DoneBy, Done, ChildrenAgree, RunIsWhole, Shadowed, Unread,
                         origin, handoff, rows
  <1> QED
    BY <1>4, <1>5, <1>6, <1>7, <1>8 DEF IInv, BatchInv

\* Every step keeps the invariant.
LEMMA StepIInv == IInv /\ [Next]_vars => IInv'
  <1> SUFFICES ASSUME IInv, [Next]_vars PROVE IInv'
    OBVIOUS
  <1>1. CASE PollStep /\ UNCHANGED <<command, batch, items, embedded, suggested, child>>
    BY <1>1, PollKeepsBatch
  <1>2. CASE Dispatch \/ Claim \/ Recover \/ Redispatch \/ ReleaseBlocked
    BY <1>2, DispatchKeeps, ClaimKeeps, RecoverKeepsBatch, QueuedAgainKeeps
  <1>3. CASE \E e \in Attempts : ChildStep(e) \/ Dies(e)
    <2>1. PICK e \in Attempts : ChildStep(e) \/ Dies(e)
      BY <1>3
    <2>2. CASE Start(e) \/ TurnAway(e) \/ Open(e) \/ Work(e)
      BY <2>2, StartKeeps, TurnAwayKeeps, OpenKeeps, WorkKeeps
    <2>3. CASE Close(e) \/ MarkSucceeded(e) \/ Conclude(e)
      BY <2>3, CloseKeeps, MarkSucceededKeeps, ConcludeKeeps
    <2>4. CASE Fail(e) \/ Settle(e) \/ Dies(e)
      BY <2>4, FailKeeps, SettleKeeps, DiesKeeps
    <2> QED
      BY <2>1, <2>2, <2>3, <2>4 DEF ChildStep
  <1>4. CASE GateCloses \/ GateOpens \/ UNCHANGED vars
    BY <1>4, GateKeeps
  <1> QED
    BY <1>1, <1>2, <1>3, <1>4 DEF Next


-----------------------------------------------------------------------------
(* What follows from the invariant.                                        *)

\* Only the owner opens an item; closing one leaves the attempt that opened it.
LEMMA ItemSteps ==
  ASSUME IInv, [Next]_vars, NEW d \in Runs, NEW p \in DOMAIN Phases
  PROVE  \/ items'[d][p].by = items[d][p].by
         \/ \E e \in Attempts : /\ Open(e) /\ Owns(e) /\ d = ItemRun(e) /\ p = PhaseOf(e)
                               /\ items'[d][p].by = e
  <1>1. BatchTypes /\ items \in ItemRows
    BY TypesOfBatch DEF IInv, BatchTypes
  <1>2. CASE UNCHANGED items
    BY <1>2
  <1>3. ASSUME NEW e \in Attempts, items' = ItemOpened(e), Open(e), Owns(e)
        PROVE  items'[d][p].by = items[d][p].by \/ (d = ItemRun(e) /\ p = PhaseOf(e) /\ items'[d][p].by = e)
    BY <1>1, <1>3 DEF ItemOpened, ItemRows
  <1>4. ASSUME NEW e \in Attempts, NEW status, items' = ItemClosed(e, status)
        PROVE  items'[d][p].by = items[d][p].by
    <2>1. items[d][p] \in Items
      BY <1>1 DEF ItemRows
    <2>2. [items[d][p] EXCEPT !.status = status].by = items[d][p].by
      BY <2>1 DEF Items
    <2> QED
      BY <1>1, <1>4, <2>2 DEF ItemClosed, ItemRows
  <1>5. CASE \E e \in Attempts : ChildStep(e) \/ Dies(e)
    <2>1. PICK e \in Attempts : ChildStep(e) \/ Dies(e)
      BY <1>5
    <2>2. UNCHANGED items \/ items' = ItemClosed(e, "complete") \/ items' = ItemClosed(e, "failed")
          \/ (items' = ItemOpened(e) /\ Open(e) /\ Owns(e))
      BY <2>1 DEF ChildStep, Start, TurnAway, Open, Work, Close, MarkSucceeded, Conclude, Fail, Settle, Dies,
                  LosesFence, rows
    <2> QED
      BY <1>2, <1>3, <1>4, <2>2
  <1> QED
    BY <1>2, <1>5 DEF Next, Dispatch, Claim, Recover, Redispatch, ReleaseBlocked, GateCloses, GateOpens, rows, vars

\* The invariant holds of every behaviour.
LEMMA Invariant == Spec => []IInv
  BY InitIInv, StepIInv, PTL DEF Spec

\* Every value the poll, the batch and their children take has its type.
THEOREM TypeCorrect == Spec => []TypeOK
  <1>1. IInv => TypeOK
    BY DEF IInv
  <1> QED
    BY <1>1, Invariant, PTL

\* A run that succeeded is whole, and the command never says of the batch what
\* its runs do not (finish, fail and recovery of the two are separate writes).
THEOREM RunsAndCommandAgree == Spec => []ChildrenAgree
  <1>1. IInv => ChildrenAgree
    BY DEF IInv, BatchInv
  <1> QED
    BY <1>1, Invariant, PTL

\* dispatchForPollCommand attaches every run that the poll it consumed started.
THEOREM NoRunLeftBehind == Spec => []SealedSetIsAttached
  <1>1. IInv => SealedSetIsAttached
    BY DEF IInv, BatchInv, SealInv, SealedSetIsAttached
  <1> QED
    BY <1>1, Invariant, PTL

\* What a consumer decided about a candidate is final, whoever leases it again.
THEOREM DecisionsStay == Spec => CandidateStays
  <1>1. IInv /\ [Next]_vars =>
          [\A d \in Runs : candidate[d].status \in {"completed", "skipped"} => candidate'[d] = candidate[d]]_vars
    <2> SUFFICES ASSUME IInv, [Next]_vars, NEW d \in Runs, candidate[d].status \in {"completed", "skipped"}
                 PROVE  candidate'[d] = candidate[d]
      OBVIOUS
    <2>1. CASE PollStep
      BY <2>1, DecidedStays DEF IInv
    <2>2. CASE UNCHANGED candidate
      BY <2>2
    <2> QED
      BY <2>1, <2>2 DEF Next, Dispatch, Claim, Recover, Redispatch, ReleaseBlocked, ChildStep, Start, TurnAway, Open,
                        Work, Close, MarkSucceeded, Conclude, Fail, Settle, Dies, GateCloses, GateOpens, origin, handoff, vars
  <1> QED
    BY <1>1, Invariant, PTL DEF Spec, CandidateStays

\* No run is taken past the embeddings before the whole batch has its own.
THEOREM ContextIsThere == Spec => ContextComesFirst
  <1>1. IInv /\ [Next]_vars =>
          [\A d \in Runs, p \in DOMAIN Phases :
             p > EmbeddingPhase /\ items'[d][p].by # items[d][p].by => \A n \in batch : document[n] \in embedded]_vars
    <2> SUFFICES ASSUME IInv, [Next]_vars, NEW d \in Runs, NEW p \in DOMAIN Phases, p > EmbeddingPhase,
                        items'[d][p].by # items[d][p].by
                 PROVE  \A n \in batch : document[n] \in embedded
      OBVIOUS
    <2>1. PICK e \in Attempts : Open(e) /\ Owns(e) /\ p = PhaseOf(e)
      BY ItemSteps
    <2>2. child[e].at = "next" /\ (Finished(e) \/ (Claims(child[e]) /\ Works(child[e]) /\ child[e].phase = p))
      BY <2>1, WorkingFacts DEF Open, At, PhaseOf
    <2>3. ~Finished(e) \/ ~Owns(e)
      BY <2>1 DEF Open, LosesFence
    <2>4. ASSUME NEW o \in batch PROVE document[o] \in embedded
      <3>1. ChildrenAgree /\ o \in Runs
        BY DEF IInv, BatchInv, TypeOK
      <3>2. CASE o \in child[e].todo
        <4>1. Done(child[e], o, EmbeddingPhase)
          BY <2>1, <2>2, <2>3, PhaseFacts DEF Done, EmbeddingPhase
        <4> QED
          BY <2>1, <2>2, <2>3, <3>2, <4>1, PhaseFacts DEF Works, DoneBy, EmbeddingPhase
      <3>3. CASE o \notin child[e].todo
        BY <2>1, <2>2, <2>3, <3>1, <3>3 DEF Claims, Blind, ChildrenAgree, RunIsWhole
      <3> QED
        BY <3>2, <3>3
    <2> QED
      BY <2>4
  <1> QED
    BY <1>1, Invariant, PTL DEF Spec, ContextComesFirst

\* A child that was taken for dead writes nothing over its successor's work, and
\* nobody writes into a batch that is settled.
THEOREM TheFenceHolds == Spec => NoLateWrites
  <1>1. IInv /\ [Next]_vars =>
          [/\ \A d \in Runs, p \in DOMAIN Phases : items'[d][p].by >= items[d][p].by
           /\ command.status \in Settled =>
                /\ UNCHANGED <<items, embedded, suggested>>
                /\ \A d \in batch : runs'[d] = runs[d]]_vars
    <2> SUFFICES ASSUME IInv, [Next]_vars
                 PROVE  /\ \A d \in Runs, p \in DOMAIN Phases : items'[d][p].by >= items[d][p].by
                        /\ command.status \in Settled =>
                             /\ UNCHANGED <<items, embedded, suggested>>
                             /\ \A d \in batch : runs'[d] = runs[d]
      OBVIOUS
    <2>1. BatchTypes /\ FenceInv /\ MemberInv /\ PollInv
      BY TypesOfBatch DEF IInv, BatchInv
    <2>2. ASSUME NEW d \in Runs, NEW p \in DOMAIN Phases PROVE items'[d][p].by >= items[d][p].by
      <3>1. items[d][p].by \in Nat /\ items[d][p].by <= Len(child) /\ Len(child) \in Nat
        BY <2>1, IssuedFacts DEF BatchTypes, ItemRows, Items, FenceInv
      <3>2. items'[d][p].by = items[d][p].by \/ items'[d][p].by = Len(child)
        BY ItemSteps, OwnerIsNewest
      <3> QED
        BY <3>1, <3>2
    <2>3. ASSUME command.status \in Settled
          PROVE  UNCHANGED <<items, embedded, suggested>> /\ \A d \in batch : runs'[d] = runs[d]
      <3>1. command.status \notin {"none", "pending", "running", "queued", "blocked"} /\ \A e \in Attempts : ~Owns(e)
        BY <2>3 DEF Settled, Owns
      <3>2. CASE PollStep /\ UNCHANGED <<command, batch, items, embedded, suggested, child>>
        BY <2>1, <3>2, OnlyStarts DEF MemberInv, BatchTypes
      <3>3. CASE \E e \in Attempts : ChildStep(e) \/ Dies(e)
        <4>1. PICK e \in Attempts : ChildStep(e) \/ Dies(e)
          BY <3>3
        <4>2. UNCHANGED rows
          BY <3>1, <4>1 DEF ChildStep, Start, TurnAway, Open, Work, Close, MarkSucceeded, Conclude, Fail, Settle, Dies,
                            LosesFence, rows, EmbeddingStored, SuggestionStored, FetchPhase, OcrPhase, EmbeddingPhase,
                            ReviewPhase
        <4> QED
          BY <4>2 DEF rows
      <3> QED
        BY <3>1, <3>2, <3>3 DEF Next, Dispatch, Claim, Recover, TakenForDead, Redispatch, ReleaseBlocked, GateCloses,
                                GateOpens, rows, vars
    <2> QED
      BY <2>2, <2>3
  <1> QED
    BY <1>1, Invariant, PTL DEF Spec, NoLateWrites

-----------------------------------------------------------------------------
(* The hand-off that is promised.                                          *)

\* What Temporal owns has an unmarked candidate, and no run here.
PlaceInv == \A d \in elsewhere : runs[d] = "absent" /\ candidate[d].status # "none" /\ ~candidate[d].marked

\* A lease that is decided was one of a run that is started, or of a marked
\* candidate; everything else the poll does to a candidate leaves it open.
LEMMA StageSteps ==
  ASSUME PollInv, PollStep, ~UNCHANGED candidate
  PROVE  /\ UNCHANGED <<elsewhere, runs>>
         /\ \E o \in Runs :
              /\ \A d \in Runs \ {o} : candidate'[d] = candidate[d]
              /\ candidate[o].status # "none" => candidate'[o].marked = candidate[o].marked
              /\ \/ candidate[o].status = "none" /\ candidate'[o].status = "ready"
                 \/ candidate[o].status \in Unsealed /\ candidate'[o].status \in Unsealed
                 \/ candidate[o].status \in Unsealed /\ candidate'[o].status = "completed" /\ Started(o)
                 \/ candidate[o].status \in Unsealed /\ candidate'[o].status = "skipped" /\ candidate[o].marked
  <1>1. PollTypeOK /\ candidate \in [Runs -> Candidates]
    BY DEF PollInv, PollTypeOK, Candidates
  <1>2. CASE \E p \in DOMAIN poller : PersistCandidate(p)
    <2>1. PICK p \in DOMAIN poller : PersistCandidate(p)
      BY <1>2
    <2>2. PICK o, m :
            /\ m \in BOOLEAN
            /\ candidate' = [candidate EXCEPT ![o] =
                 IF @.status = "none" THEN [status |-> "ready", version |-> 0, marked |-> m, owned |-> OwnsPoll(p)]
                 ELSE @]
      BY <2>1 DEF PersistCandidate
    <2>3. o \in Runs /\ candidate[o].status = "none"
          /\ candidate' = [candidate EXCEPT ![o] = [status |-> "ready", version |-> 0, marked |-> m, owned |-> OwnsPoll(p)]]
      <3>1. CASE o \notin Runs
        BY <1>1, <2>2, <3>1
      <3>2. CASE o \in Runs /\ candidate[o].status # "none"
        BY <1>1, <2>2, <3>2
      <3> QED
        BY <2>2, <3>1, <3>2
    <2>4. UNCHANGED <<elsewhere, runs>>
      BY <2>1 DEF PersistCandidate
    <2> QED
      BY <1>1, <2>3, <2>4
  <1>3. CASE \E c \in Consumers : ClaimCandidate(c)
    <2>1. PICK o \in Runs :
            /\ candidate[o].status \in {"ready", "claimed"}
            /\ candidate' = [candidate EXCEPT ![o] = [@ EXCEPT !.status = "claimed", !.version = candidate[o].version + 1]]
            /\ UNCHANGED <<elsewhere, runs>>
      BY <1>3 DEF ClaimCandidate, Leasable
    <2> DEFINE k == [candidate[o] EXCEPT !.status = "claimed", !.version = candidate[o].version + 1]
    <2>2. k.status = "claimed" /\ k.marked = candidate[o].marked
      BY <1>1, <2>1 DEF Candidates
    <2>3. candidate' = [candidate EXCEPT ![o] = k]
      BY <2>1
    <2> HIDE DEF k
    <2>4. candidate'[o] = k /\ \A d \in Runs \ {o} : candidate'[d] = candidate[d]
      BY <1>1, <2>1, <2>3
    <2> QED
      BY <2>1, <2>2, <2>4 DEF Unsealed
  <1>4. CASE \E c \in Consumers : SkipMarked(c) \/ CompleteClaim(c) \/ StartFails(c)
    <2>1. PICK c \in Consumers : SkipMarked(c) \/ CompleteClaim(c) \/ StartFails(c)
      BY <1>4
    <2>2. PICK o : o = consumer[c].of
      OBVIOUS
    <2>3. Remembers(c) /\ o \in 0..NumRuns
      BY <1>1, <2>2 DEF PollInv, PollTypeOK
    <2>4. PICK status :
            /\ Decides(c, status)
            /\ \/ status = "skipped" /\ o # 0 /\ candidate[o].marked
               \/ status = "completed" /\ o # 0 /\ Started(o)
               \/ status = "ready" /\ o # 0
      BY <2>1, <2>2, <2>3 DEF SkipMarked, CompleteClaim, StartFails, Remembers
    <2>5. o \in Runs
      BY <2>3, <2>4, NumRunsAssumption DEF Runs
    <2>6. candidate[o].status = "claimed" /\ candidate' = [candidate EXCEPT ![o].status = status]
      BY <2>2, <2>4 DEF Decides
    <2> DEFINE k == [candidate[o] EXCEPT !.status = status]
    <2>7. k.status = status /\ k.marked = candidate[o].marked
      BY <1>1, <2>5 DEF Candidates
    <2>8. candidate' = [candidate EXCEPT ![o] = k]
      BY <2>6
    <2> HIDE DEF k
    <2>9. candidate'[o] = k /\ \A d \in Runs \ {o} : candidate'[d] = candidate[d]
      BY <1>1, <2>5, <2>8
    <2>10. UNCHANGED <<elsewhere, runs>>
      BY <2>1 DEF SkipMarked, CompleteClaim, StartFails
    <2> QED
      BY <2>4, <2>5, <2>6, <2>7, <2>9, <2>10 DEF Unsealed
  <1> QED
    BY <1>2, <1>3, <1>4
       DEF PollStep, PollerStep, ConsumerStep, ClaimPoll, RecoverPoll, RestorePoll, ListInbox, PublishThrough,
           FinishPoll, FailPoll, PollerDies, StartRun, ConsumerDies, handoff

\* A run is started, here or with Temporal, only for a candidate that is open and
\* has no place yet.
LEMMA StartSteps ==
  ASSUME PollInv, PollStep, UNCHANGED candidate
  PROVE  \/ UNCHANGED <<elsewhere, runs>>
         \/ \E o \in Runs :
              /\ candidate[o].status \in Unsealed /\ o \notin elsewhere /\ runs[o] = "absent" /\ ~candidate[o].marked
              /\ \/ elsewhere' = elsewhere \union {o} /\ UNCHANGED runs
                 \/ /\ UNCHANGED elsewhere
                    /\ \E status \in {"pending", "blocked"} : runs' = [runs EXCEPT ![o] = status]
  <1>1. CASE \E c \in Consumers : StartRun(c)
    <2>1. PICK c \in Consumers : StartRun(c)
      BY <1>1
    <2>2. PICK o : o = consumer[c].of
      OBVIOUS
    <2>3. Remembers(c) /\ o \in 0..NumRuns /\ o # 0
      BY <2>1, <2>2 DEF PollInv, PollTypeOK, StartRun
    <2>4. o \in Runs /\ candidate[o].status # "none" /\ ~candidate[o].marked
      BY <2>1, <2>2, <2>3, NumRunsAssumption DEF Runs, Remembers, StartRun
    <2>5. CASE UNCHANGED <<elsewhere, runs>>
      BY <2>5
    <2>6. CASE ~UNCHANGED <<elsewhere, runs>>
      <3>1. o \notin elsewhere /\ runs[o] = "absent"
        BY <2>1, <2>2, <2>6 DEF StartRun
      <3>2. candidate[o].status \in Unsealed
        <4>1. Agrees(o) /\ candidate[o].status \in CandidateStatuses
          BY <2>4 DEF PollInv, PollTypeOK
        <4> QED
          BY <2>4, <3>1, <4>1 DEF Agrees, Started, CandidateStatuses, Unsealed
      <3>3. \/ elsewhere' = elsewhere \union {o} /\ UNCHANGED runs
            \/ /\ UNCHANGED elsewhere
               /\ \E status \in {"pending", "blocked"} : runs' = [runs EXCEPT ![o] = status]
        BY <2>1, <2>2, <2>6 DEF StartRun
      <3> QED
        BY <2>4, <3>1, <3>2, <3>3
    <2> QED
      BY <2>5, <2>6
  <1> QED
    BY <1>1
       DEF PollStep, PollerStep, ConsumerStep, ClaimPoll, RecoverPoll, RestorePoll, ListInbox, PersistCandidate,
           PublishThrough, FinishPoll, FailPoll, PollerDies, ConsumerDies, ClaimCandidate, SkipMarked, CompleteClaim,
           StartFails, handoff

\* Whatever the batch does, it touches no run that is not in it.
LEMMA BatchStepsInside ==
  ASSUME IInv, [Next]_vars, ~(PollStep /\ UNCHANGED batch)
  PROVE  UNCHANGED handoff /\ \A d \in Runs : d \notin batch => runs'[d] = runs[d]
  <1>1. UNCHANGED handoff
    BY DEF Next, Dispatch, Claim, Recover, Redispatch, ReleaseBlocked, ChildStep, Start, TurnAway, Open, Work, Close,
           MarkSucceeded, Conclude, Fail, Settle, Dies, GateCloses, GateOpens, origin, vars
  <1>2. CASE UNCHANGED runs
    BY <1>1, <1>2
  <1>3. CASE Recover \/ ReleaseBlocked
    BY <1>1, <1>3 DEF Recover, ReleaseBlocked
  <1>4. CASE \E e \in Attempts : ChildStep(e)
    <2>1. PICK e \in Attempts : ChildStep(e)
      BY <1>4
    <2>2. UNCHANGED runs \/ (child[e].left # {} /\ \E status : \E d \in {RunOf(e), ItemRun(e)} : runs' = RunMarked(d, status))
      <3>1. Fits(child[e])
        BY OwnerIsNewest
      <3>2. CASE Open(e)
        BY <3>1, <3>2 DEF Open, At, Finished, Fits, LosesFence, rows
      <3>3. CASE MarkSucceeded(e)
        BY <3>1, <3>3 DEF MarkSucceeded, At, Fits, LosesFence, rows
      <3> QED
        BY <2>1, <3>2, <3>3 DEF ChildStep, Start, TurnAway, Work, Close, Conclude, Fail, Settle, LosesFence, rows
    <2>3. child[e].left # {} => RunOf(e) \in batch /\ ItemRun(e) \in batch
      BY RunOfIsLeft, ItemRunFacts
    <2>4. runs \in [Runs -> RunStatuses]
      BY DEF IInv, PollInv, PollTypeOK
    <2> QED
      BY <1>1, <2>2, <2>3, <2>4 DEF RunMarked
  <1> QED
    BY <1>2, <1>3, <1>4 DEF Next, Dispatch, Claim, Redispatch, Dies, GateCloses, GateOpens, rows, vars

\* The place of what Temporal owns stays as it is.
LEMMA PlaceStays == ASSUME IInv, PlaceInv, [Next]_vars PROVE PlaceInv'
  <1>1. PollInv /\ MemberInv /\ elsewhere \subseteq Runs /\ runs \in [Runs -> RunStatuses]
    BY DEF IInv, BatchInv, PollInv, PollTypeOK
  <1>2. CASE PollStep /\ ~UNCHANGED candidate
    BY <1>1, <1>2, StageSteps DEF PlaceInv, Unsealed
  <1>3. CASE PollStep /\ UNCHANGED candidate
    BY <1>1, <1>3, StartSteps DEF PlaceInv, Unsealed
  <1>4. CASE ~(PollStep /\ UNCHANGED batch)
    BY <1>1, <1>4, BatchStepsInside DEF PlaceInv, MemberInv, handoff
  <1> QED
    BY <1>2, <1>3, <1>4

\* What a change of one candidate is to the hand-off.
LEMMA StageIsStep ==
  ASSUME IInv, PlaceInv, PollStep, UNCHANGED batch, ~UNCHANGED candidate
  PROVE  [Handoff!HandoffNext]_(Handoff!handoff)
  <1>1. PollInv /\ UNCHANGED <<elsewhere, runs>> /\ Places' = Places
    <2>1. PollInv
      BY DEF IInv
    <2>2. UNCHANGED <<elsewhere, runs>>
      BY <2>1, StageSteps
    <2> QED
      BY <2>1, <2>2 DEF Places, Place
  <1>2. PICK o \in Runs :
          /\ \A d \in Runs \ {o} : candidate'[d] = candidate[d]
          /\ \/ candidate[o].status = "none" /\ candidate'[o].status = "ready"
             \/ candidate[o].status \in Unsealed /\ candidate'[o].status \in Unsealed
             \/ candidate[o].status \in Unsealed /\ candidate'[o].status = "completed" /\ Started(o)
             \/ candidate[o].status \in Unsealed /\ candidate'[o].status = "skipped" /\ candidate[o].marked
    BY <1>1, StageSteps
  <1>3. \A d \in Runs \ {o} : Stage(d)' = Stage(d)
    BY <1>2 DEF Stage
  <1>4. Stages' = [Stages EXCEPT ![o] = Stage(o)']
    BY <1>3 DEF Stages
  <1>5. Stages[o] = Stage(o) /\ Places[o] = Place(o)
    BY DEF Stages, Places
  <1>6. CASE candidate[o].status = "none" /\ candidate'[o].status = "ready"
    <2>1. Stage(o) = "unseen" /\ Stage(o)' = "open"
      BY <1>6 DEF Stage, Unsealed
    <2> QED
      BY <1>1, <1>4, <1>5, <2>1 DEF Handoff!HandoffNext, Handoff!Found, Handoff!Decide
  <1>7. CASE candidate[o].status \in Unsealed /\ candidate'[o].status \in Unsealed
    <2>1. Stage(o) = "open" /\ Stage(o)' = "open"
      BY <1>7 DEF Stage, Unsealed
    <2>2. Stages' = Stages
      BY <1>3, <2>1 DEF Stages
    <2> QED
      BY <1>1, <2>2 DEF Handoff!handoff
  <1>8. CASE candidate[o].status \in Unsealed /\ candidate'[o].status = "completed" /\ Started(o)
    <2>1. Stage(o) = "open" /\ Stage(o)' = "completed"
      BY <1>8 DEF Stage, Unsealed
    <2>2. Place(o) # "nowhere"
      BY <1>8 DEF Place, Started
    <2> QED
      BY <1>1, <1>4, <1>5, <2>1, <2>2 DEF Handoff!HandoffNext, Handoff!Completed, Handoff!Decide
  <1>9. CASE candidate[o].status \in Unsealed /\ candidate'[o].status = "skipped" /\ candidate[o].marked
    <2>1. Stage(o) = "open" /\ Stage(o)' = "skipped"
      BY <1>9 DEF Stage, Unsealed
    <2>2. o \notin elsewhere /\ runs[o] = "absent" /\ o \notin batch
      <3>1. Agrees(o) /\ MemberInv
        BY <1>1 DEF PollInv, IInv, BatchInv
      <3> QED
        BY <1>9, <3>1 DEF Agrees, PlaceInv, MemberInv
    <2>3. Place(o) = "nowhere"
      BY <2>2 DEF Place
    <2> QED
      BY <1>1, <1>4, <1>5, <2>1, <2>3 DEF Handoff!HandoffNext, Handoff!Skipped, Handoff!Decide
  <1> QED
    BY <1>2, <1>6, <1>7, <1>8, <1>9

\* What the start of a run is to the hand-off.
LEMMA StartIsStep ==
  ASSUME IInv, PlaceInv, PollStep, UNCHANGED batch, UNCHANGED candidate
  PROVE  [Handoff!HandoffNext]_(Handoff!handoff)
  <1>1. PollInv /\ MemberInv /\ Stages' = Stages /\ runs \in [Runs -> RunStatuses]
    BY DEF IInv, BatchInv, PollInv, PollTypeOK, Stages, Stage
  <1>2. CASE UNCHANGED <<elsewhere, runs>>
    BY <1>1, <1>2 DEF Handoff!handoff, Places, Place
  <1>3. CASE ~UNCHANGED <<elsewhere, runs>>
    <2>1. PICK o \in Runs :
            /\ candidate[o].status \in Unsealed /\ o \notin elsewhere /\ runs[o] = "absent"
            /\ \/ elsewhere' = elsewhere \union {o} /\ UNCHANGED runs
               \/ /\ UNCHANGED elsewhere
                  /\ \E status \in {"pending", "blocked"} : runs' = [runs EXCEPT ![o] = status]
      BY <1>1, <1>3, StartSteps
    <2>2. o \notin batch /\ Place(o) = "nowhere" /\ Stage(o) = "open"
      BY <1>1, <2>1 DEF MemberInv, Place, Stage, Unsealed
    <2>3. \A d \in Runs \ {o} : Place(d)' = Place(d)
      BY <1>1, <2>1 DEF Place
    <2>4. Place(o)' \in {"temporal", "waiting"}
      BY <1>1, <2>1, <2>2 DEF Place
    <2>5. Places' = [Places EXCEPT ![o] = Place(o)'] /\ Places[o] = "nowhere" /\ Stages[o] = "open"
      BY <2>2, <2>3 DEF Places, Stages
    <2> QED
      BY <1>1, <2>4, <2>5 DEF Handoff!HandoffNext, Handoff!Placed
  <1> QED
    BY <1>2, <1>3

\* Dispatching takes every run that waits; nothing else in the batch is seen.
LEMMA BatchIsStep ==
  ASSUME IInv, PlaceInv, PlaceInv', IInv', [Next]_vars, ~(PollStep /\ UNCHANGED batch)
  PROVE  [Handoff!HandoffNext]_(Handoff!handoff)
  <1>1. MemberInv /\ MemberInv' /\ Stages' = Stages /\ UNCHANGED elsewhere
        /\ \A d \in Runs : d \notin batch => runs'[d] = runs[d]
    BY BatchStepsInside DEF IInv, BatchInv, Stages, Stage, handoff
  <1>2. CASE UNCHANGED batch
    <2>1. \A d \in Runs : runs'[d] = "absent" <=> runs[d] = "absent"
      BY <1>1, <1>2 DEF MemberInv
    <2>2. Places' = Places
      BY <1>1, <1>2, <2>1 DEF Places, Place
    <2> QED
      BY <1>1, <2>2 DEF Handoff!handoff
  <1>3. CASE Dispatch
    <2>1. /\ batch' = batch \union Targets /\ UNCHANGED runs
          /\ \A d \in Runs : candidate[d].status \notin Unsealed
      BY <1>3 DEF Dispatch, Attach, Sealed, rows
    <2>2. \A d \in Runs : Stages[d] # "open"
      <3>1. \A d \in Runs : candidate[d].status \in CandidateStatuses
        BY DEF IInv, PollInv, PollTypeOK
      <3>2. \A d \in Runs : Stage(d) # "open"
        BY <2>1, <3>1 DEF Stage, CandidateStatuses
      <3> QED
        BY <3>2 DEF Stages
    <2>3. \A d \in Runs : d \in Targets <=> (d \notin batch /\ runs[d] # "absent")
      BY <1>1 DEF MemberInv, Targets
    <2>4. \A d \in Runs : Place(d)' = IF Place(d) = "waiting" THEN "batch" ELSE Place(d)
      BY <1>1, <2>1, <2>3 DEF Place, PlaceInv
    <2>5. Places' = [d \in Runs |-> IF Places[d] = "waiting" THEN "batch" ELSE Places[d]]
      BY <2>4 DEF Places
    <2> QED
      BY <1>1, <2>2, <2>5 DEF Handoff!HandoffNext, Handoff!Batched
  <1> QED
    BY <1>2, <1>3 DEF Next, Claim, Recover, Redispatch, ReleaseBlocked, ChildStep, Start, TurnAway, Open, Work, Close,
                      MarkSucceeded, Conclude, Fail, Settle, Dies, GateCloses, GateOpens, origin, vars

\* From the inbox to the batch every document is placed once and decided once,
\* whatever polls, consumers and children do: a poll and its batch implement
\* CandidateHandoff.
THEOREM ImplementsHandoff == Spec => KeepsHandoff
  <1>1. Init => Handoff!HandoffInit /\ PlaceInv
    <2> SUFFICES ASSUME Init PROVE Handoff!HandoffInit /\ PlaceInv
      OBVIOUS
    <2>1. elsewhere = {} /\ batch = {} /\ \A d \in Runs : runs[d] = "absent" /\ candidate[d].status = "none"
      BY DEF Init, PollInit
    <2>2. \A d \in Runs : Stage(d) = "unseen" /\ Place(d) = "nowhere"
      BY <2>1 DEF Stage, Place, Unsealed
    <2> QED
      BY <2>1, <2>2 DEF Handoff!HandoffInit, PlaceInv, Stages, Places
  <1>2. IInv /\ PlaceInv /\ [Next]_vars => PlaceInv'
    BY PlaceStays
  <1>3. IInv /\ IInv' /\ PlaceInv /\ PlaceInv' /\ [Next]_vars => [Handoff!HandoffNext]_(Handoff!handoff)
    <2> SUFFICES ASSUME IInv, IInv', PlaceInv, PlaceInv', [Next]_vars
                 PROVE  [Handoff!HandoffNext]_(Handoff!handoff)
      OBVIOUS
    <2>1. CASE PollStep /\ UNCHANGED batch
      BY <2>1, StageIsStep, StartIsStep
    <2>2. CASE ~(PollStep /\ UNCHANGED batch)
      BY <2>2, BatchIsStep
    <2> QED
      BY <2>1, <2>2
  <1> QED
    BY <1>1, <1>2, <1>3, Invariant, PTL DEF Spec, KeepsHandoff, Handoff!HandoffSpec
=============================================================================
