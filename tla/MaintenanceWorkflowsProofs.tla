--------------------- MODULE MaintenanceWorkflowsProofs ---------------------
(***************************************************************************)
(* What holds of the maintenance workflows for any command histories and   *)
(* documents, however activities fail, are repeated or lose their answers: *)
(* a complete index covers, one generation is built at a time, a queued    *)
(* run has somebody to start it, and what a command reports stays.         *)
(***************************************************************************)
EXTENDS MaintenanceWorkflows, FiniteSetTheorems, WellFoundedInduction, TLAPS

-----------------------------------------------------------------------------
(* The invariant.                                                          *)

OldPlaces == {"launched", "old_listing", "old_embedding"}
Spent == {"failing", "failing_discovery", "done"}

\* What a workflow knows of itself where it is.
Fits(k) ==
    /\ k.at \notin Spent => k.tries < MaxTries
    /\ k.found # {} => k.at \in {"discovering", "starting", "signalling", "lost"}
    /\ k.at = "signalling" => k.found # {}
    /\ k.at \in {"discovering", "starting", "signalling"} => k.verdict \in {"succeeded", "skipped"}
    /\ k.seen # "none" => k.at = "discovering" /\ k.todo # {}
WorkflowsFit == \A c \in Cmds : Fits(wf[c])

\* How a build ends, and what a command may say where its workflow is.
Result(kind, k) == IF k.failed # {} THEN "failed_permanent" ELSE IF kind = "reindex" THEN "running" ELSE "succeeded"
Says(kind, k, s) ==
    /\ k.at \in {"configuring", "preparing", "listing", "loading", "discovering"} \union OldPlaces => s \in Active
    /\ k.at = "creating" => s \in {"absent"} \union Active
    /\ k.at = "embedding" => s \in Active \/ (k.todo = {} /\ s = Result(kind, k))
    /\ k.at \in {"starting", "signalling"} => s \in Active \/ s = k.verdict
    /\ k.at = "failing_discovery" => s \in Active \union {"succeeded", "skipped"}
    /\ k.at = "idle" /\ kind # "old_build" => s = "absent"
    /\ k.at \in OldPlaces => kind = "old_build"
    /\ k.at = "signalling" \/ (k.at = "lost" /\ k.found # {}) => kind \in {"forced_poll", "reindex"} /\ s # "absent"
CommandsFit == \A c \in Cmds : Says(Kind(c), wf[c], command[c])

\* A builder that lists or embeds has its row, and what it listed is stored, to do, or failed.
HasRow(c) == wf[c].at \in {"listing", "embedding", "old_listing", "old_embedding"}
Row(c) == rows[RowOf(c)]
Covers(c) ==
    /\ HasRow(c) => OwnRows(c) # {}
    /\ wf[c].at \in {"listing", "old_listing"} => Row(c).status # "complete"
    /\ wf[c].at \in {"embedding", "old_embedding"} => Row(c).listed \subseteq store \union wf[c].todo \union wf[c].failed
BuildersCover == \A c \in Cmds : Covers(c)

\* The old builder holds the lease, so that its row stays what it was; that of a
\* workflow does unless somebody overran it.
Holds(c) ==
    /\ wf[c].at \in {"old_listing", "old_embedding"} => Row(c).status = "building"
    /\ ~overrun /\ (wf[c].at \in {"listing", "embedding"} \/ (wf[c].at = "preparing" /\ OwnRows(c) # {}))
         => Row(c).status = "building"
    /\ wf[c].at = "configuring" \/ command[c] = "absent" => OwnRows(c) = {}
BuildersHold == \A c \in Cmds : Holds(c)
OneBuilds ==
    ~overrun => /\ \A i, j \in DOMAIN rows : rows[i].status = "building" /\ rows[j].status = "building" => i = j
                /\ (\E i \in DOMAIN rows : rows[i].status = "building") => ~GateOpen

\* A queued run is with the workflow that found it, alive or lost, unless it was
\* forgotten or overtaken.
QueuedIsHeld ==
    \A d \in Docs, k \in Keys : runs[d][k] = "queued" =>
        \/ \E c \in Cmds : Key(c) = k /\ d \in wf[c].found
        \/ <<d, k>> \in forgotten
        \/ k = 0 /\ \E f \in Keys \ {0} : runs[d][f] \in {"released", "owned"}

IInv ==
    /\ TypeOK /\ plan \in Plans
    /\ WorkflowsFit /\ CommandsFit
    /\ BuildersCover /\ CompleteIndexCovers
    /\ BuildersHold /\ OneBuilds
    /\ QueuedIsHeld

-----------------------------------------------------------------------------
(* The least and the greatest of a set of numbers.                         *)

LEMMA LeastOf ==
    ASSUME NEW N \in Nat, NEW S \in SUBSET (1..N), S # {}
    PROVE  Min(S) \in S /\ \A y \in S : Min(S) <= y
<1> DEFINE UpTo(x) == {y \in S : y <= x}
<1> DEFINE F == {UpTo(x) : x \in S}
<1> DEFINE R == StrictSubsetOrdering(1..N)
<1> DEFINE D == FiniteSubsetsOf(1..N)
<1>1. IsFiniteSet(1..N)
  BY FS_Interval
<1>2. IsWellFoundedOn(R, D)
  BY <1>1, FS_StrictSubsetOrderingWellFounded
<1>3. F \subseteq D /\ F # {}
  <2>1. \A x \in S : UpTo(x) \in SUBSET (1..N)
    OBVIOUS
  <2>2. \A x \in S : IsFiniteSet(UpTo(x))
    BY <1>1, <2>1, FS_Subset
  <2> QED
    BY <2>1, <2>2 DEF FiniteSubsetsOf
<1>4. PICK T \in F : \A U \in F : ~(<<U, T>> \in R)
  <2> HIDE DEF F, R, D
  <2> QED
    BY <1>2, <1>3, WFMin
<1>5. PICK x \in S : T = UpTo(x)
  BY <1>4
<1>6. ASSUME NEW y \in S, ~(x <= y) PROVE FALSE
  <2>1. y < x /\ x \in Int /\ y \in Int /\ x <= x
    BY <1>6
  <2>2. S \subseteq Int /\ \A z \in S : z <= y => z <= x
    BY <2>1
  <2>4. UpTo(y) \subseteq UpTo(x) /\ x \in UpTo(x) /\ x \notin UpTo(y)
    BY <2>1, <2>2, <1>6
  <2>3. <<UpTo(y), T>> \in R
    BY <2>4, <1>5 DEF StrictSubsetOrdering
  <2> QED
    BY <2>3, <1>4
<1> QED
  BY <1>6 DEF Min

LEMMA GreatestOf ==
    ASSUME NEW N \in Nat, NEW S \in SUBSET (1..N), S # {}
    PROVE  Max(S) \in S /\ \A y \in S : y <= Max(S)
<1> DEFINE T == {N + 1 - x : x \in S}
<1>1. T \in SUBSET (1..N) /\ T # {}
  OBVIOUS
<1>2. Min(T) \in T /\ \A y \in T : Min(T) <= y
  <2> HIDE DEF T
  <2> QED
    BY <1>1, LeastOf
<1>3. PICK x \in S : Min(T) = N + 1 - x
  BY <1>2
<1>4. ASSUME NEW y \in S PROVE y <= x
  <2>1. N + 1 - x <= N + 1 - y
    BY <1>2, <1>3
  <2> QED
    BY <2>1
<1> QED
  BY <1>4 DEF Max

-----------------------------------------------------------------------------
(* Rows.                                                                   *)

Rows == [by : Keys, status : RowStatuses, listed : SUBSET Docs]
RowTypes == rows \in Seq(Rows) /\ touched \in 0..Len(rows)

LEMMA Typed ==
    ASSUME TypeOK
    PROVE  /\ RowTypes /\ Len(rows) \in Nat /\ DOMAIN rows = 1..Len(rows)
           /\ \A i \in DOMAIN rows : rows[i] \in Rows
<1>1. RowTypes
  BY DEF TypeOK, RowTypes, Rows
<1> QED
  BY <1>1 DEF RowTypes

LEMMA PlansAre ==
    ASSUME plan \in Plans
    PROVE  /\ Cmds = 1..Len(plan) /\ Len(plan) \in Nat /\ 0 \notin Cmds
           /\ \A c \in Cmds : Kind(c) \in Kinds /\ Listing(c) \subseteq Docs /\ c \in Keys /\ Key(c) \in Keys
<1>1. plan \in Seq(Kinds \X (1..NumDocs))
  BY PlansAssumption
<1>2. Cmds = 1..Len(plan) /\ Len(plan) \in Nat /\ 0 \notin Cmds
  BY <1>1 DEF Cmds
<1>3. ASSUME NEW c \in Cmds PROVE plan[c] \in Kinds \X (1..NumDocs)
  BY <1>1, <1>3 DEF Cmds
<1>4. ASSUME NEW c \in Cmds PROVE Kind(c) \in Kinds /\ Listing(c) \subseteq Docs
  BY <1>3, BoundsAssumption DEF Kind, Listing, Docs
<1> QED
  BY <1>2, <1>4 DEF Keys, Key

\* A row has been written, and is the one updated last.
Written(i, row) ==
    /\ rows' \in Seq(Rows)
    /\ DOMAIN rows' = DOMAIN rows \union {i}
    /\ Len(rows) <= Len(rows')
    /\ rows'[i] = row
    /\ \A j \in DOMAIN rows : j # i => rows'[j] = rows[j]
    /\ touched' = i

LEMMA WritesIs ==
    ASSUME TypeOK, NEW i \in 1..Len(rows) + 1, NEW row \in Rows, Writes(i, row)
    PROVE  Written(i, row)
<1>1. DOMAIN rows = 1..Len(rows) /\ Len(rows) \in Nat
  BY Typed
<1>2. rows' = [j \in DOMAIN rows \union {i} |-> IF j = i THEN row ELSE rows[j]] /\ touched' = i
  BY DEF Writes
<1>3. PICK n \in Nat : DOMAIN rows \union {i} = 1..n /\ Len(rows) <= n
  <2>1. CASE i \in 1..Len(rows)
    BY <1>1, <2>1
  <2>2. CASE i = Len(rows) + 1
    BY <1>1, <2>2
  <2> QED
    BY <1>1, <2>1, <2>2
<1>4. \A j \in 1..n : rows'[j] \in Rows
  BY <1>2, <1>3, Typed
<1>5. rows' \in [1..n -> Rows]
  BY <1>2, <1>3, <1>4
<1>6. rows' \in Seq(Rows) /\ Len(rows') = n
  BY <1>5
<1> QED
  BY <1>2, <1>3, <1>6 DEF Written

LEMMA RowOfIs ==
    ASSUME TypeOK, NEW c, OwnRows(c) # {}
    PROVE  /\ RowOf(c) \in OwnRows(c) /\ RowOf(c) \in 1..Len(rows)
           /\ rows[RowOf(c)] \in Rows /\ rows[RowOf(c)].by = c
           /\ \A i \in OwnRows(c) : i <= RowOf(c)
<1>1. OwnRows(c) \in SUBSET (1..Len(rows)) /\ Len(rows) \in Nat
  BY Typed DEF OwnRows
<1>2. RowOf(c) \in OwnRows(c) /\ \A i \in OwnRows(c) : i <= RowOf(c)
  BY <1>1, GreatestOf DEF RowOf
<1> QED
  BY <1>1, <1>2, Typed DEF OwnRows

\* Rows keep the command they were created for, so that they are found again.
LEMMA RowOfStays ==
    ASSUME TypeOK, NEW i, NEW row, Written(i, row), NEW b,
           i \in DOMAIN rows => row.by = rows[i].by, i \notin DOMAIN rows => row.by # b
    PROVE  OwnRows(b)' = OwnRows(b) /\ RowOf(b)' = RowOf(b)
<1>1. \A j \in DOMAIN rows' : rows'[j].by = b <=> j \in DOMAIN rows /\ rows[j].by = b
  BY DEF Written
<1>2. OwnRows(b)' = OwnRows(b)
  BY <1>1 DEF OwnRows, Written
<1> QED
  BY <1>2 DEF RowOf

-----------------------------------------------------------------------------
(* How a workflow and its command move.                                    *)

Workflows == [at : Places, tries : 0..MaxTries, todo : SUBSET Docs, failed : SUBSET Docs, found : SUBSET Docs,
              seen : {"none", "open", "closed"}, verdict : {"none", "succeeded", "skipped"}]

LEMMA Known ==
    ASSUME IInv, NEW c \in Cmds
    PROVE  /\ wf \in [Cmds -> Workflows] /\ command \in [Cmds -> CommandStatuses]
           /\ wf[c] \in Workflows /\ command[c] \in CommandStatuses /\ Kind(c) \in Kinds
           /\ Fits(wf[c]) /\ Says(Kind(c), wf[c], command[c]) /\ Covers(c) /\ Holds(c)
<1>1. wf \in [Cmds -> Workflows] /\ command \in [Cmds -> CommandStatuses]
  BY DEF IInv, TypeOK, Workflows
<1>2. Kind(c) \in Kinds
  BY PlansAre DEF IInv
<1> QED
  BY <1>1, <1>2 DEF IInv, WorkflowsFit, CommandsFit, BuildersCover, BuildersHold

\* Only the workflow, or only the command, of c has moved.
Alone(c) == wf' \in [Cmds -> Workflows] /\ \A b \in Cmds : b # c => wf'[b] = wf[b]
Only(c) == command' \in [Cmds -> CommandStatuses] /\ \A b \in Cmds : b # c => command'[b] = command[b]

LEMMA BecomesIs ==
    ASSUME wf \in [Cmds -> Workflows], NEW c \in Cmds, NEW k \in Workflows, Becomes(c, k)
    PROVE  Alone(c) /\ wf'[c] = k
BY DEF Becomes, Alone

LEMMA CommandIs ==
    ASSUME command \in [Cmds -> CommandStatuses], NEW c \in Cmds, NEW s \in CommandStatuses,
           command' = [command EXCEPT ![c] = s]
    PROVE  Only(c) /\ command'[c] = s
BY DEF Only

LEMMA NothingMoves ==
    ASSUME NEW c \in Cmds
    PROVE  /\ wf \in [Cmds -> Workflows] /\ UNCHANGED wf => Alone(c) /\ wf'[c] = wf[c]
           /\ command \in [Cmds -> CommandStatuses] /\ UNCHANGED command => Only(c) /\ command'[c] = command[c]
BY DEF Alone, Only

\* Like(k, m): k differs from m in its place only; Fresh(k): nothing is remembered.
Like(k, m) == /\ k.tries = m.tries /\ k.todo = m.todo /\ k.failed = m.failed
              /\ k.found = m.found /\ k.seen = m.seen /\ k.verdict = m.verdict
Fresh(k) == k.todo = {} /\ k.failed = {} /\ k.found = {} /\ k.seen = "none" /\ k.verdict = "none"

LEMMA StepsIs ==
    ASSUME wf \in [Cmds -> Workflows], NEW c \in Cmds, NEW place \in Places, Steps(c, place)
    PROVE  Alone(c) /\ wf'[c] \in Workflows /\ wf'[c].at = place /\ Like(wf'[c], wf[c])
<1> DEFINE k == [wf[c] EXCEPT !.at = place]
<1>1. wf[c] \in Workflows
  OBVIOUS
<1>2. k \in Workflows /\ k.at = place /\ Like(k, wf[c])
  BY <1>1 DEF Workflows, Like
<1>3. Becomes(c, k)
  BY DEF Steps
<1> HIDE DEF k
<1> QED
  BY <1>2, <1>3, BecomesIs

LEMMA BeginsIs ==
    ASSUME wf \in [Cmds -> Workflows], NEW c \in Cmds, NEW place \in Places, Begins(c, place)
    PROVE  Alone(c) /\ wf'[c] \in Workflows /\ wf'[c].at = place /\ wf'[c].tries = 0 /\ Fresh(wf'[c])
<1> DEFINE k == [Idle EXCEPT !.at = place]
<1>1. k \in Workflows /\ k.at = place /\ k.tries = 0 /\ Fresh(k)
  BY BoundsAssumption DEF Workflows, Fresh, Idle
<1>2. Becomes(c, k)
  BY DEF Begins
<1> HIDE DEF k
<1> QED
  BY <1>1, <1>2, BecomesIs

-----------------------------------------------------------------------------
(* Steps that leave rows and runs alone.                                   *)

\* The workflow of c has moved as the invariant has it, and an outcome has stayed.
Moved(c) ==
    /\ plan' = plan /\ Alone(c) /\ Only(c)
    /\ Fits(wf'[c]) /\ Says(Kind(c), wf'[c], command'[c])
    /\ command[c] \in Ended => command'[c] = command[c]
    /\ command'[c] = "absent" => command[c] = "absent"
Aside(c) ==
    /\ UNCHANGED <<rows, touched, store, overrun>>
    /\ wf'[c].at \in {"configuring", "listing", "embedding", "old_listing", "old_embedding"} => wf'[c] = wf[c]
    /\ wf'[c].at = "preparing" => wf[c].at \in {"configuring", "preparing", "listing"}
Silent(c) == UNCHANGED <<runs, forgotten>> /\ wf[c].found \subseteq wf'[c].found
FaultsFit == faults' \in 0..MaxFaults
MovesAlone(c) == Moved(c) /\ Aside(c) /\ Silent(c) /\ FaultsFit

LEMMA FaultsAre ==
    ASSUME IInv, Fault \/ UNCHANGED faults
    PROVE  FaultsFit
BY BoundsAssumption DEF IInv, TypeOK, Fault, FaultsFit

\* A command that is absent has no workflow that found anything.
LEMMA AbsentFoundNothing ==
    ASSUME IInv, NEW c \in Cmds, 
           command[c] = "absent" \/ wf[c].at \notin {"discovering", "starting", "signalling", "lost"}
    PROVE  wf[c].found = {}
<1>1. Fits(wf[c]) /\ Says(Kind(c), wf[c], command[c])
  BY Known
<1> QED
  BY <1>1 DEF Fits, Says, Active

LEMMA RequestPollMoves ==
    ASSUME IInv, NEW c \in Cmds, RequestPoll(c)
    PROVE  MovesAlone(c)
<1>1. Alone(c) /\ wf'[c].at = "loading" /\ wf'[c].tries = 0 /\ Fresh(wf'[c])
  BY Known, BeginsIs DEF RequestPoll, Places
<1>2. Only(c) /\ command'[c] = "queued" /\ command[c] = "absent"
  BY Known, CommandIs DEF RequestPoll, CommandStatuses
<1>3. plan' = plan /\ UNCHANGED <<rows, touched, store, runs, forgotten, overrun, faults>>
  BY DEF RequestPoll, index, discovered
<1>4. wf[c].found = {} /\ FaultsFit
  BY <1>2, <1>3, AbsentFoundNothing, FaultsAre
<1>5. Fits(wf'[c]) /\ Says(Kind(c), wf'[c], command'[c])
  BY <1>1, <1>2, BoundsAssumption DEF Fits, Fresh, Says, Active, OldPlaces, Spent
<1> QED
  BY <1>1, <1>2, <1>3, <1>4, <1>5 DEF MovesAlone, Moved, Aside, Silent, Ended

LEMMA ScheduleTickMoves ==
    ASSUME IInv, NEW c \in Cmds, ScheduleTick(c)
    PROVE  MovesAlone(c)
<1>1. Alone(c) /\ wf'[c].at = "creating" /\ wf'[c].tries = 0 /\ Fresh(wf'[c])
  BY Known, BeginsIs DEF ScheduleTick, Places
<1>2. wf[c].at = "idle" /\ Kind(c) # "old_build" /\ command[c] = "absent"
  BY Known DEF ScheduleTick, At, Says
<1>3. plan' = plan /\ UNCHANGED <<rows, touched, store, runs, forgotten, overrun, faults, command>>
  BY DEF ScheduleTick, index, discovered
<1>4. wf[c].found = {} /\ FaultsFit /\ Only(c)
  BY <1>2, <1>3, AbsentFoundNothing, FaultsAre, Known, NothingMoves
<1>5. Fits(wf'[c]) /\ Says(Kind(c), wf'[c], command'[c])
  BY <1>1, <1>2, <1>3, BoundsAssumption DEF Fits, Fresh, Says, Active, OldPlaces, Spent
<1> QED
  BY <1>1, <1>2, <1>3, <1>4, <1>5 DEF MovesAlone, Moved, Aside, Silent, Ended

LEMMA CreateScheduledMoves ==
    ASSUME IInv, NEW c \in Cmds, CreateScheduled(c)
    PROVE  MovesAlone(c)
<1>1. plan' = plan /\ UNCHANGED <<rows, touched, store, runs, forgotten, overrun>>
  BY DEF CreateScheduled, index, discovered
<1>2. FaultsFit
  BY FaultsAre DEF CreateScheduled
<1>3. wf[c].at = "creating" /\ command[c] \in {"absent"} \union Active /\ wf[c].found = {} /\ Fits(wf[c])
  BY Known, AbsentFoundNothing DEF CreateScheduled, At, Says
<1>4. Only(c) /\ (command'[c] = "queued" \/ command'[c] = command[c])
  BY Known, CommandIs, NothingMoves DEF CreateScheduled, CommandStatuses
<1>5. CASE Begins(c, "loading") /\ command'[c] # "absent"
  <2>1. Alone(c) /\ wf'[c].at = "loading" /\ wf'[c].tries = 0 /\ Fresh(wf'[c])
    BY <1>5, Known, BeginsIs DEF Places
  <2>2. command'[c] \in Active
    BY <1>3, <1>4, <1>5 DEF Active
  <2>3. Fits(wf'[c]) /\ Says(Kind(c), wf'[c], command'[c])
    BY <2>1, <2>2, BoundsAssumption DEF Fits, Fresh, Says, Active, OldPlaces, Spent
  <2> QED
    BY <1>1, <1>2, <1>3, <1>4, <2>1, <2>2, <2>3 DEF MovesAlone, Moved, Aside, Silent, Ended, Active
<1>6. CASE Begins(c, "done") /\ command' = command
  <2>1. Alone(c) /\ wf'[c].at = "done" /\ Fresh(wf'[c])
    BY <1>6, Known, BeginsIs DEF Places
  <2>2. Fits(wf'[c]) /\ Says(Kind(c), wf'[c], command'[c])
    BY <2>1 DEF Fits, Fresh, Says, OldPlaces, Spent
  <2> QED
    BY <1>1, <1>2, <1>3, <1>4, <1>6, <2>1, <2>2 DEF MovesAlone, Moved, Aside, Silent
<1>7. CASE UNCHANGED wf /\ command'[c] = "queued"
  <2>1. Alone(c) /\ wf'[c] = wf[c]
    BY <1>7, Known, NothingMoves
  <2>2. Says(Kind(c), wf'[c], command'[c])
    BY <1>3, <1>7, <2>1 DEF Says, Active, OldPlaces
  <2> QED
    BY <1>1, <1>2, <1>3, <1>4, <1>7, <2>1, <2>2 DEF MovesAlone, Moved, Aside, Silent, Ended, Active
<1>8. CASE command' = [command EXCEPT ![c] = "queued"]
  <2>1. command'[c] = "queued"
    BY <1>8, Known, CommandIs DEF CommandStatuses
  <2> QED
    BY <1>5, <1>7, <1>8, <2>1 DEF CreateScheduled
<1> QED
  BY <1>5, <1>6, <1>8 DEF CreateScheduled

LEMMA ConfigureMoves ==
    ASSUME IInv, NEW c \in Cmds, Configure(c)
    PROVE  MovesAlone(c)
<1>1. Alone(c) /\ wf'[c].at = "preparing" /\ Like(wf'[c], wf[c])
  BY Known, StepsIs DEF Configure, Places
<1>2. wf[c].at = "configuring" /\ command[c] \in Active /\ Fits(wf[c])
  BY Known DEF Configure, At, Says
<1>3. plan' = plan /\ UNCHANGED <<rows, touched, store, runs, forgotten, overrun, faults, command>>
  BY DEF Configure, index, discovered
<1>4. FaultsFit /\ Only(c)
  BY <1>3, FaultsAre, Known, NothingMoves
<1>5. Fits(wf'[c]) /\ Says(Kind(c), wf'[c], command'[c])
  BY <1>1, <1>2, <1>3 DEF Fits, Like, Says, OldPlaces, Spent
<1> QED
  BY <1>1, <1>2, <1>3, <1>4, <1>5 DEF MovesAlone, Moved, Aside, Silent, Like

LEMMA OneMoreTry ==
    ASSUME IInv, NEW c \in Cmds, wf[c].at \notin Spent
    PROVE  wf[c].tries + 1 \in 0..MaxTries
<1>1. wf[c].tries \in 0..MaxTries /\ wf[c].tries < MaxTries
  BY Known DEF Fits, Workflows
<1> QED
  BY <1>1, BoundsAssumption

LEMMA PrepareFailsMoves ==
    ASSUME IInv, NEW c \in Cmds, PrepareFails(c)
    PROVE  MovesAlone(c)
<1>1. wf[c].at \in {"listing", "preparing"} /\ command[c] \in Active /\ Fits(wf[c]) /\ wf[c] \in Workflows
  BY Known DEF PrepareFails, At, Says
<1>2. PICK tries \in 0..MaxTries, place \in {"preparing", "failing"} :
        /\ place = "preparing" => tries < MaxTries
        /\ Becomes(c, [wf[c] EXCEPT !.tries = tries, !.at = place])
  <2>1. wf[c].tries + 1 \in 0..MaxTries
    BY <1>1, OneMoreTry DEF Spent
  <2>2. CASE wf[c].tries + 1 < MaxTries
    BY <2>1, <2>2, Zenon DEF PrepareFails
  <2>3. CASE ~(wf[c].tries + 1 < MaxTries)
    BY <2>1, <2>3, Zenon DEF PrepareFails
  <2> QED
    BY <2>2, <2>3, Zenon
<1> DEFINE k == [wf[c] EXCEPT !.tries = tries, !.at = place]
<1>3. k \in Workflows
  BY <1>1 DEF Workflows, Places
<1>4. k.at = place /\ k.tries = tries /\ k.found = wf[c].found /\ k.seen = wf[c].seen
  BY <1>1 DEF Workflows
<1>5. Becomes(c, k)
  BY <1>2
<1> HIDE DEF k
<1>6. Alone(c) /\ wf'[c] = k
  BY <1>3, <1>5, Known, BecomesIs
<1>7. plan' = plan /\ UNCHANGED <<rows, touched, store, runs, forgotten, overrun, faults, command>>
  BY DEF PrepareFails, index, discovered
<1>8. FaultsFit /\ Only(c)
  BY <1>7, FaultsAre, Known, NothingMoves
<1>9. Fits(wf'[c]) /\ Says(Kind(c), wf'[c], command'[c])
  BY <1>1, <1>2, <1>4, <1>6, <1>7 DEF Fits, Says, OldPlaces, Spent
<1> QED
  BY <1>1, <1>2, <1>4, <1>6, <1>7, <1>8, <1>9 DEF MovesAlone, Moved, Aside, Silent

LEMMA LoadMoves ==
    ASSUME IInv, NEW c \in Cmds, Load(c)
    PROVE  MovesAlone(c)
<1> DEFINE k == [wf[c] EXCEPT !.at = "discovering", !.todo = Listing(c), !.found = {},
                              !.seen = "none", !.verdict = "succeeded"]
<1> DEFINE m == [wf[c] EXCEPT !.at = "starting", !.verdict = "skipped"]
<1>1. wf[c].at = "loading" /\ command[c] \in Active /\ Fits(wf[c]) /\ wf[c] \in Workflows /\ wf[c].found = {}
  BY Known, AbsentFoundNothing DEF Load, At, Says
<1>2. Listing(c) \subseteq Docs
  BY PlansAre DEF IInv
<1>3. k \in Workflows /\ m \in Workflows
  BY <1>1, <1>2 DEF Workflows, Places
<1>4. /\ k.at = "discovering" /\ k.found = {} /\ k.seen = "none" /\ k.verdict = "succeeded" /\ k.tries = wf[c].tries
      /\ m.at = "starting" /\ m.found = {} /\ m.seen = wf[c].seen /\ m.verdict = "skipped" /\ m.tries = wf[c].tries
  BY <1>1 DEF Workflows
<1>5. Becomes(c, k) \/ Becomes(c, m)
  BY DEF Load
<1> HIDE DEF k, m
<1>6. Alone(c) /\ (wf'[c] = k \/ wf'[c] = m)
  BY <1>3, <1>5, Known, BecomesIs
<1>7. plan' = plan /\ UNCHANGED <<rows, touched, store, runs, forgotten, overrun, faults>>
  BY DEF Load, index, discovered
<1>8. Only(c) /\ command'[c] = "running"
  BY Known, CommandIs DEF Load, Loaded, CommandStatuses
<1>9. Fits(wf'[c]) /\ Says(Kind(c), wf'[c], command'[c])
  BY <1>1, <1>4, <1>6, <1>8 DEF Fits, Says, OldPlaces, Spent, Active
<1>10. FaultsFit
  BY <1>7, FaultsAre
<1> QED
  BY <1>1, <1>4, <1>6, <1>7, <1>8, <1>9, <1>10 DEF MovesAlone, Moved, Aside, Silent, Active, Ended

LEMMA UpcomingIs ==
    ASSUME IInv, NEW c \in Cmds, wf[c].todo # {}
    PROVE  Upcoming(c) \in wf[c].todo /\ Upcoming(c) \in Docs
<1>1. wf[c].todo \in SUBSET (1..NumDocs) /\ NumDocs \in Nat
  BY Known, BoundsAssumption DEF Workflows, Docs
<1> QED
  BY <1>1, LeastOf DEF Upcoming, Docs

LEMMA PastIs ==
    ASSUME IInv, NEW c \in Cmds
    PROVE  /\ Past(c) \in Workflows /\ Past(c).todo = wf[c].todo \ {Upcoming(c)} /\ Past(c).at = wf[c].at
           /\ Past(c).tries = wf[c].tries /\ Past(c).failed = wf[c].failed /\ Past(c).found = wf[c].found
           /\ Past(c).seen = wf[c].seen /\ Past(c).verdict = wf[c].verdict
<1>1. wf[c] \in Workflows
  BY Known
<1> QED
  BY <1>1 DEF Workflows, Past

LEMMA LookMoves ==
    ASSUME IInv, NEW c \in Cmds, Look(c)
    PROVE  MovesAlone(c)
<1>0. PICK seen \in {"open", "closed"} : Becomes(c, [wf[c] EXCEPT !.seen = seen]) \/ Becomes(c, Past(c))
  <2>1. (IF GateOpen THEN "open" ELSE "closed") \in {"open", "closed"}
    BY Zenon
  <2> QED
    BY <2>1, Zenon DEF Look
<1> DEFINE k == [wf[c] EXCEPT !.seen = seen]
<1>1. /\ wf[c].at = "discovering" /\ wf[c].todo # {} /\ wf[c].seen = "none"
      /\ command[c] \in Active /\ Fits(wf[c]) /\ wf[c] \in Workflows
  BY Known DEF Look, At, Says
<1>2. k \in Workflows
  BY <1>1 DEF Workflows
<1>3. k.at = wf[c].at /\ k.found = wf[c].found /\ k.todo = wf[c].todo /\ k.verdict = wf[c].verdict /\ k.tries = wf[c].tries
  BY <1>1 DEF Workflows
<1>4. Becomes(c, k) \/ Becomes(c, Past(c))
  BY <1>0
<1> HIDE DEF k
<1>5. Alone(c) /\ (wf'[c] = k \/ wf'[c] = Past(c))
  BY <1>2, <1>4, PastIs, Known, BecomesIs
<1>6. plan' = plan /\ UNCHANGED <<rows, touched, store, runs, forgotten, overrun, faults, command>>
  BY DEF Look, index, discovered
<1>7. FaultsFit /\ Only(c)
  BY <1>6, FaultsAre, Known, NothingMoves
<1>8. Fits(wf'[c]) /\ Says(Kind(c), wf'[c], command'[c])
  BY <1>1, <1>3, <1>5, <1>6, PastIs DEF Fits, Says, OldPlaces, Spent
<1> QED
  BY <1>1, <1>3, <1>5, <1>6, <1>7, <1>8, PastIs DEF MovesAlone, Moved, Aside, Silent

LEMMA DiscoveredMoves ==
    ASSUME IInv, NEW c \in Cmds, Discovered(c)
    PROVE  MovesAlone(c)
<1>1. Alone(c) /\ wf'[c].at = "starting" /\ Like(wf'[c], wf[c])
  BY Known, StepsIs DEF Discovered, Places
<1>2. wf[c].at = "discovering" /\ wf[c].todo = {} /\ command[c] \in Active /\ Fits(wf[c])
  BY Known DEF Discovered, At, Says
<1>3. plan' = plan /\ UNCHANGED <<rows, touched, store, runs, forgotten, overrun, faults, command>>
  BY DEF Discovered, index, discovered
<1>4. FaultsFit /\ Only(c)
  BY <1>3, FaultsAre, Known, NothingMoves
<1>5. Fits(wf'[c]) /\ Says(Kind(c), wf'[c], command'[c])
  BY <1>1, <1>2, <1>3 DEF Fits, Like, Says, OldPlaces, Spent
<1> QED
  BY <1>1, <1>2, <1>3, <1>4, <1>5 DEF MovesAlone, Moved, Aside, Silent, Like

\* A workflow that ends, or is lost, where it had found nothing it has not started.
LEMMA LeavesBehind ==
    ASSUME IInv, NEW c \in Cmds, NEW place \in {"done", "lost", "failing"}, Begins(c, place), wf[c].found = {},
           plan' = plan, UNCHANGED <<rows, touched, store, runs, forgotten, overrun>>, FaultsFit,
           Only(c), command[c] \in Ended => command'[c] = command[c], command'[c] = "absent" => command[c] = "absent"
    PROVE  MovesAlone(c)
<1>1. Alone(c) /\ wf'[c].at = place /\ wf'[c].tries = 0 /\ Fresh(wf'[c])
  BY Known, BeginsIs DEF Places
<1>2. Fits(wf'[c]) /\ Says(Kind(c), wf'[c], command'[c])
  BY <1>1, BoundsAssumption DEF Fits, Fresh, Says, OldPlaces, Spent
<1> QED
  BY <1>1, <1>2 DEF MovesAlone, Moved, Aside, Silent

\* What a discovery reports is what its command may already say.
LEMMA ReportIs ==
    ASSUME IInv, NEW c \in Cmds, Reporting(c), ReportEffect(c)
    PROVE  /\ wf[c].at = "starting" /\ wf[c].found = {} /\ wf[c].verdict \in {"succeeded", "skipped"}
           /\ Only(c) /\ command'[c] = wf[c].verdict
           /\ command[c] \in Ended => command'[c] = command[c]
<1>1. wf[c].at = "starting" /\ wf[c].found = {} /\ Fits(wf[c]) /\ Says(Kind(c), wf[c], command[c])
  BY Known DEF Reporting, At
<1>2. wf[c].verdict \in {"succeeded", "skipped"} /\ (command[c] \in Active \/ command[c] = wf[c].verdict)
  BY <1>1 DEF Fits, Says
<1>3. wf[c].verdict \in CommandStatuses
  BY <1>2 DEF CommandStatuses
<1>4. Only(c) /\ command'[c] = wf[c].verdict
  BY <1>3, Known, CommandIs DEF ReportEffect
<1> QED
  BY <1>1, <1>2, <1>4 DEF Active, Ended

LEMMA ReportMoves ==
    ASSUME IInv, NEW c \in Cmds, Report(c)
    PROVE  MovesAlone(c)
<1>1. plan' = plan /\ UNCHANGED <<rows, touched, store, runs, forgotten, overrun, faults>> /\ Begins(c, "done")
  BY DEF Report, index, discovered
<1>2. FaultsFit
  BY <1>1, FaultsAre
<1> QED
  BY <1>1, <1>2, ReportIs, LeavesBehind DEF Report

LEMMA FailDiscoveryMoves ==
    ASSUME IInv, NEW c \in Cmds, FailDiscovery(c)
    PROVE  MovesAlone(c)
<1> DEFINE s == IF command[c] \in {"succeeded", "skipped"} THEN command[c] ELSE "failed_permanent"
<1>1. /\ wf[c].at = "failing_discovery" /\ command[c] \in Active \union {"succeeded", "skipped"}
      /\ command[c] \in CommandStatuses /\ wf[c].found = {}
  BY Known, AbsentFoundNothing DEF FailDiscovery, At, Says
<1>2. command' = [command EXCEPT ![c] = s] /\ s \in CommandStatuses
  BY <1>1 DEF FailDiscovery, CommandStatuses
<1>3. Only(c) /\ command'[c] = s
  BY <1>2, Known, CommandIs
<1>4. (command[c] \in Ended => command'[c] = command[c]) /\ command'[c] # "absent"
  BY <1>1, <1>3 DEF Active, Ended
<1>5. plan' = plan /\ UNCHANGED <<rows, touched, store, runs, forgotten, overrun, faults>> /\ Begins(c, "done")
  BY DEF FailDiscovery, index, discovered
<1>6. FaultsFit
  BY <1>5, FaultsAre
<1> HIDE DEF s
<1> QED
  BY <1>1, <1>3, <1>4, <1>5, <1>6, LeavesBehind

\* The failure handler of a discovery takes over after its report.
LEMMA HandsOver ==
    ASSUME IInv, NEW c \in Cmds, Reporting(c) \/ wf[c].at \in {"creating", "configuring", "embedding", "failing", "failing_discovery"},
           Begins(c, Handler(c)), Only(c), plan' = plan,
           UNCHANGED <<rows, touched, store, runs, forgotten, overrun>>, FaultsFit,
           command' = command \/ (Reporting(c) /\ ReportEffect(c))
    PROVE  MovesAlone(c)
<1>1. wf[c].found = {}
  BY AbsentFoundNothing DEF Reporting
<1>2. /\ command[c] \in Ended => command'[c] = command[c]
      /\ command'[c] = "absent" => command[c] = "absent"
  BY ReportIs
<1>3. CASE Reporting(c) /\ Handler(c) = "failing_discovery"
  <2>1. Alone(c) /\ wf'[c].at = "failing_discovery" /\ wf'[c].tries = 0 /\ Fresh(wf'[c])
    BY <1>3, Known, BeginsIs DEF Places
  <2>2. /\ wf[c].at = "starting" /\ wf[c].verdict \in {"succeeded", "skipped"}
        /\ command[c] \in Active \/ command[c] = wf[c].verdict
    BY <1>3, Known DEF Reporting, At, Fits, Says
  <2>3. command'[c] \in Active \union {"succeeded", "skipped"}
    BY <2>2, ReportIs
  <2>4. Fits(wf'[c]) /\ Says(Kind(c), wf'[c], command'[c])
    BY <2>1, <2>3, BoundsAssumption DEF Fits, Fresh, Says, OldPlaces, Spent
  <2> QED
    BY <1>1, <1>2, <2>1, <2>4 DEF MovesAlone, Moved, Aside, Silent
<1>4. CASE Handler(c) \in {"failing", "lost"}
  BY <1>1, <1>2, <1>4, LeavesBehind
<1>5. Handler(c) \in {"failing", "lost"} \/ (Reporting(c) /\ Handler(c) = "failing_discovery")
  <2>1. CASE wf[c].at = "embedding"
    BY <2>1 DEF Handler, Reporting, At
  <2>2. CASE wf[c].at # "embedding" /\ Reporting(c) /\ Kind(c) = "reindex"
    BY <2>2 DEF Handler
  <2>3. CASE wf[c].at # "embedding" /\ ~(Reporting(c) /\ Kind(c) = "reindex")
    BY <2>3 DEF Handler
  <2> QED
    BY <2>1, <2>2, <2>3
<1> QED
  BY <1>3, <1>4, <1>5

LEMMA OutageMoves ==
    ASSUME IInv, NEW c \in Cmds, Outage(c)
    PROVE  MovesAlone(c)
<1>1. plan' = plan /\ UNCHANGED <<rows, touched, store, runs, forgotten, overrun, command>> /\ Begins(c, Handler(c))
  BY DEF Outage, index, discovered
<1>2. FaultsFit /\ Only(c)
  BY <1>1, FaultsAre, Known, NothingMoves DEF Outage
<1> QED
  BY <1>1, <1>2, HandsOver DEF Outage

LEMMA LaunchOldMoves ==
    ASSUME IInv, NEW c \in Cmds, LaunchOld(c)
    PROVE  MovesAlone(c)
<1>1. Alone(c) /\ wf'[c].at = "launched" /\ Like(wf'[c], wf[c])
  BY Known, StepsIs DEF LaunchOld, Places
<1>2. wf[c].at = "idle" /\ Kind(c) = "old_build" /\ command[c] = "queued" /\ Fits(wf[c])
  BY Known DEF LaunchOld, At
<1>3. plan' = plan /\ UNCHANGED <<rows, touched, store, runs, forgotten, overrun, faults>>
  BY DEF LaunchOld, index, discovered
<1>4. Only(c) /\ command'[c] = "running"
  BY Known, CommandIs DEF LaunchOld, CommandStatuses
<1>5. FaultsFit
  BY <1>3, FaultsAre
<1>6. Fits(wf'[c]) /\ Says(Kind(c), wf'[c], command'[c])
  BY <1>1, <1>2, <1>4 DEF Fits, Like, Says, OldPlaces, Spent, Active
<1> QED
  BY <1>1, <1>2, <1>3, <1>4, <1>5, <1>6 DEF MovesAlone, Moved, Aside, Silent, Like, Ended

LEMMA OldDiesMoves ==
    ASSUME IInv, NEW c \in Cmds, OldDies(c)
    PROVE  MovesAlone(c)
<1>1. Alone(c) /\ wf'[c].at = "idle" /\ wf'[c].tries = 0 /\ Fresh(wf'[c])
  BY Known, BeginsIs DEF OldDies, Places
<1>2. wf[c].at \in OldPlaces /\ Kind(c) = "old_build" /\ command[c] \in Active /\ wf[c].found = {}
  BY Known, AbsentFoundNothing DEF OldDies, OldPlaces, Says
<1>3. plan' = plan /\ UNCHANGED <<rows, touched, store, runs, forgotten, overrun>>
  BY DEF OldDies, index, discovered
<1>4. Only(c) /\ command'[c] = "queued"
  BY Known, CommandIs DEF OldDies, CommandStatuses
<1>5. FaultsFit
  BY FaultsAre DEF OldDies
<1>6. Fits(wf'[c]) /\ Says(Kind(c), wf'[c], command'[c])
  BY <1>1, <1>2, <1>4, BoundsAssumption DEF Fits, Fresh, Says, OldPlaces, Spent, Active
<1> QED
  BY <1>1, <1>2, <1>3, <1>4, <1>5, <1>6 DEF MovesAlone, Moved, Aside, Silent, Ended, Active

-----------------------------------------------------------------------------
(* What keeps the rows as they should be.                                  *)

IndexInv == RowTypes /\ BuildersCover /\ CompleteIndexCovers /\ BuildersHold /\ OneBuilds

\* c writes its row anew.
Rewrites(c, row) ==
    /\ OwnRows(c) # {} /\ Writes(RowOf(c), row)
    /\ row \in Rows /\ row.by = c
    /\ row.status = "complete" => row.listed \subseteq store'
    /\ ~overrun' => Row(c).status = "building" \/ row.status \notin {"building", "complete"}
    /\ wf'[c].at \in {"listing", "old_listing"} => row.status # "complete"
    /\ wf'[c].at \in {"embedding", "old_embedding"} => row.listed \subseteq store' \union wf'[c].todo \union wf'[c].failed
    /\ wf'[c].at \in {"old_listing", "old_embedding"} => row.status = "building"
    /\ ~overrun' /\ wf'[c].at \in {"listing", "embedding"} => row.status = "building"
    /\ wf'[c].at \notin {"configuring", "preparing"} /\ command'[c] # "absent"

\* c has a new row, and nobody else builds.
Appends(c) ==
    /\ \A i \in DOMAIN rows : rows[i].status # "building"
    /\ Writes(Len(rows) + 1, [by |-> c, status |-> "building", listed |-> {}])
    /\ wf'[c].at \in {"listing", "old_listing"} /\ command'[c] # "absent"

Grows == store \subseteq store' /\ overrun' \in BOOLEAN /\ (overrun => overrun')

LEMMA OthersKeepRows ==
    ASSUME IInv, NEW b \in Cmds, NEW i \in 1..Len(rows) + 1, NEW row, Written(i, row), row.by # b,
           i \in DOMAIN rows => row.by = rows[i].by, wf'[b] = wf[b], command'[b] = command[b], Grows
    PROVE  Covers(b)' /\ Holds(b)'
<1>1. TypeOK /\ Covers(b) /\ Holds(b)
  BY Known DEF IInv
<1>2. OwnRows(b)' = OwnRows(b) /\ RowOf(b)' = RowOf(b)
  BY <1>1, RowOfStays
<1>3. CASE OwnRows(b) = {}
  BY <1>1, <1>2, <1>3 DEF Covers, Holds, HasRow
<1>4. CASE OwnRows(b) # {}
  <2>1. RowOf(b) \in DOMAIN rows /\ rows[RowOf(b)].by = b
    BY <1>1, <1>4, RowOfIs, Typed
  <2>2. Row(b)' = Row(b)
    BY <1>2, <2>1 DEF Row, Written
  <2> QED
    BY <1>1, <1>2, <2>2 DEF Covers, Holds, HasRow, Grows
<1> QED
  BY <1>3, <1>4

LEMMA RewritesKeeps ==
    ASSUME IInv, NEW c \in Cmds, Moved(c), NEW row, Rewrites(c, row), Grows
    PROVE  IndexInv'
<1>1. TypeOK /\ CompleteIndexCovers /\ OneBuilds
  BY DEF IInv
<1>2. /\ RowOf(c) \in 1..Len(rows) /\ RowOf(c) \in DOMAIN rows /\ rows[RowOf(c)].by = c
      /\ row \in Rows /\ row.by = c /\ OwnRows(c) # {}
  BY <1>1, RowOfIs, Typed DEF Rewrites
<1>3. RowOf(c) \in 1..Len(rows) + 1 /\ Writes(RowOf(c), row)
  BY <1>1, <1>2, Typed DEF Rewrites
<1>4. Written(RowOf(c), row)
  BY <1>1, <1>2, <1>3, WritesIs
<1>5. /\ rows' \in Seq(Rows) /\ DOMAIN rows' = DOMAIN rows /\ touched' = RowOf(c) /\ rows'[RowOf(c)] = row
      /\ \A j \in DOMAIN rows : j # RowOf(c) => rows'[j] = rows[j]
  BY <1>2, <1>4 DEF Written
<1>6. RowTypes'
  <2>1. Rows' = Rows
    BY DEF Moved, Rows, Keys, Cmds
  <2>2. RowOf(c) \in 0..Len(rows')
    BY <1>2, <1>5, <1>1, Typed
  <2> QED
    BY <1>5, <2>1, <2>2 DEF RowTypes
<1>7. OwnRows(c)' = OwnRows(c) /\ Row(c)' = row
  BY <1>1, <1>2, <1>4, <1>5, RowOfStays DEF Row
<1>8. Covers(c)' /\ Holds(c)'
  BY <1>2, <1>7 DEF Covers, Holds, HasRow, Rewrites
<1>9. \A b \in Cmds : b # c => wf'[b] = wf[b] /\ command'[b] = command[b]
  BY DEF Moved, Alone, Only
<1>10. \A b \in Cmds : b # c => Covers(b)' /\ Holds(b)'
  BY <1>2, <1>3, <1>4, <1>9, OthersKeepRows
<1>11. BuildersCover' /\ BuildersHold'
  <2>1. Cmds' = Cmds
    BY DEF Moved, Cmds
  <2> QED
    BY <1>8, <1>10, <2>1 DEF BuildersCover, BuildersHold
<1>12. CompleteIndexCovers'
  BY <1>1, <1>5 DEF CompleteIndexCovers, Rewrites, Grows
<1>13. OneBuilds'
  <2> SUFFICES ASSUME ~overrun'
               PROVE  /\ \A i, j \in DOMAIN rows' : rows'[i].status = "building" /\ rows'[j].status = "building" => i = j
                      /\ (\E i \in DOMAIN rows' : rows'[i].status = "building") => ~GateOpen'
    BY DEF OneBuilds
  <2>1. /\ \A i, j \in DOMAIN rows : rows[i].status = "building" /\ rows[j].status = "building" => i = j
        /\ rows[RowOf(c)].status = "building" \/ row.status \notin {"building", "complete"}
    BY <1>1 DEF OneBuilds, Grows, Rewrites, Row
  <2>2. \A i \in DOMAIN rows' : rows'[i].status = "building" => rows[i].status = "building" 
    BY <1>2, <1>5, <2>1
  <2>3. row.status = "complete" => \A i \in DOMAIN rows' : rows'[i].status # "building"
    BY <1>2, <1>5, <2>1, <2>2
  <2> QED
    BY <1>5, <2>1, <2>2, <2>3 DEF GateOpen
<1> QED
  BY <1>6, <1>11, <1>12, <1>13 DEF IndexInv

LEMMA AppendsKeeps ==
    ASSUME IInv, NEW c \in Cmds, Moved(c), Appends(c), Grows
    PROVE  IndexInv'
<1> DEFINE row == [by |-> c, status |-> "building", listed |-> {}]
<1> DEFINE n == Len(rows) + 1
<1>1. TypeOK /\ CompleteIndexCovers /\ n \in 1..Len(rows) + 1 /\ n \notin DOMAIN rows /\ DOMAIN rows = 1..Len(rows)
  BY Typed DEF IInv
<1>2. row \in Rows /\ row.by = c /\ row.status = "building" /\ row.listed = {}
  BY PlansAre DEF Rows, RowStatuses, IInv
<1>3. Written(n, row)
  BY <1>1, <1>2, WritesIs DEF Appends
<1>4. /\ rows' \in Seq(Rows) /\ DOMAIN rows' = DOMAIN rows \union {n} /\ touched' = n /\ rows'[n] = row
      /\ \A j \in DOMAIN rows : rows'[j] = rows[j]
  BY <1>1, <1>3 DEF Written
<1>5. RowTypes'
  <2>1. Rows' = Rows
    BY DEF Moved, Rows, Keys, Cmds
  <2>2. n \in DOMAIN rows' /\ DOMAIN rows' = 1..Len(rows')
    BY <1>4
  <2>3. n \in 0..Len(rows')
    BY <2>2, <1>1
  <2> QED
    BY <1>4, <2>1, <2>3 DEF RowTypes
<1>6. RowOf(c)' = n /\ OwnRows(c)' # {} /\ Row(c)' = row
  <2>1. n \in OwnRows(c)' /\ \A j \in OwnRows(c)' : j <= n
    BY <1>1, <1>2, <1>4, Typed DEF OwnRows
  <2>2. OwnRows(c)' \in SUBSET (1..Len(rows')) /\ Len(rows') \in Nat
    <3>1. DOMAIN rows' = 1..Len(rows') /\ Len(rows') \in Nat
      BY <1>4
    <3> QED
      BY <3>1 DEF OwnRows
  <2>3. Max(OwnRows(c)') \in OwnRows(c)' /\ \A j \in OwnRows(c)' : j <= Max(OwnRows(c)')
    BY <2>1, <2>2, GreatestOf
  <2>4. Max(OwnRows(c)') = n
    BY <2>1, <2>2, <2>3
  <2> QED
    BY <1>4, <2>1, <2>4 DEF RowOf, Row
<1>7. Covers(c)' /\ Holds(c)'
  BY <1>2, <1>6 DEF Covers, Holds, HasRow, Appends
<1>8. \A b \in Cmds : b # c => wf'[b] = wf[b] /\ command'[b] = command[b]
  BY DEF Moved, Alone, Only
<1>9. \A b \in Cmds : b # c => Covers(b)' /\ Holds(b)'
  BY <1>1, <1>2, <1>3, <1>8, OthersKeepRows
<1>10. BuildersCover' /\ BuildersHold'
  <2>1. Cmds' = Cmds
    BY DEF Moved, Cmds
  <2> QED
    BY <1>7, <1>9, <2>1 DEF BuildersCover, BuildersHold
<1>11. CompleteIndexCovers'
  BY <1>1, <1>2, <1>4 DEF CompleteIndexCovers, Grows
<1>12. OneBuilds'
  BY <1>1, <1>2, <1>4 DEF OneBuilds, GateOpen, Appends
<1> QED
  BY <1>5, <1>10, <1>11, <1>12 DEF IndexInv

\* A row is marked stale, or a first one created that says so.
MarksStale ==
    \/ /\ \E row \in Rows : Writes(1, row) /\ row.by = 0 /\ row.status = "stale" /\ Len(rows) = 0
       /\ UNCHANGED overrun
    \/ /\ Len(rows) # 0
       /\ Writes(Len(rows), [rows[Len(rows)] EXCEPT !.status = "stale"]) \/ UNCHANGED <<rows, touched>>
       /\ overrun' = (overrun \/ AtWork(rows[Len(rows)].by))

LEMMA MarkRowStaleIs ==
    ASSUME IInv, MarkRowStale
    PROVE  MarksStale /\ ~LeaseTaken
<1> DEFINE row == [by |-> 0, status |-> "stale", listed |-> {}]
<1>1. row \in Rows /\ row.by = 0 /\ row.status = "stale"
  BY DEF Rows, RowStatuses, Keys
<1>2. CASE Len(rows) = 0
  <2>1. Writes(1, row) /\ UNCHANGED overrun /\ ~LeaseTaken
    BY <1>2 DEF MarkRowStale
  <2> QED
    BY <1>1, <1>2, <2>1 DEF MarksStale
<1>3. CASE Len(rows) # 0
  BY <1>3 DEF MarkRowStale, MarksStale, index
<1> QED
  BY <1>2, <1>3

\* Nobody who is at work, and stays there, is the builder of the row -- unless it is overrun.
LEMMA MarksStaleKeeps ==
    ASSUME IInv, MarksStale, ~LeaseTaken, plan' = plan, UNCHANGED store,
           \A b \in Cmds : /\ wf'[b] = wf[b] \/ (wf'[b].at = "configuring" /\ command[b] = "absent")
                           /\ command'[b] = "absent" => command[b] = "absent"
    PROVE  IndexInv'
<1>1. TypeOK /\ CompleteIndexCovers /\ OneBuilds /\ RowTypes /\ Cmds' = Cmds /\ Rows' = Rows
  BY Typed DEF IInv, Cmds, Rows, Keys
<1>2. CASE Len(rows) = 0
  <2>1. PICK row \in Rows : Writes(1, row) /\ row.by = 0 /\ row.status = "stale"
    BY <1>2 DEF MarksStale
  <2>2. Written(1, row) /\ DOMAIN rows = {}
    BY <1>1, <1>2, <2>1, WritesIs, Typed
  <2>3. rows' \in Seq(Rows) /\ DOMAIN rows' = {1} /\ rows'[1] = row /\ touched' = 1
    BY <2>2 DEF Written
  <2>4. RowTypes'
    <3>1. 1 \in 0..Len(rows')
      <4>1. DOMAIN rows' = 1..Len(rows') /\ Len(rows') \in Nat
        BY <2>3
      <4>2. 1 \in 1..Len(rows')
        BY <2>3, <4>1
      <4> QED
        BY <4>1, <4>2
    <3> QED
      BY <1>1, <2>3, <3>1 DEF RowTypes
  <2>5. \A b \in Cmds : OwnRows(b) = {} /\ OwnRows(b)' = {}
    BY <2>1, <2>2, <2>3, PlansAre DEF OwnRows, IInv
  <2>6. \A b \in Cmds : ~HasRow(b) /\ Holds(b)
    BY <2>5, Known DEF Covers
  <2>7. BuildersCover' /\ BuildersHold'
    BY <1>1, <2>5, <2>6 DEF BuildersCover, BuildersHold, Covers, Holds, HasRow
  <2> QED
    BY <2>1, <2>3, <2>4, <2>7 DEF IndexInv, CompleteIndexCovers, OneBuilds, GateOpen
<1>3. CASE Len(rows) # 0 /\ UNCHANGED <<rows, touched>>
  <2>1. overrun => overrun'
    BY <1>2, <1>3 DEF MarksStale
  <2>2. RowTypes' /\ CompleteIndexCovers' /\ OneBuilds'
    BY <1>1, <1>3, <2>1 DEF RowTypes, CompleteIndexCovers, OneBuilds, GateOpen
  <2>3. ASSUME NEW b \in Cmds PROVE Covers(b)' /\ Holds(b)'
    <3>1. Covers(b) /\ Holds(b) /\ OwnRows(b)' = OwnRows(b) /\ Row(b)' = Row(b)
      BY <1>3, Known DEF OwnRows, Row, RowOf
    <3> QED
      BY <2>1, <3>1 DEF Covers, Holds, HasRow
  <2> QED
    BY <1>1, <2>2, <2>3 DEF IndexInv, BuildersCover, BuildersHold
<1>4. CASE Len(rows) # 0 /\ Writes(Len(rows), [rows[Len(rows)] EXCEPT !.status = "stale"])
  <2> DEFINE n == Len(rows)
  <2> DEFINE row == [rows[n] EXCEPT !.status = "stale"]
  <2>1. n \in DOMAIN rows /\ n \in 1..Len(rows) + 1 /\ rows[n] \in Rows
    BY <1>1, <1>4, Typed
  <2>2. row \in Rows /\ row.by = rows[n].by /\ row.status = "stale" /\ row.listed = rows[n].listed
    BY <2>1 DEF Rows, RowStatuses
  <2> HIDE DEF row
  <2>3. Written(n, row)
    BY <1>1, <1>4, <2>1, <2>2, WritesIs DEF row
  <2>4. overrun' = (overrun \/ AtWork(rows[n].by))
    BY <1>4 DEF MarksStale
  <2>5. /\ rows' \in Seq(Rows) /\ DOMAIN rows' = DOMAIN rows /\ rows'[n] = row /\ touched' = n
        /\ \A j \in DOMAIN rows : j # n => rows'[j] = rows[j]
    BY <2>1, <2>3 DEF Written
  <2>6. RowTypes'
    <3>1. n \in 0..Len(rows')
      BY <2>1, <2>5
    <3> QED
      BY <1>1, <2>5, <3>1 DEF RowTypes
  <2>7. CompleteIndexCovers' /\ OneBuilds'
    BY <1>1, <2>2, <2>4, <2>5 DEF CompleteIndexCovers, OneBuilds, GateOpen
  <2>8. ASSUME NEW b \in Cmds PROVE Covers(b)' /\ Holds(b)'
    <3>1. Covers(b) /\ Holds(b) /\ OwnRows(b)' = OwnRows(b) /\ RowOf(b)' = RowOf(b)
      BY <1>1, <2>1, <2>2, <2>3, RowOfStays, Known
    <3>2. wf[b].at \notin {"old_listing", "old_embedding"} /\ b # 0
      BY PlansAre DEF LeaseTaken, IInv
    <3>3. CASE OwnRows(b) = {}
      BY <3>1, <3>3 DEF Covers, Holds, HasRow
    <3>4. CASE OwnRows(b) # {} /\ RowOf(b) # n
      <4>1. Row(b)' = Row(b)
        BY <1>1, <2>5, <3>1, <3>4, RowOfIs, Typed DEF Row
      <4> QED
        BY <2>4, <3>1, <4>1 DEF Covers, Holds, HasRow
    <3>5. CASE OwnRows(b) # {} /\ RowOf(b) = n
      <4>1. rows[n].by = b /\ Row(b)' = row /\ Row(b) = rows[n]
        BY <1>1, <2>5, <3>1, <3>5, RowOfIs DEF Row
      <4>2. overrun' = (overrun \/ wf[b].at \in {"preparing", "listing", "embedding"})
        BY <2>4, <3>2, <4>1 DEF AtWork
      <4> QED
        BY <2>2, <3>1, <3>2, <3>5, <4>1, <4>2 DEF Covers, Holds, HasRow
    <3> QED
      BY <3>3, <3>4, <3>5
  <2> QED
    BY <1>1, <2>6, <2>7, <2>8 DEF IndexInv, BuildersCover, BuildersHold
<1> QED
  BY <1>2, <1>3, <1>4 DEF MarksStale

\* Where only the workflow moves, rows are as they were.
LEMMA AsideKeeps ==
    ASSUME IInv, NEW c \in Cmds, Moved(c), Aside(c)
    PROVE  IndexInv'
<1>1. RowTypes /\ CompleteIndexCovers /\ OneBuilds /\ Cmds' = Cmds /\ Rows' = Rows
  BY Typed DEF IInv, Moved, Cmds, Rows, Keys
<1>2. RowTypes' /\ CompleteIndexCovers' /\ OneBuilds'
  BY <1>1 DEF RowTypes, CompleteIndexCovers, OneBuilds, GateOpen, Aside
<1>3. ASSUME NEW b \in Cmds PROVE Covers(b)' /\ Holds(b)'
  <2>1. Covers(b) /\ Holds(b) /\ OwnRows(b)' = OwnRows(b) /\ Row(b)' = Row(b)
    BY Known DEF OwnRows, Row, RowOf, Aside
  <2>2. CASE wf'[b] = wf[b]
    BY <2>1, <2>2 DEF Covers, Holds, HasRow, Aside, Moved, Only
  <2>3. CASE wf'[b] # wf[b]
    <3>1. b = c
      BY <2>3 DEF Moved, Alone
    <3>2. wf'[b].at \notin {"configuring", "listing", "embedding", "old_listing", "old_embedding"}
      BY <2>3, <3>1 DEF Aside
    <3>3. wf'[b].at = "preparing" => wf[b].at \in {"configuring", "preparing", "listing"}
      BY <3>1 DEF Aside
    <3>4. command'[b] = "absent" => command[b] = "absent"
      BY <3>1 DEF Moved
    <3> QED
      BY <2>1, <3>2, <3>3, <3>4 DEF Covers, Holds, HasRow, Aside
  <2> QED
    BY <2>2, <2>3
<1> QED
  BY <1>1, <1>2, <1>3 DEF IndexInv, BuildersCover, BuildersHold

-----------------------------------------------------------------------------
(* Steps of a builder.                                                     *)

\* A builder has moved and left the runs alone.
Builds(c) == Moved(c) /\ Grows /\ store' \subseteq Docs /\ Silent(c) /\ FaultsFit

LEMMA PrepareMoves ==
    ASSUME IInv, NEW c \in Cmds, Prepare(c)
    PROVE  Builds(c) /\ (Appends(c) \/ \E row : Rewrites(c, row))
<1>1. /\ wf[c].at = "preparing" /\ command[c] \in Active /\ Fits(wf[c]) /\ Holds(c) /\ overrun \in BOOLEAN
      /\ store \subseteq Docs /\ TypeOK
  BY Known DEF Prepare, At, Says, IInv, TypeOK
<1>2. Alone(c) /\ wf'[c].at = "listing" /\ Like(wf'[c], wf[c])
  BY Known, StepsIs DEF Prepare, Places
<1>3. Only(c) /\ command'[c] = "running"
  BY Known, CommandIs DEF Prepare, CommandStatuses
<1>4. plan' = plan /\ UNCHANGED <<store, runs, forgotten, overrun, faults>>
  BY DEF Prepare, discovered
<1>5. FaultsFit
  BY <1>4, FaultsAre
<1>6. Fits(wf'[c]) /\ Says(Kind(c), wf'[c], command'[c])
  BY <1>1, <1>2, <1>3 DEF Fits, Like, Says, OldPlaces, Spent, Active
<1>7. Builds(c)
  BY <1>1, <1>2, <1>3, <1>4, <1>5, <1>6 DEF Builds, Grows, Moved, Silent, Like, Active, Ended
<1>8. CASE OwnRows(c) # {} /\ Projects(c, "building")
  <2> DEFINE row == [rows[RowOf(c)] EXCEPT !.status = "building"]
  <2>1. rows[RowOf(c)] \in Rows /\ rows[RowOf(c)].by = c
    BY <1>1, <1>8, RowOfIs
  <2>2. row \in Rows /\ row.by = c /\ row.status = "building"
    BY <2>1 DEF Rows, RowStatuses
  <2>3. Writes(RowOf(c), row)
    BY <1>8 DEF Projects
  <2>4. ~overrun' => Row(c).status = "building"
    BY <1>1, <1>4, <1>8 DEF Holds
  <2> HIDE DEF row
  <2>5. Rewrites(c, row)
    BY <1>2, <1>3, <1>8, <2>2, <2>3, <2>4 DEF Rewrites
  <2> QED
    BY <1>7, <2>5
<1>9. CASE Appends(c)
  BY <1>7, <1>9
<1> QED
  BY <1>2, <1>3, <1>8, <1>9 DEF Prepare, Appends

LEMMA ListDocumentsMoves ==
    ASSUME IInv, NEW c \in Cmds, ListDocuments(c)
    PROVE  Builds(c) /\ \E row : Rewrites(c, row)
<1>1. /\ wf[c].at = "listing" /\ command[c] \in Active /\ Fits(wf[c]) /\ Holds(c) /\ Covers(c) /\ overrun \in BOOLEAN
      /\ store \subseteq Docs /\ TypeOK /\ wf[c] \in Workflows
  BY Known DEF ListDocuments, At, Says, IInv, TypeOK
<1>2. PICK listed \in {{}, Listing(c)} :
        /\ Writes(RowOf(c), [rows[RowOf(c)] EXCEPT !.listed = listed])
        /\ Becomes(c, [wf[c] EXCEPT !.at = "embedding", !.todo = listed, !.failed = {}, !.tries = 0])
  BY DEF ListDocuments
<1>3. listed \subseteq Docs
  BY PlansAre DEF IInv
<1> DEFINE row == [rows[RowOf(c)] EXCEPT !.listed = listed]
<1> DEFINE k == [wf[c] EXCEPT !.at = "embedding", !.todo = listed, !.failed = {}, !.tries = 0]
<1>4. OwnRows(c) # {} /\ Row(c).status # "complete"
  BY <1>1 DEF Covers, HasRow
<1>5. rows[RowOf(c)] \in Rows /\ rows[RowOf(c)].by = c
  BY <1>1, <1>4, RowOfIs
<1>6. row \in Rows /\ row.by = c /\ row.status = Row(c).status /\ row.listed = listed
  BY <1>3, <1>5 DEF Rows, Row
<1>7. k \in Workflows
  <2>1. 0 \in 0..MaxTries /\ listed \in SUBSET Docs /\ {} \in SUBSET Docs
    BY <1>3, BoundsAssumption
  <2> QED
    BY <1>1, <2>1 DEF Workflows, Places
<1>8. /\ k.at = "embedding" /\ k.todo = listed /\ k.failed = {} /\ k.tries = 0 /\ k.found = wf[c].found
      /\ k.seen = wf[c].seen
  BY <1>1 DEF Workflows
<1>9. Becomes(c, k) /\ Writes(RowOf(c), row)
  BY <1>2
<1> HIDE DEF row, k
<1>10. Alone(c) /\ wf'[c] = k
  BY <1>7, <1>9, Known, BecomesIs
<1>11. plan' = plan /\ UNCHANGED <<store, runs, forgotten, overrun, faults, command>>
  BY DEF ListDocuments, discovered
<1>12. FaultsFit /\ Only(c)
  BY <1>11, FaultsAre, Known, NothingMoves
<1>13. Fits(wf'[c]) /\ Says(Kind(c), wf'[c], command'[c])
  BY <1>1, <1>8, <1>10, <1>11, BoundsAssumption DEF Fits, Says, OldPlaces, Spent
<1>14. Builds(c)
  BY <1>1, <1>8, <1>10, <1>11, <1>12, <1>13 DEF Builds, Grows, Moved, Silent
<1>15. ~overrun' => Row(c).status = "building"
  BY <1>1, <1>11 DEF Holds
<1>16. Rewrites(c, row)
  BY <1>1, <1>4, <1>6, <1>8, <1>9, <1>10, <1>11, <1>15 DEF Rewrites, Active
<1> QED
  BY <1>14, <1>16

LEMMA EmbedDocumentMoves ==
    ASSUME IInv, NEW c \in Cmds, EmbedDocument(c) \/ EmbedOld(c)
    PROVE  Builds(c) /\ \E row : Rewrites(c, row)
<1>1. /\ wf[c].at \in {"embedding", "old_embedding"} /\ wf[c].todo # {}
      /\ Fits(wf[c]) /\ Says(Kind(c), wf[c], command[c]) /\ Holds(c) /\ Covers(c) /\ overrun \in BOOLEAN
      /\ store \subseteq Docs /\ TypeOK /\ wf[c] \in Workflows
  BY Known DEF EmbedDocument, EmbedOld, At, IInv, TypeOK
<1>2. command[c] \in Active
  BY <1>1 DEF Says, OldPlaces
<1>3. /\ OwnRows(c) # {} /\ Row(c).listed \subseteq store \union wf[c].todo \union wf[c].failed
      /\ Row(c).status = "complete" => Row(c).listed \subseteq store
      /\ Row(c) \in Rows /\ Row(c).by = c
  <2>1. OwnRows(c) # {} /\ Row(c).listed \subseteq store \union wf[c].todo \union wf[c].failed
    BY <1>1 DEF Covers, HasRow
  <2>2. RowOf(c) \in DOMAIN rows /\ Row(c) \in Rows /\ Row(c).by = c
    BY <1>1, <2>1, RowOfIs, Typed DEF Row
  <2> QED
    BY <2>1, <2>2 DEF IInv, CompleteIndexCovers, Row
<1>4. Upcoming(c) \in Docs
  BY <1>1, UpcomingIs
<1> DEFINE u == Upcoming(c)
<1> DEFINE m == [Row(c) EXCEPT !.listed = Row(c).listed \ {u}]
<1> DEFINE k == [Past(c) EXCEPT !.failed = wf[c].failed \union {u}]
<1>5. /\ Past(c) \in Workflows /\ Past(c).at = wf[c].at /\ Past(c).todo = wf[c].todo \ {u} /\ Past(c).tries = wf[c].tries
      /\ Past(c).failed = wf[c].failed /\ Past(c).found = wf[c].found /\ Past(c).seen = wf[c].seen
  BY PastIs
<1>6. wf[c].failed \subseteq Docs
  BY <1>1 DEF Workflows
<1>7. k \in Workflows
  BY <1>4, <1>5, <1>6 DEF Workflows
<1>8. /\ k.at = wf[c].at /\ k.todo = wf[c].todo \ {u} /\ k.failed = wf[c].failed \union {u} /\ k.tries = wf[c].tries
      /\ k.found = wf[c].found /\ k.seen = wf[c].seen
  BY <1>5 DEF Workflows
<1>9. m \in Rows /\ m.by = c /\ m.status = Row(c).status /\ m.listed = Row(c).listed \ {u}
  BY <1>3 DEF Rows
<1>10. \/ Writes(RowOf(c), Row(c)) /\ Becomes(c, Past(c)) /\ store' = store \union {u}
       \/ Writes(RowOf(c), Row(c)) /\ Becomes(c, k) /\ store' = store
       \/ Writes(RowOf(c), m) /\ Becomes(c, Past(c)) /\ store' = store
  BY DEF EmbedDocument, EmbedOld, Embedded, NotEmbedded, Progress, Row
<1> HIDE DEF m, k, u
<1>11. PICK row \in {Row(c), m}, l \in {Past(c), k} :
         /\ Writes(RowOf(c), row) /\ Becomes(c, l)
         /\ row.listed \subseteq store' \union l.todo \union l.failed
         /\ row.status = "complete" => row.listed \subseteq store'
         /\ store' = store \/ store' = store \union {u}
  BY <1>3, <1>5, <1>8, <1>9, <1>10
<1>12. l \in Workflows /\ l.at = wf[c].at /\ l.tries = wf[c].tries /\ l.found = wf[c].found /\ l.seen = wf[c].seen
  BY <1>5, <1>7, <1>8
<1>13. row \in Rows /\ row.by = c /\ row.status = Row(c).status
  BY <1>3, <1>9
<1>14. Alone(c) /\ wf'[c] = l
  BY <1>11, <1>12, Known, BecomesIs
<1>15. plan' = plan /\ UNCHANGED <<runs, forgotten, overrun, faults, command>>
  BY DEF EmbedDocument, EmbedOld, discovered
<1>16. FaultsFit /\ Only(c)
  BY <1>15, FaultsAre, Known, NothingMoves
<1>17. Fits(wf'[c]) /\ Says(Kind(c), wf'[c], command'[c])
  BY <1>1, <1>2, <1>12, <1>14, <1>15 DEF Fits, Says, OldPlaces, Spent
<1>18. Builds(c)
  BY <1>1, <1>4, <1>11, <1>12, <1>14, <1>15, <1>16, <1>17 DEF Builds, Grows, Moved, Silent, u
<1>19. /\ ~overrun' => Row(c).status = "building"
       /\ wf[c].at = "old_embedding" => Row(c).status = "building"
  BY <1>1, <1>15 DEF Holds
<1>20. Rewrites(c, row)
  BY <1>1, <1>2, <1>3, <1>11, <1>12, <1>13, <1>14, <1>15, <1>19 DEF Rewrites, Active
<1> QED
  BY <1>18, <1>20

\* The runs have changed, but each queued one was queued before, and what was handed over stays so.
Handed == {"released", "owned"}
Releases ==
    /\ runs' \in [Docs -> [Keys -> RunStatuses]]
    /\ \A d \in Docs, k \in Keys : /\ runs'[d][k] = "queued" => runs[d][k] = "queued"
                                   /\ runs[d][k] \in Handed => runs'[d][k] \in Handed

LEMMA RunsAre ==
    ASSUME IInv
    PROVE  /\ runs \in [Docs -> [Keys -> RunStatuses]] /\ forgotten \subseteq Docs \X Keys
           /\ \A d \in Docs, k \in Keys : runs[d][k] \in RunStatuses
BY DEF IInv, TypeOK

\* The end of a build: it is complete only if nothing failed.
LEMMA FinishEffectIs ==
    ASSUME IInv, NEW c \in Cmds, wf[c].at = "embedding", wf[c].todo = {}, FinishEffect(c)
    PROVE  /\ Only(c) /\ command'[c] = Result(Kind(c), wf[c]) /\ command'[c] # "absent"
           /\ command[c] \in Ended => command'[c] = command[c]
           /\ OwnRows(c) # {}
           /\ \E row \in Rows : /\ Writes(RowOf(c), row) /\ row.by = c /\ row.status \in {"complete", "failed"}
                                /\ row.status = "complete" => row.listed \subseteq store
                                /\ row.listed \subseteq store \union wf[c].failed
           /\ Releases
<1> DEFINE complete == wf[c].failed = {}
<1> DEFINE s == IF ~complete THEN "failed_permanent" ELSE IF Kind(c) = "reindex" THEN "running" ELSE "succeeded"
<1> DEFINE status == IF complete THEN "complete" ELSE "failed"
<1> DEFINE row == [rows[RowOf(c)] EXCEPT !.status = status]
<1>1. /\ Says(Kind(c), wf[c], command[c]) /\ Covers(c) /\ TypeOK
  BY Known DEF IInv
<1>2. s = Result(Kind(c), wf[c]) /\ s \in {"failed_permanent", "running", "succeeded"}
  BY DEF Result
<1>3. command' = [command EXCEPT ![c] = s] /\ Projects(c, status)
  BY DEF FinishEffect
<1>4. s \in CommandStatuses
  BY <1>2 DEF CommandStatuses
<1>5. Only(c) /\ command'[c] = s
  <2> HIDE DEF s
  <2> QED
    BY <1>3, <1>4, Known, CommandIs
<1>6. command[c] \in Ended => command'[c] = command[c]
  BY <1>1, <1>2, <1>5 DEF Says, Active, Ended
<1>7. OwnRows(c) # {} /\ Row(c).listed \subseteq store \union wf[c].failed
  BY <1>1 DEF Covers, HasRow
<1>8. rows[RowOf(c)] \in Rows /\ rows[RowOf(c)].by = c
  BY <1>1, <1>7, RowOfIs
<1>9. status \in {"complete", "failed"} /\ status \in RowStatuses /\ (status = "complete" => wf[c].failed = {})
  BY DEF RowStatuses
<1>10. row \in Rows /\ row.by = c /\ row.status = status /\ row.listed = Row(c).listed
  <2> HIDE DEF status
  <2> QED
    BY <1>8, <1>9 DEF Rows, Row
<1>11. Writes(RowOf(c), row)
  BY <1>3 DEF Projects
<1>12. Releases
  <2>1. runs' = [d \in Docs |-> [k \in Keys |->
                   IF complete /\ runs[d][k] = "blocked" THEN "released" ELSE runs[d][k]]]
    BY DEF FinishEffect
  <2> HIDE DEF complete
  <2>2. ASSUME NEW d \in Docs, NEW k \in Keys
        PROVE  runs'[d][k] = "released" \/ runs'[d][k] = runs[d][k]
    BY <2>1
  <2>3. ASSUME NEW d \in Docs, NEW k \in Keys, runs'[d][k] # runs[d][k]
        PROVE  runs'[d][k] = "released" /\ runs[d][k] = "blocked"
    BY <2>1, <2>3
  <2>4. ASSUME NEW d \in Docs PROVE runs'[d] \in [Keys -> RunStatuses]
    <3>1. runs'[d] = [k \in Keys |-> IF complete /\ runs[d][k] = "blocked" THEN "released" ELSE runs[d][k]]
      BY <2>1
    <3>2. \A k \in Keys : runs'[d][k] \in RunStatuses
      BY <2>2, RunsAre DEF RunStatuses
    <3> QED
      BY <3>1, <3>2
  <2>5. runs' \in [Docs -> [Keys -> RunStatuses]]
    BY <2>1, <2>4
  <2> QED
    BY <2>2, <2>3, <2>5 DEF Releases, Handed
<1> HIDE DEF s, row, status, complete
<1> QED
  BY <1>2, <1>5, <1>6, <1>7, <1>9, <1>10, <1>11, <1>12

\* As Builds, but blocked runs may be released.
Releasing(c) == /\ Moved(c) /\ Grows /\ store' \subseteq Docs /\ FaultsFit
                /\ Releases /\ UNCHANGED forgotten /\ wf[c].found = {}

LEMMA FinishBuildMoves ==
    ASSUME IInv, NEW c \in Cmds, FinishBuild(c)
    PROVE  Releasing(c) /\ \E row : Rewrites(c, row)
<1>1. /\ wf[c].at = "embedding" /\ wf[c].todo = {} /\ FinishEffect(c) /\ wf[c].found = {} /\ Holds(c)
      /\ store \subseteq Docs /\ overrun \in BOOLEAN
  BY Known, AbsentFoundNothing DEF FinishBuild, At, IInv, TypeOK
<1>2. plan' = plan /\ UNCHANGED <<store, forgotten, overrun, faults>>
  BY DEF FinishBuild
<1>3. FaultsFit
  BY <1>2, FaultsAre
<1>4. PICK place \in {"loading", "done"} : Begins(c, place) /\ (place = "loading" => Kind(c) = "reindex" /\ wf[c].failed = {})
  <2>1. CASE Kind(c) = "reindex" /\ wf[c].failed = {}
    BY <2>1, Zenon DEF FinishBuild
  <2>2. CASE ~(Kind(c) = "reindex" /\ wf[c].failed = {})
    BY <2>2, Zenon DEF FinishBuild
  <2> QED
    BY <2>1, <2>2
<1>5. Alone(c) /\ wf'[c].at = place /\ wf'[c].tries = 0 /\ Fresh(wf'[c])
  BY <1>4, Known, BeginsIs DEF Places
<1>6. Fits(wf'[c]) /\ Says(Kind(c), wf'[c], command'[c])
  BY <1>1, <1>4, <1>5, FinishEffectIs, BoundsAssumption DEF Fits, Fresh, Says, OldPlaces, Spent, Result, Active
<1>7. Releasing(c)
  BY <1>1, <1>2, <1>3, <1>5, <1>6, FinishEffectIs DEF Releasing, Moved, Grows
<1>8. PICK row \in Rows : /\ Writes(RowOf(c), row) /\ row.by = c /\ row.status \in {"complete", "failed"}
                          /\ row.status = "complete" => row.listed \subseteq store
  BY <1>1, FinishEffectIs
<1>9. ~overrun' => Row(c).status = "building"
  BY <1>1, <1>2 DEF Holds
<1>10. OwnRows(c) # {} /\ command'[c] # "absent"
  BY <1>1, FinishEffectIs
<1>11. Rewrites(c, row)
  BY <1>2, <1>4, <1>5, <1>8, <1>9, <1>10 DEF Rewrites
<1> QED
  BY <1>7, <1>11

LEMMA CompletionLostMoves ==
    ASSUME IInv, NEW c \in Cmds, CompletionLost(c)
    PROVE  MovesAlone(c) \/ (Releasing(c) /\ \E row : Rewrites(c, row))
<1>1. plan' = plan /\ UNCHANGED <<store, forgotten>> /\ (UNCHANGED wf \/ Begins(c, Handler(c)))
  BY DEF CompletionLost
<1>2. FaultsFit
  BY FaultsAre DEF CompletionLost
<1>3. CASE Reporting(c) /\ ReportEffect(c) /\ UNCHANGED <<index, runs, overrun>>
  <2>1. CASE Begins(c, Handler(c))
    BY <1>1, <1>2, <1>3, <2>1, ReportIs, HandsOver DEF index
  <2>2. CASE UNCHANGED wf
    <3>1. Alone(c) /\ wf'[c] = wf[c] /\ Fits(wf[c])
      BY <2>2, Known, NothingMoves
    <3>2. /\ wf[c].at = "starting" /\ wf[c].verdict \in {"succeeded", "skipped"} /\ command'[c] = wf[c].verdict
          /\ Only(c) /\ (command[c] \in Ended => command'[c] = command[c])
      BY <1>3, ReportIs
    <3>3. Says(Kind(c), wf'[c], command'[c])
      BY <3>1, <3>2 DEF Says, OldPlaces
    <3>4. command'[c] # "absent"
      BY <3>2
    <3> QED
      BY <1>1, <1>2, <1>3, <3>1, <3>2, <3>3, <3>4 DEF MovesAlone, Moved, Aside, Silent, index
  <2> QED
    BY <1>1, <2>1, <2>2
<1>4. CASE At(c, "embedding") /\ wf[c].todo = {} /\ FinishEffect(c) /\ overrun' = TRUE
  <2>1. wf[c].at = "embedding" /\ wf[c].todo = {} /\ FinishEffect(c) /\ wf[c].found = {} /\ Fits(wf[c]) /\ store \subseteq Docs
    BY <1>4, Known, AbsentFoundNothing DEF At, IInv, TypeOK
  <2>2. /\ Only(c) /\ command'[c] = Result(Kind(c), wf[c]) /\ command'[c] # "absent"
        /\ command[c] \in Ended => command'[c] = command[c]
        /\ OwnRows(c) # {} /\ Releases
    BY <2>1, FinishEffectIs
  <2>3. PICK row \in Rows : /\ Writes(RowOf(c), row) /\ row.by = c /\ row.status \in {"complete", "failed"}
                            /\ row.status = "complete" => row.listed \subseteq store
                            /\ row.listed \subseteq store \union wf[c].failed
    BY <2>1, FinishEffectIs
  <2>4. CASE UNCHANGED wf
    <3>1. Alone(c) /\ wf'[c] = wf[c]
      BY <2>4, Known, NothingMoves
    <3>2. Says(Kind(c), wf'[c], command'[c])
      BY <2>1, <2>2, <3>1 DEF Says, OldPlaces
    <3>3. Releasing(c)
      BY <1>1, <1>2, <1>4, <2>1, <2>2, <3>1, <3>2 DEF Releasing, Moved, Grows
    <3>4. Rewrites(c, row)
      BY <1>1, <1>4, <2>1, <2>2, <2>3, <3>1 DEF Rewrites
    <3> QED
      BY <3>3, <3>4
  <2>5. CASE Begins(c, Handler(c))
    <3>1. Handler(c) = "failing"
      BY <2>1 DEF Handler, Reporting, At
    <3>2. Alone(c) /\ wf'[c].at = "failing" /\ wf'[c].tries = 0 /\ Fresh(wf'[c])
      BY <2>5, <3>1, Known, BeginsIs DEF Places
    <3>3. Fits(wf'[c]) /\ Says(Kind(c), wf'[c], command'[c])
      BY <3>2 DEF Fits, Fresh, Says, OldPlaces, Spent
    <3>4. Releasing(c)
      BY <1>1, <1>2, <1>4, <2>1, <2>2, <3>2, <3>3 DEF Releasing, Moved, Grows
    <3>5. Rewrites(c, row)
      BY <1>1, <1>4, <2>1, <2>2, <2>3, <3>2 DEF Rewrites
    <3> QED
      BY <3>4, <3>5
  <2> QED
    BY <1>1, <2>4, <2>5
<1> QED
  BY <1>3, <1>4 DEF CompletionLost

LEMMA FailPreparationMoves ==
    ASSUME IInv, NEW c \in Cmds, FailPreparation(c)
    PROVE  MovesAlone(c) \/ (Builds(c) /\ \E row : Rewrites(c, row))
<1> DEFINE s == IF command[c] \in Active THEN "failed_permanent" ELSE command[c]
<1>1. /\ wf[c].at = "failing" /\ wf[c].found = {} /\ command[c] \in CommandStatuses /\ TypeOK
      /\ store \subseteq Docs /\ overrun \in BOOLEAN /\ Holds(c)
  BY Known, AbsentFoundNothing DEF FailPreparation, At, IInv, TypeOK
<1>2. command' = [command EXCEPT ![c] = s] /\ s \in CommandStatuses
  BY <1>1 DEF FailPreparation, CommandStatuses
<1>3. Only(c) /\ command'[c] = s
  BY <1>2, Known, CommandIs
<1>4. (command[c] \in Ended => command'[c] = command[c]) /\ (command'[c] = "absent" => command[c] = "absent")
  BY <1>3 DEF Active, Ended
<1> HIDE DEF s
<1>5. plan' = plan /\ UNCHANGED <<store, runs, forgotten, overrun, faults>> /\ Begins(c, "done")
  BY DEF FailPreparation, discovered
<1>6. FaultsFit
  BY <1>5, FaultsAre
<1>7. CASE UNCHANGED index
  BY <1>1, <1>3, <1>4, <1>5, <1>6, <1>7, LeavesBehind DEF index
<1>8. CASE Projects(c, "failed") /\ \E i \in OwnRows(c) : rows[i].status = "building"
  <2> DEFINE row == [rows[RowOf(c)] EXCEPT !.status = "failed"]
  <2>1. OwnRows(c) # {}
    BY <1>8
  <2>2. rows[RowOf(c)] \in Rows /\ rows[RowOf(c)].by = c
    BY <1>1, <2>1, RowOfIs
  <2>3. row \in Rows /\ row.by = c /\ row.status = "failed"
    BY <2>2 DEF Rows, RowStatuses
  <2>4. Writes(RowOf(c), row)
    BY <1>8 DEF Projects
  <2> HIDE DEF row
  <2>5. Alone(c) /\ wf'[c].at = "done" /\ wf'[c].tries = 0 /\ Fresh(wf'[c])
    BY <1>5, Known, BeginsIs DEF Places
  <2>6. Fits(wf'[c]) /\ Says(Kind(c), wf'[c], command'[c])
    BY <2>5 DEF Fits, Fresh, Says, OldPlaces, Spent
  <2>7. Builds(c)
    BY <1>1, <1>3, <1>4, <1>5, <1>6, <2>5, <2>6 DEF Builds, Moved, Grows, Silent
  <2>8. command[c] # "absent"
    BY <1>1, <2>1 DEF Holds
  <2>9. Rewrites(c, row)
    BY <1>4, <2>1, <2>3, <2>4, <2>5, <2>8 DEF Rewrites
  <2> QED
    BY <2>7, <2>9
<1> QED
  BY <1>7, <1>8 DEF FailPreparation

LEMMA StartOldMoves ==
    ASSUME IInv, NEW c \in Cmds, StartOld(c)
    PROVE  MovesAlone(c) \/ (Builds(c) /\ Appends(c))
<1>1. /\ wf[c].at = "launched" /\ command[c] \in Active /\ wf[c].found = {} /\ Fits(wf[c]) /\ Kind(c) = "old_build"
      /\ store \subseteq Docs /\ overrun \in BOOLEAN
  BY Known, AbsentFoundNothing DEF StartOld, At, Says, OldPlaces, IInv, TypeOK
<1>2. plan' = plan /\ UNCHANGED <<store, runs, forgotten, overrun, faults>>
  BY DEF StartOld, discovered
<1>3. FaultsFit
  BY <1>2, FaultsAre
<1>4. CASE \E i \in DOMAIN rows : rows[i].status = "building"
  <2>1. command' = [command EXCEPT ![c] = "blocked"] /\ Begins(c, "done") /\ UNCHANGED index
    BY <1>4 DEF StartOld
  <2>2. Only(c) /\ command'[c] = "blocked"
    BY <2>1, Known, CommandIs DEF CommandStatuses
  <2>3. command[c] \notin Ended
    BY <1>1 DEF Active, Ended
  <2> QED
    BY <1>1, <1>2, <1>3, <2>1, <2>2, <2>3, LeavesBehind DEF index
<1>5. CASE ~\E i \in DOMAIN rows : rows[i].status = "building"
  <2>1. /\ Writes(Len(rows) + 1, [by |-> c, status |-> "building", listed |-> {}])
        /\ Steps(c, "old_listing") /\ UNCHANGED command
    BY <1>5 DEF StartOld
  <2>2. Alone(c) /\ wf'[c].at = "old_listing" /\ Like(wf'[c], wf[c])
    BY <2>1, Known, StepsIs DEF Places
  <2>3. Only(c) /\ command'[c] = command[c]
    BY <2>1, Known, NothingMoves
  <2>4. Fits(wf'[c]) /\ Says(Kind(c), wf'[c], command'[c])
    BY <1>1, <2>2, <2>3 DEF Fits, Like, Says, OldPlaces, Spent
  <2>5. Builds(c)
    BY <1>1, <1>2, <1>3, <2>2, <2>3, <2>4 DEF Builds, Moved, Grows, Silent, Like
  <2>6. Appends(c)
    BY <1>1, <1>5, <2>1, <2>2, <2>3 DEF Appends, Active
  <2> QED
    BY <2>5, <2>6
<1> QED
  BY <1>4, <1>5

LEMMA ListOldMoves ==
    ASSUME IInv, NEW c \in Cmds, ListOld(c)
    PROVE  Builds(c) /\ \E row : Rewrites(c, row)
<1> DEFINE row == [rows[RowOf(c)] EXCEPT !.listed = Listing(c)]
<1> DEFINE k == [wf[c] EXCEPT !.at = "old_embedding", !.todo = Listing(c)]
<1>1. /\ wf[c].at = "old_listing" /\ command[c] \in Active /\ Fits(wf[c]) /\ Holds(c) /\ Covers(c)
      /\ overrun \in BOOLEAN /\ store \subseteq Docs /\ TypeOK /\ wf[c] \in Workflows /\ Kind(c) = "old_build"
  BY Known DEF ListOld, At, Says, OldPlaces, IInv, TypeOK
<1>2. Listing(c) \subseteq Docs
  BY PlansAre DEF IInv
<1>3. OwnRows(c) # {} /\ Row(c).status = "building"
  BY <1>1 DEF Covers, Holds, HasRow
<1>4. rows[RowOf(c)] \in Rows /\ rows[RowOf(c)].by = c
  BY <1>1, <1>3, RowOfIs
<1>5. row \in Rows /\ row.by = c /\ row.status = Row(c).status /\ row.listed = Listing(c)
  BY <1>2, <1>4 DEF Rows, Row
<1>6. k \in Workflows
  BY <1>1, <1>2 DEF Workflows, Places
<1>7. /\ k.at = "old_embedding" /\ k.todo = Listing(c) /\ k.tries = wf[c].tries /\ k.found = wf[c].found
      /\ k.seen = wf[c].seen
  BY <1>1 DEF Workflows
<1>8. Becomes(c, k) /\ Writes(RowOf(c), row)
  BY DEF ListOld
<1> HIDE DEF row, k
<1>9. Alone(c) /\ wf'[c] = k
  BY <1>6, <1>8, Known, BecomesIs
<1>10. plan' = plan /\ UNCHANGED <<store, runs, forgotten, overrun, faults, command>>
  BY DEF ListOld, discovered
<1>11. FaultsFit /\ Only(c)
  BY <1>10, FaultsAre, Known, NothingMoves
<1>12. Fits(wf'[c]) /\ Says(Kind(c), wf'[c], command'[c])
  BY <1>1, <1>7, <1>9, <1>10 DEF Fits, Says, OldPlaces, Spent
<1>13. Builds(c)
  BY <1>1, <1>7, <1>9, <1>10, <1>11, <1>12 DEF Builds, Grows, Moved, Silent
<1>14. Rewrites(c, row)
  BY <1>1, <1>3, <1>5, <1>7, <1>8, <1>9, <1>10 DEF Rewrites, Active
<1> QED
  BY <1>13, <1>14

\* The old builder leaves its row complete or failed.
LEMMA OldBuilderEnds ==
    ASSUME IInv, NEW c \in Cmds, wf[c].at \in {"old_listing", "old_embedding"},
           NEW status \in {"complete", "failed"}, Projects(c, status),
           status = "complete" => wf[c].at = "old_embedding" /\ wf[c].todo = {} /\ wf[c].failed = {},
           wf'[c].at \in {"idle", "done"}, command'[c] # "absent", UNCHANGED <<store, overrun>>
    PROVE  \E row : Rewrites(c, row)
<1> DEFINE row == [rows[RowOf(c)] EXCEPT !.status = status]
<1>1. Holds(c) /\ Covers(c) /\ TypeOK
  BY Known DEF IInv
<1>2. /\ OwnRows(c) # {} /\ Row(c).status = "building"
      /\ status = "complete" => Row(c).listed \subseteq store
  BY <1>1 DEF Covers, Holds, HasRow
<1>3. rows[RowOf(c)] \in Rows /\ rows[RowOf(c)].by = c
  BY <1>1, <1>2, RowOfIs
<1>4. row \in Rows /\ row.by = c /\ row.status = status /\ row.listed = Row(c).listed
  BY <1>3 DEF Rows, Row, RowStatuses
<1>5. Writes(RowOf(c), row)
  BY DEF Projects
<1> HIDE DEF row
<1>6. Rewrites(c, row)
  BY <1>2, <1>4, <1>5 DEF Rewrites
<1> QED
  BY <1>6

LEMMA FinishOldMoves ==
    ASSUME IInv, NEW c \in Cmds, FinishOld(c)
    PROVE  Builds(c) /\ \E row : Rewrites(c, row)
<1>1. /\ wf[c].at = "old_embedding" /\ wf[c].todo = {} /\ command[c] \in Active /\ wf[c].found = {}
      /\ overrun \in BOOLEAN /\ store \subseteq Docs
  BY Known, AbsentFoundNothing DEF FinishOld, At, Says, OldPlaces, IInv, TypeOK
<1>2. PICK s \in {"succeeded", "failed_permanent"}, status \in {"complete", "failed"} :
        /\ command' = [command EXCEPT ![c] = s] /\ Projects(c, status)
        /\ status = "complete" => wf[c].failed = {}
  <2>1. CASE wf[c].failed = {}
    BY <2>1, Zenon DEF FinishOld
  <2>2. CASE wf[c].failed # {}
    BY <2>2, Zenon DEF FinishOld
  <2> QED
    BY <2>1, <2>2
<1>3. Only(c) /\ command'[c] = s
  BY <1>2, Known, CommandIs DEF CommandStatuses
<1>4. Alone(c) /\ wf'[c].at = "done" /\ wf'[c].tries = 0 /\ Fresh(wf'[c])
  BY Known, BeginsIs DEF FinishOld, Places
<1>5. plan' = plan /\ UNCHANGED <<store, runs, forgotten, overrun, faults>>
  BY DEF FinishOld, discovered
<1>6. FaultsFit
  BY <1>5, FaultsAre
<1>7. Fits(wf'[c]) /\ Says(Kind(c), wf'[c], command'[c])
  BY <1>4 DEF Fits, Fresh, Says, OldPlaces, Spent
<1>8. Builds(c)
  BY <1>1, <1>2, <1>3, <1>4, <1>5, <1>6, <1>7 DEF Builds, Grows, Moved, Silent, Active, Ended
<1>9. \E row : Rewrites(c, row)
  BY <1>1, <1>2, <1>3, <1>4, <1>5, OldBuilderEnds
<1> QED
  BY <1>8, <1>9

LEMMA FailOldMoves ==
    ASSUME IInv, NEW c \in Cmds, FailOld(c)
    PROVE  Builds(c) /\ \E row : Rewrites(c, row)
<1>1. /\ wf[c].at \in {"old_listing", "old_embedding"} /\ command[c] \in Active /\ wf[c].found = {}
      /\ Kind(c) = "old_build" /\ overrun \in BOOLEAN /\ store \subseteq Docs
  BY Known, AbsentFoundNothing DEF FailOld, Says, OldPlaces, IInv, TypeOK
<1>2. PICK tries \in 0..MaxTries, s \in {"queued", "failed_permanent"}, place \in {"idle", "done"} :
        /\ place = "idle" => tries < MaxTries
        /\ command' = [command EXCEPT ![c] = s]
        /\ place = "idle" => s = "queued"
        /\ Becomes(c, [Idle EXCEPT !.tries = tries, !.at = place])
  <2>1. wf[c].tries + 1 \in 0..MaxTries
    BY <1>1, OneMoreTry DEF Spent
  <2>2. CASE wf[c].tries + 1 < MaxTries
    BY <2>1, <2>2, Zenon DEF FailOld
  <2>3. CASE ~(wf[c].tries + 1 < MaxTries)
    BY <2>1, <2>3, Zenon DEF FailOld
  <2> QED
    BY <2>2, <2>3, Zenon
<1> DEFINE k == [Idle EXCEPT !.tries = tries, !.at = place]
<1>3. k \in Workflows /\ k.at = place /\ k.tries = tries /\ Fresh(k)
  BY DEF Workflows, Fresh, Idle, Places
<1>4. Becomes(c, k)
  BY <1>2
<1> HIDE DEF k
<1>5. Alone(c) /\ wf'[c] = k
  BY <1>3, <1>4, Known, BecomesIs
<1>6. Only(c) /\ command'[c] = s
  BY <1>2, Known, CommandIs DEF CommandStatuses
<1>7. plan' = plan /\ UNCHANGED <<store, runs, forgotten, overrun, faults>> /\ Projects(c, "failed")
  BY DEF FailOld, discovered
<1>8. FaultsFit
  BY <1>7, FaultsAre
<1>9. Fits(wf'[c]) /\ Says(Kind(c), wf'[c], command'[c])
  BY <1>1, <1>2, <1>3, <1>5, <1>6 DEF Fits, Fresh, Says, OldPlaces, Spent
<1>10. Builds(c)
  BY <1>1, <1>5, <1>6, <1>7, <1>8, <1>9 DEF Builds, Grows, Moved, Silent, Active, Ended
<1>11. \E row : Rewrites(c, row)
  <2>1. wf'[c].at \in {"idle", "done"} /\ command'[c] # "absent"
    BY <1>3, <1>5, <1>6
  <2> QED
    BY <1>1, <1>7, <2>1, OldBuilderEnds
<1> QED
  BY <1>10, <1>11

LEMMA RequestMoves ==
    ASSUME IInv, NEW c \in Cmds, RequestBuild(c) \/ RequestReindex(c)
    PROVE  Moved(c) /\ Silent(c) /\ FaultsFit /\ UNCHANGED store /\ IndexInv' /\ overrun' \in BOOLEAN
<1>1. Alone(c) /\ wf'[c].at = "configuring" /\ wf'[c].tries = 0 /\ Fresh(wf'[c])
  BY Known, BeginsIs DEF RequestBuild, RequestReindex, Places
<1>2. Only(c) /\ command'[c] = "queued" /\ command[c] = "absent"
  BY Known, CommandIs DEF RequestBuild, RequestReindex, CommandStatuses
<1>3. plan' = plan /\ UNCHANGED <<store, runs, forgotten, faults>> /\ MarkRowStale
  BY DEF RequestBuild, RequestReindex, discovered
<1>4. wf[c].found = {} /\ FaultsFit
  BY <1>2, <1>3, AbsentFoundNothing, FaultsAre
<1>5. Fits(wf'[c]) /\ Says(Kind(c), wf'[c], command'[c])
  BY <1>1, <1>2, BoundsAssumption DEF Fits, Fresh, Says, Active, OldPlaces, Spent
<1>6. Moved(c) /\ Silent(c)
  BY <1>1, <1>2, <1>3, <1>4, <1>5 DEF Moved, Silent, Ended
<1>7. MarksStale /\ ~LeaseTaken
  BY <1>3, MarkRowStaleIs
<1>8. \A b \in Cmds : /\ wf'[b] = wf[b] \/ (wf'[b].at = "configuring" /\ command[b] = "absent")
                      /\ command'[b] = "absent" => command[b] = "absent"
  BY <1>1, <1>2 DEF Alone, Only
<1>9. IndexInv'
  BY <1>3, <1>7, <1>8, MarksStaleKeeps
<1>10. overrun' \in BOOLEAN
  BY <1>7 DEF MarksStale, IInv, TypeOK, AtWork
<1> QED
  BY <1>3, <1>4, <1>6, <1>9, <1>10

-----------------------------------------------------------------------------
(* Runs and their starters.                                                *)

Passed(d) == \E f \in Keys \ {0} : runs[d][f] \in Handed

\* What c does to the runs: a queued one has c for its starter, was forgotten, is
\* overtaken, or waits for somebody else as before.
Starts(c) ==
    /\ runs' \in [Docs -> [Keys -> RunStatuses]] /\ forgotten' \subseteq Docs \X Keys
    /\ \A d \in Docs, k \in Keys :
         /\ runs[d][k] \in Handed => runs'[d][k] \in Handed
         /\ runs'[d][k] = "queued" =>
              \/ Key(c) = k /\ d \in wf'[c].found
              \/ <<d, k>> \in forgotten'
              \/ k = 0 /\ Passed(d)
              \/ runs[d][k] = "queued" /\ <<d, k>> \notin forgotten /\ ~(Key(c) = k /\ d \in wf[c].found)

LEMMA StartsKeeps ==
    ASSUME IInv, NEW c \in Cmds, Moved(c), Starts(c)
    PROVE  QueuedIsHeld'
<1>1. Keys' = Keys /\ Cmds' = Cmds /\ \A b \in Cmds : Key(b)' = Key(b)
  BY DEF Moved, Keys, Cmds, Key, Kind
<1>2. SUFFICES ASSUME NEW d \in Docs, NEW k \in Keys, runs'[d][k] = "queued"
               PROVE  \/ \E b \in Cmds : Key(b) = k /\ d \in wf'[b].found
                      \/ <<d, k>> \in forgotten'
                      \/ k = 0 /\ \E f \in Keys \ {0} : runs'[d][f] \in {"released", "owned"}
  BY <1>1 DEF QueuedIsHeld
<1>3. Passed(d) => \E f \in Keys \ {0} : runs'[d][f] \in {"released", "owned"}
  BY DEF Passed, Starts, Handed
<1>4. CASE runs[d][k] = "queued" /\ <<d, k>> \notin forgotten /\ ~(Key(c) = k /\ d \in wf[c].found)
  <2>1. \/ \E b \in Cmds : Key(b) = k /\ d \in wf[b].found
        \/ k = 0 /\ Passed(d)
    BY <1>4 DEF IInv, QueuedIsHeld, Passed, Handed
  <2>2. ASSUME NEW b \in Cmds, Key(b) = k, d \in wf[b].found
        PROVE  d \in wf'[b].found
    BY <1>4, <2>2 DEF Moved, Alone
  <2> QED
    BY <1>3, <2>1, <2>2
<1> QED
  BY <1>2, <1>3, <1>4 DEF Starts

LEMMA SilentStarts ==
    ASSUME IInv, NEW c \in Cmds, Silent(c) \/ (Releases /\ UNCHANGED forgotten /\ wf[c].found = {})
    PROVE  Starts(c)
<1>1. /\ runs \in [Docs -> [Keys -> RunStatuses]] /\ forgotten \subseteq Docs \X Keys
  BY RunsAre
<1>2. CASE Silent(c)
  BY <1>1, <1>2 DEF Silent, Starts
<1>3. CASE Releases /\ UNCHANGED forgotten /\ wf[c].found = {}
  BY <1>1, <1>3 DEF Releases, Starts
<1> QED
  BY <1>2, <1>3

LEMMA DiscoveryFailsMoves ==
    ASSUME IInv, NEW c \in Cmds, DiscoveryFails(c)
    PROVE  Moved(c) /\ Aside(c) /\ Starts(c) /\ FaultsFit
<1>1. /\ wf[c].at \in {"loading", "discovering"} /\ command[c] \in Active /\ Fits(wf[c]) /\ wf[c] \in Workflows
  BY Known DEF DiscoveryFails, Says
<1>2. PICK tries \in 0..MaxTries, place \in {"loading", "failing_discovery"} :
        /\ place = "loading" => tries < MaxTries
        /\ Becomes(c, [Idle EXCEPT !.tries = tries, !.at = place])
  <2>1. wf[c].tries + 1 \in 0..MaxTries
    BY <1>1, OneMoreTry DEF Spent
  <2>2. CASE wf[c].tries + 1 < MaxTries
    BY <2>1, <2>2, Zenon DEF DiscoveryFails
  <2>3. CASE ~(wf[c].tries + 1 < MaxTries)
    BY <2>1, <2>3, Zenon DEF DiscoveryFails
  <2> QED
    BY <2>2, <2>3, Zenon
<1> DEFINE k == [Idle EXCEPT !.tries = tries, !.at = place]
<1>3. k \in Workflows /\ k.at = place /\ k.tries = tries /\ Fresh(k)
  BY DEF Workflows, Fresh, Idle, Places
<1>4. Becomes(c, k)
  BY <1>2
<1> HIDE DEF k
<1>5. Alone(c) /\ wf'[c] = k
  BY <1>3, <1>4, Known, BecomesIs
<1>6. plan' = plan /\ UNCHANGED <<rows, touched, store, runs, overrun, faults, command>>
  BY DEF DiscoveryFails, index
<1>7. FaultsFit /\ Only(c)
  BY <1>6, FaultsAre, Known, NothingMoves
<1>8. Fits(wf'[c]) /\ Says(Kind(c), wf'[c], command'[c])
  BY <1>1, <1>2, <1>3, <1>5, <1>6 DEF Fits, Fresh, Says, OldPlaces, Spent
<1>9. Moved(c) /\ Aside(c)
  BY <1>1, <1>3, <1>5, <1>6, <1>7, <1>8 DEF Moved, Aside
<1>10. Starts(c)
  <2>1. forgotten' = forgotten \union (wf[c].found \X {Key(c)})
    BY DEF DiscoveryFails
  <2>2. wf[c].found \subseteq Docs /\ Key(c) \in Keys
    BY <1>1, PlansAre DEF Workflows, IInv
  <2>3. forgotten' \subseteq Docs \X Keys
    BY <2>1, <2>2, RunsAre
  <2>4. \A d \in wf[c].found : <<d, Key(c)>> \in forgotten'
    BY <2>1
  <2> QED
    BY <1>6, <2>1, <2>3, <2>4, RunsAre DEF Starts
<1> QED
  BY <1>7, <1>9, <1>10

\* A workflow has done with a start: the run is owned, or the start was dropped
\* because a handed run of the document is there.
LEMMA StartIsDone ==
    ASSUME IInv, NEW c \in Cmds, wf[c].at \in {"starting", "signalling"}, wf[c].found # {}, Onwards(c),
           Owns(c) \/ (UNCHANGED runs /\ Key(c) = 0 /\ \E f \in Keys : runs[Child(c)][f] \in Handed),
           UNCHANGED <<plan, command, index, store, forgotten, overrun, faults>>
    PROVE  Moved(c) /\ Aside(c) /\ Starts(c) /\ FaultsFit
<1> DEFINE d == Child(c)
<1>1. /\ wf[c].at \in {"starting", "signalling"} /\ wf[c].found # {} /\ Fits(wf[c])
      /\ Says(Kind(c), wf[c], command[c]) /\ wf[c] \in Workflows
  BY Known
<1>2. d \in wf[c].found /\ d \in Docs /\ Key(c) \in Keys
  <2>1. wf[c].found \in SUBSET (1..NumDocs) /\ NumDocs \in Nat
    BY <1>1, BoundsAssumption DEF Workflows, Docs
  <2>2. d \in wf[c].found
    BY <1>1, <2>1, LeastOf DEF Child
  <2> QED
    BY <2>1, <2>2, PlansAre DEF Docs, IInv
<1>3. /\ Becomes(c, [wf[c] EXCEPT !.at = "starting", !.found = wf[c].found \ {d}])
      /\ \/ runs' = [runs EXCEPT ![d][Key(c)] = "owned"]
         \/ UNCHANGED runs /\ Key(c) = 0 /\ \E f \in Keys : runs[d][f] \in Handed
  BY Zenon DEF Onwards, Owns
<1> HIDE DEF d
<1> DEFINE k == [wf[c] EXCEPT !.at = "starting", !.found = wf[c].found \ {d}]
<1>4. k \in Workflows
  BY <1>1 DEF Workflows, Places
<1>5. /\ k.at = "starting" /\ k.found = wf[c].found \ {d} /\ k.tries = wf[c].tries /\ k.seen = wf[c].seen
      /\ k.verdict = wf[c].verdict /\ k.todo = wf[c].todo
  BY <1>1 DEF Workflows
<1>6. Becomes(c, k)
  BY <1>3
<1> HIDE DEF k
<1>7. Alone(c) /\ wf'[c] = k
  BY <1>4, <1>6, Known, BecomesIs
<1>8. plan' = plan /\ UNCHANGED <<rows, touched, store, forgotten, overrun, faults, command>>
  BY DEF index
<1>9. FaultsFit /\ Only(c)
  BY <1>8, FaultsAre, Known, NothingMoves
<1>10. Fits(wf'[c]) /\ Says(Kind(c), wf'[c], command'[c])
  BY <1>1, <1>5, <1>7, <1>8 DEF Fits, Says, OldPlaces, Spent
<1>11. Moved(c) /\ Aside(c)
  BY <1>1, <1>5, <1>7, <1>8, <1>9, <1>10 DEF Moved, Aside
<1>12. PICK s \in {"owned", runs[d][Key(c)]} :
         /\ runs' = [runs EXCEPT ![d][Key(c)] = s]
         /\ s = "owned" \/ (Key(c) = 0 /\ \E f \in Keys : runs[d][f] \in Handed)
  <2>1. CASE UNCHANGED runs /\ Key(c) = 0 /\ \E f \in Keys : runs[d][f] \in Handed
    <3>1. runs' = [runs EXCEPT ![d][Key(c)] = runs[d][Key(c)]]
      BY <2>1, <1>2, RunsAre
    <3> QED
      BY <2>1, <3>1
  <2> QED
    BY <1>3, <2>1
<1>13. runs[d][Key(c)] \in RunStatuses /\ runs \in [Docs -> [Keys -> RunStatuses]]
  BY <1>2, RunsAre
<1>14. /\ runs' \in [Docs -> [Keys -> RunStatuses]] /\ runs'[d][Key(c)] = s
       /\ \A e \in Docs, f \in Keys : e # d \/ f # Key(c) => runs'[e][f] = runs[e][f]
  <2>1. s \in RunStatuses
    BY <1>13 DEF RunStatuses
  <2> QED
    BY <1>2, <1>12, <1>13, <2>1
<1>15. Starts(c)
  <2>1. ASSUME NEW e \in Docs, NEW f \in Keys
        PROVE  runs[e][f] \in Handed => runs'[e][f] \in Handed
    BY <1>12, <1>14 DEF Handed
  <2>2. ASSUME NEW e \in Docs, NEW f \in Keys, runs'[e][f] = "queued", e # d \/ f # Key(c), <<e, f>> \notin forgotten,
               Key(c) = f, e \in wf[c].found
        PROVE  e \in wf'[c].found
    BY <1>5, <1>7, <2>2
  <2>3. ASSUME runs'[d][Key(c)] = "queued"
        PROVE  Key(c) = 0 /\ Passed(d)
    <3>1. s = "queued" /\ runs[d][Key(c)] = "queued"
      BY <1>12, <1>14, <2>3
    <3>2. Key(c) = 0 /\ \E f \in Keys : runs[d][f] \in Handed
      BY <1>12, <3>1
    <3> QED
      BY <3>1, <3>2 DEF Passed, Handed
  <2>4. forgotten' \subseteq Docs \X Keys /\ forgotten' = forgotten
    BY <1>8, RunsAre
  <2>5. ASSUME NEW e \in Docs, NEW f \in Keys, runs'[e][f] = "queued"
        PROVE  \/ Key(c) = f /\ e \in wf'[c].found
               \/ <<e, f>> \in forgotten'
               \/ f = 0 /\ Passed(e)
               \/ runs[e][f] = "queued" /\ <<e, f>> \notin forgotten /\ ~(Key(c) = f /\ e \in wf[c].found)
    <3>1. CASE e = d /\ f = Key(c)
      BY <2>3, <2>5, <3>1
    <3>2. CASE e # d \/ f # Key(c)
      BY <1>14, <2>2, <2>4, <2>5, <3>2
    <3> QED
      BY <3>1, <3>2
  <2> QED
    BY <1>14, <2>1, <2>4, <2>5 DEF Starts
<1> QED
  BY <1>9, <1>11, <1>15

LEMMA StartChildMoves ==
    ASSUME IInv, NEW c \in Cmds, StartChild(c)
    PROVE  MovesAlone(c) \/ (Moved(c) /\ Aside(c) /\ Starts(c) /\ FaultsFit)
<1>1. /\ wf[c].at = "starting" /\ wf[c].found # {} /\ Fits(wf[c]) /\ Says(Kind(c), wf[c], command[c])
  BY Known DEF StartChild, At
<1>2. UNCHANGED <<plan, command, index, store, forgotten, overrun, faults>>
  BY DEF StartChild
<1>3. CASE Owns(c) /\ Onwards(c)
  BY <1>1, <1>2, <1>3, StartIsDone
<1>4. CASE ~Forces(c) /\ TRUE \in Existing(Child(c)) /\ Onwards(c) /\ UNCHANGED runs
  <2>1. Key(c) = 0
    BY <1>4 DEF Forces
  <2>2. \E f \in Keys : runs[Child(c)][f] \in Handed
    BY <1>4 DEF Existing, Handed
  <2> QED
    BY <1>1, <1>2, <1>4, <2>1, <2>2, StartIsDone
<1>5. CASE Forces(c) /\ Steps(c, "signalling") /\ UNCHANGED runs
  <2>1. Alone(c) /\ wf'[c].at = "signalling" /\ Like(wf'[c], wf[c])
    BY <1>5, Known, StepsIs DEF Places
  <2>2. Kind(c) \in {"forced_poll", "reindex"}
    BY <1>5 DEF Forces, Key
  <2>3. plan' = plan /\ UNCHANGED <<rows, touched, store, runs, forgotten, overrun, faults, command>>
    BY <1>2, <1>5 DEF index
  <2>4. FaultsFit /\ Only(c)
    BY <2>3, FaultsAre, Known, NothingMoves
  <2>5. command[c] # "absent"
    BY <1>1, AbsentFoundNothing
  <2>6. Fits(wf'[c]) /\ Says(Kind(c), wf'[c], command'[c])
    BY <1>1, <2>1, <2>2, <2>3, <2>5 DEF Fits, Like, Says, OldPlaces, Spent
  <2> QED
    BY <1>1, <2>1, <2>3, <2>4, <2>6 DEF MovesAlone, Moved, Aside, Silent, Like
<1> QED
  BY <1>3, <1>4, <1>5 DEF StartChild

LEMMA SignalMoves ==
    ASSUME IInv, NEW c \in Cmds, Signal(c)
    PROVE  Moved(c) /\ Aside(c) /\ Starts(c) /\ FaultsFit
<1>1. wf[c].at = "signalling" /\ wf[c].found # {}
  BY Known DEF Signal, At, Fits
<1>2. Owns(c) /\ Onwards(c) /\ UNCHANGED <<plan, command, index, store, forgotten, overrun, faults>>
  BY DEF Signal
<1> QED
  BY <1>1, <1>2, StartIsDone

\* The workflow fails with all it holds.
LEMMA SignalFailsMoves ==
    ASSUME IInv, NEW c \in Cmds, SignalFails(c)
    PROVE  MovesAlone(c)
<1>1. Alone(c) /\ wf'[c].at = "lost" /\ Like(wf'[c], wf[c])
  BY Known, StepsIs DEF SignalFails, Places
<1>2. wf[c].at = "signalling" /\ Fits(wf[c]) /\ Says(Kind(c), wf[c], command[c])
  BY Known DEF SignalFails, At
<1>3. plan' = plan /\ UNCHANGED <<rows, touched, store, runs, forgotten, overrun, faults, command>>
  BY DEF SignalFails, index, discovered
<1>4. FaultsFit /\ Only(c)
  BY <1>3, FaultsAre, Known, NothingMoves
<1>5. Fits(wf'[c]) /\ Says(Kind(c), wf'[c], command'[c])
  BY <1>1, <1>2, <1>3 DEF Fits, Like, Says, OldPlaces, Spent
<1> QED
  BY <1>1, <1>2, <1>3, <1>4, <1>5 DEF MovesAlone, Moved, Aside, Silent, Like

LEMMA PersistMoves ==
    ASSUME IInv, NEW c \in Cmds, Persist(c)
    PROVE  Moved(c) /\ Aside(c) /\ Starts(c) /\ FaultsFit
<1> DEFINE d == Upcoming(c)
<1>1. /\ wf[c].at = "discovering" /\ wf[c].seen # "none" /\ wf[c].todo # {} /\ Fits(wf[c])
      /\ command[c] \in Active /\ wf[c] \in Workflows
  BY Known DEF Persist, At, Fits, Says
<1>2. d \in Docs /\ Key(c) \in Keys
  BY <1>1, UpcomingIs, PlansAre DEF IInv
<1>3. PICK found \in {{}, {d}}, s \in {"queued", "blocked", runs[d][Key(c)]} :
        /\ runs' = [runs EXCEPT ![d][Key(c)] = s]
        /\ runs[d][Key(c)] # "absent" => s = runs[d][Key(c)]
        /\ runs[d][Key(c)] = "absent" => s = IF found = {d} THEN "queued" ELSE "blocked"
        /\ Becomes(c, [Past(c) EXCEPT !.seen = "none", !.found = wf[c].found \union found])
        /\ forgotten' = forgotten \ (found \X {Key(c)})
  <2>1. CASE wf[c].seen = "open"
    <3>1. /\ runs' = [runs EXCEPT ![d][Key(c)] = IF runs[d][Key(c)] # "absent" THEN runs[d][Key(c)] ELSE "queued"]
          /\ Becomes(c, [Past(c) EXCEPT !.seen = "none", !.found = wf[c].found \union {d}])
          /\ forgotten' = forgotten \ {<<d, Key(c)>>}
      BY <2>1 DEF Persist, Upcoming
    <3>2. forgotten' = forgotten \ ({d} \X {Key(c)})
      BY <3>1
    <3>3. CASE runs[d][Key(c)] # "absent"
      BY <3>1, <3>2, <3>3
    <3>4. CASE runs[d][Key(c)] = "absent"
      BY <3>1, <3>2, <3>4
    <3> QED
      BY <3>3, <3>4
  <2>2. CASE wf[c].seen # "open"
    <3>1. /\ runs' = [runs EXCEPT ![d][Key(c)] = IF runs[d][Key(c)] # "absent" THEN runs[d][Key(c)] ELSE "blocked"]
          /\ Becomes(c, [Past(c) EXCEPT !.seen = "none", !.found = wf[c].found \union {}])
          /\ forgotten' = forgotten
      BY <2>2 DEF Persist, Upcoming
    <3>2. forgotten' = forgotten \ ({} \X {Key(c)}) /\ {} # {d}
      BY <3>1
    <3>3. CASE runs[d][Key(c)] # "absent"
      BY <3>1, <3>2, <3>3
    <3>4. CASE runs[d][Key(c)] = "absent"
      BY <3>1, <3>2, <3>4
    <3> QED
      BY <3>3, <3>4
  <2> QED
    BY <2>1, <2>2
<1> HIDE DEF d
<1> DEFINE k == [Past(c) EXCEPT !.seen = "none", !.found = wf[c].found \union found]
<1>4. wf[c].found \union found \subseteq Docs /\ Past(c) \in Workflows /\ Past(c).at = "discovering"
      /\ Past(c).tries = wf[c].tries /\ Past(c).verdict = wf[c].verdict
  BY <1>1, <1>2, PastIs DEF Workflows
<1>5. k \in Workflows
  BY <1>4 DEF Workflows
<1>6. /\ k.at = "discovering" /\ k.found = wf[c].found \union found /\ k.tries = wf[c].tries /\ k.seen = "none"
      /\ k.verdict = wf[c].verdict
  BY <1>4 DEF Workflows
<1>7. Becomes(c, k)
  BY <1>3
<1> HIDE DEF k
<1>8. Alone(c) /\ wf'[c] = k
  BY <1>5, <1>7, Known, BecomesIs
<1>9. plan' = plan /\ UNCHANGED <<rows, touched, store, overrun, faults, command>>
  BY DEF Persist, index
<1>10. FaultsFit /\ Only(c)
  BY <1>9, FaultsAre, Known, NothingMoves
<1>11. Fits(wf'[c]) /\ Says(Kind(c), wf'[c], command'[c])
  BY <1>1, <1>6, <1>8, <1>9 DEF Fits, Says, OldPlaces, Spent
<1>12. Moved(c) /\ Aside(c)
  BY <1>1, <1>6, <1>8, <1>9, <1>10, <1>11 DEF Moved, Aside
<1>13. runs[d][Key(c)] \in RunStatuses /\ runs \in [Docs -> [Keys -> RunStatuses]]
  BY <1>2, RunsAre
<1>14. /\ runs' \in [Docs -> [Keys -> RunStatuses]] /\ runs'[d][Key(c)] = s
       /\ \A e \in Docs, f \in Keys : e # d \/ f # Key(c) => runs'[e][f] = runs[e][f]
  <2>1. s \in RunStatuses
    BY <1>3, <1>13 DEF RunStatuses
  <2> QED
    BY <1>2, <1>3, <1>13, <2>1
<1>15. Starts(c)
  <2>1. ASSUME NEW e \in Docs, NEW f \in Keys
        PROVE  runs[e][f] \in Handed => runs'[e][f] \in Handed
    BY <1>3, <1>14 DEF Handed
  <2>2. forgotten' \subseteq Docs \X Keys
    BY <1>3, RunsAre
  <2>3. ASSUME NEW e \in Docs, NEW f \in Keys, runs'[e][f] = "queued"
        PROVE  \/ Key(c) = f /\ e \in wf'[c].found
               \/ <<e, f>> \in forgotten'
               \/ runs[e][f] = "queued" /\ <<e, f>> \notin forgotten /\ ~(Key(c) = f /\ e \in wf[c].found)
    <3>1. CASE e \in found /\ f = Key(c)
      BY <1>6, <1>8, <3>1
    <3>2. CASE ~(e \in found /\ f = Key(c))
      <4>1. <<e, f>> \in forgotten => <<e, f>> \in forgotten'
        BY <1>3, <3>2
      <4>2. wf[c].found \subseteq wf'[c].found
        BY <1>6, <1>8
      <4>3. runs[e][f] = "queued"
        <5>1. CASE e = d /\ f = Key(c)
          <6>1. s = "queued" /\ found = {}
            BY <1>3, <1>14, <2>3, <3>2, <5>1
          <6>2. found # {d}
            BY <6>1
          <6> QED
            BY <1>3, <5>1, <6>1, <6>2
        <5>2. CASE ~(e = d /\ f = Key(c))
          BY <1>14, <2>3, <5>2
        <5> QED
          BY <5>1, <5>2
      <4> QED
        BY <4>1, <4>2, <4>3
    <3> QED
      BY <3>1, <3>2
  <2> QED
    BY <1>14, <2>1, <2>2, <2>3 DEF Starts
<1> QED
  BY <1>10, <1>12, <1>15

-----------------------------------------------------------------------------
(* The steps together.                                                     *)

Serves(c) == Moved(c) /\ Starts(c) /\ FaultsFit /\ store' \subseteq Docs /\ overrun' \in BOOLEAN /\ IndexInv'

LEMMA CommandServes ==
    ASSUME IInv, NEW c \in Cmds,
           \/ RequestBuild(c) \/ RequestReindex(c) \/ RequestPoll(c) \/ ScheduleTick(c)
           \/ WorkerStep(c) \/ CompletionLost(c) \/ Outage(c) \/ OldDies(c)
    PROVE  Serves(c)
<1>1. store \subseteq Docs /\ overrun \in BOOLEAN
  BY DEF IInv, TypeOK
<1>2. ASSUME Moved(c), Aside(c), Starts(c), FaultsFit PROVE Serves(c)
  <2>1. IndexInv'
    BY <1>2, AsideKeeps
  <2> QED
    BY <1>1, <1>2, <2>1 DEF Serves, Aside
<1>3. ASSUME MovesAlone(c) PROVE Serves(c)
  <2>1. Starts(c)
    BY <1>3, SilentStarts DEF MovesAlone
  <2> QED
    BY <1>2, <1>3, <2>1 DEF MovesAlone
<1>4. ASSUME Builds(c) \/ Releasing(c), Appends(c) \/ \E row : Rewrites(c, row) PROVE Serves(c)
  <2>1. Moved(c) /\ Grows /\ store' \subseteq Docs /\ FaultsFit /\ overrun' \in BOOLEAN
    BY <1>4 DEF Builds, Releasing, Grows
  <2>2. Starts(c)
    BY <1>4, SilentStarts DEF Builds, Releasing
  <2>3. IndexInv'
    BY <1>4, <2>1, AppendsKeeps, RewritesKeeps
  <2> QED
    BY <2>1, <2>2, <2>3 DEF Serves
<1>5. CASE RequestBuild(c) \/ RequestReindex(c)
  <2>1. Moved(c) /\ Silent(c) /\ FaultsFit /\ UNCHANGED store /\ IndexInv' /\ overrun' \in BOOLEAN
    BY <1>5, RequestMoves
  <2> QED
    BY <1>1, <2>1, SilentStarts DEF Serves
<1>6. CASE RequestPoll(c) \/ ScheduleTick(c) \/ Outage(c) \/ OldDies(c)
  BY <1>3, <1>6, RequestPollMoves, ScheduleTickMoves, OutageMoves, OldDiesMoves
<1>7. CASE CompletionLost(c)
  BY <1>3, <1>4, <1>7, CompletionLostMoves
<1>8. CASE BuildStep(c)
  BY <1>3, <1>4, <1>8, ConfigureMoves, PrepareMoves, PrepareFailsMoves, ListDocumentsMoves, EmbedDocumentMoves,
     FinishBuildMoves, FailPreparationMoves DEF BuildStep
<1>9. CASE DiscoveryStep(c)
  BY <1>2, <1>3, <1>9, CreateScheduledMoves, LoadMoves, LookMoves, PersistMoves, DiscoveryFailsMoves,
     DiscoveredMoves, StartChildMoves, SignalMoves, SignalFailsMoves, ReportMoves, FailDiscoveryMoves
     DEF DiscoveryStep
<1>10. CASE OldStep(c)
  BY <1>3, <1>4, <1>10, LaunchOldMoves, StartOldMoves, ListOldMoves, EmbedDocumentMoves, FinishOldMoves,
     FailOldMoves DEF OldStep
<1> QED
  BY <1>5, <1>6, <1>7, <1>8, <1>9, <1>10 DEF WorkerStep

LEMMA ServesKeeps ==
    ASSUME IInv, NEW c \in Cmds, Serves(c)
    PROVE  IInv'
<1>1. /\ plan' = plan /\ Alone(c) /\ Only(c) /\ Fits(wf'[c]) /\ Says(Kind(c), wf'[c], command'[c])
      /\ IndexInv' /\ FaultsFit /\ runs' \in [Docs -> [Keys -> RunStatuses]] /\ forgotten' \subseteq Docs \X Keys
      /\ store' \subseteq Docs /\ overrun' \in BOOLEAN
  BY DEF Serves, Moved, Starts
<1>2. Cmds' = Cmds /\ Keys' = Keys /\ \A b \in Cmds : Kind(b)' = Kind(b)
  BY <1>1 DEF Cmds, Keys, Kind
<1>3. TypeOK'
  BY <1>1, <1>2 DEF IndexInv, RowTypes, Rows, Alone, Only, Workflows, FaultsFit, TypeOK
<1>4. WorkflowsFit'
  <2>1. \A b \in Cmds : Fits(wf'[b])
    BY <1>1 DEF Alone, IInv, WorkflowsFit
  <2> QED
    BY <1>2, <2>1 DEF WorkflowsFit
<1>5. CommandsFit'
  <2>1. \A b \in Cmds : Says(Kind(b), wf'[b], command'[b])
    BY <1>1 DEF Alone, Only, IInv, CommandsFit
  <2> QED
    BY <1>2, <2>1 DEF CommandsFit
<1>6. QueuedIsHeld'
  BY StartsKeeps DEF Serves
<1> QED
  BY <1>1, <1>3, <1>4, <1>5, <1>6 DEF IInv, IndexInv

\* A stale mark and a release by the scan are nobody's.
LEMMA MarkStaleKeeps ==
    ASSUME IInv, MarkStale
    PROVE  IInv'
<1>1. /\ plan' = plan /\ UNCHANGED <<command, store, wf, runs, forgotten>> /\ MarkRowStale
  BY DEF MarkStale, discovered
<1>2. FaultsFit
  BY FaultsAre DEF MarkStale
<1>3. MarksStale /\ ~LeaseTaken
  BY <1>1, MarkRowStaleIs
<1>4. IndexInv'
  BY <1>1, <1>3, MarksStaleKeeps
<1>5. overrun' \in BOOLEAN
  BY <1>3 DEF MarksStale, IInv, TypeOK, AtWork
<1>6. Cmds' = Cmds /\ Keys' = Keys /\ \A b : Kind(b)' = Kind(b) /\ Key(b)' = Key(b)
  BY <1>1 DEF Cmds, Keys, Kind, Key
<1>7. TypeOK'
  BY <1>1, <1>2, <1>4, <1>5, <1>6 DEF IInv, IndexInv, RowTypes, Rows, FaultsFit, TypeOK
<1>8. WorkflowsFit' /\ CommandsFit' /\ QueuedIsHeld'
  BY <1>1, <1>6 DEF IInv, WorkflowsFit, CommandsFit, QueuedIsHeld
<1> QED
  BY <1>1, <1>4, <1>7, <1>8 DEF IInv, IndexInv

LEMMA ScanReleaseKeeps ==
    ASSUME IInv, ScanRelease
    PROVE  IInv'
<1>1. PICK d \in Docs, k \in Keys : runs[d][k] = "blocked" /\ runs' = [runs EXCEPT ![d][k] = "released"]
  BY DEF ScanRelease
<1>2. UNCHANGED <<plan, command, rows, touched, store, wf, forgotten, overrun, faults>>
  BY DEF ScanRelease, index
<1>3. /\ runs' \in [Docs -> [Keys -> RunStatuses]] /\ runs'[d][k] = "released"
      /\ \A e \in Docs, f \in Keys : e # d \/ f # k => runs'[e][f] = runs[e][f]
  BY <1>1, RunsAre DEF RunStatuses
<1>4. Cmds' = Cmds /\ Keys' = Keys /\ \A b : Kind(b)' = Kind(b) /\ Key(b)' = Key(b) /\ OwnRows(b)' = OwnRows(b)
  BY <1>2 DEF Cmds, Keys, Kind, Key, OwnRows
<1>5. TypeOK'
  BY <1>2, <1>3, <1>4 DEF IInv, TypeOK
<1>6. WorkflowsFit' /\ CommandsFit' /\ CompleteIndexCovers'
  BY <1>2, <1>4 DEF IInv, WorkflowsFit, CommandsFit, CompleteIndexCovers
<1>7. OneBuilds'
  BY <1>2 DEF IInv, OneBuilds, GateOpen
<1>8. \A b \in Cmds : Covers(b)' /\ Holds(b)'
  <2>1. ASSUME NEW b \in Cmds PROVE Covers(b)' /\ Holds(b)'
    <3>1. RowOf(b)' = RowOf(b)
      BY <1>4 DEF RowOf
    <3> QED
      BY <1>2, <1>4, <2>1, <3>1 DEF IInv, BuildersCover, BuildersHold, Covers, Holds, HasRow, Row
  <2> QED
    BY <2>1
<1>9. QueuedIsHeld'
  <2>1. ASSUME NEW e \in Docs, NEW f \in Keys, runs'[e][f] = "queued" PROVE runs[e][f] = "queued"
    BY <1>3, <2>1
  <2>2. ASSUME NEW e \in Docs, NEW f \in Keys, runs[e][f] \in {"released", "owned"}
        PROVE  runs'[e][f] \in {"released", "owned"}
    BY <1>3, <2>2
  <2> QED
    BY <1>2, <1>4, <2>1, <2>2 DEF IInv, QueuedIsHeld
<1> QED
  BY <1>2, <1>4, <1>5, <1>6, <1>7, <1>8, <1>9 DEF IInv, BuildersCover, BuildersHold

LEMMA StandsStill ==
    ASSUME IInv, UNCHANGED vars
    PROVE  IInv'
<1>1. Cmds' = Cmds /\ Keys' = Keys /\ \A b : Kind(b)' = Kind(b) /\ Key(b)' = Key(b) /\ OwnRows(b)' = OwnRows(b)
  BY DEF vars, Cmds, Keys, Kind, Key, OwnRows
<1>2. \A b : RowOf(b)' = RowOf(b)
  BY <1>1 DEF RowOf
<1>3. TypeOK' /\ WorkflowsFit' /\ CommandsFit' /\ CompleteIndexCovers'
  BY <1>1 DEF vars, IInv, TypeOK, WorkflowsFit, CommandsFit, CompleteIndexCovers
<1>4. OneBuilds'
  BY DEF vars, IInv, OneBuilds, GateOpen
<1>5. BuildersCover' /\ BuildersHold'
  BY <1>1, <1>2 DEF vars, IInv, BuildersCover, BuildersHold, Covers, Holds, HasRow, Row
<1>6. QueuedIsHeld'
  BY <1>1 DEF vars, IInv, QueuedIsHeld
<1> QED
  BY <1>3, <1>4, <1>5, <1>6 DEF vars, IInv

LEMMA Starting ==
    ASSUME Init
    PROVE  IInv
<1>1. plan \in Plans /\ \A c \in Cmds : wf[c] = Idle
  BY DEF Init
<1>2. Cmds = 1..Len(plan) /\ 0 \notin Cmds /\ \A c \in Cmds : Kind(c) \in Kinds
  BY <1>1, PlansAre
<1>3. \A c \in Cmds : /\ command[c] = IF Kind(c) = "old_build" THEN "queued" ELSE "absent"
                      /\ wf[c] = Idle
  BY DEF Init
<1>4. \/ rows = <<>> /\ touched = 0 /\ store = {}
      \/ rows = <<[by |-> 0, status |-> "complete", listed |-> Docs]>> /\ touched = 1 /\ store = Docs
  BY DEF Init
<1>5. \A i \in DOMAIN rows : rows[i].by = 0 /\ rows[i].status = "complete" /\ rows[i].listed \subseteq store
  BY <1>4
<1>6. PICK known \in {{}, {1}} :
        runs = [d \in Docs |-> [k \in Keys |-> IF k = 0 /\ d \in known THEN "owned" ELSE "absent"]]
  BY DEF Init
<1>7. \A d \in Docs, k \in Keys : runs[d][k] \in {"owned", "absent"}
  BY <1>6
<1>8. \A c \in Cmds : OwnRows(c) = {}
  BY <1>2, <1>5 DEF OwnRows
<1>9. TypeOK
  <2>1. command \in [Cmds -> CommandStatuses]
    BY DEF Init, CommandStatuses
  <2>2. rows \in Seq(Rows) /\ touched \in 0..Len(rows) /\ store \subseteq Docs
    <3>1. [by |-> 0, status |-> "complete", listed |-> Docs] \in Rows
      BY DEF Rows, Keys, RowStatuses
    <3> DEFINE row == [by |-> 0, status |-> "complete", listed |-> Docs]
    <3>2. CASE rows = <<>> /\ touched = 0 /\ store = {}
      BY <3>2
    <3>3. CASE rows = <<row>> /\ touched = 1 /\ store = Docs
      <4> HIDE DEF row
      <4>1. row \in Rows
        BY <3>1 DEF row
      <4>2. rows \in Seq(Rows) /\ Len(rows) = 1
        BY <3>3, <4>1
      <4> QED
        BY <3>3, <4>2
    <3> QED
      BY <1>4, <3>2, <3>3
  <2>3. Idle \in Workflows
    BY BoundsAssumption DEF Idle, Workflows, Places
  <2>4. wf \in [Cmds -> Workflows]
    BY <2>3 DEF Init
  <2>5. runs \in [Docs -> [Keys -> RunStatuses]]
    BY <1>6 DEF RunStatuses
  <2>6. forgotten = {} /\ overrun = FALSE /\ faults = 0 /\ faults \in 0..MaxFaults
    BY BoundsAssumption DEF Init
  <2> QED
    BY <2>1, <2>2, <2>4, <2>5, <2>6 DEF TypeOK, Workflows, Rows
<1>10. WorkflowsFit /\ CommandsFit
  <2>1. Fits(Idle)
    BY BoundsAssumption DEF Fits, Idle, Spent
  <2>2. ASSUME NEW c \in Cmds PROVE Fits(wf[c]) /\ Says(Kind(c), wf[c], command[c])
    BY <1>3, <2>1, <2>2 DEF Says, Idle, OldPlaces
  <2> QED
    BY <2>2 DEF WorkflowsFit, CommandsFit
<1>11. BuildersCover /\ BuildersHold
  <2>1. ASSUME NEW c \in Cmds PROVE wf[c].at = "idle"
    BY <1>3, <2>1 DEF Idle
  <2> QED
    BY <2>1, <1>8 DEF BuildersCover, Covers, HasRow, BuildersHold, Holds
<1>12. CompleteIndexCovers /\ OneBuilds
  BY <1>5 DEF CompleteIndexCovers, OneBuilds
<1>13. QueuedIsHeld
  BY <1>7 DEF QueuedIsHeld
<1> QED
  BY <1>1, <1>9, <1>10, <1>11, <1>12, <1>13 DEF IInv

\* The invariant is one.
THEOREM Invariance == Spec => []IInv
<1>1. Init => IInv
  BY Starting
<1>2. IInv /\ [Next]_vars => IInv'
  <2> SUFFICES ASSUME IInv, [Next]_vars PROVE IInv'
    OBVIOUS
  <2>1. ASSUME NEW c \in Cmds,
               \/ RequestBuild(c) \/ RequestReindex(c) \/ RequestPoll(c) \/ ScheduleTick(c)
               \/ WorkerStep(c) \/ CompletionLost(c) \/ Outage(c) \/ OldDies(c)
        PROVE  IInv'
    BY <2>1, CommandServes, ServesKeeps
  <2>2. CASE MarkStale
    BY <2>2, MarkStaleKeeps
  <2>3. CASE ScanRelease
    BY <2>3, ScanReleaseKeeps
  <2>4. CASE UNCHANGED vars
    BY <2>4, StandsStill
  <2> QED
    BY <2>1, <2>2, <2>3, <2>4 DEF Next
<1> QED
  BY <1>1, <1>2, PTL DEF Spec

-----------------------------------------------------------------------------
(* What the runs check, for every instance.                                *)

\* Every variable keeps its type, the attempts within MaxTries among it.
THEOREM TypeCorrect == Spec => []TypeOK
<1>1. IInv => TypeOK
  BY DEF IInv
<1> QED
  BY <1>1, Invariance, PTL

\* An index that says it is complete has an embedding of every document its
\* builder listed and still found trusted, whoever built it.
THEOREM IndexCovers == Spec => []CompleteIndexCovers
<1>1. IInv => CompleteIndexCovers
  BY DEF IInv
<1> QED
  BY <1>1, Invariance, PTL

\* Two builders are never at work on two generations, and the gate is closed
\* while one is, unless somebody overran a builder.
THEOREM OneBuildsAtATime == Spec => []OneGenerationAtATime
<1>1. ASSUME IInv PROVE OneGenerationAtATime
  <2> DEFINE Building == {i \in DOMAIN rows : rows[i].status = "building"}
  <2>1. SUFFICES ASSUME ~overrun
                 PROVE  Cardinality(Building) <= 1 /\ (Building # {} => ~GateOpen)
    BY DEF OneGenerationAtATime
  <2>2. /\ \A i, j \in Building : i = j
        /\ Building # {} => ~GateOpen
    BY <1>1, <2>1 DEF IInv, OneBuilds
  <2>3. CASE Building = {}
    BY <2>3, FS_EmptySet
  <2>4. CASE Building # {}
    <3>1. PICK i \in Building : Building = {i}
      BY <2>2, <2>4
    <3>2. Cardinality({i}) = 1
      BY FS_Singleton
    <3> HIDE DEF Building
    <3> QED
      BY <2>2, <3>1, <3>2
  <2> HIDE DEF Building
  <2> QED
    BY <2>2, <2>3, <2>4
<1> QED
  BY <1>1, Invariance, PTL

\* Only a forced command is lost with starts in its hands.
LEMMA HeldOrStranded ==
    ASSUME IInv, NEW d \in Docs, NEW k \in Keys, runs[d][k] = "queued"
    PROVE  \/ \E c \in Cmds : Key(c) = k /\ d \in wf[c].found /\ ~At(c, "lost")
           \/ <<d, k>> \in forgotten \/ Stranded(d, k) \/ Overtaken(d, k)
<1>1. ASSUME NEW c \in Cmds, Key(c) = k, d \in wf[c].found, At(c, "lost")
      PROVE  Stranded(d, k)
  <2>1. Says(Kind(c), wf[c], command[c])
    BY Known
  <2>2. Kind(c) \in {"forced_poll", "reindex"}
    BY <1>1, <2>1 DEF Says, At
  <2>3. k = c /\ c \in Nat \ {0}
    BY <1>1, <2>2, PlansAre DEF Key, IInv
  <2> QED
    BY <1>1, <2>3 DEF Stranded
<1> QED
  BY <1>1 DEF IInv, QueuedIsHeld, Overtaken

\* A run that is queued without a start intent is in the hands of a workflow that
\* found it and is alive, was forgotten with a failed attempt, was held by a forced
\* command whose workflow failed over a signal, or is overtaken.
THEOREM QueuedIsStarted == Spec => []QueuedRunHasAStarter
<1>1. IInv => QueuedRunHasAStarter
  BY HeldOrStranded DEF QueuedRunHasAStarter
<1> QED
  BY <1>1, Invariance, PTL

\* The documents promise that every run a workflow created is started, and a run
\* refutes them; this is what the code keeps of it: what is left queued when all
\* workflows are through or have failed went with an attempt that failed after it
\* had created the run (document_activities.py 270-475) or with a forced command
\* that could not signal (workflows.py 650-664), or a forced run has overtaken it.
THEOREM LeftWereForgotten == Spec => []LeftRunsWereForgotten
<1>1. ASSUME IInv PROVE LeftRunsWereForgotten
  <2>1. SUFFICES ASSUME \A c \in Cmds : wf[c].at \in {"done", "lost"},
                        NEW d \in Docs, NEW k \in Keys, runs[d][k] = "queued"
                 PROVE  <<d, k>> \in forgotten \/ Stranded(d, k) \/ Overtaken(d, k)
    BY DEF LeftRunsWereForgotten
  <2>2. \A c \in Cmds : ~At(c, "lost") => wf[c].found = {}
    BY <1>1, <2>1 DEF IInv, WorkflowsFit, Fits, At
  <2> QED
    BY <1>1, <2>1, <2>2, HeldOrStranded
<1> QED
  BY <1>1, Invariance, PTL

\* What a command reports stays, whatever is repeated or exhausted afterwards.
THEOREM ReportsStay == Spec => OutcomesAreFinal
<1>1. IInv /\ [Next]_vars => [\A c \in Cmds : command[c] \in Ended => command'[c] = command[c]]_vars
  <2> SUFFICES ASSUME IInv, [Next]_vars, NEW b \in Cmds, command[b] \in Ended, ~UNCHANGED vars
               PROVE  command'[b] = command[b]
    OBVIOUS
  <2>1. ASSUME NEW c \in Cmds,
               \/ RequestBuild(c) \/ RequestReindex(c) \/ RequestPoll(c) \/ ScheduleTick(c)
               \/ WorkerStep(c) \/ CompletionLost(c) \/ Outage(c) \/ OldDies(c)
        PROVE  command'[b] = command[b]
    <3>1. Serves(c)
      BY <2>1, CommandServes
    <3> QED
      BY <3>1 DEF Serves, Moved, Only
  <2>2. CASE MarkStale \/ ScanRelease
    BY <2>2 DEF MarkStale, ScanRelease
  <2> QED
    BY <2>1, <2>2 DEF Next
<1> QED
  BY <1>1, Invariance, PTL DEF Spec, OutcomesAreFinal
=============================================================================
