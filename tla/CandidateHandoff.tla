--------------------------- MODULE CandidateHandoff ---------------------------
(***************************************************************************)
(* What becomes of a document that a poll finds, with polls, leases,       *)
(* consumers, attempts and crashes hidden.                                 *)
(*                                                                         *)
(* While its candidate is open a document gets one place, once: Temporal   *)
(* owns its run, or a run waits for a batch.  A candidate is completed     *)
(* only when the document has its place and skipped only when it has none; *)
(* either is final.  When no candidate is open, a batch takes every run    *)
(* that waits; a run it took stays in it.  StagedBatch implements this     *)
(* module.                                                                 *)
(***************************************************************************)
CONSTANT Documents

VARIABLES
    stage,      \* of each document's candidate: "unseen", "open", "completed" or "skipped"
    place       \* of each document's run: "nowhere", "temporal", "waiting" or "batch"

handoff == <<stage, place>>

HandoffInit ==
    /\ stage = [d \in Documents |-> "unseen"]
    /\ place = [d \in Documents |-> "nowhere"]

Decide(d, how) == stage' = [stage EXCEPT ![d] = how]

Found(d) ==
    /\ stage[d] = "unseen"
    /\ Decide(d, "open")
    /\ UNCHANGED place

Placed(d) ==
    /\ stage[d] = "open" /\ place[d] = "nowhere"
    /\ \E where \in {"temporal", "waiting"} : place' = [place EXCEPT ![d] = where]
    /\ UNCHANGED stage

Completed(d) ==
    /\ stage[d] = "open" /\ place[d] # "nowhere"
    /\ Decide(d, "completed")
    /\ UNCHANGED place

Skipped(d) ==
    /\ stage[d] = "open" /\ place[d] = "nowhere"
    /\ Decide(d, "skipped")
    /\ UNCHANGED place

Batched ==
    /\ \A d \in Documents : stage[d] # "open"
    /\ place' = [d \in Documents |-> IF place[d] = "waiting" THEN "batch" ELSE place[d]]
    /\ UNCHANGED stage

HandoffNext ==
    \/ Batched
    \/ \E d \in Documents : Found(d) \/ Placed(d) \/ Completed(d) \/ Skipped(d)

HandoffSpec == HandoffInit /\ [][HandoffNext]_handoff
=============================================================================
