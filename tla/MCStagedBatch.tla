--------------------------- MODULE MCStagedBatch ---------------------------
(* The poll and its staged batch as TLC runs them: two documents, or two    *)
(* versions of one; what goes wrong goes wrong in the poll or in the batch. *)
EXTENDS StagedBatch
OneOrTwoDocuments == {<<1, 2>>, <<1, 1>>}
InPollOrBatch == {[stall |-> 1, crash |-> 0, closing |-> 0], [stall |-> 0, crash |-> 1, closing |-> 1]}
=============================================================================
