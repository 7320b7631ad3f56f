------------------------ MODULE MCDocumentLifecycle ------------------------
(* The document lifecycle as TLC runs it; the bounds are in the .cfg files. *)
EXTENDS DocumentLifecycle
=============================================================================
