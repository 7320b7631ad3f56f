-------------------------- MODULE MCTemporalOutbox --------------------------
(* Instances of the outbox for TLC: a plain start and a decision signal for   *)
(* the same workflow identity, a forced start for another one, and the start  *)
(* of a maintenance command, any MaxRecorded of them in one behaviour.        *)
EXTENDS TemporalOutbox

CONSTANTS wDocument, wReplaced, wBuild

MCOperation == <<"start_workflow", "signal_workflow", "signal_with_start", "start_workflow">>
MCTarget == <<wDocument, wDocument, wReplaced, wBuild>>
MCNames == <<"pipeline_run", "decision", "pipeline_run", "command">>
=============================================================================
