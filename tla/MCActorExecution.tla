-------------------------- MODULE MCActorExecution --------------------------
(* One actor source as TLC runs it; the bounds are in the .cfg file.        *)
(* Children of a run write items without a fence, so on several hosts only  *)
(* the fenced rows could be promised, which the other two kinds show.       *)
EXTENDS ActorExecution
MCSources == {<<"run", "one_host">>} \union ({"command", "webhook"} \X {"one_host", "many_hosts"})
=============================================================================
