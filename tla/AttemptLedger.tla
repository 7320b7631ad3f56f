---------------------------- MODULE AttemptLedger ----------------------------
(***************************************************************************)
(* What the attempts at one durable source promise to whoever reads the    *)
(* source, with queue, children, fences, crashes and recovery hidden.      *)
(*                                                                         *)
(* An attempt is granted only when no other is open and nobody runs the    *)
(* source.  The attempt that runs the source settles it in the step that   *)
(* closes the attempt: it succeeds with it, or is given back with it.      *)
(* Older attempts, and those that wait for their retry, are closed without *)
(* the source.  A closed attempt is never touched again, and nothing else  *)
(* takes the source away but a request of an administrator, once each.     *)
(* ActorExecution implements this module.                                  *)
(***************************************************************************)
EXTENDS Integers, Sequences

\* The ways an attempt can close.
Closings == {"succeeded", "skipped", "blocked", "cancelled", "failed", "failed_permanent"}

VARIABLES
    attempts,   \* in order: "open", "waiting" for a retry, or how it was closed
    standing,   \* the source: "idle", "running" or "succeeded"
    request     \* an administrator is about to override the source

ledger == <<attempts, standing, request>>

LedgerInit ==
    /\ attempts = <<>>
    /\ standing = "idle"
    /\ request = FALSE

NoneOpen == \A e \in DOMAIN attempts : attempts[e] # "open"
\* The attempt that runs the source.
Runs(e) == standing = "running" /\ e = Len(attempts)

Granted ==
    /\ standing = "idle"
    /\ NoneOpen
    /\ attempts' = Append(attempts, "open")
    /\ standing' = "running"
    /\ UNCHANGED request

Succeeded(e) ==
    /\ Runs(e)
    /\ attempts[e] = "open"
    /\ attempts' = [attempts EXCEPT ![e] = "succeeded"]
    /\ standing' = "succeeded"
    /\ UNCHANGED request

\* Also an attempt that no longer runs the source is closed, or put off.
Closed(e) ==
    /\ \/ /\ attempts[e] \in {"open", "waiting"}
          /\ \E how \in Closings \ {"succeeded"} : attempts' = [attempts EXCEPT ![e] = how]
       \/ /\ attempts[e] = "open"
          /\ attempts' = [attempts EXCEPT ![e] = "waiting"]
    /\ standing' = IF Runs(e) THEN "idle" ELSE standing
    /\ UNCHANGED request

\* Whatever still waits is given up with the source.
GivenUp ==
    /\ standing = "idle"
    /\ NoneOpen
    /\ attempts' = [e \in DOMAIN attempts |-> IF attempts[e] = "waiting" THEN "cancelled" ELSE attempts[e]]
    /\ UNCHANGED <<standing, request>>

Requested ==
    /\ ~request
    /\ request' = TRUE
    /\ UNCHANGED <<attempts, standing>>
Overridden ==
    /\ request
    /\ request' = FALSE
    /\ standing' = "idle"
    /\ UNCHANGED attempts

LedgerNext ==
    \/ Granted \/ GivenUp \/ Requested \/ Overridden
    \/ \E e \in DOMAIN attempts : Succeeded(e) \/ Closed(e)

LedgerSpec == LedgerInit /\ [][LedgerNext]_ledger
=============================================================================
