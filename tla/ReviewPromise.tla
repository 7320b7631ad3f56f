--------------------------- MODULE ReviewPromise ---------------------------
(***************************************************************************)
(* What a reviewer is promised about a suggestion, with generations,       *)
(* workflows, signals and retries hidden.                                  *)
(*                                                                         *)
(* A suggestion is open until it is withdrawn or decided, once.  Until     *)
(* then and afterwards it may be found outdated, which undoes a decision   *)
(* and leaves no other.  Paperless is written only for a suggestion that   *)
(* was accepted and whose commit is still in the balance.  A commit is     *)
(* reported done only after the write, reported failed at most once, and   *)
(* neither report is taken back, but that the success of an outdated one   *)
(* may turn into a failure.                                                *)
(* DocumentLifecycle implements this module.                               *)
(***************************************************************************)

CONSTANT Suggestions

VARIABLES
  verdict,   \* what has become of the suggestion
  written,   \* suggestions whose metadata reached Paperless
  report     \* what the commit command of an accepted suggestion reports

reviewVars == <<verdict, written, report>>

Verdicts == {"absent", "pending", "accepted", "rejected", "stale"}
Reports == {"none", "open", "succeeded", "failed"}

ReviewInit ==
  /\ verdict = [s \in Suggestions |-> "absent"]
  /\ written = {}
  /\ report = [s \in Suggestions |-> "none"]

Suggested(s) ==
  /\ verdict[s] = "absent"
  /\ verdict' = [verdict EXCEPT ![s] = "pending"]
  /\ UNCHANGED <<written, report>>

Withdrawn(open) ==
  /\ \A s \in open : verdict[s] = "pending"
  /\ verdict' = [s \in Suggestions |-> IF s \in open THEN "stale" ELSE verdict[s]]
  /\ UNCHANGED <<written, report>>

\* Paperless holds another version of the document than the one looked at.
Outdated(s) ==
  /\ verdict[s] # "absent"
  /\ verdict' = [verdict EXCEPT ![s] = "stale"]
  /\ UNCHANGED <<written, report>>

Accepted(s) ==
  /\ verdict[s] = "pending"
  /\ verdict' = [verdict EXCEPT ![s] = "accepted"]
  /\ report' = [report EXCEPT ![s] = "open"]
  /\ UNCHANGED written

Rejected(s) ==
  /\ verdict[s] = "pending"
  /\ verdict' = [verdict EXCEPT ![s] = "rejected"]
  /\ UNCHANGED <<written, report>>

Written(s) ==
  /\ verdict[s] \in {"accepted", "stale"} /\ report[s] = "open"
  /\ written' = written \cup {s}
  /\ UNCHANGED <<verdict, report>>

ReportedDone(s) ==
  /\ report[s] = "open" /\ s \in written
  /\ report' = [report EXCEPT ![s] = "succeeded"]
  /\ UNCHANGED <<verdict, written>>

ReportedFailed(s) ==
  /\ report[s] = "open" \/ (report[s] = "succeeded" /\ verdict[s] = "stale")
  /\ report' = [report EXCEPT ![s] = "failed"]
  /\ UNCHANGED <<verdict, written>>

ReviewNext ==
  \/ \E s \in Suggestions :
       \/ Suggested(s) \/ Outdated(s) \/ Accepted(s) \/ Rejected(s)
       \/ Written(s) \/ ReportedDone(s) \/ ReportedFailed(s)
  \/ \E open \in SUBSET Suggestions : Withdrawn(open)

ReviewSpec == ReviewInit /\ [][ReviewNext]_reviewVars

=============================================================================
