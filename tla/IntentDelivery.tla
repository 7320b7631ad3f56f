--------------------------- MODULE IntentDelivery ---------------------------
(***************************************************************************)
(* What the transactional outbox promises to the code that records an      *)
(* intent, with the relay, its retries and its crashes hidden.             *)
(*                                                                         *)
(* An intent is recorded once and stays open until it is settled.  While   *)
(* it is open its operation may reach Temporal any number of times; it is  *)
(* settled as delivered only if it did reach Temporal, or abandoned (dead  *)
(* lettered), and a settled intent never changes again.                    *)
(* TemporalOutbox implements this module; DocumentLifecycle relies on it.  *)
(***************************************************************************)

CONSTANT Intents

VARIABLES
  standing,   \* standing[i]: what the intent's row has come to
  reached     \* reached[i]: Temporal has accepted the operation at least once

deliveryVars == <<standing, reached>>

Standings == {"absent", "open", "delivered", "dead_letter"}

DeliveryInit ==
  /\ standing = [i \in Intents |-> "absent"]
  /\ reached = [i \in Intents |-> FALSE]

Recorded(i) ==
  /\ standing[i] = "absent"
  /\ standing' = [standing EXCEPT ![i] = "open"]
  /\ UNCHANGED reached

Reaches(i) ==
  /\ standing[i] = "open"
  /\ reached' = [reached EXCEPT ![i] = TRUE]
  /\ UNCHANGED standing

Settled(i) ==
  /\ standing[i] = "open"
  /\ reached[i]
  /\ standing' = [standing EXCEPT ![i] = "delivered"]
  /\ UNCHANGED reached

Abandoned(i) ==
  /\ standing[i] = "open"
  /\ standing' = [standing EXCEPT ![i] = "dead_letter"]
  /\ UNCHANGED reached

DeliveryNext ==
  \E i \in Intents : Recorded(i) \/ Reaches(i) \/ Settled(i) \/ Abandoned(i)

DeliverySpec == DeliveryInit /\ [][DeliveryNext]_deliveryVars

=============================================================================
