-------------------------- MODULE MCNotifications ---------------------------
(* The two ends of the transactional outbox: the transactions of a deal      *)
(* that write its rows, and the dispatchers that deliver them.  They share   *)
(* the rows alone, which are keys to the one and work to the other, so a     *)
(* behaviour runs one of them and rests the other.                           *)
EXTENDS DealLifecycle, NotificationOutbox

VARIABLE running

MCInit == DealInit /\ Init /\ running \in {"deal", "dispatchers"}
MCNext ==
  \/ running = "deal" /\ DealNext /\ UNCHANGED <<running, vars>>
  \/ running = "dispatchers" /\ Next /\ UNCHANGED <<running, dealVars>>
MCSpec == MCInit /\ [][MCNext]_<<running, vars, dealVars>>
=============================================================================
