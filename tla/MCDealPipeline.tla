---------------------------- MODULE MCDealPipeline ----------------------------
(* One submission, two workers, and a few faults.  A second document costs an *)
(* event: the bound is on documents, faults and members' requests together.   *)
EXTENDS DealPipeline

CONSTANT MaxSize

MCNext ==
  /\ Next
  /\ Cardinality(submitted) + Cardinality(manual') + errors' + crashes' + stalls' <= MaxSize
MCSpec == Init /\ [][MCNext]_vars /\ Fairness
=============================================================================
