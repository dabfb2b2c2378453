----------------------------- MODULE MCJobQueue -----------------------------
(* The job queue on a small instance.  Job and worker identities are        *)
(* interchangeable, so permuting them is a symmetry of safety.              *)
EXTENDS JobQueue, TLC

Identities == Permutations(Jobs) \cup Permutations(Workers)
=============================================================================
