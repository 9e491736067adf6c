---------------------------- MODULE MCJobClient ----------------------------
(* Small instances of JobClient for TLC. *)
EXTENDS JobClient, TLC

\* Threads, JobRequests and uuids are interchangeable in every definition.
Symmetry == Permutations(Thread) \cup Permutations(Job) \cup Permutations(Uuid)
=============================================================================
