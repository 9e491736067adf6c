------------------------------ MODULE MCCJobs ------------------------------
(* A small instance of CJobs for TLC. *)
EXTENDS CJobs, TLC

\* Threads are interchangeable in every definition, JobRequests too.
Symmetry == Permutations(Thread) \cup Permutations(Job)
=============================================================================
