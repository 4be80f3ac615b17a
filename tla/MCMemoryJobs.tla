---- MODULE MCMemoryJobs ----
(* Small instances of MemoryJobs for TLC. *)
EXTENDS MemoryJobs, TLC

Symmetric == Permutations(Job)
====
