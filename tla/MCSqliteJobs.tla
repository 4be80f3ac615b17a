---- MODULE MCSqliteJobs ----
(* Small instances of SqliteJobs for TLC. *)
EXTENDS SqliteJobs, TLC

Symmetric == Permutations(Proc) \cup Permutations(Job)
====
