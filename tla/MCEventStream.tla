---- MODULE MCEventStream ----
(* Small instances of EventStream for TLC. *)
EXTENDS EventStream, TLC

Symmetric == Permutations(Client)
====
