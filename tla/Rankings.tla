---- MODULE Rankings ----
(***************************************************************************)
(* Finite sets put in order, as the code sorts what it has found, and the  *)
(* first of them; and those of a sequence that are in a set.               *)
(***************************************************************************)
EXTENDS Naturals, Sequences, FiniteSets

\* The elements of a finite set in order: each has those ahead of it in front of it.
Ranked(S, Ahead(_, _)) ==
    [i \in 1..Cardinality(S) |-> CHOOSE x \in S : Cardinality({y \in S : Ahead(y, x)}) = i - 1]

\* The elements of a sequence that are in S, in the order of the sequence.
Those(seq, S) ==
    LET upto[n \in 0..Len(seq)] ==
            IF n = 0 THEN <<>>
            ELSE IF seq[n] \in S THEN Append(upto[n - 1], seq[n]) ELSE upto[n - 1]
    IN  upto[Len(seq)]

Upto(n, seq) == [i \in DOMAIN seq \cap 1..n |-> seq[i]]
====
