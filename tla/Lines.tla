------------------------------- MODULE Lines -------------------------------
(***************************************************************************)
(* The lines of a file, as far as the code drops some of them: a loop      *)
(* appends the lines it keeps to a new list.                               *)
(***************************************************************************)
EXTENDS Naturals, Sequences, FiniteSets

\* The lines of a file but those at the positions in drop.
Without(lines, drop) ==
    LET kept == DOMAIN lines \ drop
    IN  [n \in 1..Cardinality(kept) |->
            lines[CHOOSE i \in kept : Cardinality({j \in kept : j <= i}) = n]]
=============================================================================
