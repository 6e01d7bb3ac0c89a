------------------------------- MODULE MC_Hub -------------------------------
(***************************************************************************)
(* Small instances of Hub for TLC.                                         *)
(***************************************************************************)
EXTENDS Hub

CONSTANTS d1

OneDialog == [e \in Events |-> d1]

Symmetry == Permutations(Conns)

=============================================================================
