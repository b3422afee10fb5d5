---------------------------- MODULE SessionStoreMC ----------------------------
(***************************************************************************)
(* Symmetry for TLC: ids other than the first one are interchangeable.     *)
(***************************************************************************)
EXTENDS SessionStore, TLC

Symmetry == Permutations(Ids \ {First})

=============================================================================
