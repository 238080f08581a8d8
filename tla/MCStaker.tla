------------------------------ MODULE MCStaker ------------------------------
(* Staker on small sets for TLC. *)
EXTENDS Staker, TLC

CONSTANTS w1

OneSetting == {<<>>}
SomeSettings == {<<>>, <<w1>>}

Symmetry == Permutations(Threads) \cup Permutations(Workers)
=============================================================================
