----------------------------- MODULE MCRunSlots -----------------------------
(* An instance of RunSlots for TLC: workers, sessions and runs are          *)
(* interchangeable.                                                         *)
EXTENDS RunSlots, TLC

Symmetry ==
  Permutations(Workers) \union Permutations(Sessions) \union Permutations(Runs)
=============================================================================
