--------------------------- MODULE MCOfflineSync ---------------------------
(* An instance of OfflineSync for TLC.  Callers and uploads are             *)
(* interchangeable; TwoCalls bounds what is issued, in any mixture.         *)
EXTENDS OfflineSync, FiniteSets, TLC

Symmetry == Permutations(Callers) \union Permutations(Uploads)

TwoCalls ==
  Cardinality({m \in Mutations : op[m] # "idle"})
    + Cardinality({u \in Uploads : put[u] # "idle"}) <= 2
=============================================================================
