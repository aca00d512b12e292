----------------------------- MODULE MCAPIKeys -----------------------------
(* Instances of APIKeys for TLC. *)
EXTENDS APIKeysRegistry, TLC

Symmetry ==
    UNION {Permutations(S) : S \in {Users, Labels, Keys, Ids, Procs}}
=============================================================================
