---------------------------- MODULE MCAccounts ----------------------------
(* Instances of Accounts for TLC. *)
EXTENDS Accounts, TLC

(* The first 72 bytes of a long password are those of one of the others. *)
First72 == [w \in Passwords |-> IF w \in LongPasswords
                                THEN CHOOSE v \in Passwords \ LongPasswords : TRUE
                                ELSE w]

Symmetry == Permutations(Emails) \cup Permutations(Ids) \cup Permutations(Procs)
=============================================================================
