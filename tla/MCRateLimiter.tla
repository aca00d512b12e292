--------------------------- MODULE MCRateLimiter ---------------------------
(* Instances of RateLimiter for TLC. *)
EXTENDS RateLimiter, TLC

(* A user with a JWT; users with keys of their own rates are in Service. *)
JwtOnly == {[user |-> 1, apiKey |-> None, rate |-> None]}

Symmetry == Permutations(Procs)
=============================================================================
