-------------------------- MODULE APIKeysRegistry --------------------------
(* Table, cache and request goroutines of APIKeys implement KeyRegistry.   *)
EXTENDS APIKeys

(* A request has its verdict when the active check of APIKeyAuth has passed,
   and acts on it until its deadline; a 401 stands until the next request. *)
Verdict(p) ==
    IF pc[p] = "touch"
      THEN [answer |-> "admitted", id |-> req[p].id, key |-> req[p].key,
            user |-> req[p].user, rate |-> req[p].rate,
            until |-> req[p].deadline]
    ELSE IF Answered(p, "auth", "401")
      THEN [answer |-> "401", key |-> req[p].key]
    ELSE None

(* Along the longest chain a request that ran at the revocation fills the
   cache, and another one reads the entry in its last moment. *)
Registry ==
    INSTANCE KeyRegistry WITH
        Rates <- {EffectiveRate(r) : r \in RateInputs},
        Grace <- TTL + 2 * ReqTimeout,
        verdict <- [p \in Procs |-> Verdict(p)]

(* Seen through the verdicts of APIKeyAuth, the cached, faulty, concurrent
   implementation does nothing that the registry would not do: also a key
   whose 201 was lost exists, admits nobody and can be revoked, nothing but
   the first revocation counts, and every verdict is given for cause. *)
ImplementsRegistry == Registry!Spec
=============================================================================
