------------------------------ MODULE Service ------------------------------
(***************************************************************************)
(* POST /v1/fraud/predict from end to end: APIKeyAuth, the rate limiter    *)
(* and PredictHandler, composed as router.go composes them.  Keys are used *)
(* through what KeyRegistry promises, which APIKeys implements; limiter    *)
(* and handler are RateLimiter and Predict as they are.                    *)
(*                                                                         *)
(* What flows between them is the request's context: the identity that     *)
(* APIKeyAuth found, which nobody looks up again, and one deadline.        *)
(***************************************************************************)
EXTENDS Integers, FiniteSets

CONSTANTS
    Users, Keys, BogusKey, Ids, Rates,      \* as in KeyRegistry
    Grace,        \* how long after its revocation a key may be honoured
    ReqTimeout,   \* middleware.Timeout
    Window,       \* PREDICT_RATE_WINDOW
    Procs,        \* request goroutines
    MaxRequests,  \* bound on the requests
    MaxTime,      \* bound on the clock
    None

VARIABLES
    minted, known, revokedAt, verdict,                        \* the keys
    counters, limiterPc, limiterReq, counted, served, wasted, \* the limiter
    apiKeys, logs, handlerPc, handlerReq, handled, vendor,    \* the handler
    now,
    stage,   \* where each request is: with whom
    place,   \* the place in a window that the limiter gave it
    scored   \* history: the requests that reached the vendor

keyVars == <<minted, known, revokedAt, verdict>>
limiterVars == <<counters, limiterPc, limiterReq, counted, served, wasted>>
handlerVars == <<apiKeys, logs, handlerPc, handlerReq, handled, vendor>>
vars == <<keyVars, limiterVars, handlerVars, now, stage, place, scored>>

Registry == INSTANCE KeyRegistry

Endpoint == "/v1/fraud/predict"

(* Without faults of their own: what they do then is shown for each alone. *)
Limiter ==
    INSTANCE RateLimiter WITH
        Identities <- [user : Users, apiKey : Ids, rate : Rates],
        Endpoints <- {Endpoint}, JwtLimit <- 2, TPS <- 1, Retries <- 0,
        MaxSkew <- 0, Faulty <- FALSE,
        pc <- limiterPc, req <- limiterReq, sent <- counted

(* 1600 is the amount 1.00, with six significant bits. *)
Handler ==
    INSTANCE Predict WITH
        KeyIds <- Ids, Amounts <- {1600}, Precision <- 6, MaxExp <- 1,
        Faulty <- FALSE, pc <- handlerPc, req <- handlerReq, sent <- handled

(* Rows of the users and api_keys tables have numbers, and rates are numbers.
   A key is honoured at least until a request that it was valid for is over;
   Grace is TTL + 2 * ReqTimeout for APIKeys. *)
ASSUME ServiceAssumption ==
    /\ Users \subseteq Nat /\ Ids \subseteq Nat /\ Rates \subseteq Nat
    /\ Window \in Nat \ {0} /\ MaxTime \in Nat /\ IsFiniteSet(Procs)
    /\ ReqTimeout \in Nat /\ Grace \in Nat /\ ReqTimeout <= Grace
    /\ None \notin Nat /\ None \notin Limiter!Counter /\ None \notin Limiter!Served

Bodies == {[kind |-> "valid", amount |-> 1600], [kind |-> "invalid", amount |-> 0]}

(* Every id has been issued under its own key, and the clients hold them. *)
Init ==
    /\ \E key \in [Ids -> Keys], user \in [Ids -> Users], rate \in [Ids -> Rates] :
         /\ \A i, j \in Ids : key[i] = key[j] => i = j
         /\ minted = [i \in Ids |-> [key |-> key[i], user |-> user[i],
                                     rate |-> rate[i]]]
    /\ known = {minted[i].key : i \in Ids}
    /\ revokedAt = [i \in Ids |-> Registry!Never]
    /\ verdict = [p \in Procs |-> None]
    /\ Limiter!Init /\ Handler!Init
    /\ stage = [p \in Procs |-> "none"]
    /\ place = [p \in Procs |-> None]
    /\ scored = {}

Pass(p, from, to) == stage[p] = from /\ stage' = [stage EXCEPT ![p] = to]

-----------------------------------------------------------------------------
(* Keys are revoked.                                                       *)

(* DELETE /v1/apikeys/{id}; the key may have been deactivated before. *)
DeleteKey(i) ==
    /\ Handler!DeleteKey(i)
    /\ Registry!Revoke(i) \/ (revokedAt[i] # Registry!Never /\ UNCHANGED keyVars)
    /\ UNCHANGED <<limiterVars, now, stage, place, scored>>

DeactivateKey(i) ==
    /\ Registry!Revoke(i)
    /\ UNCHANGED <<limiterVars, handlerVars, stage, place, scored>>

-----------------------------------------------------------------------------
(* The way of a request.                                                   *)

(* APIKeyAuth, with the deadline the request has by then. *)
Authenticate(p, i, t) ==
    /\ counted + Cardinality({q \in Procs : stage[q] = "authenticated"}) < MaxRequests
    /\ Registry!Admit(p, i, t)
    /\ Pass(p, "none", "authenticated")
    /\ UNCHANGED <<limiterVars, handlerVars, place, scored>>

(* Seeded fault: the rate of the key is left out. *)
IdentityWithoutRate(p) ==
    [user |-> verdict[p].user, apiKey |-> verdict[p].id, rate |-> None]

(* The identity in the context. *)
Identity(p) ==
    [user |-> verdict[p].user, apiKey |-> verdict[p].id, rate |-> verdict[p].rate]

EnterLimiter(p) ==
    /\ Pass(p, "authenticated", "limiter")
    /\ Limiter!ReadClock(p, Identity(p), Endpoint, now, verdict[p].until)
    /\ UNCHANGED <<keyVars, handlerVars, place, scored>>

(* Its calls; the last one gives the request a place, or an answer. *)
LimiterStep(p) ==
    /\ Limiter!Incr(p) \/ Limiter!Decide(p)
    /\ place' = [place EXCEPT ![p] =
          IF served' = served THEN @ ELSE CHOOSE s \in served' : s \notin served]
    /\ UNCHANGED <<keyVars, handlerVars, stage, scored>>

(* Seeded fault: next.ServeHTTP is called after the 429, too. *)
LetThroughAlways(p) == limiterReq[p].status \in {"admitted", "429"}

(* next.ServeHTTP is called. *)
LetThrough(p) == limiterReq[p].status = "admitted"

EnterHandler(p, b) ==
    /\ limiterPc[p] = "idle" /\ LetThrough(p)
    /\ Pass(p, "limiter", "handler")
    /\ Handler!Start(p, verdict[p].id, b)
    /\ UNCHANGED <<keyVars, limiterVars, now, place, scored>>

(* PredictHandler; scored keeps who got a score, when and on which place. *)
HandlerStep(p) ==
    /\ stage[p] = "handler"
    /\ \/ Handler!ReadBody(p) \/ Handler!CallVendor(p)
       \/ Handler!SaveLog(p) \/ Handler!ContextEnds(p)
    /\ scored' = IF vendor' = vendor THEN scored
                 ELSE scored \cup {[no |-> handlerReq[p].no,
                                    id |-> handlerReq[p].key, at |-> now,
                                    place |-> place[p]]}
    /\ UNCHANGED <<keyVars, limiterVars, now, stage, place>>

(* The answer is given, by the limiter or by the handler, and the locals of
   the request are gone. *)
Answer(p) ==
    /\ \/ /\ stage[p] = "limiter" /\ limiterPc[p] = "idle"
          /\ ~LetThrough(p)
       \/ stage[p] = "handler" /\ handlerPc[p] = "idle"
    /\ Registry!Forget(p)
    /\ stage' = [stage EXCEPT ![p] = "none"]
    /\ place' = [place EXCEPT ![p] = None]
    /\ limiterReq' = [limiterReq EXCEPT ![p] = Limiter!NoRequest]
    /\ handlerReq' = [handlerReq EXCEPT ![p] = Handler!NoRequest]
    /\ UNCHANGED <<counters, limiterPc, counted, served, wasted, apiKeys, logs,
                   handlerPc, handled, vendor, scored>>

(* Seeded fault: the vendor is called with a context of its own. *)
OutOfTimeNever(p) == FALSE

(* The deadline has come and the context has not ended yet. *)
OutOfTime(p) ==
    /\ handlerPc[p] # "idle" /\ handlerReq[p].ctx
    /\ now >= verdict[p].until

BetweenCalls(p) == stage[p] = "limiter" /\ limiterPc[p] = "idle"

(* Contexts end in time, and no time passes between limiter and handler. *)
Tick ==
    /\ \A p \in Procs : ~OutOfTime(p) /\ ~BetweenCalls(p)
    /\ Registry!Tick /\ Limiter!Tick
    /\ UNCHANGED <<handlerVars, stage, place, scored>>

Next ==
    \/ \E i \in Ids : DeleteKey(i) \/ DeactivateKey(i)
    \/ \E p \in Procs :
         \/ \E i \in Ids, t \in now .. now + ReqTimeout : Authenticate(p, i, t)
         \/ EnterLimiter(p) \/ LimiterStep(p)
         \/ \E b \in Bodies : EnterHandler(p, b)
         \/ HandlerStep(p) \/ Answer(p)
    \/ Tick

Spec == Init /\ [][Next]_vars
-----------------------------------------------------------------------------
(* Properties.                                                             *)

(* Nobody looks the key up again after APIKeyAuth, yet the vendor scores
   nothing for a revoked key later than the grace of its cache entries: all
   that follows runs under the deadline of the request. *)
NoLateScore ==
    \A s \in scored :
        revokedAt[s.id] # Registry!Never => s.at <= revokedAt[s.id] + Grace

(* A score has a place of its own, in a window of its own key, and a window
   has no more of them, counted on time, than the rate that was stored when
   that key was created. *)
ScoredWithinRate ==
    \A s \in scored :
        /\ s.place # None /\ s.place.key[1] = <<"apikey", s.id>>
        /\ \A r \in scored : r.place = s.place => r = s
        /\ Cardinality({r \in scored : /\ r.place.key = s.place.key
                                       /\ Limiter!OnTime(r.place)})
             <= minted[s.id].rate

(* Every row of inference_logs, also that of a request that was not valid and
   never reached the vendor, was paid for with a place: the handler runs for
   no request that the limiter answered. *)
RowsOfPlaces ==
    \A i \in Ids :
        Cardinality({l \in logs : l.by = i}) <=
            Cardinality({s \in served : s.key[1] = <<"apikey", i>>})
=============================================================================
