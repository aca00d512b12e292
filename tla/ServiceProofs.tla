--------------------------- MODULE ServiceProofs ---------------------------
(***************************************************************************)
(* The properties of the composition, for all values of the constants.     *)
(* What APIKeyAuth hands on (identity and deadline) and what the limiter   *)
(* hands on (a place) is followed through the request, beside the counters *)
(* that the places come from and the rows that are paid with them.         *)
(***************************************************************************)
EXTENDS Service, FunctionTheorems, FiniteSetTheorems, TLAPS

-----------------------------------------------------------------------------
(* The invariant.                                                          *)

Verdicts == [answer : {"admitted"}, id : Ids, key : Keys, user : Users,
             rate : Rates, until : Nat]

ValidBodies == {b \in Bodies : b.kind = "valid"}

Payloads == Bodies \cup {Handler!LoggedFeatures(b) : b \in ValidBodies} \cup {None}

HandlerRequest ==
    [no : Nat, key : Ids \cup {None}, body : Bodies \cup {None}, ctx : BOOLEAN,
     payload : Payloads, response : BOOLEAN, status : Handler!Statuses,
     dbFailed : BOOLEAN]

Rows == [no : Nat, by : Ids, key : Ids \cup {None}, payload : Payloads,
         response : BOOLEAN, error : BOOLEAN]

Scores == [no : Nat, id : Ids, at : Nat, place : Limiter!Served]

KeysType ==
    /\ minted \in [Ids -> [key : Keys, user : Users, rate : Rates]]
    /\ revokedAt \in [Ids -> Nat \cup {-1}]
    /\ verdict \in [Procs -> Verdicts \cup {None}]
    /\ now \in Nat /\ now <= MaxTime

LimiterType ==
    /\ counters \in [Limiter!CounterKeys -> Limiter!Counter \cup {None}]
    /\ limiterPc \in [Procs -> {"idle", "incr", "ttl"}]
    /\ limiterReq \in [Procs -> Limiter!Request]
    /\ counted \in Nat /\ served \subseteq Limiter!Served

HandlerType ==
    /\ logs \subseteq Rows
    /\ handlerPc \in [Procs -> {"idle", "body", "predict", "log"}]
    /\ handlerReq \in [Procs -> HandlerRequest] /\ handled \in Nat

FlowType ==
    /\ stage \in [Procs -> {"none", "authenticated", "limiter", "handler"}]
    /\ place \in [Procs -> Limiter!Served \cup {None}]
    /\ scored \subseteq Scores

(* The counter of a key. *)
Of(k, i) == k[1] = <<"apikey", i>>

(* The limiter has let the request through, and no answer was given. *)
Seated(p) == (BetweenCalls(p) /\ LetThrough(p)) \/ handlerPc[p] # "idle"

(* Its place has not been used for a score. *)
Unscored(p) == Seated(p) /\ handlerPc[p] # "log"

(* Who has an identity; where the calls of a request are made; what they are
   made with. *)
FlowInv ==
    /\ \A p \in Procs : stage[p] # "none" => verdict[p] \in Verdicts
    /\ \A p \in Procs : limiterPc[p] # "idle" =>
         /\ stage[p] = "limiter" /\ handlerPc[p] = "idle"
         /\ limiterReq[p].key \in Limiter!CounterKeys
         /\ Of(limiterReq[p].key, verdict[p].id) /\ limiterReq[p].key[3] <= now
         /\ limiterReq[p].limit = verdict[p].rate
         /\ limiterReq[p].deadline = verdict[p].until
    /\ \A p \in Procs : handlerPc[p] # "idle" =>
         /\ stage[p] = "handler" /\ handlerReq[p].key = verdict[p].id
         /\ handlerReq[p].body \in Bodies
         /\ handlerPc[p] = "predict" => handlerReq[p].body \in ValidBodies

(* An identity is that of a key as it was issued, and within the grace of its
   revocation; so is the time at which a request that still can reaches the
   vendor. *)
KeyInv ==
    /\ \A p \in Procs : stage[p] # "none" =>
         /\ verdict[p].rate = minted[verdict[p].id].rate
         /\ verdict[p].until <= now + ReqTimeout
         /\ revokedAt[verdict[p].id] # -1 =>
              verdict[p].until <= revokedAt[verdict[p].id] + Grace
    /\ \A i \in Ids : revokedAt[i] <= now
    /\ \A p \in Procs :
         (Seated(p) /\ (handlerPc[p] = "idle" \/ handlerReq[p].ctx)) =>
             now <= verdict[p].until
    /\ \A s \in scored : s.at <= now
    /\ NoLateScore

(* Requests have numbers of their own. *)
NumbersInv ==
    /\ IsFiniteSet(served)
    /\ \A p \in Procs : limiterPc[p] # "idle" => limiterReq[p].no <= counted
    /\ \A p, q \in Procs : (p # q /\ limiterPc[p] # "idle" /\ limiterPc[q] # "idle") =>
         limiterReq[p].no # limiterReq[q].no
    /\ \A s \in served : s.no <= counted
    /\ \A s \in served, p \in Procs : limiterPc[p] # "idle" => s.no # limiterReq[p].no

(* What was drawn from the counters. *)
Draw(p) == [no |-> limiterReq[p].no, key |-> limiterReq[p].key,
            limit |-> limiterReq[p].limit, current |-> limiterReq[p].current,
            at |-> limiterReq[p].at]

Draws == served \cup {Draw(p) : p \in {q \in Procs : limiterPc[q] = "ttl"}}

EndOf(d) == Limiter!WindowEnd(d.key[3])

(* A counter outlives its window, and what is drawn from it within the window
   is drawn once. *)
WindowInv ==
    /\ \A k \in Limiter!CounterKeys : counters[k] # None =>
         now <= counters[k].exp /\ Limiter!WindowEnd(k[3]) <= counters[k].exp
    /\ \A d \in Draws : d.at < EndOf(d) =>
         /\ d.at <= now
         /\ now < EndOf(d) => counters[d.key] # None /\ d.current <= counters[d.key].n
    /\ \A d, e \in Draws :
         (/\ d.key = e.key /\ d.current = e.current
          /\ d.at < EndOf(d) /\ e.at < EndOf(e)) => d = e
    /\ \A p \in Procs : limiterPc[p] = "ttl" => limiterReq[p].current >= 1
    /\ \A s \in served : s.current \in 1..s.limit
    /\ \A s \in served, i \in Ids : Of(s.key, i) => s.limit = minted[i].rate

(* Places are kept apart, and used for one score. *)
PlaceInv ==
    /\ \A p \in Procs : Seated(p) => place[p] \in served /\ Of(place[p].key, verdict[p].id)
    /\ \A p, q \in Procs : (p # q /\ Unscored(p) /\ Unscored(q)) => place[p] # place[q]
    /\ \A p \in Procs, s \in scored : Unscored(p) => s.place # place[p]
    /\ \A s \in scored : s.place \in served /\ Of(s.place.key, s.id)
    /\ \A r, s \in scored : r.place = s.place => r = s

(* Rows and the requests that may still write one have a place each. *)
RowsBy(i) == {l \in logs : l.by = i}

Writers(i) == {p \in Procs : Seated(p) /\ verdict[p].id = i}

PlacesOf(i) == {s \in served : Of(s.key, i)}

RowsInv ==
    /\ IsFiniteSet(logs)
    /\ \A i \in Ids :
         Cardinality(RowsBy(i)) + Cardinality(Writers(i)) <= Cardinality(PlacesOf(i))

IInv ==
    /\ KeysType /\ LimiterType /\ HandlerType /\ FlowType
    /\ FlowInv /\ KeyInv /\ NumbersInv /\ WindowInv /\ PlaceInv /\ RowsInv

-----------------------------------------------------------------------------
(* What the steps do, with the definitions of the components spelt out.    *)

(* The calls of the limiter, the handler and APIKeyAuth are made one by one. *)
Others(p) ==
    \A q \in Procs \ {p} :
        /\ stage'[q] = stage[q] /\ verdict'[q] = verdict[q] /\ place'[q] = place[q]
        /\ limiterPc'[q] = limiterPc[q] /\ limiterReq'[q] = limiterReq[q]
        /\ handlerPc'[q] = handlerPc[q] /\ handlerReq'[q] = handlerReq[q]

Types == KeysType /\ LimiterType /\ HandlerType /\ FlowType

(* A key is deactivated, or deleted; its rows are kept. *)
Unnamed(l, i) == IF l.key = i THEN [l EXCEPT !.key = None] ELSE l

(* Revoking a key touches the registry, and at most the keys in the rows. *)
LEMMA RevokeFacts ==
    ASSUME NEW i \in Ids, DeleteKey(i) \/ DeactivateKey(i)
    PROVE  /\ UNCHANGED <<minted, verdict, limiterVars, handlerPc, handlerReq, handled,
                          now, stage, place, scored>>
           /\ \/ revokedAt' = revokedAt
              \/ revokedAt[i] = -1 /\ revokedAt' = [revokedAt EXCEPT ![i] = now]
           /\ logs' = logs \/ logs' = {Unnamed(l, i) : l \in logs}
BY DEF DeleteKey, DeactivateKey, Registry!Revoke, Registry!Never, Handler!DeleteKey,
       keyVars, limiterVars, handlerVars, Unnamed

(* APIKeyAuth lets a request in with the key's identity and a deadline. *)
LEMMA AuthenticateFacts ==
    ASSUME Types, NEW p \in Procs, NEW i \in Ids, NEW t \in now .. now + ReqTimeout,
           Authenticate(p, i, t)
    PROVE  /\ UNCHANGED <<minted, revokedAt, limiterVars, handlerVars, now, place, scored>>
           /\ stage[p] = "none" /\ stage'[p] = "authenticated"
           /\ Others(p) /\ verdict'[p] \in Verdicts
           /\ verdict'[p].id = i /\ verdict'[p].rate = minted[i].rate
           /\ verdict'[p].until = t
           /\ revokedAt[i] # -1 => t <= revokedAt[i] + Grace
           /\ KeysType' /\ FlowType'
<1> DEFINE v == Registry!Admitted(i, t)
<1>1. minted[i] \in [key : Keys, user : Users, rate : Rates] /\ t \in Nat
  BY ServiceAssumption DEF Types, KeysType
<1>2. v \in Verdicts /\ v.id = i /\ v.rate = minted[i].rate /\ v.until = t
  BY <1>1 DEF Registry!Admitted, Verdicts
<1>3. /\ verdict' = [verdict EXCEPT ![p] = v]
      /\ stage[p] = "none" /\ stage' = [stage EXCEPT ![p] = "authenticated"]
      /\ UNCHANGED <<minted, revokedAt, limiterVars, handlerVars, now, place, scored>>
      /\ revokedAt[i] # -1 => t <= revokedAt[i] + Grace
  BY DEF Authenticate, Registry!Admit, Registry!Never, Pass
<1> HIDE DEF v
<1>4. verdict'[p] = v /\ stage'[p] = "authenticated" /\ Others(p)
  BY <1>3 DEF Types, KeysType, FlowType, Others, limiterVars, handlerVars
<1>5. KeysType' /\ FlowType'
  BY <1>2, <1>3 DEF Types, KeysType, FlowType
<1> QED BY <1>2, <1>3, <1>4, <1>5

(* With one tick to the second, a window starts at a multiple of its length. *)
LEMMA WindowFacts ==
    ASSUME NEW t \in Nat
    PROVE  /\ Limiter!WindowStart(t) \in Nat /\ Limiter!WindowStart(t) <= t
           /\ t < Limiter!WindowEnd(Limiter!WindowStart(t))
<1>1. t % Window \in 0..(Window - 1)
  BY ServiceAssumption
<1>2. \A x \in Int : x \div 1 = x /\ x * 1 = x
  OBVIOUS
<1>3. t - (t % Window) \in Nat
  <2>1. t % Window <= t
    BY ServiceAssumption
  <2> QED BY <1>1, <2>1, ServiceAssumption
<1>4. Limiter!WindowStart(t) = t - (t % Window)
  BY <1>2, <1>3 DEF Limiter!WindowStart
<1>5. Limiter!WindowEnd(Limiter!WindowStart(t)) = t - (t % Window) + Window
  BY <1>2, <1>3, <1>4 DEF Limiter!WindowEnd
<1> QED BY <1>1, <1>3, <1>4, <1>5, ServiceAssumption

(* The windows of the counters. *)
LEMMA KeyFacts ==
    ASSUME NEW k \in Limiter!CounterKeys
    PROVE  /\ k[3] \in Nat /\ Limiter!WindowEnd(k[3]) = k[3] + Window
           /\ Limiter!WindowEnd(k[3]) \in Nat
<1>1. k[3] \in {Limiter!WindowStart(t) : t \in 0..(MaxTime + 0)}
  BY DEF Limiter!CounterKeys
<1>2. k[3] \in Nat
  BY <1>1, WindowFacts, ServiceAssumption
<1> QED BY <1>2, ServiceAssumption DEF Limiter!WindowEnd

(* The limiter takes limit and counter from the identity and the clock. *)
LEMMA EnterLimiterFacts ==
    ASSUME Types, FlowInv, NEW p \in Procs, EnterLimiter(p)
    PROVE  /\ UNCHANGED <<keyVars, handlerVars, now, place, scored, counters, served>>
           /\ stage[p] = "authenticated" /\ stage'[p] = "limiter" /\ Others(p)
           /\ limiterPc[p] = "idle" /\ limiterPc'[p] = "incr" /\ counted' = counted + 1
           /\ limiterReq'[p].no = counted + 1 /\ limiterReq'[p].limit = verdict[p].rate
           /\ limiterReq'[p].key \in Limiter!CounterKeys
           /\ Of(limiterReq'[p].key, verdict[p].id) /\ limiterReq'[p].key[3] <= now
           /\ limiterReq'[p].deadline = verdict[p].until
           /\ limiterReq'[p].status = "pending"
           /\ LimiterType' /\ FlowType'
<1> DEFINE i == Identity(p)
           k == <<Limiter!Identifier(i), Endpoint, Limiter!WindowStart(now)>>
<1>1. /\ stage[p] = "authenticated" /\ stage' = [stage EXCEPT ![p] = "limiter"]
      /\ UNCHANGED <<keyVars, handlerVars, now, place, scored, counters, served>>
      /\ limiterPc[p] = "idle" /\ counted' = counted + 1
      /\ limiterPc' = [limiterPc EXCEPT ![p] = "incr"]
      /\ limiterReq' = [limiterReq EXCEPT ![p] =
           [Limiter!NoRequest EXCEPT !.no = counted + 1, !.limit = Limiter!Limit(i),
                !.key = k, !.deadline = verdict[p].until, !.status = "pending"]]
  BY DEF EnterLimiter, Pass, Limiter!ReadClock
<1>2. verdict[p] \in Verdicts
  BY <1>1 DEF FlowInv
<1>3. /\ verdict[p].id \in Ids /\ verdict[p].user \in Users /\ verdict[p].rate \in Rates
      /\ verdict[p].id # None /\ verdict[p].rate # None /\ verdict[p].rate \in Nat
      /\ verdict[p].until \in Nat
  BY <1>2, ServiceAssumption DEF Verdicts
<1>4. /\ i \in [user : Users, apiKey : Ids, rate : Rates]
      /\ i.apiKey = verdict[p].id /\ i.rate = verdict[p].rate
  BY <1>3 DEF Identity
<1> HIDE DEF i
<1>5. /\ Limiter!Identifier(i) = <<"apikey", verdict[p].id>>
      /\ Limiter!Limit(i) = verdict[p].rate
  BY <1>3, <1>4 DEF Limiter!Identifier, Limiter!Limit
<1>6. now \in Nat /\ now <= MaxTime /\ counted \in Nat
  BY DEF Types, KeysType, LimiterType
<1>7. Limiter!WindowStart(now) \in {Limiter!WindowStart(t) : t \in 0..(MaxTime + 0)}
  BY <1>6, ServiceAssumption
<1>8. k \in Limiter!CounterKeys
  BY <1>4, <1>7 DEF Limiter!CounterKeys
<1>9. k[1] = <<"apikey", verdict[p].id>> /\ k[3] = Limiter!WindowStart(now)
  BY <1>5
<1>10. k[3] <= now
  BY <1>6, <1>9, WindowFacts
<1> HIDE DEF k
<1>11. PICK r : r = [Limiter!NoRequest EXCEPT !.no = counted + 1,
                       !.limit = Limiter!Limit(i), !.key = k,
                       !.deadline = verdict[p].until, !.status = "pending"]
  OBVIOUS
<1>12. r = [no |-> counted + 1, limit |-> Limiter!Limit(i), key |-> k,
            deadline |-> verdict[p].until, tries |-> 0, current |-> 0, at |-> 0,
            retryAfter |-> 0, status |-> "pending"]
  BY <1>11 DEF Limiter!NoRequest
<1>13. r.no = counted + 1 /\ r.limit = Limiter!Limit(i) /\ r.key = k
       /\ r.deadline = verdict[p].until /\ r.status = "pending"
  BY <1>12
<1>14. r \in Limiter!Request
  BY <1>3, <1>5, <1>6, <1>8, <1>12 DEF Limiter!Request
<1>15. limiterReq' = [limiterReq EXCEPT ![p] = r]
  BY <1>1, <1>11
<1>16. limiterReq'[p] = r /\ limiterPc'[p] = "incr" /\ stage'[p] = "limiter" /\ Others(p)
  BY <1>1, <1>15 DEF Types, LimiterType, FlowType, Others, keyVars, handlerVars
<1>17. LimiterType' /\ FlowType'
  BY <1>1, <1>14, <1>15 DEF Types, LimiterType, FlowType
<1> QED BY <1>1, <1>5, <1>8, <1>9, <1>10, <1>16, <1>17, <1>13 DEF Of

(* The script runs for p: the counter is new and lives for a window, or it
   has one more. *)
Counts(p) ==
    LET k == limiterReq[p].key IN
    /\ limiterPc[p] = "incr" /\ limiterPc'[p] = "ttl"
    /\ limiterReq'[p] = [limiterReq[p] EXCEPT !.current = Limiter!NextValue(k), !.at = now]
    /\ \A j \in Limiter!CounterKeys \ {k} : counters'[j] = counters[j]
    /\ counters[k] # None =>
         /\ counters'[k] # None /\ counters'[k].n = counters[k].n + 1
         /\ counters'[k].exp = counters[k].exp
    /\ counters[k] = None =>
         counters'[k] # None /\ counters'[k].n = 1 /\ counters'[k].exp = now + Window
    /\ UNCHANGED <<served, place>>

(* p is refused, or out of time. *)
Refuses(p) ==
    /\ limiterPc[p] # "idle" /\ limiterPc'[p] = "idle"
    /\ limiterReq'[p].status \in {"429", "500"}
    /\ UNCHANGED <<counters, served, place>>

(* p is let through, on a place that it takes with it. *)
Seats(p) ==
    /\ limiterPc[p] = "ttl" /\ limiterPc'[p] = "idle"
    /\ now <= limiterReq[p].deadline /\ limiterReq[p].current <= limiterReq[p].limit
    /\ limiterReq'[p].status = "admitted"
    /\ Draw(p) \notin served /\ served' = served \cup {Draw(p)} /\ place'[p] = Draw(p)
    /\ UNCHANGED counters

(* EXPIRE is given the window. *)
LEMMA ScriptFacts ==
    ASSUME Types, NEW k \in Limiter!CounterKeys, Limiter!Script(k)
    PROVE  /\ counters' \in [Limiter!CounterKeys -> Limiter!Counter \cup {None}]
           /\ \A j \in Limiter!CounterKeys \ {k} : counters'[j] = counters[j]
           /\ counters[k] # None =>
                /\ counters'[k] # None /\ counters'[k].n = counters[k].n + 1
                /\ counters'[k].exp = counters[k].exp
           /\ counters[k] = None =>
                /\ counters'[k] # None /\ counters'[k].n = 1
                /\ counters'[k].exp = now + Window
<1>1. now \in Nat /\ counters \in [Limiter!CounterKeys -> Limiter!Counter \cup {None}]
  BY DEF Types, KeysType, LimiterType
<1>2. Limiter!ExpireSeconds = Window
  <2>1. \A x \in Int : x \div 1 = x
    OBVIOUS
  <2> QED BY <2>1, ServiceAssumption DEF Limiter!ExpireSeconds
<1>3. PICK c : c = IF counters[k] # None
                   THEN [n |-> counters[k].n + 1, exp |-> counters[k].exp]
                   ELSE [n |-> 1, exp |-> now + Window]
  OBVIOUS
<1>4. counters' = [counters EXCEPT ![k] = c]
  <2>1. counters' = [counters EXCEPT ![k] =
          IF counters[k] # None THEN [n |-> counters[k].n + 1, exp |-> counters[k].exp]
          ELSE IF Window = 0 THEN None ELSE [n |-> 1, exp |-> now + Window * 1]]
    BY <1>2 DEF Limiter!Script
  <2>2. Window # 0 /\ Window * 1 = Window
    BY ServiceAssumption
  <2> QED BY <1>3, <2>1, <2>2
<1>5. CASE counters[k] # None
  <2>1. counters[k] \in Limiter!Counter
        /\ c = [n |-> counters[k].n + 1, exp |-> counters[k].exp]
    BY <1>1, <1>3, <1>5
  <2>2. c \in Limiter!Counter /\ c.n = counters[k].n + 1 /\ c.exp = counters[k].exp
    BY <2>1 DEF Limiter!Counter
  <2> QED BY <1>1, <1>4, <1>5, <2>2, ServiceAssumption
<1>6. CASE counters[k] = None
  <2>1. c \in Limiter!Counter /\ c.n = 1 /\ c.exp = now + Window
    BY <1>1, <1>3, <1>6, ServiceAssumption DEF Limiter!Counter
  <2> QED BY <1>1, <1>4, <1>6, <2>1, ServiceAssumption
<1> QED BY <1>5, <1>6

(* The steps of the limiter that follow: it takes no other. *)
LEMMA LimiterStepFacts ==
    ASSUME Types, FlowInv, KeyInv, NumbersInv, WindowInv, NEW p \in Procs, LimiterStep(p)
    PROVE  /\ UNCHANGED <<keyVars, handlerVars, now, stage, scored, counted>> /\ Others(p)
           /\ LimiterType' /\ FlowType'
           /\ Counts(p) \/ Refuses(p) \/ Seats(p)
<1> DEFINE k == limiterReq[p].key
<1>1. /\ limiterReq \in [Procs -> Limiter!Request] /\ limiterReq[p] \in Limiter!Request
      /\ limiterPc \in [Procs -> {"idle", "incr", "ttl"}] /\ counted \in Nat
      /\ place \in [Procs -> Limiter!Served \cup {None}] /\ served \subseteq Limiter!Served
      /\ counters \in [Limiter!CounterKeys -> Limiter!Counter \cup {None}] /\ now \in Nat
  BY DEF Types, LimiterType, FlowType, KeysType
<1>2. limiterPc[p] # "idle" /\ k \in Limiter!CounterKeys
  <2>1. limiterPc[p] # "idle"
    BY DEF LimiterStep, Limiter!Incr, Limiter!Decide
  <2> QED BY <2>1 DEF FlowInv
<1>3. /\ UNCHANGED <<keyVars, handlerVars, now, stage, scored, counted>>
      /\ Limiter!Incr(p) \/ Limiter!Decide(p)
      /\ place' = [place EXCEPT ![p] =
           IF served' = served THEN place[p] ELSE CHOOSE s \in served' : s \notin served]
  BY DEF LimiterStep, Limiter!Incr, Limiter!Decide
<1>4. ASSUME NEW x \in {"idle", "incr", "ttl"}, NEW r \in Limiter!Request,
             limiterPc' = [limiterPc EXCEPT ![p] = x],
             limiterReq' = [limiterReq EXCEPT ![p] = r]
      PROVE  /\ limiterPc'[p] = x /\ limiterReq'[p] = r /\ Others(p)
             /\ limiterPc' \in [Procs -> {"idle", "incr", "ttl"}]
             /\ limiterReq' \in [Procs -> Limiter!Request]
  BY <1>1, <1>3, <1>4 DEF Others, keyVars, handlerVars
<1>5. ASSUME served' = served PROVE place' = place
  BY <1>1, <1>3, <1>5
<1>6. CASE /\ limiterPc[p] = "incr" /\ Limiter!Script(k)
           /\ limiterPc' = [limiterPc EXCEPT ![p] = "ttl"]
           /\ limiterReq' = [limiterReq EXCEPT ![p].current = Limiter!NextValue(k),
                                               ![p].at = now]
           /\ UNCHANGED served
  <2>1. PICK r : r = [limiterReq[p] EXCEPT !.current = Limiter!NextValue(k), !.at = now]
    OBVIOUS
  <2>2. Limiter!NextValue(k) \in Nat
    BY <1>1, <1>2 DEF Limiter!NextValue, Limiter!Counter
  <2>3. r \in Limiter!Request
    BY <1>1, <2>1, <2>2 DEF Limiter!Request
  <2>4. limiterReq' = [limiterReq EXCEPT ![p] = r]
    BY <1>1, <1>6, <2>1
  <2>5. Counts(p) /\ counters' \in [Limiter!CounterKeys -> Limiter!Counter \cup {None}]
    BY <1>2, <1>4, <1>5, <1>6, <2>1, <2>3, <2>4, ScriptFacts DEF Counts
  <2> QED BY <1>1, <1>3, <1>4, <1>5, <1>6, <2>3, <2>4, <2>5 DEF LimiterType, FlowType, Types
<1>7. ASSUME NEW r \in Limiter!Request, r.status \in {"429", "500"},
             limiterPc' = [limiterPc EXCEPT ![p] = "idle"],
             limiterReq' = [limiterReq EXCEPT ![p] = r], UNCHANGED <<counters, served>>
      PROVE  Refuses(p) /\ Others(p) /\ LimiterType' /\ FlowType'
  BY <1>1, <1>2, <1>3, <1>4, <1>5, <1>7 DEF Refuses, LimiterType, FlowType, Types
<1>8. ASSUME Limiter!Finish(p, Limiter!Status("500")), UNCHANGED <<counters, served>>
      PROVE  Refuses(p) /\ Others(p) /\ LimiterType' /\ FlowType'
  <2>1. PICK r : r = Limiter!Status("500")
    OBVIOUS
  <2>2. r \in Limiter!Request /\ r.status = "500"
    BY <2>1 DEF Limiter!Status, Limiter!NoRequest, Limiter!Request
  <2> QED BY <1>7, <1>8, <2>1, <2>2 DEF Limiter!Finish
<1>9. CASE /\ limiterPc[p] = "ttl" /\ UNCHANGED <<counters, served>>
           /\ Limiter!Finish(p, Limiter!TooMany(p, Limiter!TTLSeconds(k)))
  <2>1. Limiter!TTLSeconds(k) \in Nat
    <3>1. CASE counters[k] = None
      BY <3>1 DEF Limiter!TTLSeconds
    <3>2. CASE counters[k] # None
      <4>1. counters[k].exp \in Nat /\ now <= counters[k].exp
        BY <1>1, <1>2, <3>2 DEF WindowInv, Limiter!Counter
      <4>2. counters[k].exp - now + 1 \div 2 \in Nat
        BY <1>1, <4>1
      <4>3. \A x \in Nat : x \div 1 \in Nat
        OBVIOUS
      <4> QED BY <3>2, <4>2, <4>3 DEF Limiter!TTLSeconds
    <3> QED BY <3>1, <3>2
  <2>2. PICK r : r = Limiter!TooMany(p, Limiter!TTLSeconds(k))
    OBVIOUS
  <2>3. /\ limiterReq[p].key \in Limiter!CounterKeys \cup {None}
        /\ limiterReq[p].limit \in Nat
    BY <1>1 DEF Limiter!Request
  <2>4. r = [no |-> 0, limit |-> limiterReq[p].limit, key |-> limiterReq[p].key,
             deadline |-> 0, tries |-> 0, current |-> 0, at |-> now,
             retryAfter |-> Limiter!TTLSeconds(k), status |-> "429"]
    BY <2>2 DEF Limiter!TooMany, Limiter!NoRequest
  <2>5. r \in Limiter!Request /\ r.status = "429"
    BY <1>1, <2>1, <2>3, <2>4 DEF Limiter!Request
  <2> QED BY <1>3, <1>7, <1>9, <2>2, <2>5 DEF Limiter!Finish
<1>10. CASE /\ limiterPc[p] = "ttl" /\ Limiter!CanCall(p) /\ ~Limiter!Exceeded(p)
            /\ Limiter!Finish(p, Limiter!Status("admitted"))
            /\ served' = served \cup {Draw(p)} /\ UNCHANGED counters
  <2>1. PICK r : r = Limiter!Status("admitted")
    OBVIOUS
  <2>2. r \in Limiter!Request /\ r.status = "admitted"
    BY <2>1 DEF Limiter!Status, Limiter!NoRequest, Limiter!Request
  <2>3. Draw(p) \in Limiter!Served /\ Draw(p).no = limiterReq[p].no
    BY <1>1, <1>2 DEF Draw, Limiter!Served, Limiter!Request
  <2>4. Draw(p) \notin served
    BY <1>2, <2>3 DEF NumbersInv
  <2>5. /\ limiterPc'[p] = "idle" /\ limiterReq'[p] = r /\ Others(p)
        /\ limiterPc' \in [Procs -> {"idle", "incr", "ttl"}]
        /\ limiterReq' \in [Procs -> Limiter!Request]
    BY <1>4, <1>10, <2>1, <2>2 DEF Limiter!Finish
  <2>6. (CHOOSE s \in served' : s \notin served) = Draw(p)
    BY <1>10, <2>4
  <2>7. place' = [place EXCEPT ![p] = Draw(p)]
    BY <1>3, <1>10, <2>4, <2>6
  <2>8. place'[p] = Draw(p) /\ place' \in [Procs -> Limiter!Served \cup {None}]
    BY <1>1, <2>3, <2>7
  <2>9. now <= limiterReq[p].deadline /\ limiterReq[p].current <= limiterReq[p].limit
    BY <1>1, <1>10 DEF Limiter!CanCall, Limiter!Exceeded, Limiter!Request
  <2>10. Seats(p)
    BY <1>10, <2>2, <2>4, <2>5, <2>8, <2>9 DEF Seats
  <2>11. LimiterType' /\ FlowType'
    BY <1>1, <1>3, <1>10, <2>3, <2>5, <2>8 DEF LimiterType, FlowType, Types
  <2> QED BY <1>3, <2>5, <2>10, <2>11
<1>11. CASE Limiter!Incr(p)
  <2>1. \/ /\ limiterPc[p] = "incr" /\ Limiter!Script(k) /\ UNCHANGED served
           /\ limiterPc' = [limiterPc EXCEPT ![p] = "ttl"]
           /\ limiterReq' = [limiterReq EXCEPT ![p].current = Limiter!NextValue(k),
                                               ![p].at = now]
        \/ Limiter!Finish(p, Limiter!Status("500")) /\ UNCHANGED <<counters, served>>
    BY <1>11 DEF Limiter!Incr, Limiter!MayFail
  <2> QED BY <1>3, <1>6, <1>8, <2>1
<1>12. CASE Limiter!Decide(p)
  <2>1. \/ /\ limiterPc[p] = "ttl" /\ UNCHANGED <<counters, served>>
           /\ Limiter!Finish(p, Limiter!TooMany(p, Limiter!TTLSeconds(k)))
        \/ /\ limiterPc[p] = "ttl" /\ Limiter!CanCall(p) /\ ~Limiter!Exceeded(p)
           /\ Limiter!Finish(p, Limiter!Status("admitted"))
           /\ served' = served \cup {Draw(p)} /\ UNCHANGED counters
        \/ Limiter!Finish(p, Limiter!Status("500")) /\ UNCHANGED <<counters, served>>
    BY <1>12 DEF Limiter!Decide, Draw
  <2> QED BY <1>3, <1>8, <1>9, <1>10, <2>1
<1> QED BY <1>3, <1>11, <1>12

(* The handler is called with the id that APIKeyAuth found. *)
LEMMA EnterHandlerFacts ==
    ASSUME Types, FlowInv, NEW p \in Procs, NEW b \in Bodies, EnterHandler(p, b)
    PROVE  /\ UNCHANGED <<keyVars, limiterVars, logs, now, place, scored>> /\ Others(p)
           /\ BetweenCalls(p) /\ LetThrough(p) /\ stage'[p] = "handler"
           /\ handlerPc[p] = "idle" /\ handlerPc'[p] = "body"
           /\ handlerReq'[p].key = verdict[p].id /\ handlerReq'[p].body = b
           /\ handlerReq'[p].ctx = TRUE
           /\ HandlerType' /\ FlowType'
<1>1. /\ UNCHANGED <<keyVars, limiterVars, logs, now, place, scored>>
      /\ BetweenCalls(p) /\ LetThrough(p) /\ stage' = [stage EXCEPT ![p] = "handler"]
      /\ handlerPc[p] = "idle" /\ handlerPc' = [handlerPc EXCEPT ![p] = "body"]
      /\ handled' = handled + 1
      /\ handlerReq' = [handlerReq EXCEPT ![p] =
           [Handler!NoRequest EXCEPT !.no = handled + 1, !.key = verdict[p].id,
                !.body = b, !.ctx = TRUE, !.status = "pending"]]
  BY DEF EnterHandler, Pass, Handler!Start, BetweenCalls
<1>2. verdict[p].id \in Ids
  BY <1>1 DEF FlowInv, BetweenCalls, Verdicts
<1>3. PICK r : r = [Handler!NoRequest EXCEPT !.no = handled + 1, !.key = verdict[p].id,
                        !.body = b, !.ctx = TRUE, !.status = "pending"]
  OBVIOUS
<1>4. r = [no |-> handled + 1, key |-> verdict[p].id, body |-> b, ctx |-> TRUE,
           payload |-> None, response |-> FALSE, status |-> "pending",
           dbFailed |-> FALSE]
  BY <1>3 DEF Handler!NoRequest
<1>5. handled \in Nat
  BY DEF Types, HandlerType
<1>6. r \in HandlerRequest
  BY <1>2, <1>4, <1>5 DEF HandlerRequest, Payloads, Handler!Statuses
<1>7. r.key = verdict[p].id /\ r.body = b /\ r.ctx = TRUE
  BY <1>4
<1>8. handlerReq' = [handlerReq EXCEPT ![p] = r]
  BY <1>1, <1>3
<1>9. handlerReq'[p] = r /\ handlerPc'[p] = "body" /\ stage'[p] = "handler" /\ Others(p)
  BY <1>1, <1>8 DEF Types, HandlerType, FlowType, Others, keyVars, limiterVars
<1>10. HandlerType' /\ FlowType'
  BY <1>1, <1>5, <1>6, <1>8 DEF Types, HandlerType, FlowType
<1> QED BY <1>1, <1>7, <1>9, <1>10

(* p goes on in the handler, without a score and without a row. *)
GoesOn(p) ==
    /\ handlerReq'[p].ctx => handlerReq[p].ctx
    /\ \/ handlerPc'[p] = handlerPc[p]
       \/ /\ handlerPc[p] = "body" /\ handlerPc'[p] = "predict"
          /\ handlerReq[p].body \in ValidBodies
       \/ handlerPc'[p] = "log"
       \/ handlerPc'[p] = "idle"
    /\ UNCHANGED <<logs, scored>>

(* p reaches the vendor. *)
Scored(p) ==
    /\ handlerPc[p] = "predict" /\ handlerReq[p].ctx /\ handlerPc'[p] = "log"
    /\ handlerReq'[p].ctx = handlerReq[p].ctx
    /\ \E n \in Nat : scored' = scored \cup
         {[no |-> n, id |-> handlerReq[p].key, at |-> now, place |-> place[p]]}
    /\ UNCHANGED logs

(* p writes its row. *)
Writes(p) ==
    /\ handlerPc[p] = "log" /\ handlerPc'[p] = "idle"
    /\ \E l \in Rows : l.by = handlerReq[p].key /\ logs' = logs \cup {l}
    /\ UNCHANGED scored

(* A step of PredictHandler is one of these three, and nobody else's. *)
LEMMA HandlerStepFacts ==
    ASSUME Types, FlowInv, PlaceInv, NEW p \in Procs, HandlerStep(p)
    PROVE  /\ UNCHANGED <<keyVars, limiterVars, now, stage, place>> /\ Others(p)
           /\ HandlerType' /\ FlowType' /\ handlerPc[p] # "idle"
           /\ handlerReq'[p].key = handlerReq[p].key
           /\ handlerReq'[p].body = handlerReq[p].body
           /\ GoesOn(p) \/ Scored(p) \/ Writes(p)
<1>1. /\ UNCHANGED <<keyVars, limiterVars, now, stage, place>>
      /\ \/ Handler!ReadBody(p) \/ Handler!CallVendor(p)
         \/ Handler!SaveLog(p) \/ Handler!ContextEnds(p)
      /\ scored' = IF vendor' = vendor THEN scored
                   ELSE scored \cup {[no |-> handlerReq[p].no, id |-> handlerReq[p].key,
                                      at |-> now, place |-> place[p]]}
  BY DEF HandlerStep
<1>2. handlerPc[p] # "idle" /\ UNCHANGED handled
  BY <1>1 DEF Handler!ReadBody, Handler!CallVendor, Handler!SaveLog, Handler!ContextEnds
<1>3. /\ handlerReq \in [Procs -> HandlerRequest] /\ handlerReq[p] \in HandlerRequest
      /\ handlerPc \in [Procs -> {"idle", "body", "predict", "log"}] /\ handled \in Nat
      /\ logs \subseteq Rows /\ now \in Nat /\ scored \subseteq Scores
      /\ place \in [Procs -> Limiter!Served \cup {None}]
      /\ stage \in [Procs -> {"none", "authenticated", "limiter", "handler"}]
  BY DEF Types, HandlerType, KeysType, FlowType
<1>4. /\ handlerReq[p].body \in Bodies /\ handlerReq[p].key \in Ids
      /\ handlerPc[p] = "predict" => handlerReq[p].body \in ValidBodies
      /\ place[p] \in Limiter!Served
  <2>1. stage[p] = "handler" /\ handlerReq[p].key = verdict[p].id
    BY <1>2 DEF FlowInv
  <2>2. verdict[p].id \in Ids
    BY <2>1 DEF FlowInv, Verdicts
  <2>3. place[p] \in served
    BY <1>2 DEF PlaceInv, Seated
  <2> QED BY <1>2, <2>1, <2>2, <2>3 DEF FlowInv, Types, LimiterType
<1>5. ASSUME NEW x \in {"idle", "body", "predict", "log"}, NEW r \in HandlerRequest,
             handlerPc' = [handlerPc EXCEPT ![p] = x],
             handlerReq' = [handlerReq EXCEPT ![p] = r]
      PROVE  /\ handlerPc'[p] = x /\ handlerReq'[p] = r /\ Others(p)
             /\ handlerPc' \in [Procs -> {"idle", "body", "predict", "log"}]
             /\ handlerReq' \in [Procs -> HandlerRequest]
  BY <1>1, <1>3, <1>5 DEF Others, keyVars, limiterVars
<1>6. ASSUME NEW b \in Payloads, NEW x \in BOOLEAN, NEW s \in {"200", "400", "413", "502"},
             Handler!ToLog(p, b, x, s)
      PROVE  /\ handlerPc'[p] = "log" /\ handlerReq'[p].ctx = handlerReq[p].ctx
             /\ handlerReq'[p].key = handlerReq[p].key
             /\ handlerReq'[p].body = handlerReq[p].body /\ Others(p)
             /\ handlerPc' \in [Procs -> {"idle", "body", "predict", "log"}]
             /\ handlerReq' \in [Procs -> HandlerRequest]
  <2>1. PICK r : r = [handlerReq[p] EXCEPT !.payload = b, !.response = x, !.status = s]
    OBVIOUS
  <2>2. /\ r \in HandlerRequest /\ r.ctx = handlerReq[p].ctx
        /\ r.key = handlerReq[p].key /\ r.body = handlerReq[p].body
    BY <1>3, <2>1 DEF HandlerRequest, Handler!Statuses
  <2>3. /\ handlerPc' = [handlerPc EXCEPT ![p] = "log"]
        /\ handlerReq' = [handlerReq EXCEPT ![p].payload = b, ![p].response = x,
                                            ![p].status = s]
    BY <1>6 DEF Handler!ToLog
  <2>4. handlerReq' = [handlerReq EXCEPT ![p] = r]
    BY <1>3, <2>1, <2>3
  <2> QED BY <1>5, <2>2, <2>3, <2>4
<1>7. CASE Handler!ReadBody(p)
  <2> DEFINE b == handlerReq[p].body
  <2>1. UNCHANGED <<logs, vendor>> /\ handlerPc[p] = "body"
    BY <1>7 DEF Handler!ReadBody
  <2>2. UNCHANGED scored
    BY <1>1, <2>1
  <2>3. CASE \E x \in {b, None}, s \in {"400", "413"} : Handler!ToLog(p, x, FALSE, s)
    <3>1. b \in Payloads /\ None \in Payloads
      BY <1>4 DEF Payloads
    <3>2. PICK x \in {b, None}, s \in {"400", "413"} : Handler!ToLog(p, x, FALSE, s)
      BY <2>3
    <3> QED BY <1>1, <1>2, <1>3, <1>6, <2>1, <2>2, <3>1, <3>2
            DEF GoesOn, HandlerType, FlowType, Types
  <2>4. CASE /\ b.kind \in Handler!ValidKinds
             /\ handlerPc' = [handlerPc EXCEPT ![p] = "predict"] /\ UNCHANGED handlerReq
    <3>1. b \in ValidBodies
      BY <1>4, <2>4 DEF Bodies, ValidBodies, Handler!ValidKinds
    <3>2. handlerReq' = [handlerReq EXCEPT ![p] = handlerReq[p]]
      BY <1>3, <2>4
    <3> QED BY <1>1, <1>2, <1>3, <1>5, <2>1, <2>2, <2>4, <3>1, <3>2
            DEF GoesOn, HandlerType, FlowType, Types
  <2> QED BY <1>7, <2>3, <2>4 DEF Handler!ReadBody
<1>8. CASE Handler!CallVendor(p)
  <2> DEFINE b == handlerReq[p].body
  <2>1. UNCHANGED logs /\ handlerPc[p] = "predict"
    BY <1>8 DEF Handler!CallVendor
  <2>2. Handler!LoggedFeatures(b) \in Payloads
    BY <1>4, <2>1 DEF Payloads
  <2>3. /\ handlerReq[p].ctx \/ UNCHANGED vendor
        /\ \/ Handler!ToLog(p, Handler!LoggedFeatures(b), TRUE, "200")
           \/ Handler!ToLog(p, Handler!LoggedFeatures(b), FALSE, "502")
    BY <1>8 DEF Handler!CallVendor
  <2>4. /\ handlerPc'[p] = "log" /\ handlerReq'[p].ctx = handlerReq[p].ctx
        /\ handlerReq'[p].key = handlerReq[p].key
        /\ handlerReq'[p].body = handlerReq[p].body /\ Others(p)
        /\ handlerPc' \in [Procs -> {"idle", "body", "predict", "log"}]
        /\ handlerReq' \in [Procs -> HandlerRequest]
    BY <1>6, <2>2, <2>3
  <2>5. CASE vendor' = vendor
    <3>1. UNCHANGED scored
      BY <1>1, <2>5
    <3> QED BY <1>1, <1>2, <1>3, <2>1, <2>4, <3>1 DEF GoesOn, HandlerType, FlowType, Types
  <2>6. CASE vendor' # vendor
    <3>1. PICK s : s = [no |-> handlerReq[p].no, id |-> handlerReq[p].key, at |-> now,
                        place |-> place[p]]
      OBVIOUS
    <3>2. scored' = scored \cup {s}
      BY <1>1, <2>6, <3>1
    <3>3. handlerReq[p].no \in Nat
      BY <1>3 DEF HandlerRequest
    <3>4. s \in Scores
      BY <1>3, <1>4, <3>1, <3>3 DEF Scores
    <3>5. Scored(p)
      BY <2>1, <2>3, <2>4, <2>6, <3>1, <3>2, <3>3 DEF Scored
    <3>6. HandlerType' /\ FlowType'
      BY <1>1, <1>2, <1>3, <2>1, <2>4, <3>2, <3>4 DEF HandlerType, FlowType
    <3> QED BY <1>1, <1>2, <2>4, <3>5, <3>6
  <2> QED BY <2>5, <2>6
<1>9. CASE Handler!SaveLog(p)
  <2>1. /\ handlerPc[p] = "log" /\ UNCHANGED <<vendor, handlerReq>>
        /\ handlerPc' = [handlerPc EXCEPT ![p] = "idle"]
        /\ Handler!InsertLog(p) \/ UNCHANGED logs
    BY <1>9 DEF Handler!SaveLog
  <2>2. handlerReq' = [handlerReq EXCEPT ![p] = handlerReq[p]]
    BY <1>3, <2>1
  <2>3. /\ handlerPc'[p] = "idle" /\ handlerReq'[p] = handlerReq[p] /\ Others(p)
        /\ handlerPc' \in [Procs -> {"idle", "body", "predict", "log"}]
        /\ handlerReq' \in [Procs -> HandlerRequest] /\ UNCHANGED scored
    BY <1>1, <1>3, <1>5, <2>1, <2>2
  <2>4. CASE UNCHANGED logs
    BY <1>1, <1>2, <1>3, <2>3, <2>4 DEF GoesOn, HandlerType, FlowType
  <2>5. CASE Handler!InsertLog(p)
    <3>1. PICK l : l = [no |-> handlerReq[p].no, by |-> handlerReq[p].key,
                        key |-> handlerReq[p].key, payload |-> handlerReq[p].payload,
                        response |-> handlerReq[p].response,
                        error |-> handlerReq[p].status # "200"]
      OBVIOUS
    <3>2. logs' = logs \cup {l}
      BY <2>5, <3>1 DEF Handler!InsertLog
    <3>3. /\ handlerReq[p].no \in Nat /\ handlerReq[p].payload \in Payloads
          /\ handlerReq[p].response \in BOOLEAN
      BY <1>3 DEF HandlerRequest
    <3>4. (handlerReq[p].status # "200") \in BOOLEAN
      OBVIOUS
    <3>5. l \in Rows /\ l.by = handlerReq[p].key
      BY <1>4, <3>1, <3>3, <3>4 DEF Rows
    <3> QED BY <1>1, <1>2, <1>3, <2>1, <2>3, <3>2, <3>5 DEF Writes, HandlerType, FlowType
  <2> QED BY <2>1, <2>4, <2>5
<1>10. CASE Handler!ContextEnds(p)
  <2>1. PICK r : r = [handlerReq[p] EXCEPT !.ctx = FALSE]
    OBVIOUS
  <2>2. /\ r \in HandlerRequest /\ r.key = handlerReq[p].key /\ r.ctx = FALSE
        /\ r.body = handlerReq[p].body
    BY <1>3, <2>1 DEF HandlerRequest
  <2>3. /\ handlerReq' = [handlerReq EXCEPT ![p] = r] /\ UNCHANGED <<handlerPc, logs, scored>>
        /\ handlerPc' = [handlerPc EXCEPT ![p] = handlerPc[p]]
    BY <1>1, <1>3, <1>10, <2>1 DEF Handler!ContextEnds
  <2> QED BY <1>1, <1>2, <1>3, <1>5, <2>2, <2>3 DEF GoesOn, HandlerType, FlowType
<1> QED BY <1>1, <1>7, <1>8, <1>9, <1>10

(* With the answer the request is gone. *)
LEMMA AnswerFacts ==
    ASSUME Types, FlowInv, NEW p \in Procs, Answer(p)
    PROVE  /\ UNCHANGED <<minted, revokedAt, now, counters, limiterPc, counted, served,
                          logs, handlerPc, handled, scored>> /\ Others(p)
           /\ stage'[p] = "none" /\ limiterPc[p] = "idle" /\ handlerPc[p] = "idle"
           /\ Types'
<1>1. /\ UNCHANGED <<minted, revokedAt, now, counters, limiterPc, counted, served,
                     logs, handlerPc, handled, scored>>
      /\ stage' = [stage EXCEPT ![p] = "none"]
      /\ verdict' = [verdict EXCEPT ![p] = None]
      /\ place' = [place EXCEPT ![p] = None]
      /\ limiterReq' = [limiterReq EXCEPT ![p] = Limiter!NoRequest]
      /\ handlerReq' = [handlerReq EXCEPT ![p] = Handler!NoRequest]
      /\ \/ stage[p] = "limiter" /\ limiterPc[p] = "idle"
         \/ stage[p] = "handler" /\ handlerPc[p] = "idle"
  BY DEF Answer, Registry!Forget
<1>2. limiterPc[p] = "idle" /\ handlerPc[p] = "idle"
  BY <1>1 DEF FlowInv
<1>3. Limiter!NoRequest \in Limiter!Request
  BY DEF Limiter!NoRequest, Limiter!Request
<1>4. Handler!NoRequest \in HandlerRequest
  BY DEF Handler!NoRequest, HandlerRequest, Handler!Statuses, Payloads
<1>5. KeysType' /\ LimiterType'
  BY <1>1, <1>3 DEF Types, KeysType, LimiterType
<1>6. HandlerType' /\ FlowType'
  BY <1>1, <1>4 DEF Types, HandlerType, FlowType
<1>7. stage'[p] = "none" /\ Others(p)
  BY <1>1 DEF Types, KeysType, LimiterType, HandlerType, FlowType, Others
<1> QED BY <1>1, <1>2, <1>5, <1>6, <1>7 DEF Types

(* Counters that are past their expiry are gone with the tick, and nobody who
   was about to be served has got late. *)
LEMMA TickFacts ==
    ASSUME Types, Tick
    PROVE  /\ now' = now + 1 /\ Types'
           /\ UNCHANGED <<minted, revokedAt, verdict, limiterPc, limiterReq, counted,
                          served, handlerVars, stage, place, scored>>
           /\ \A p \in Procs : ~OutOfTime(p) /\ ~BetweenCalls(p)
           /\ \A k \in Limiter!CounterKeys :
                \/ counters'[k] = None /\ counters[k] = None
                \/ counters'[k] = None /\ counters[k] # None /\ now' > counters[k].exp
                \/ counters'[k] = counters[k] /\ counters[k] # None /\ now' <= counters[k].exp
<1>1. now \in Nat /\ counters \in [Limiter!CounterKeys -> Limiter!Counter \cup {None}]
  BY DEF Types, KeysType, LimiterType
<1>2. /\ now' = now + 1 /\ now < MaxTime
      /\ UNCHANGED <<minted, revokedAt, verdict, limiterPc, limiterReq, counted,
                     served, handlerVars, stage, place, scored>>
      /\ \A p \in Procs : ~OutOfTime(p) /\ ~BetweenCalls(p)
      /\ counters' = [k \in Limiter!CounterKeys |->
            IF counters[k] # None /\ now' > counters[k].exp THEN None ELSE counters[k]]
  BY DEF Tick, Registry!Tick, Limiter!Tick
<1>3. \A k \in Limiter!CounterKeys : counters[k] # None => counters[k].exp \in Nat
  BY <1>1 DEF Limiter!Counter
<1>4. \A k \in Limiter!CounterKeys :
        \/ counters'[k] = None /\ counters[k] = None
        \/ counters'[k] = None /\ counters[k] # None /\ now' > counters[k].exp
        \/ counters'[k] = counters[k] /\ counters[k] # None /\ now' <= counters[k].exp
  BY <1>1, <1>2, <1>3
<1>5. KeysType' /\ LimiterType'
  BY <1>1, <1>2, <1>4, ServiceAssumption DEF Types, KeysType, LimiterType
<1>6. HandlerType' /\ FlowType'
  BY <1>2 DEF Types, HandlerType, FlowType, handlerVars
<1> QED BY <1>2, <1>4, <1>5, <1>6 DEF Types

-----------------------------------------------------------------------------
(* What keeps the parts of the invariant that a step does not touch.       *)

(* Requests keep their numbers. *)
LEMMA NumbersFrame ==
    ASSUME NumbersInv, UNCHANGED <<served, counted>>,
           \A q \in Procs : limiterPc'[q] # "idle" =>
             limiterPc[q] # "idle" /\ limiterReq'[q].no = limiterReq[q].no
    PROVE  NumbersInv'
BY DEF NumbersInv

(* What is drawn is drawn from a counter. *)
LEMMA DrawTypes ==
    ASSUME Types, FlowInv
    PROVE  \A d \in Draws : d \in Limiter!Served
<1>1. ASSUME NEW q \in Procs, limiterPc[q] = "ttl" PROVE Draw(q) \in Limiter!Served
  <2>1. limiterReq[q] \in Limiter!Request /\ limiterReq[q].key \in Limiter!CounterKeys
    BY <1>1 DEF Types, LimiterType, FlowInv
  <2> QED BY <2>1 DEF Draw, Limiter!Request, Limiter!Served
<1> QED BY <1>1 DEF Draws, Types, LimiterType

(* The counters are as they were, and nothing more was drawn. *)
LEMMA WindowFrame ==
    ASSUME WindowInv, UNCHANGED <<minted, counters, served, now>>,
           \A q \in Procs : limiterPc'[q] = "ttl" =>
             limiterPc[q] = "ttl" /\ limiterReq'[q] = limiterReq[q]
    PROVE  WindowInv'
<1>1. \A q \in Procs : limiterPc'[q] = "ttl" => Draw(q)' = Draw(q)
  BY DEF Draw
<1>2. Draws' \subseteq Draws
  BY <1>1 DEF Draws
<1>3. \A d : EndOf(d)' = EndOf(d)
  BY DEF EndOf
<1> QED BY <1>2, <1>3 DEF WindowInv, EndOf

(* Nobody has a place who had none, and no score is new. *)
LEMMA PlaceFrame ==
    ASSUME PlaceInv, UNCHANGED <<served, scored>>,
           \A q \in Procs :
             /\ Seated(q)' => /\ Seated(q) /\ place'[q] = place[q]
                              /\ verdict'[q].id = verdict[q].id
             /\ Unscored(q)' => Unscored(q)
    PROVE  PlaceInv'
<1>1. \A q \in Procs : Unscored(q)' => Seated(q)'
  BY DEF Unscored
<1>2. \A q \in Procs : Seated(q)' => place'[q] \in served' /\ Of(place'[q].key, verdict'[q].id)
  BY DEF PlaceInv
<1>3. \A q, r \in Procs : (q # r /\ Unscored(q)' /\ Unscored(r)') => place'[q] # place'[r]
  BY <1>1 DEF PlaceInv
<1>4. \A q \in Procs, s \in scored' : Unscored(q)' => s.place # place'[q]
  BY <1>1 DEF PlaceInv
<1>5. /\ \A s \in scored' : s.place \in served' /\ Of(s.place.key, s.id)
      /\ \A r, s \in scored' : r.place = s.place => r = s
  BY DEF PlaceInv
<1> QED BY <1>2, <1>3, <1>4, <1>5 DEF PlaceInv

(* The sets that are counted are finite. *)
LEMMA Sizes ==
    ASSUME NumbersInv, IsFiniteSet(logs), NEW i
    PROVE  /\ IsFiniteSet(RowsBy(i)) /\ Cardinality(RowsBy(i)) \in Nat
           /\ IsFiniteSet(Writers(i)) /\ Cardinality(Writers(i)) \in Nat
           /\ IsFiniteSet(PlacesOf(i)) /\ Cardinality(PlacesOf(i)) \in Nat
<1>1. IsFiniteSet(RowsBy(i))
  BY FS_Subset DEF RowsBy
<1>2. IsFiniteSet(Writers(i))
  BY ServiceAssumption, FS_Subset DEF Writers
<1>3. IsFiniteSet(PlacesOf(i))
  BY FS_Subset DEF PlacesOf, NumbersInv
<1> QED BY <1>1, <1>2, <1>3, FS_CardinalityType

(* Nobody is to write a row who was not, and no row is new. *)
LEMMA RowsFrame ==
    ASSUME NumbersInv, RowsInv, UNCHANGED <<served, logs>>,
           \A q \in Procs : Seated(q)' => Seated(q) /\ verdict'[q].id = verdict[q].id
    PROVE  RowsInv'
<1>1. IsFiniteSet(logs')
  BY DEF RowsInv
<1>2. ASSUME NEW i \in Ids
      PROVE  Cardinality(RowsBy(i)') + Cardinality(Writers(i)') <= Cardinality(PlacesOf(i)')
  <2>1. RowsBy(i)' = RowsBy(i) /\ PlacesOf(i)' = PlacesOf(i)
    BY DEF RowsBy, PlacesOf
  <2>2. Writers(i)' \in SUBSET Writers(i)
    BY DEF Writers
  <2>3. /\ IsFiniteSet(Writers(i)) /\ Cardinality(Writers(i)) \in Nat
        /\ Cardinality(RowsBy(i)) \in Nat /\ Cardinality(PlacesOf(i)) \in Nat
    BY Sizes DEF RowsInv
  <2>4. /\ IsFiniteSet(Writers(i)') /\ Cardinality(Writers(i)') <= Cardinality(Writers(i))
        /\ Cardinality(Writers(i)') \in Nat
    BY <2>2, <2>3, FS_Subset, FS_CardinalityType
  <2>5. Cardinality(RowsBy(i)) + Cardinality(Writers(i)) <= Cardinality(PlacesOf(i))
    BY DEF RowsInv
  <2> QED BY <2>1, <2>3, <2>4, <2>5
<1> QED BY <1>1, <1>2 DEF RowsInv

-----------------------------------------------------------------------------
(* The invariant, step by step.                                            *)

(* A key is revoked: the identities that were taken from it before end with
   the deadlines of their requests, and the rows that named it stay. *)
LEMMA RevokeInv ==
    ASSUME IInv, NEW i \in Ids, DeleteKey(i) \/ DeactivateKey(i)
    PROVE  IInv'
<1>1. /\ UNCHANGED <<minted, verdict, limiterVars, handlerPc, handlerReq, handled,
                     now, stage, place, scored>>
      /\ \/ revokedAt' = revokedAt
         \/ revokedAt[i] = -1 /\ revokedAt' = [revokedAt EXCEPT ![i] = now]
      /\ logs' = logs \/ logs' = {Unnamed(l, i) : l \in logs}
  BY RevokeFacts
<1>2. /\ Types /\ FlowInv /\ KeyInv /\ NumbersInv /\ WindowInv /\ PlaceInv /\ RowsInv
      /\ now \in Nat /\ revokedAt \in [Ids -> Nat \cup {-1}] /\ logs \subseteq Rows
  BY DEF IInv, Types, KeysType, HandlerType
<1>3. \A l \in logs : Unnamed(l, i) \in Rows /\ Unnamed(l, i).by = l.by
  <2> SUFFICES ASSUME NEW l \in logs
               PROVE  Unnamed(l, i) \in Rows /\ Unnamed(l, i).by = l.by
    OBVIOUS
  <2>1. l \in Rows
    BY <1>2
  <2>2. PICK m : m = [l EXCEPT !.key = None]
    OBVIOUS
  <2>3. m \in Rows /\ m.by = l.by
    BY <2>1, <2>2 DEF Rows
  <2> QED BY <2>1, <2>2, <2>3 DEF Unnamed
<1>4. KeysType' /\ LimiterType' /\ FlowType'
  BY <1>1, <1>2 DEF Types, KeysType, LimiterType, FlowType, limiterVars
<1>5. HandlerType'
  BY <1>1, <1>2, <1>3 DEF Types, HandlerType
<1>6. FlowInv'
  BY <1>1, <1>2 DEF FlowInv, limiterVars
<1>7. \A q \in Procs : Seated(q)' = Seated(q) /\ Unscored(q)' = Unscored(q)
  BY <1>1 DEF Seated, Unscored, BetweenCalls, LetThrough, limiterVars
<1>8. KeyInv'
  <2>1. ASSUME NEW q \in Procs, stage[q] # "none", revokedAt'[verdict[q].id] # -1
        PROVE  verdict[q].until <= revokedAt'[verdict[q].id] + Grace
    <3>1. PICK j \in Ids, u \in Nat : j = verdict[q].id /\ u = verdict[q].until
      BY <1>2, <2>1 DEF FlowInv, Verdicts
    <3>2. u <= now + ReqTimeout /\ (revokedAt[j] # -1 => u <= revokedAt[j] + Grace)
      BY <1>2, <2>1, <3>1 DEF KeyInv
    <3>3. revokedAt'[j] # -1 /\ revokedAt[j] \in Int
          /\ (revokedAt'[j] = revokedAt[j] \/ revokedAt'[j] = now)
      BY <1>1, <1>2, <2>1, <3>1
    <3>4. u <= revokedAt'[j] + Grace
      BY <1>2, <3>2, <3>3, ServiceAssumption
    <3> QED BY <3>1, <3>4
  <2>2. \A j \in Ids : revokedAt'[j] <= now'
    BY <1>1, <1>2 DEF KeyInv
  <2>3. NoLateScore'
    <3> SUFFICES ASSUME NEW s \in scored, revokedAt'[s.id] # -1
                 PROVE  s.at <= revokedAt'[s.id] + Grace
      BY <1>1 DEF NoLateScore, Registry!Never
    <3>1. s.id \in Ids /\ s.at \in Nat /\ s.at <= now
      BY <1>2 DEF KeyInv, Types, FlowType, Scores
    <3>2. revokedAt[s.id] # -1 => s.at <= revokedAt[s.id] + Grace
      BY <1>2 DEF KeyInv, NoLateScore, Registry!Never
    <3>3. PICK j \in Ids : j = s.id
      BY <3>1
    <3>4. revokedAt'[j] # -1 /\ revokedAt[j] \in Int
          /\ (revokedAt'[j] = revokedAt[j] \/ revokedAt'[j] = now)
      BY <1>1, <1>2, <3>3
    <3>5. s.at <= revokedAt'[j] + Grace
      BY <1>2, <3>1, <3>2, <3>3, <3>4, ServiceAssumption
    <3> QED BY <3>3, <3>5
  <2> QED BY <1>1, <1>2, <1>7, <2>1, <2>2, <2>3 DEF KeyInv
<1>9. NumbersInv'
  BY <1>1, <1>2, NumbersFrame DEF limiterVars
<1>10. WindowInv'
  BY <1>1, <1>2, WindowFrame DEF limiterVars
<1>11. PlaceInv'
  BY <1>1, <1>2, <1>7, PlaceFrame DEF limiterVars
<1>12. RowsInv'
  <2>1. CASE logs' = logs
    BY <1>1, <1>2, <1>7, <2>1, RowsFrame DEF limiterVars
  <2>2. CASE logs' = {Unnamed(l, i) : l \in logs}
    <3>1. ASSUME NEW S, IsFiniteSet(S)
          PROVE  LET T == {Unnamed(l, i) : l \in S}
                 IN  IsFiniteSet(T) /\ Cardinality(T) <= Cardinality(S)
      <4> DEFINE T == {Unnamed(l, i) : l \in S}
                 f == [l \in S |-> Unnamed(l, i)]
      <4>1. f \in Surjection(S, T)
        BY DEF Surjection
      <4> HIDE DEF T, f
      <4>2. IsFiniteSet(T) /\ Cardinality(T) <= Cardinality(S)
        BY <3>1, <4>1, FS_Surjection
      <4> QED BY <4>2 DEF T
    <3>2. IsFiniteSet(logs')
      BY <1>2, <2>2, <3>1 DEF RowsInv
    <3>3. ASSUME NEW j \in Ids
          PROVE  Cardinality(RowsBy(j)') + Cardinality(Writers(j)')
                   <= Cardinality(PlacesOf(j)')
      <4>1. RowsBy(j)' = {Unnamed(l, i) : l \in RowsBy(j)}
        BY <1>3, <2>2 DEF RowsBy
      <4>2. /\ IsFiniteSet(RowsBy(j)) /\ Cardinality(RowsBy(j)) \in Nat
            /\ Cardinality(Writers(j)) \in Nat /\ Cardinality(PlacesOf(j)) \in Nat
        BY <1>2, Sizes DEF RowsInv
      <4>3. /\ IsFiniteSet(RowsBy(j)') /\ Cardinality(RowsBy(j)') <= Cardinality(RowsBy(j))
            /\ Cardinality(RowsBy(j)') \in Nat
        BY <3>1, <4>1, <4>2, FS_CardinalityType
      <4>4. Writers(j)' = Writers(j) /\ PlacesOf(j)' = PlacesOf(j)
        BY <1>1, <1>7 DEF Writers, PlacesOf, limiterVars
      <4>5. Cardinality(RowsBy(j)) + Cardinality(Writers(j)) <= Cardinality(PlacesOf(j))
        BY <1>2 DEF RowsInv
      <4> QED BY <4>2, <4>3, <4>4, <4>5
    <3> QED BY <3>2, <3>3 DEF RowsInv
  <2> QED BY <1>1, <2>1, <2>2
<1> QED BY <1>4, <1>5, <1>6, <1>8, <1>9, <1>10, <1>11, <1>12 DEF IInv

(* A request is let in: its identity is fresh, its deadline within the grace. *)
LEMMA AuthenticateInv ==
    ASSUME IInv, NEW p \in Procs, NEW i \in Ids, NEW t \in now .. now + ReqTimeout,
           Authenticate(p, i, t)
    PROVE  IInv'
<1>1. /\ Types /\ FlowInv /\ KeyInv /\ NumbersInv /\ WindowInv /\ PlaceInv /\ RowsInv
      /\ now \in Nat
  BY DEF IInv, Types, KeysType
<1>2. /\ UNCHANGED <<minted, revokedAt, limiterVars, handlerVars, now, place, scored>>
      /\ stage[p] = "none" /\ stage'[p] = "authenticated"
      /\ Others(p) /\ verdict'[p] \in Verdicts
      /\ verdict'[p].id = i /\ verdict'[p].rate = minted[i].rate
      /\ verdict'[p].until = t
      /\ revokedAt[i] # -1 => t <= revokedAt[i] + Grace
      /\ KeysType' /\ FlowType'
  BY <1>1, AuthenticateFacts
<1>3. LimiterType' /\ HandlerType'
  BY <1>1, <1>2 DEF Types, LimiterType, HandlerType, limiterVars, handlerVars
<1>4. limiterPc[p] = "idle" /\ handlerPc[p] = "idle"
  BY <1>1, <1>2 DEF FlowInv
<1>5. FlowInv'
  BY <1>1, <1>2, <1>4 DEF FlowInv, Others, limiterVars, handlerVars
<1>6. \A q \in Procs : /\ Seated(q)' => /\ Seated(q) /\ q # p /\ place'[q] = place[q]
                                        /\ verdict'[q] = verdict[q]
                       /\ Unscored(q)' => Unscored(q)
  BY <1>2, <1>4 DEF Seated, Unscored, BetweenCalls, LetThrough, Others, limiterVars,
                    handlerVars
<1>7. KeyInv'
  <2>1. ASSUME NEW q \in Procs, stage'[q] # "none"
        PROVE  /\ verdict'[q].rate = minted'[verdict'[q].id].rate
               /\ verdict'[q].until <= now' + ReqTimeout
               /\ revokedAt'[verdict'[q].id] # -1 =>
                    verdict'[q].until <= revokedAt'[verdict'[q].id] + Grace
    BY <1>1, <1>2, <2>1 DEF KeyInv, Others
  <2>2. \A q \in Procs :
          (Seated(q)' /\ (handlerPc'[q] = "idle" \/ handlerReq'[q].ctx)) =>
              now' <= verdict'[q].until
    BY <1>1, <1>2, <1>6 DEF KeyInv, handlerVars
  <2>3. NoLateScore'
    BY <1>1, <1>2 DEF KeyInv, NoLateScore
  <2> QED BY <1>1, <1>2, <2>1, <2>2, <2>3 DEF KeyInv
<1>8. NumbersInv'
  BY <1>1, <1>2, NumbersFrame DEF limiterVars
<1>9. WindowInv'
  BY <1>1, <1>2, WindowFrame DEF limiterVars
<1>10. PlaceInv'
  BY <1>1, <1>2, <1>6, PlaceFrame DEF limiterVars
<1>11. RowsInv'
  BY <1>1, <1>2, <1>6, RowsFrame DEF limiterVars, handlerVars
<1> QED BY <1>2, <1>3, <1>5, <1>7, <1>8, <1>9, <1>10, <1>11 DEF IInv

(* The limiter starts on a request. *)
LEMMA EnterLimiterInv ==
    ASSUME IInv, NEW p \in Procs, EnterLimiter(p)
    PROVE  IInv'
<1>1. /\ Types /\ FlowInv /\ KeyInv /\ NumbersInv /\ WindowInv /\ PlaceInv /\ RowsInv
      /\ now \in Nat /\ counted \in Nat
  BY DEF IInv, Types, KeysType, LimiterType
<1>2. /\ UNCHANGED <<keyVars, handlerVars, now, place, scored, counters, served>>
      /\ stage[p] = "authenticated" /\ stage'[p] = "limiter" /\ Others(p)
      /\ limiterPc[p] = "idle" /\ limiterPc'[p] = "incr" /\ counted' = counted + 1
      /\ limiterReq'[p].no = counted + 1 /\ limiterReq'[p].limit = verdict[p].rate
      /\ limiterReq'[p].key \in Limiter!CounterKeys
      /\ Of(limiterReq'[p].key, verdict[p].id) /\ limiterReq'[p].key[3] <= now
      /\ limiterReq'[p].deadline = verdict[p].until
      /\ limiterReq'[p].status = "pending"
      /\ LimiterType' /\ FlowType'
  BY <1>1, EnterLimiterFacts
<1>3. KeysType' /\ HandlerType'
  BY <1>1, <1>2 DEF Types, KeysType, HandlerType, keyVars, handlerVars
<1>4. handlerPc[p] = "idle"
  BY <1>1, <1>2 DEF FlowInv
<1>5. FlowInv'
  BY <1>1, <1>2, <1>4 DEF FlowInv, Others, keyVars, handlerVars
<1>6. \A q \in Procs : /\ Seated(q)' => Seated(q) /\ q # p
                       /\ Unscored(q)' => Unscored(q)
  BY <1>2, <1>4 DEF Seated, Unscored, BetweenCalls, LetThrough, Others, handlerVars
<1>7. KeyInv'
  <2>1. NoLateScore'
    BY <1>1, <1>2 DEF KeyInv, NoLateScore, keyVars
  <2>2. \A q \in Procs :
          (Seated(q)' /\ (handlerPc'[q] = "idle" \/ handlerReq'[q].ctx)) =>
              now' <= verdict'[q].until
    BY <1>1, <1>2, <1>6 DEF KeyInv, keyVars, handlerVars
  <2>3. \A q \in Procs : stage'[q] # "none" => stage[q] # "none"
    BY <1>2 DEF Others
  <2> QED BY <1>1, <1>2, <2>1, <2>2, <2>3 DEF KeyInv, keyVars
<1>8. NumbersInv'
  <2>1. \A q \in Procs : limiterPc[q] # "idle" => limiterReq[q].no \in Nat
    BY <1>1 DEF Types, LimiterType, Limiter!Request
  <2>2. \A s \in served : s.no \in Nat
    BY <1>1 DEF Types, LimiterType, Limiter!Served
  <2> QED BY <1>1, <1>2, <2>1, <2>2 DEF NumbersInv, Others
<1>9. WindowInv'
  BY <1>1, <1>2, WindowFrame DEF Others, keyVars
<1>10. PlaceInv'
  BY <1>1, <1>2, <1>6, PlaceFrame DEF keyVars
<1>11. RowsInv'
  <2>1. IsFiniteSet(logs') /\ UNCHANGED <<logs, served>>
    BY <1>1, <1>2 DEF RowsInv, handlerVars
  <2> QED BY <1>1, <1>2, <1>6, <2>1, RowsFrame DEF keyVars
<1> QED BY <1>2, <1>3, <1>5, <1>7, <1>8, <1>9, <1>10, <1>11 DEF IInv

(* The limiter counts the request.  Within the window the counter is the one
   that it has had from the start, so nobody else has drawn this value. *)
LEMMA CountsWindow ==
    ASSUME IInv, NEW p \in Procs, Counts(p), Others(p), UNCHANGED <<minted, now>>
    PROVE  WindowInv'
<1> DEFINE k == limiterReq[p].key
<1>1. /\ Types /\ FlowInv /\ WindowInv /\ now \in Nat
      /\ counters \in [Limiter!CounterKeys -> Limiter!Counter \cup {None}]
      /\ limiterReq[p] \in Limiter!Request /\ served \subseteq Limiter!Served
  BY DEF IInv, Types, KeysType, LimiterType
<1>2. /\ limiterPc[p] = "incr" /\ limiterPc'[p] = "ttl" /\ UNCHANGED served
      /\ limiterReq'[p] = [limiterReq[p] EXCEPT !.current = Limiter!NextValue(k), !.at = now]
      /\ \A j \in Limiter!CounterKeys \ {k} : counters'[j] = counters[j]
      /\ counters[k] # None =>
           /\ counters'[k] # None /\ counters'[k].n = counters[k].n + 1
           /\ counters'[k].exp = counters[k].exp
      /\ counters[k] = None =>
           counters'[k] # None /\ counters'[k].n = 1 /\ counters'[k].exp = now + Window
  BY DEF Counts
<1>3. k \in Limiter!CounterKeys /\ k[3] <= now
  BY <1>1, <1>2 DEF FlowInv
<1>4. k[3] \in Nat /\ Limiter!WindowEnd(k[3]) = k[3] + Window
  BY <1>3, KeyFacts
<1>5. PICK c \in Nat : c = Limiter!NextValue(k) /\ c >= 1
  BY <1>1, <1>3 DEF Limiter!NextValue, Limiter!Counter
<1>6. counters'[k] # None /\ counters'[k].n = c
  BY <1>2, <1>5 DEF Limiter!NextValue
<1>7. /\ limiterReq'[p].key = k /\ limiterReq'[p].current = c /\ limiterReq'[p].at = now
  BY <1>1, <1>2, <1>5 DEF Limiter!Request
<1>8. PICK n : n = Draw(p)'
  OBVIOUS
<1>9. n.key = k /\ n.current = c /\ n.at = now
  BY <1>7, <1>8 DEF Draw
<1>10. Draws' \subseteq Draws \cup {n}
  <2>1. \A q \in Procs : (q # p /\ limiterPc'[q] = "ttl") =>
           limiterPc[q] = "ttl" /\ Draw(q)' = Draw(q)
    BY DEF Others, Draw
  <2> QED BY <1>2, <1>8, <2>1 DEF Draws
<1>11. \A d \in Draws : d \in Limiter!Served
  BY <1>1, DrawTypes
<1>12. \A d \in Draws : /\ d.key \in Limiter!CounterKeys /\ d.current \in Nat /\ d.at \in Nat
                        /\ EndOf(d) \in Nat
  BY <1>11, KeyFacts DEF Limiter!Served, EndOf
<1>13. \A j \in Limiter!CounterKeys : counters'[j] # None =>
         now <= counters'[j].exp /\ Limiter!WindowEnd(j[3]) <= counters'[j].exp
  <2>1. ASSUME NEW j \in Limiter!CounterKeys, j # k, counters'[j] # None
        PROVE  now <= counters'[j].exp /\ Limiter!WindowEnd(j[3]) <= counters'[j].exp
    BY <1>1, <1>2, <2>1 DEF WindowInv
  <2>2. CASE counters[k] # None
    BY <1>1, <1>2, <1>3, <2>1, <2>2 DEF WindowInv
  <2>3. CASE counters[k] = None
    BY <1>1, <1>2, <1>3, <1>4, <2>1, <2>3, ServiceAssumption
  <2> QED BY <2>2, <2>3
<1>14. ASSUME NEW d \in Draws, d.at < EndOf(d), now < EndOf(d)
       PROVE  /\ counters[d.key] # None /\ d.current <= counters[d.key].n
              /\ counters'[d.key] # None /\ d.current <= counters'[d.key].n
              /\ d.key = k => d.current < c
  <2>1. /\ counters[d.key] # None /\ d.current <= counters[d.key].n
        /\ d.key \in Limiter!CounterKeys /\ counters[d.key].n \in Nat
    BY <1>1, <1>12, <1>14 DEF WindowInv, Limiter!Counter
  <2>2. CASE d.key = k
    <3>1. c = counters[k].n + 1
      BY <1>5, <2>1, <2>2 DEF Limiter!NextValue
    <3> QED BY <1>6, <1>12, <2>1, <2>2, <3>1
  <2>3. CASE d.key # k
    BY <1>2, <2>1, <2>3
  <2> QED BY <2>2, <2>3
<1>15. \A d : EndOf(d)' = EndOf(d)
  BY DEF EndOf
<1>16. \A d \in Draws' : d.at < EndOf(d) =>
         /\ d.at <= now
         /\ now < EndOf(d) => counters'[d.key] # None /\ d.current <= counters'[d.key].n
  <2>1. \A d \in Draws : d.at < EndOf(d) => d.at <= now
    BY <1>1 DEF WindowInv
  <2> QED BY <1>1, <1>5, <1>6, <1>9, <1>10, <1>14, <2>1
<1>17. \A d, e \in Draws' :
         (/\ d.key = e.key /\ d.current = e.current
          /\ d.at < EndOf(d) /\ e.at < EndOf(e)) => d = e
  <2>1. \A d, e \in Draws :
         (/\ d.key = e.key /\ d.current = e.current
          /\ d.at < EndOf(d) /\ e.at < EndOf(e)) => d = e
    BY <1>1 DEF WindowInv
  <2>2. ASSUME NEW d \in Draws, d.key = k, d.current = c, d.at < EndOf(d), n.at < EndOf(n)
        PROVE  FALSE
    <3>1. EndOf(d) = EndOf(n)
      BY <1>9, <2>2 DEF EndOf
    <3>2. now < EndOf(d)
      BY <1>9, <2>2, <3>1
    <3>3. d.current < c
      BY <1>14, <2>2, <3>2
    <3> QED BY <1>5, <2>2, <3>3
  <2> QED BY <1>9, <1>10, <2>1, <2>2
<1>18. \A q \in Procs : limiterPc'[q] = "ttl" => limiterReq'[q].current >= 1
  <2>1. \A q \in Procs : (q # p /\ limiterPc'[q] = "ttl") => limiterReq'[q].current >= 1
    BY <1>1 DEF WindowInv, Others
  <2> QED BY <1>5, <1>7, <2>1
<1>19. /\ \A s \in served' : s.current \in 1..s.limit
       /\ \A s \in served', j \in Ids : Of(s.key, j) => s.limit = minted'[j].rate
  BY <1>1, <1>2 DEF WindowInv
<1>20. \A j : Limiter!WindowEnd(j)' = Limiter!WindowEnd(j)
  BY DEF Limiter!WindowEnd
<1> QED BY <1>13, <1>15, <1>16, <1>17, <1>18, <1>19, <1>20 DEF WindowInv

(* The parts of the invariant that no step of the limiter touches, and those
   that only a new place does. *)
LEMMA LimiterStepKeeps ==
    ASSUME IInv, NEW p \in Procs,
           UNCHANGED <<keyVars, handlerVars, now, stage, scored, counted>>, Others(p),
           limiterPc[p] # "idle", LimiterType', FlowType',
           limiterPc'[p] # "idle" =>
             /\ limiterReq'[p].key = limiterReq[p].key /\ limiterReq'[p].no = limiterReq[p].no
             /\ limiterReq'[p].limit = limiterReq[p].limit
             /\ limiterReq'[p].deadline = limiterReq[p].deadline
    PROVE  /\ KeysType' /\ LimiterType' /\ HandlerType' /\ FlowType' /\ FlowInv'
           /\ stage[p] = "limiter" /\ handlerPc[p] = "idle" /\ ~Seated(p)
           /\ \A q \in Procs \ {p} : /\ Seated(q)' = Seated(q) /\ Unscored(q)' = Unscored(q)
                                     /\ place'[q] = place[q] /\ verdict'[q] = verdict[q]
           /\ (Seated(p)' => now <= verdict[p].until) => KeyInv'
           /\ (served' = served /\ ~Seated(p)') => NumbersInv' /\ PlaceInv' /\ RowsInv'
<1>1. /\ Types /\ FlowInv /\ KeyInv /\ NumbersInv /\ PlaceInv /\ RowsInv
  BY DEF IInv, Types
<1>2. KeysType' /\ HandlerType'
  BY <1>1 DEF Types, KeysType, HandlerType, keyVars, handlerVars
<1>3. FlowInv'
  BY <1>1 DEF FlowInv, Others, keyVars, handlerVars
<1>4. stage[p] = "limiter" /\ handlerPc[p] = "idle" /\ ~Seated(p)
  BY <1>1 DEF FlowInv, Seated, BetweenCalls
<1>5. \A q \in Procs \ {p} : /\ Seated(q)' = Seated(q) /\ Unscored(q)' = Unscored(q)
                             /\ place'[q] = place[q] /\ verdict'[q] = verdict[q]
  BY DEF Others, Seated, Unscored, BetweenCalls, LetThrough
<1>6. ASSUME Seated(p)' => now <= verdict[p].until PROVE KeyInv'
  <2>1. NoLateScore'
    BY <1>1 DEF KeyInv, NoLateScore, keyVars
  <2>2. \A q \in Procs :
          (Seated(q)' /\ (handlerPc'[q] = "idle" \/ handlerReq'[q].ctx)) =>
              now' <= verdict'[q].until
    BY <1>1, <1>5, <1>6 DEF KeyInv, keyVars, handlerVars
  <2> QED BY <1>1, <2>1, <2>2 DEF KeyInv, keyVars
<1>7. ASSUME served' = served, ~Seated(p)' PROVE NumbersInv' /\ PlaceInv' /\ RowsInv'
  <2>1. \A q \in Procs : /\ Seated(q)' => /\ Seated(q) /\ place'[q] = place[q]
                                          /\ verdict'[q].id = verdict[q].id
                         /\ Unscored(q)' => Unscored(q)
    BY <1>5, <1>7 DEF Unscored
  <2>2. NumbersInv'
    BY <1>1, <1>7, NumbersFrame DEF Others
  <2>3. PlaceInv'
    BY <1>1, <1>7, <2>1, PlaceFrame
  <2> QED BY <1>1, <1>7, <2>1, <2>2, <2>3, RowsFrame DEF handlerVars
<1> QED BY <1>2, <1>3, <1>4, <1>5, <1>6, <1>7

(* A request is let through: there is a new place, and it is its own. *)
LEMMA SeatsInv ==
    ASSUME IInv, NEW p \in Procs, Seats(p), Others(p), Seated(p)',
           UNCHANGED <<minted, now, scored, logs, counted>>, verdict'[p] = verdict[p],
           ~Seated(p),
           \A q \in Procs \ {p} : /\ Seated(q)' = Seated(q) /\ Unscored(q)' = Unscored(q)
                                  /\ place'[q] = place[q] /\ verdict'[q] = verdict[q]
    PROVE  NumbersInv' /\ WindowInv' /\ PlaceInv' /\ RowsInv'
<1> DEFINE i == verdict[p].id
<1>1. /\ Types /\ FlowInv /\ KeyInv /\ NumbersInv /\ WindowInv /\ PlaceInv /\ RowsInv
      /\ limiterReq[p] \in Limiter!Request /\ served \subseteq Limiter!Served
  BY DEF IInv, Types, LimiterType
<1>2. /\ limiterPc[p] = "ttl" /\ limiterPc'[p] = "idle" /\ UNCHANGED counters
      /\ limiterReq[p].current <= limiterReq[p].limit
      /\ Draw(p) \notin served /\ served' = served \cup {Draw(p)} /\ place'[p] = Draw(p)
  BY DEF Seats
<1>3. /\ stage[p] = "limiter" /\ Of(limiterReq[p].key, i)
      /\ limiterReq[p].limit = verdict[p].rate
  BY <1>1, <1>2 DEF FlowInv
<1>4. i \in Ids /\ verdict[p].rate = minted[i].rate
  BY <1>1, <1>3 DEF FlowInv, KeyInv, Verdicts
<1>5. PICK d : d = Draw(p)
  OBVIOUS
<1>6. /\ d.no = limiterReq[p].no /\ d.key = limiterReq[p].key
      /\ d.limit = limiterReq[p].limit /\ d.current = limiterReq[p].current
  BY <1>5 DEF Draw
<1>7. d \notin served /\ served' = served \cup {d} /\ place'[p] = d
  BY <1>2, <1>5
<1>8. Of(d.key, i) /\ \A j \in Ids : Of(d.key, j) => j = i
  BY <1>3, <1>6 DEF Of
<1>9. NumbersInv'
  <2>1. IsFiniteSet(served')
    BY <1>1, <1>7, FS_AddElement DEF NumbersInv
  <2>2. \A s \in served' : s.no <= counted'
    BY <1>1, <1>2, <1>6, <1>7 DEF NumbersInv
  <2>3. \A s \in served', q \in Procs : limiterPc'[q] # "idle" => s.no # limiterReq'[q].no
    BY <1>1, <1>2, <1>6, <1>7 DEF NumbersInv, Others
  <2> QED BY <1>1, <1>2, <2>1, <2>2, <2>3 DEF NumbersInv, Others
<1>10. WindowInv'
  <2>1. \A q \in Procs : limiterPc'[q] = "ttl" =>
          limiterPc[q] = "ttl" /\ limiterReq'[q] = limiterReq[q] /\ Draw(q)' = Draw(q)
    BY <1>2 DEF Others, Draw
  <2>2. Draws' \subseteq Draws
    BY <1>2, <2>1 DEF Draws
  <2>3. \A s \in served' : s.current \in 1..s.limit
    <3>1. limiterReq[p].current \in Nat /\ limiterReq[p].limit \in Nat
      BY <1>1 DEF Limiter!Request
    <3>2. d.current \in 1..d.limit
      BY <1>1, <1>2, <1>6, <3>1 DEF WindowInv
    <3> QED BY <1>1, <1>7, <3>2 DEF WindowInv
  <2>4. \A s \in served', j \in Ids : Of(s.key, j) => s.limit = minted'[j].rate
    BY <1>1, <1>3, <1>4, <1>6, <1>7, <1>8 DEF WindowInv
  <2>5. \A x : EndOf(x)' = EndOf(x)
    BY DEF EndOf
  <2>6. \A j : Limiter!WindowEnd(j)' = Limiter!WindowEnd(j)
    BY DEF Limiter!WindowEnd
  <2> QED BY <1>1, <1>2, <2>1, <2>2, <2>3, <2>4, <2>5, <2>6 DEF WindowInv
<1>11. PlaceInv'
  <2>1. \A q \in Procs : Seated(q)' => place'[q] \in served' /\ Of(place'[q].key, verdict'[q].id)
    BY <1>1, <1>7, <1>8 DEF PlaceInv
  <2>2. \A q \in Procs \ {p} : Unscored(q)' => place'[q] \in served
    BY <1>1 DEF PlaceInv, Unscored
  <2>3. \A s \in scored' : s.place \in served
    BY <1>1 DEF PlaceInv
  <2>4. \A q, r \in Procs : (q # r /\ Unscored(q)' /\ Unscored(r)') => place'[q] # place'[r]
    <3>1. ASSUME NEW q \in Procs, NEW r \in Procs, q # r, q # p, r # p,
                 Unscored(q)', Unscored(r)'
          PROVE  place'[q] # place'[r]
      BY <1>1, <3>1 DEF PlaceInv
    <3> QED BY <1>7, <2>2, <3>1
  <2>5. \A q \in Procs, s \in scored' : Unscored(q)' => s.place # place'[q]
    <3>1. ASSUME NEW q \in Procs, q # p, NEW s \in scored', Unscored(q)'
          PROVE  s.place # place'[q]
      BY <1>1, <3>1 DEF PlaceInv
    <3> QED BY <1>7, <2>3, <3>1
  <2>6. /\ \A s \in scored' : s.place \in served' /\ Of(s.place.key, s.id)
        /\ \A r, s \in scored' : r.place = s.place => r = s
    BY <1>1, <1>7 DEF PlaceInv
  <2> QED BY <2>1, <2>4, <2>5, <2>6 DEF PlaceInv
<1>12. RowsInv'
  <2>1. ASSUME NEW j \in Ids
        PROVE  Cardinality(RowsBy(j)') + Cardinality(Writers(j)') <= Cardinality(PlacesOf(j)')
    <3>1. RowsBy(j)' = RowsBy(j)
      BY DEF RowsBy
    <3>2. /\ IsFiniteSet(Writers(j)) /\ Cardinality(Writers(j)) \in Nat
          /\ IsFiniteSet(PlacesOf(j)) /\ Cardinality(PlacesOf(j)) \in Nat
          /\ Cardinality(RowsBy(j)) \in Nat
      BY <1>1, Sizes DEF RowsInv
    <3>3. Cardinality(RowsBy(j)) + Cardinality(Writers(j)) <= Cardinality(PlacesOf(j))
      BY <1>1 DEF RowsInv
    <3>4. CASE j = i
      <4>1. Writers(j)' = Writers(j) \cup {p} /\ p \notin Writers(j)
        BY <3>4 DEF Writers
      <4>2. PlacesOf(j)' = PlacesOf(j) \cup {d} /\ d \notin PlacesOf(j)
        BY <1>7, <1>8, <3>4 DEF PlacesOf
      <4>3. Cardinality(Writers(j)') = Cardinality(Writers(j)) + 1
        BY <3>2, <4>1, FS_AddElement
      <4>4. Cardinality(PlacesOf(j)') = Cardinality(PlacesOf(j)) + 1
        BY <3>2, <4>2, FS_AddElement
      <4> QED BY <3>1, <3>2, <3>3, <4>3, <4>4
    <3>5. CASE j # i
      <4>1. Writers(j)' = Writers(j)
        BY <3>5 DEF Writers
      <4>2. PlacesOf(j)' = PlacesOf(j)
        BY <1>7, <1>8, <3>5 DEF PlacesOf
      <4> QED BY <3>1, <3>3, <4>1, <4>2
    <3> QED BY <3>4, <3>5
  <2>2. IsFiniteSet(logs')
    BY <1>1 DEF RowsInv
  <2> QED BY <2>1, <2>2 DEF RowsInv
<1> QED BY <1>9, <1>10, <1>11, <1>12

(* The calls of the limiter. *)
LEMMA LimiterStepInv ==
    ASSUME IInv, NEW p \in Procs, LimiterStep(p)
    PROVE  IInv'
<1>1. /\ Types /\ FlowInv /\ KeyInv /\ NumbersInv /\ WindowInv /\ PlaceInv /\ RowsInv
      /\ limiterReq[p] \in Limiter!Request
  BY DEF IInv, Types, LimiterType
<1>2. /\ UNCHANGED <<keyVars, handlerVars, now, stage, scored, counted>> /\ Others(p)
      /\ LimiterType' /\ FlowType'
      /\ Counts(p) \/ Refuses(p) \/ Seats(p)
  BY <1>1, LimiterStepFacts
<1>3. /\ limiterPc[p] # "idle"
      /\ limiterPc'[p] # "idle" =>
           /\ limiterReq'[p].key = limiterReq[p].key /\ limiterReq'[p].no = limiterReq[p].no
           /\ limiterReq'[p].limit = limiterReq[p].limit
           /\ limiterReq'[p].deadline = limiterReq[p].deadline
  BY <1>1, <1>2 DEF Counts, Refuses, Seats, Limiter!Request
<1>4. /\ KeysType' /\ LimiterType' /\ HandlerType' /\ FlowType' /\ FlowInv'
      /\ stage[p] = "limiter" /\ handlerPc[p] = "idle" /\ ~Seated(p)
      /\ \A q \in Procs \ {p} : /\ Seated(q)' = Seated(q) /\ Unscored(q)' = Unscored(q)
                                /\ place'[q] = place[q] /\ verdict'[q] = verdict[q]
      /\ (Seated(p)' => now <= verdict[p].until) => KeyInv'
      /\ (served' = served /\ ~Seated(p)') => NumbersInv' /\ PlaceInv' /\ RowsInv'
  BY <1>2, <1>3, LimiterStepKeeps
<1>5. handlerPc'[p] = "idle" /\ stage'[p] = "limiter" /\ verdict'[p] = verdict[p]
  BY <1>2, <1>4 DEF handlerVars, keyVars
<1>6. CASE Counts(p)
  <2>1. served' = served /\ ~Seated(p)'
    BY <1>5, <1>6 DEF Counts, Seated, BetweenCalls
  <2>2. WindowInv'
    BY <1>2, <1>6, CountsWindow DEF keyVars
  <2> QED BY <1>4, <2>1, <2>2 DEF IInv
<1>7. CASE Refuses(p)
  <2>1. served' = served /\ ~Seated(p)'
    BY <1>5, <1>7 DEF Refuses, Seated, LetThrough
  <2>2. WindowInv'
    BY <1>1, <1>2, <1>7, WindowFrame DEF Refuses, Others, keyVars
  <2> QED BY <1>4, <2>1, <2>2 DEF IInv
<1>8. CASE Seats(p)
  <2>1. Seated(p)'
    BY <1>5, <1>8 DEF Seats, Seated, BetweenCalls, LetThrough
  <2>2. now <= verdict[p].until
    BY <1>1, <1>8 DEF Seats, FlowInv
  <2>3. NumbersInv' /\ WindowInv' /\ PlaceInv' /\ RowsInv'
    BY <1>2, <1>4, <1>5, <1>8, <2>1, SeatsInv DEF keyVars, handlerVars
  <2> QED BY <1>4, <2>2, <2>3 DEF IInv
<1> QED BY <1>2, <1>6, <1>7, <1>8

(* The handler is called: the place is handed on. *)
LEMMA EnterHandlerInv ==
    ASSUME IInv, NEW p \in Procs, NEW b \in Bodies, EnterHandler(p, b)
    PROVE  IInv'
<1>1. Types /\ FlowInv /\ KeyInv /\ NumbersInv /\ WindowInv /\ PlaceInv /\ RowsInv
  BY DEF IInv, Types
<1>2. /\ UNCHANGED <<keyVars, limiterVars, logs, now, place, scored>> /\ Others(p)
      /\ BetweenCalls(p) /\ LetThrough(p) /\ stage'[p] = "handler"
      /\ handlerPc[p] = "idle" /\ handlerPc'[p] = "body"
      /\ handlerReq'[p].key = verdict[p].id /\ handlerReq'[p].body = b
      /\ handlerReq'[p].ctx = TRUE
      /\ HandlerType' /\ FlowType'
  BY <1>1, EnterHandlerFacts
<1>3. KeysType' /\ LimiterType'
  BY <1>1, <1>2 DEF Types, KeysType, LimiterType, keyVars, limiterVars
<1>4. stage[p] = "limiter" /\ limiterPc[p] = "idle"
  BY <1>2 DEF BetweenCalls
<1>5. FlowInv'
  BY <1>1, <1>2, <1>4 DEF FlowInv, Others, keyVars, limiterVars
<1>6. \A q \in Procs : /\ Seated(q)' => /\ Seated(q) /\ place'[q] = place[q]
                                        /\ verdict'[q].id = verdict[q].id
                       /\ Unscored(q)' => Unscored(q)
  BY <1>2 DEF Seated, Unscored, BetweenCalls, LetThrough, Others, keyVars, limiterVars
<1>7. KeyInv'
  <2>1. NoLateScore'
    BY <1>1, <1>2 DEF KeyInv, NoLateScore, keyVars
  <2>2. now <= verdict[p].until
    BY <1>1, <1>2 DEF KeyInv, Seated
  <2>3. \A q \in Procs :
          (Seated(q)' /\ (handlerPc'[q] = "idle" \/ handlerReq'[q].ctx)) =>
              now' <= verdict'[q].until
    BY <1>1, <1>2, <1>6, <2>2 DEF KeyInv, keyVars, Others
  <2>4. \A q \in Procs : stage'[q] # "none" => stage[q] # "none"
    BY <1>2, <1>4 DEF Others
  <2> QED BY <1>1, <1>2, <2>1, <2>3, <2>4 DEF KeyInv, keyVars
<1>8. NumbersInv'
  BY <1>1, <1>2, NumbersFrame DEF limiterVars
<1>9. WindowInv'
  BY <1>1, <1>2, WindowFrame DEF limiterVars, keyVars
<1>10. PlaceInv'
  BY <1>1, <1>2, <1>6, PlaceFrame DEF limiterVars
<1>11. RowsInv'
  BY <1>1, <1>2, <1>6, RowsFrame DEF limiterVars
<1> QED BY <1>2, <1>3, <1>5, <1>7, <1>8, <1>9, <1>10, <1>11 DEF IInv

(* The vendor is reached in time, and with a place that has had no score. *)
LEMMA ScoredInv ==
    ASSUME IInv, NEW p \in Procs, Scored(p), Others(p), Seated(p)',
           UNCHANGED <<minted, revokedAt, verdict, now, served, place>>,
           \A q \in Procs : Seated(q)' => Seated(q),
           \A q \in Procs \ {p} : Unscored(q)' = Unscored(q)
    PROVE  PlaceInv' /\ NoLateScore' /\ (\A s \in scored' : s.at <= now')
<1>1. /\ Types /\ FlowInv /\ KeyInv /\ PlaceInv /\ now \in Nat
      /\ revokedAt \in [Ids -> Nat \cup {-1}]
  BY DEF IInv, Types, KeysType
<1>2. /\ handlerPc[p] = "predict" /\ handlerReq[p].ctx /\ handlerPc'[p] = "log"
  BY DEF Scored
<1>3. Seated(p) /\ Unscored(p) /\ ~Unscored(p)'
  BY <1>2 DEF Seated, Unscored
<1>4. /\ stage[p] = "handler" /\ handlerReq[p].key = verdict[p].id
      /\ now <= verdict[p].until
  BY <1>1, <1>2, <1>3 DEF FlowInv, KeyInv
<1>5. PICK i \in Ids, u \in Nat : i = verdict[p].id /\ u = verdict[p].until
  BY <1>1, <1>4 DEF FlowInv, Verdicts
<1>6. PICK n \in Nat : scored' = scored \cup
         {[no |-> n, id |-> handlerReq[p].key, at |-> now, place |-> place[p]]}
  BY DEF Scored
<1>7. PICK s : s = [no |-> n, id |-> handlerReq[p].key, at |-> now, place |-> place[p]]
  OBVIOUS
<1>8. scored' = scored \cup {s} /\ s.id = i /\ s.at = now /\ s.place = place[p]
  BY <1>4, <1>5, <1>6, <1>7
<1>9. revokedAt[i] # -1 => now <= revokedAt[i] + Grace
  <2>1. revokedAt[i] # -1 => u <= revokedAt[i] + Grace
    BY <1>1, <1>4, <1>5 DEF KeyInv
  <2>2. revokedAt[i] \in Int /\ now <= u
    BY <1>1, <1>4, <1>5
  <2> QED BY <1>1, <2>1, <2>2, ServiceAssumption
<1>10. NoLateScore'
  BY <1>1, <1>8, <1>9 DEF KeyInv, NoLateScore, Registry!Never
<1>11. \A r \in scored' : r.at <= now'
  BY <1>1, <1>8 DEF KeyInv
<1>12. PlaceInv'
  <2>1. place[p] \in served /\ Of(place[p].key, i)
    BY <1>1, <1>3, <1>5 DEF PlaceInv
  <2>2. \A q \in Procs : Seated(q)' => place'[q] \in served' /\ Of(place'[q].key, verdict'[q].id)
    BY <1>1 DEF PlaceInv
  <2>3. \A q, r \in Procs : (q # r /\ Unscored(q)' /\ Unscored(r)') => place'[q] # place'[r]
    BY <1>1, <1>3 DEF PlaceInv
  <2>4. \A q \in Procs, r \in scored' : Unscored(q)' => r.place # place'[q]
    <3>1. ASSUME NEW q \in Procs, q # p, Unscored(q) PROVE place[q] # place[p]
      BY <1>1, <1>3, <3>1 DEF PlaceInv
    <3>2. \A q \in Procs, r \in scored : Unscored(q) => r.place # place[q]
      BY <1>1 DEF PlaceInv
    <3> QED BY <1>3, <1>8, <3>1, <3>2
  <2>5. \A r \in scored' : r.place \in served' /\ Of(r.place.key, r.id)
    BY <1>1, <1>8, <2>1 DEF PlaceInv
  <2>6. \A q, r \in scored' : q.place = r.place => q = r
    <3>1. \A r \in scored : r.place # s.place
      BY <1>1, <1>3, <1>8 DEF PlaceInv
    <3> QED BY <1>1, <1>8, <3>1 DEF PlaceInv
  <2> QED BY <2>2, <2>3, <2>4, <2>5, <2>6 DEF PlaceInv
<1> QED BY <1>10, <1>11, <1>12

(* A row is written, and its writer is done. *)
LEMMA WritesInv ==
    ASSUME IInv, NEW p \in Procs, Writes(p), Seated(p), ~Seated(p)', UNCHANGED <<verdict, served>>,
           \A q \in Procs \ {p} : Seated(q)' = Seated(q)
    PROVE  RowsInv'
<1>1. FlowInv /\ NumbersInv /\ RowsInv /\ logs \subseteq Rows
  BY DEF IInv, HandlerType
<1>2. PICK l \in Rows : l.by = handlerReq[p].key /\ logs' = logs \cup {l}
  BY DEF Writes
<1>3. l.by = verdict[p].id
  BY <1>1, <1>2 DEF FlowInv, Writes
<1>4. IsFiniteSet(logs')
  BY <1>1, <1>2, FS_AddElement DEF RowsInv
<1>5. ASSUME NEW i \in Ids
      PROVE  Cardinality(RowsBy(i)') + Cardinality(Writers(i)') <= Cardinality(PlacesOf(i)')
  <2>1. PlacesOf(i)' = PlacesOf(i)
    BY DEF PlacesOf
  <2>2. /\ IsFiniteSet(Writers(i)) /\ Cardinality(Writers(i)) \in Nat
        /\ IsFiniteSet(RowsBy(i)) /\ Cardinality(RowsBy(i)) \in Nat
        /\ Cardinality(PlacesOf(i)) \in Nat
    BY <1>1, Sizes DEF RowsInv
  <2>3. Cardinality(RowsBy(i)) + Cardinality(Writers(i)) <= Cardinality(PlacesOf(i))
    BY <1>1 DEF RowsInv
  <2>4. CASE verdict[p].id = i
    <3>1. RowsBy(i)' = RowsBy(i) \cup {l}
      BY <1>2, <1>3, <2>4 DEF RowsBy
    <3>2. Writers(i)' = Writers(i) \ {p} /\ p \in Writers(i)
      BY <2>4 DEF Writers
    <3>3. /\ Cardinality(RowsBy(i)') <= Cardinality(RowsBy(i)) + 1
          /\ Cardinality(RowsBy(i)') \in Nat
      <4>1. /\ IsFiniteSet(RowsBy(i)')
            /\ Cardinality(RowsBy(i)') = IF l \in RowsBy(i) THEN Cardinality(RowsBy(i))
                                         ELSE Cardinality(RowsBy(i)) + 1
        <5>1. \A S : IsFiniteSet(S) =>
                /\ IsFiniteSet(S \cup {l})
                /\ Cardinality(S \cup {l}) = IF l \in S THEN Cardinality(S)
                                            ELSE Cardinality(S) + 1
          BY FS_AddElement
        <5> QED BY <2>2, <3>1, <5>1
      <4> QED BY <2>2, <4>1
    <3>4. Cardinality(Writers(i)') = Cardinality(Writers(i)) - 1
      <4>1. \A S : IsFiniteSet(S) /\ p \in S =>
              Cardinality(S \ {p}) = Cardinality(S) - 1
        BY FS_RemoveElement
      <4> QED BY <2>2, <3>2, <4>1
    <3> QED BY <2>1, <2>2, <2>3, <3>3, <3>4
  <2>5. CASE verdict[p].id # i
    <3>1. RowsBy(i)' = RowsBy(i)
      BY <1>2, <1>3, <2>5 DEF RowsBy
    <3>2. Writers(i)' = Writers(i)
      BY <2>5 DEF Writers
    <3> QED BY <2>1, <2>3, <3>1, <3>2
  <2> QED BY <2>4, <2>5
<1> QED BY <1>4, <1>5 DEF RowsInv

(* The steps of the handler. *)
LEMMA HandlerStepInv ==
    ASSUME IInv, NEW p \in Procs, HandlerStep(p)
    PROVE  IInv'
<1>1. Types /\ FlowInv /\ KeyInv /\ NumbersInv /\ WindowInv /\ PlaceInv /\ RowsInv
  BY DEF IInv, Types
<1>2. /\ UNCHANGED <<keyVars, limiterVars, now, stage, place>> /\ Others(p)
      /\ HandlerType' /\ FlowType' /\ handlerPc[p] # "idle"
      /\ handlerReq'[p].key = handlerReq[p].key
      /\ handlerReq'[p].body = handlerReq[p].body
      /\ GoesOn(p) \/ Scored(p) \/ Writes(p)
  BY <1>1, HandlerStepFacts
<1>3. KeysType' /\ LimiterType'
  BY <1>1, <1>2 DEF Types, KeysType, LimiterType, keyVars, limiterVars
<1>4. stage[p] = "handler" /\ limiterPc[p] = "idle" /\ Seated(p)
  BY <1>1, <1>2 DEF FlowInv, Seated
<1>5. FlowInv'
  <2>1. handlerPc'[p] = "predict" => handlerReq'[p].body \in ValidBodies
    BY <1>1, <1>2 DEF FlowInv, GoesOn, Scored, Writes
  <2> QED BY <1>1, <1>2, <1>4, <2>1 DEF FlowInv, Others, keyVars, limiterVars
<1>6. /\ \A q \in Procs \ {p} : Seated(q)' = Seated(q) /\ Unscored(q)' = Unscored(q)
      /\ Seated(p)' = (handlerPc'[p] # "idle")
  BY <1>2, <1>4 DEF Seated, Unscored, BetweenCalls, LetThrough, Others, limiterVars
<1>7. handlerPc'[p] # "idle" /\ handlerReq'[p].ctx => handlerReq[p].ctx
  BY <1>2 DEF GoesOn, Scored, Writes
<1>8. ASSUME NoLateScore', \A s \in scored' : s.at <= now' PROVE KeyInv'
  <2>1. \A q \in Procs :
          (Seated(q)' /\ (handlerPc'[q] = "idle" \/ handlerReq'[q].ctx)) =>
              now' <= verdict'[q].until
    <3>1. ASSUME NEW q \in Procs, q # p, Seated(q)',
                 handlerPc'[q] = "idle" \/ handlerReq'[q].ctx
          PROVE  now' <= verdict'[q].until
      BY <1>1, <1>2, <1>6, <3>1 DEF KeyInv, Others, keyVars
    <3>2. ASSUME Seated(p)', handlerPc'[p] = "idle" \/ handlerReq'[p].ctx
          PROVE  now' <= verdict'[p].until
      BY <1>1, <1>2, <1>4, <1>6, <1>7, <3>2 DEF KeyInv, keyVars
    <3> QED BY <3>1, <3>2
  <2> QED BY <1>1, <1>2, <1>8, <2>1 DEF KeyInv, keyVars
<1>9. NumbersInv'
  BY <1>1, <1>2, NumbersFrame DEF limiterVars
<1>10. WindowInv'
  BY <1>1, <1>2, WindowFrame DEF limiterVars, keyVars
<1>11. ASSUME UNCHANGED scored, Unscored(p)' => Unscored(p)
       PROVE  PlaceInv' /\ KeyInv'
  <2>1. PlaceInv'
    BY <1>1, <1>2, <1>4, <1>6, <1>11, PlaceFrame DEF limiterVars, keyVars
  <2>2. NoLateScore' /\ \A s \in scored' : s.at <= now'
    BY <1>1, <1>2, <1>11 DEF KeyInv, NoLateScore, keyVars
  <2> QED BY <1>8, <2>1, <2>2
<1>12. ASSUME UNCHANGED logs PROVE RowsInv'
  BY <1>1, <1>2, <1>4, <1>6, <1>12, RowsFrame DEF limiterVars, keyVars
<1>13. CASE GoesOn(p)
  <2>1. Unscored(p)' => Unscored(p)
    BY <1>2, <1>4, <1>6, <1>13 DEF GoesOn, Unscored
  <2>2. UNCHANGED <<logs, scored>>
    BY <1>13 DEF GoesOn
  <2> QED BY <1>2, <1>3, <1>5, <1>9, <1>10, <1>11, <1>12, <2>1, <2>2 DEF IInv
<1>14. CASE Scored(p)
  <2>1. Seated(p)' /\ UNCHANGED logs
    BY <1>6, <1>14 DEF Scored
  <2>2. PlaceInv' /\ NoLateScore' /\ (\A s \in scored' : s.at <= now')
    BY <1>2, <1>4, <1>6, <1>14, <2>1, ScoredInv DEF keyVars, limiterVars
  <2> QED BY <1>2, <1>3, <1>5, <1>8, <1>9, <1>10, <1>12, <2>1, <2>2 DEF IInv
<1>15. CASE Writes(p)
  <2>1. ~Seated(p)' /\ UNCHANGED scored
    BY <1>6, <1>15 DEF Writes
  <2>2. Unscored(p)' => Unscored(p)
    BY <2>1 DEF Unscored
  <2>3. RowsInv'
    BY <1>2, <1>4, <1>6, <1>15, <2>1, WritesInv DEF keyVars, limiterVars
  <2> QED BY <1>2, <1>3, <1>5, <1>9, <1>10, <1>11, <2>1, <2>2, <2>3 DEF IInv
<1> QED BY <1>2, <1>13, <1>14, <1>15

(* The answer takes the identity and the place away. *)
LEMMA AnswerInv ==
    ASSUME IInv, NEW p \in Procs, Answer(p)
    PROVE  IInv'
<1>1. Types /\ FlowInv /\ KeyInv /\ NumbersInv /\ WindowInv /\ PlaceInv /\ RowsInv
  BY DEF IInv, Types
<1>2. /\ UNCHANGED <<minted, revokedAt, now, counters, limiterPc, counted, served,
                     logs, handlerPc, handled, scored>> /\ Others(p)
      /\ stage'[p] = "none" /\ limiterPc[p] = "idle" /\ handlerPc[p] = "idle"
      /\ Types'
  BY <1>1, AnswerFacts
<1>3. FlowInv'
  BY <1>1, <1>2 DEF FlowInv, Others
<1>4. \A q \in Procs : /\ Seated(q)' => /\ Seated(q) /\ q # p /\ place'[q] = place[q]
                                        /\ verdict'[q] = verdict[q]
                       /\ Unscored(q)' => Unscored(q)
  BY <1>2 DEF Seated, Unscored, BetweenCalls, LetThrough, Others
<1>5. KeyInv'
  <2>1. NoLateScore'
    BY <1>1, <1>2 DEF KeyInv, NoLateScore
  <2>2. \A q \in Procs : stage'[q] # "none" =>
          stage[q] # "none" /\ verdict'[q] = verdict[q]
    BY <1>2 DEF Others
  <2>3. \A q \in Procs :
          (Seated(q)' /\ (handlerPc'[q] = "idle" \/ handlerReq'[q].ctx)) =>
              now' <= verdict'[q].until
    BY <1>1, <1>2, <1>4 DEF KeyInv, Others
  <2> QED BY <1>1, <1>2, <2>1, <2>2, <2>3 DEF KeyInv
<1>6. NumbersInv'
  BY <1>1, <1>2, NumbersFrame DEF Others
<1>7. WindowInv'
  BY <1>1, <1>2, WindowFrame DEF Others
<1>8. PlaceInv'
  BY <1>1, <1>2, <1>4, PlaceFrame
<1>9. RowsInv'
  BY <1>1, <1>2, <1>4, RowsFrame
<1> QED BY <1>2, <1>3, <1>5, <1>6, <1>7, <1>8, <1>9 DEF IInv, Types

(* Time passes: whoever is about to be served is still in time, and a counter
   that is dropped has outlived its window. *)
LEMMA TickInv ==
    ASSUME IInv, Tick
    PROVE  IInv'
<1>1. /\ Types /\ FlowInv /\ KeyInv /\ NumbersInv /\ WindowInv /\ PlaceInv /\ RowsInv
      /\ now \in Nat /\ counters \in [Limiter!CounterKeys -> Limiter!Counter \cup {None}]
  BY DEF IInv, Types, KeysType, LimiterType
<1>2. /\ now' = now + 1 /\ Types'
      /\ UNCHANGED <<minted, revokedAt, verdict, limiterPc, limiterReq, counted,
                     served, handlerVars, stage, place, scored>>
      /\ \A p \in Procs : ~OutOfTime(p) /\ ~BetweenCalls(p)
      /\ \A k \in Limiter!CounterKeys :
           \/ counters'[k] = None /\ counters[k] = None
           \/ counters'[k] = None /\ counters[k] # None /\ now' > counters[k].exp
           \/ counters'[k] = counters[k] /\ counters[k] # None /\ now' <= counters[k].exp
  BY <1>1, TickFacts
<1>3. FlowInv'
  <2>1. \A p \in Procs : limiterPc[p] # "idle" =>
          limiterReq[p].key[3] \in Nat /\ limiterReq[p].key[3] <= now
    BY <1>1, KeyFacts DEF FlowInv
  <2>2. \A p \in Procs : limiterPc[p] # "idle" => limiterReq[p].key[3] <= now'
    BY <1>1, <1>2, <2>1
  <2> QED BY <1>1, <1>2, <2>2 DEF FlowInv, handlerVars
<1>4. \A q \in Procs : Seated(q)' = Seated(q) /\ Unscored(q)' = Unscored(q)
  BY <1>2 DEF Seated, Unscored, BetweenCalls, LetThrough, handlerVars
<1>5. KeyInv'
  <2>1. ASSUME NEW q \in Procs, stage[q] # "none"
        PROVE  verdict[q].until <= now' + ReqTimeout
    <3>1. verdict[q].until \in Nat /\ verdict[q].until <= now + ReqTimeout
      BY <1>1, <2>1 DEF FlowInv, KeyInv, Verdicts
    <3> QED BY <1>1, <1>2, <3>1, ServiceAssumption
  <2>2. \A i \in Ids : revokedAt'[i] <= now'
    <3>1. \A i \in Ids : revokedAt[i] \in Int /\ revokedAt[i] <= now
      BY <1>1 DEF KeyInv, Types, KeysType
    <3> QED BY <1>1, <1>2, <3>1
  <2>3. ASSUME NEW q \in Procs, Seated(q), handlerPc[q] = "idle" \/ handlerReq[q].ctx
        PROVE  now' <= verdict[q].until
    <3>1. handlerPc[q] # "idle" /\ handlerReq[q].ctx
      BY <1>2, <2>3 DEF Seated
    <3>2. ~(now >= verdict[q].until)
      BY <1>2, <3>1 DEF OutOfTime
    <3>3. verdict[q].until \in Nat
      <4>1. stage[q] = "handler"
        BY <1>1, <3>1 DEF FlowInv
      <4> QED BY <1>1, <4>1 DEF FlowInv, Verdicts
    <3> QED BY <1>1, <1>2, <3>2, <3>3
  <2>4. \A s \in scored' : s.at <= now'
    <3>1. \A s \in scored : s.at \in Nat /\ s.at <= now
      BY <1>1 DEF KeyInv, Types, FlowType, Scores
    <3> QED BY <1>1, <1>2, <3>1
  <2>5. NoLateScore'
    BY <1>1, <1>2 DEF KeyInv, NoLateScore
  <2>6. \A q \in Procs : (Seated(q)' /\ (handlerPc'[q] = "idle" \/ handlerReq'[q].ctx)) =>
          now' <= verdict'[q].until
    BY <1>2, <1>4, <2>3 DEF handlerVars
  <2> QED BY <1>1, <1>2, <2>1, <2>2, <2>4, <2>5, <2>6 DEF KeyInv
<1>6. NumbersInv'
  BY <1>1, <1>2, NumbersFrame
<1>7. WindowInv'
  <2>1. Draws' = Draws
    BY <1>2 DEF Draws, Draw
  <2>2. \A d : EndOf(d)' = EndOf(d)
    BY DEF EndOf
  <2>3. \A j : Limiter!WindowEnd(j)' = Limiter!WindowEnd(j)
    BY DEF Limiter!WindowEnd
  <2>4. \A k \in Limiter!CounterKeys : counters'[k] # None =>
          now' <= counters'[k].exp /\ Limiter!WindowEnd(k[3]) <= counters'[k].exp
    BY <1>1, <1>2 DEF WindowInv
  <2>5. ASSUME NEW d \in Draws, d.at < EndOf(d)
        PROVE  /\ d.at <= now'
               /\ now' < EndOf(d) => counters'[d.key] # None /\ d.current <= counters'[d.key].n
    <3>1. d \in Limiter!Served
      BY <1>1, DrawTypes
    <3>2. d.key \in Limiter!CounterKeys /\ d.at \in Nat /\ EndOf(d) \in Nat
      BY <3>1, KeyFacts DEF Limiter!Served, EndOf
    <3>3. d.at <= now
      BY <1>1, <2>5 DEF WindowInv
    <3>4. ASSUME now' < EndOf(d)
          PROVE  counters'[d.key] # None /\ d.current <= counters'[d.key].n
      <4>1. now < EndOf(d)
        BY <1>1, <1>2, <3>2, <3>4
      <4>2. counters[d.key] # None /\ d.current <= counters[d.key].n
        BY <1>1, <2>5, <4>1 DEF WindowInv
      <4>3. EndOf(d) <= counters[d.key].exp /\ counters[d.key].exp \in Nat
        BY <1>1, <3>2, <4>2 DEF WindowInv, EndOf, Limiter!Counter
      <4>4. ~(now' > counters[d.key].exp)
        BY <1>1, <1>2, <3>2, <3>4, <4>3
      <4> QED BY <1>2, <3>2, <4>2, <4>4
    <3> QED BY <1>1, <1>2, <3>2, <3>3, <3>4
  <2>6. \A d, e \in Draws' :
          (/\ d.key = e.key /\ d.current = e.current
           /\ d.at < EndOf(d) /\ e.at < EndOf(e)) => d = e
    BY <1>1, <2>1 DEF WindowInv
  <2>7. /\ \A p \in Procs : limiterPc'[p] = "ttl" => limiterReq'[p].current >= 1
        /\ \A s \in served' : s.current \in 1..s.limit
        /\ \A s \in served', i \in Ids : Of(s.key, i) => s.limit = minted'[i].rate
    BY <1>1, <1>2 DEF WindowInv
  <2> QED BY <2>1, <2>2, <2>3, <2>4, <2>5, <2>6, <2>7 DEF WindowInv
<1>8. PlaceInv'
  BY <1>1, <1>2, <1>4, PlaceFrame
<1>9. RowsInv'
  BY <1>1, <1>2, <1>4, RowsFrame DEF handlerVars
<1> QED BY <1>2, <1>3, <1>5, <1>6, <1>7, <1>8, <1>9 DEF IInv, Types

-----------------------------------------------------------------------------
(* The theorems.                                                           *)

(* Every key is issued, nobody has asked yet. *)
LEMMA InitInv == Init => IInv
<1> SUFFICES ASSUME Init PROVE IInv
  OBVIOUS
<1>1. /\ revokedAt = [i \in Ids |-> -1] /\ verdict = [p \in Procs |-> None]
      /\ stage = [p \in Procs |-> "none"] /\ place = [p \in Procs |-> None] /\ scored = {}
      /\ counters = [k \in Limiter!CounterKeys |-> None]
      /\ limiterPc = [p \in Procs |-> "idle"] /\ counted = 0 /\ served = {} /\ now = 0
      /\ limiterReq = [p \in Procs |-> Limiter!NoRequest]
      /\ logs = {} /\ handlerPc = [p \in Procs |-> "idle"] /\ handled = 0
      /\ handlerReq = [p \in Procs |-> Handler!NoRequest]
  BY DEF Init, Limiter!Init, Handler!Init, Registry!Never
<1>2. KeysType
  <2>1. minted \in [Ids -> [key : Keys, user : Users, rate : Rates]]
    BY DEF Init
  <2> QED BY <1>1, <2>1, ServiceAssumption DEF KeysType
<1>3. LimiterType
  <2>1. Limiter!NoRequest \in Limiter!Request
    BY DEF Limiter!NoRequest, Limiter!Request
  <2> QED BY <1>1, <2>1 DEF LimiterType
<1>4. HandlerType
  <2>1. Handler!NoRequest \in HandlerRequest
    BY DEF Handler!NoRequest, HandlerRequest, Handler!Statuses, Payloads
  <2> QED BY <1>1, <2>1 DEF HandlerType
<1>5. FlowType /\ FlowInv
  BY <1>1 DEF FlowType, FlowInv
<1>6. \A p \in Procs : ~Seated(p) /\ ~Unscored(p)
  BY <1>1 DEF Seated, Unscored, BetweenCalls
<1>7. KeyInv
  BY <1>1, <1>6 DEF KeyInv, NoLateScore
<1>8. NumbersInv
  BY <1>1, FS_EmptySet DEF NumbersInv
<1>9. WindowInv
  <2>1. Draws = {}
    BY <1>1 DEF Draws
  <2> QED BY <1>1, <2>1 DEF WindowInv
<1>10. PlaceInv
  BY <1>1, <1>6 DEF PlaceInv
<1>11. RowsInv
  <2>1. \A i \in Ids : RowsBy(i) = {} /\ Writers(i) = {} /\ PlacesOf(i) = {}
    BY <1>1, <1>6 DEF RowsBy, Writers, PlacesOf
  <2>2. Cardinality({}) = 0 /\ IsFiniteSet({})
    BY FS_EmptySet
  <2> QED BY <1>1, <2>1, <2>2 DEF RowsInv
<1> QED BY <1>2, <1>3, <1>4, <1>5, <1>7, <1>8, <1>9, <1>10, <1>11 DEF IInv

(* Nothing happens. *)
LEMMA StutterInv ==
    ASSUME IInv, UNCHANGED vars
    PROVE  IInv'
<1> USE DEF vars, keyVars, limiterVars, handlerVars
<1>1. Types /\ FlowInv /\ KeyInv /\ NumbersInv /\ WindowInv /\ PlaceInv /\ RowsInv
  BY DEF IInv, Types
<1>2. KeysType' /\ LimiterType' /\ HandlerType' /\ FlowType' /\ FlowInv'
  BY <1>1 DEF Types, KeysType, LimiterType, HandlerType, FlowType, FlowInv
<1>3. \A q \in Procs : Seated(q)' = Seated(q) /\ Unscored(q)' = Unscored(q)
  BY DEF Seated, Unscored, BetweenCalls, LetThrough
<1>4. KeyInv'
  BY <1>1, <1>3 DEF KeyInv, NoLateScore
<1> QED BY <1>1, <1>2, <1>3, <1>4, NumbersFrame, WindowFrame, PlaceFrame, RowsFrame DEF IInv

(* IInv is an inductive invariant of the composition, for any users, keys,
   rates, windows and timeouts and any number of requests. *)
THEOREM ServiceInductive == Spec => []IInv
<1>1. IInv /\ [Next]_vars => IInv'
  <2> SUFFICES ASSUME IInv, [Next]_vars PROVE IInv'
    OBVIOUS
  <2>1. CASE \E i \in Ids : DeleteKey(i) \/ DeactivateKey(i)
    BY <2>1, RevokeInv
  <2>2. ASSUME NEW p \in Procs,
               \E i \in Ids, t \in now .. now + ReqTimeout : Authenticate(p, i, t)
        PROVE  IInv'
    BY <2>2, AuthenticateInv
  <2>3. ASSUME NEW p \in Procs, EnterLimiter(p) PROVE IInv'
    BY <2>3, EnterLimiterInv
  <2>4. ASSUME NEW p \in Procs, LimiterStep(p) PROVE IInv'
    BY <2>4, LimiterStepInv
  <2>5. ASSUME NEW p \in Procs, \E b \in Bodies : EnterHandler(p, b) PROVE IInv'
    BY <2>5, EnterHandlerInv
  <2>6. ASSUME NEW p \in Procs, HandlerStep(p) PROVE IInv'
    BY <2>6, HandlerStepInv
  <2>7. ASSUME NEW p \in Procs, Answer(p) PROVE IInv'
    BY <2>7, AnswerInv
  <2>8. CASE Tick
    BY <2>8, TickInv
  <2>9. CASE UNCHANGED vars
    BY <2>9, StutterInv
  <2> QED BY <2>1, <2>2, <2>3, <2>4, <2>5, <2>6, <2>7, <2>8, <2>9 DEF Next
<1> QED BY <1>1, InitInv, PTL DEF Spec

(* The identity that APIKeyAuth found is never looked up again, and yet no
   request of a revoked key reaches the vendor after the grace is over. *)
THEOREM ScoresInTime == Spec => []NoLateScore
<1>1. IInv => NoLateScore
  BY DEF IInv, KeyInv
<1> QED BY <1>1, ServiceInductive, PTL

(* A score has a place of its own in a window of its own key, and as many of
   them are counted in the window as the rate of the key allows. *)
THEOREM ScoresWithinTheRate == Spec => []ScoredWithinRate
<1>1. IInv => ScoredWithinRate
  <2> SUFFICES ASSUME IInv, NEW s \in scored
               PROVE  /\ s.place # None /\ s.place.key[1] = <<"apikey", s.id>>
                      /\ \A r \in scored : r.place = s.place => r = s
                      /\ Cardinality({r \in scored : /\ r.place.key = s.place.key
                                                     /\ Limiter!OnTime(r.place)})
                           <= minted[s.id].rate
    BY DEF ScoredWithinRate
  <2> DEFINE S == {r \in scored : r.place.key = s.place.key /\ Limiter!OnTime(r.place)}
             n == minted[s.id].rate
             f == [r \in S |-> r.place.current]
  <2>1. /\ Types /\ PlaceInv /\ WindowInv /\ scored \subseteq Scores
        /\ served \subseteq Limiter!Served
    BY DEF IInv, Types, FlowType, LimiterType
  <2>2. s.place \in served /\ Of(s.place.key, s.id) /\ s.id \in Ids
    BY <2>1 DEF PlaceInv, Scores
  <2>3. s.place # None
    BY <2>1, <2>2, ServiceAssumption
  <2>4. n \in Nat
    <3>1. n \in Rates
      BY <2>1, <2>2 DEF Types, KeysType
    <3> QED BY <3>1, ServiceAssumption
  <2>5. \A r \in S : r.place.current \in 1..n
    <3> SUFFICES ASSUME NEW r \in S PROVE r.place.current \in 1..n
      OBVIOUS
    <3>1. r.place \in served /\ Of(r.place.key, s.id)
      BY <2>1, <2>2 DEF PlaceInv, Of
    <3>2. r.place.limit = n /\ r.place.current \in 1..r.place.limit
      BY <2>1, <2>2, <3>1 DEF WindowInv
    <3> QED BY <3>2
  <2>6. \A q, r \in S : q.place.current = r.place.current => q = r
    <3> SUFFICES ASSUME NEW q \in S, NEW r \in S, q.place.current = r.place.current
                 PROVE  q = r
      OBVIOUS
    <3>1. q.place \in Draws /\ r.place \in Draws /\ q.place.key = r.place.key
      BY <2>1 DEF PlaceInv, Draws
    <3>2. q.place.at < EndOf(q.place) /\ r.place.at < EndOf(r.place)
      <4>1. \A d \in served : Limiter!OnTime(d) => d.at < EndOf(d)
        <5> SUFFICES ASSUME NEW d \in served, Limiter!OnTime(d) PROVE d.at < EndOf(d)
          OBVIOUS
        <5>1. d.at \in Nat /\ EndOf(d) \in Nat
          BY <2>1, KeyFacts DEF Limiter!Served, EndOf
        <5>2. d.at < EndOf(d) - 0
          BY DEF Limiter!OnTime, EndOf
        <5> QED BY <5>1, <5>2
      <4> QED BY <2>1, <4>1 DEF PlaceInv
    <3>3. q.place = r.place
      BY <2>1, <3>1, <3>2 DEF WindowInv
    <3> QED BY <2>1, <3>3 DEF PlaceInv
  <2>7. IsFiniteSet(1..n) /\ Cardinality(1..n) = n
    <3>1. 1 \in Int /\ n \in Int
      BY <2>4
    <3>2. /\ IsFiniteSet(1..n)
          /\ Cardinality(1..n) = IF 1 > n THEN 0 ELSE n - 1 + 1
      BY <3>1, FS_Interval, Zenon
    <3>3. (IF 1 > n THEN 0 ELSE n - 1 + 1) = n
      BY <2>4
    <3> QED BY <3>2, <3>3
  <2>8. Cardinality(S) <= n
    <3>1. f \in [S -> 1..n]
      BY <2>5
    <3>2. f \in Injection(S, 1..n)
      BY <2>6, <3>1 DEF Injection, IsInjective
    <3> HIDE DEF S, f, n
    <3>3. Cardinality(S) <= Cardinality(1..n)
      BY <2>7, <3>2, FS_Injection
    <3> QED BY <2>7, <3>3
  <2>9. \A r \in scored : r.place = s.place => r = s
    BY <2>1 DEF PlaceInv
  <2> QED BY <2>2, <2>3, <2>8, <2>9 DEF Of
<1> QED BY <1>1, ServiceInductive, PTL

(* A key has no more rows in inference_logs than it was given places. *)
THEOREM RowsHavePlaces == Spec => []RowsOfPlaces
<1>1. IInv => RowsOfPlaces
  <2> SUFFICES ASSUME IInv, NEW i \in Ids
               PROVE  Cardinality(RowsBy(i)) <= Cardinality(PlacesOf(i))
    BY DEF RowsOfPlaces, RowsBy, PlacesOf, Of
  <2>1. /\ Cardinality(RowsBy(i)) \in Nat /\ Cardinality(Writers(i)) \in Nat
        /\ Cardinality(PlacesOf(i)) \in Nat
    BY Sizes DEF IInv, RowsInv
  <2>2. Cardinality(RowsBy(i)) + Cardinality(Writers(i)) <= Cardinality(PlacesOf(i))
    BY DEF IInv, RowsInv
  <2> QED BY <2>1, <2>2
<1> QED BY <1>1, ServiceInductive, PTL
=============================================================================
