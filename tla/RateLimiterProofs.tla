------------------------- MODULE RateLimiterProofs -------------------------
(***************************************************************************)
(* The safety properties of RateLimiter hold for any identities, limits,   *)
(* replicas, clocks and numbers of requests.  What is promised of windows  *)
(* needs a window of whole seconds, because EXPIRE takes nothing else.     *)
(***************************************************************************)
EXTENDS RateLimiter, FiniteSetTheorems, TLAPS

USE TimeAssumption

(* The limit of everybody who is counted under k. *)
LimitOf(k) == Limit(CHOOSE i \in Identities : Identifier(i) = k[1])

-----------------------------------------------------------------------------
(* What the steps do, told apart by what they mean for counters and places. *)

(* Nothing but p's own program counter and locals may change. *)
Others(p) == pc' = [pc EXCEPT ![p] = pc'[p]] /\ req' = [req EXCEPT ![p] = req'[p]]

(* A request has read the clock and knows its counter. *)
Starts(p) ==
    /\ pc[p] = "idle" /\ pc'[p] = "incr" /\ Others(p)
    /\ sent' = sent + 1
    /\ \E i \in Identities, e \in Endpoints, skew \in 0..MaxSkew :
         req'[p] = [NoRequest EXCEPT !.no = sent + 1, !.limit = Limit(i),
                       !.key = <<Identifier(i), e, WindowStart(now + skew)>>,
                       !.deadline = now + ReqTimeout, !.status = "pending"]
    /\ UNCHANGED <<counters, served, wasted, now>>

(* A request is counted, and told so. *)
Counts(p) ==
    /\ pc[p] = "incr" /\ pc'[p] = "ttl" /\ Others(p)
    /\ CanCall(p) /\ Script(req[p].key)
    /\ req'[p] = [req[p] EXCEPT !.current = NextValue(req[p].key), !.at = now]
    /\ UNCHANGED <<sent, served, wasted, now>>

(* A request tries again or comes to nothing before it has a value; it may
   have been counted. *)
Misses(p) ==
    /\ pc[p] \in {"idle", "incr"} /\ Others(p)
    /\ \/ pc'[p] = "idle" /\ req'[p] \in {NoRequest, Status("500")}
       \/ /\ pc[p] = "incr" /\ pc'[p] = "incr"
          /\ req'[p] = [req[p] EXCEPT !.tries = @ + 1]
    /\ \/ pc[p] = "incr" /\ Script(req[p].key) /\ Waste(req[p].key)
       \/ UNCHANGED <<counters, wasted>>
    /\ UNCHANGED <<sent, served, now>>

(* A counted request is refused, *)
Refused(p) ==
    /\ pc[p] = "ttl" /\ pc'[p] = "idle" /\ Others(p)
    /\ Exceeded(p)
    /\ req'[p] = TooMany(p, TTLSeconds(req[p].key))
    /\ UNCHANGED <<counters, sent, served, wasted, now>>

(* let through, *)
Draw(p) == [no |-> req[p].no, key |-> req[p].key, limit |-> req[p].limit,
            current |-> req[p].current, at |-> req[p].at]

Admitted(p) ==
    /\ pc[p] = "ttl" /\ pc'[p] = "idle" /\ Others(p)
    /\ ~Exceeded(p)
    /\ req'[p] = Status("admitted")
    /\ served' = served \cup {Draw(p)}
    /\ UNCHANGED <<counters, sent, wasted, now>>

(* or comes to nothing. *)
Fails(p) ==
    /\ pc[p] = "ttl" /\ pc'[p] = "idle" /\ Others(p)
    /\ req'[p] \in {NoRequest, Status("500")}
    /\ Waste(req[p].key)
    /\ UNCHANGED <<counters, sent, served, now>>

Step(p) ==
    Starts(p) \/ Counts(p) \/ Misses(p) \/ Refused(p) \/ Admitted(p) \/ Fails(p)

(* These are all the steps there are. *)
LEMMA StepCases ==
    ASSUME TypeOK, [Next]_vars
    PROVE  (\E p \in Procs : Step(p)) \/ Tick \/ UNCHANGED vars
<1> USE DEF Step
<1>1. pc \in [Procs -> {"idle", "incr", "ttl"}] /\ req \in [Procs -> Request]
  BY DEF TypeOK
<1>2. ASSUME NEW p \in Procs, NEW s, pc' = [pc EXCEPT ![p] = s],
             NEW r, req' = [req EXCEPT ![p] = r]
      PROVE  pc'[p] = s /\ req'[p] = r /\ Others(p)
  BY <1>1, <1>2 DEF Others
<1>3. ASSUME NEW p \in Procs, NoIdentity(p) PROVE Step(p)
  BY <1>1, <1>2, <1>3 DEF NoIdentity, Finish, Misses
<1>4. ASSUME NEW p \in Procs, NEW i \in Identities, NEW e \in Endpoints,
             NEW skew \in 0..MaxSkew, ReadClock(p, i, e, now + skew, now + ReqTimeout)
      PROVE  Step(p)
  BY <1>1, <1>2, <1>4 DEF ReadClock, Starts
<1>5. ASSUME NEW p \in Procs, Incr(p) PROVE Step(p)
  <2>1. pc[p] = "incr" /\ UNCHANGED <<sent, served, now>>
    BY <1>5 DEF Incr
  <2>2. CASE /\ CanCall(p) /\ Script(req[p].key) /\ UNCHANGED wasted
             /\ pc' = [pc EXCEPT ![p] = "ttl"]
             /\ req' = [req EXCEPT ![p].current = NextValue(req[p].key), ![p].at = now]
    <3>1. req' = [req EXCEPT ![p] = [req[p] EXCEPT !.current = NextValue(req[p].key),
                                                   !.at = now]]
      BY <1>1, <2>2
    <3> QED BY <1>2, <2>1, <2>2, <3>1 DEF Counts
  <2>3. CASE /\ Lost(req[p].key) /\ req' = [req EXCEPT ![p].tries = @ + 1] /\ UNCHANGED pc
    BY <1>1, <2>1, <2>3 DEF Misses, Lost, Others
  <2>4. CASE /\ Lost(req[p].key) \/ UNCHANGED <<counters, wasted>>
             /\ Finish(p, Status("500"))
    BY <1>2, <2>1, <2>4 DEF Misses, Lost, Finish
  <2> QED BY <1>5, <2>2, <2>3, <2>4 DEF Incr
<1>6. ASSUME NEW p \in Procs, Decide(p) PROVE Step(p)
  <2>1. pc[p] = "ttl" /\ UNCHANGED <<counters, sent, now>>
    BY <1>6 DEF Decide
  <2>2. CASE /\ Exceeded(p) /\ Finish(p, TooMany(p, TTLSeconds(req[p].key)))
             /\ UNCHANGED <<served, wasted>>
    BY <1>2, <2>1, <2>2 DEF Refused, Finish
  <2>3. CASE /\ ~Exceeded(p) /\ Finish(p, Status("admitted")) /\ UNCHANGED wasted
             /\ served' = served \cup {Draw(p)}
    BY <1>2, <2>1, <2>3 DEF Admitted, Finish
  <2>4. CASE Finish(p, Status("500")) /\ Waste(req[p].key) /\ UNCHANGED served
    BY <1>2, <2>1, <2>4 DEF Fails, Finish
  <2> QED BY <1>6, <2>2, <2>3, <2>4 DEF Decide, Draw
<1>7. ASSUME NEW p \in Procs, Crash(p) PROVE Step(p)
  BY <1>1, <1>2, <1>7 DEF Crash, Fails, Misses
<1> QED BY <1>3, <1>4, <1>5, <1>6, <1>7 DEF Next

-----------------------------------------------------------------------------
(* Types, and what a request knows of itself.                              *)

BaseInv ==
    /\ TypeOK /\ now <= MaxTime
    /\ \A p \in Procs : (pc[p] # "idle" \/ req[p].status = "429") =>
         req[p].key \in CounterKeys /\ req[p].limit = LimitOf(req[p].key)
    /\ \A p \in Procs : pc[p] = "ttl" => req[p].current >= 1 /\ req[p].at <= now
    /\ \A k \in CounterKeys : counters[k] # None =>
         counters[k].n >= 1 /\ now <= counters[k].exp
    /\ \A s \in served :
         s.limit = LimitOf(s.key) /\ s.current \in 1..s.limit /\ s.at <= now

(* A window starts at a second that the clock has reached. *)
LEMMA WindowStartNat == \A t \in Nat : WindowStart(t) \in Nat
<1> SUFFICES ASSUME NEW t \in Nat PROVE WindowStart(t) \in Nat
  OBVIOUS
<1>1. t % Window \in 0..(Window - 1) /\ t % Window <= t
  OBVIOUS
<1>2. t - (t % Window) \in Nat
  BY <1>1
<1>3. \A a \in Nat : a \div TPS \in Nat
  OBVIOUS
<1> QED BY <1>2, <1>3 DEF WindowStart

(* Whoever is counted under the same identifier has the same limit. *)
LEMMA LimitOfKey ==
    ASSUME NEW i \in Identities, NEW e, NEW w
    PROVE  LimitOf(<<Identifier(i), e, w>>) = Limit(i) /\ Limit(i) \in Nat
<1> DEFINE j == CHOOSE j \in Identities : Identifier(j) = <<Identifier(i), e, w>>[1]
<1>1. j \in Identities /\ Identifier(j) = Identifier(i)
  OBVIOUS
<1>2. Limit(j) = Limit(i)
  BY <1>1, IdentityAssumption
<1>3. Limit(i) \in Nat
  BY IdentityAssumption DEF Limit, Identity
<1> QED BY <1>2, <1>3 DEF LimitOf

(* The parts of a counter's key. *)
LEMMA KeyFacts ==
    ASSUME NEW k \in CounterKeys
    PROVE  k[3] \in Nat /\ LimitOf(k) \in Nat /\ k # None
<1>1. PICK i \in Identities, e \in Endpoints, t \in 0..(MaxTime + MaxSkew) :
        k = <<Identifier(i), e, WindowStart(t)>>
  BY DEF CounterKeys
<1>2. k[3] = WindowStart(t) /\ t \in Nat
  BY <1>1
<1>3. LimitOf(k) \in Nat
  BY <1>1, LimitOfKey
<1> QED BY <1>2, <1>3, WindowStartNat, NoneAssumption

(* What the locals of a request are after each kind of step. *)
LEMMA StartsFacts ==
    ASSUME BaseInv, NEW p \in Procs, Starts(p)
    PROVE  /\ req'[p] \in Request /\ req'[p].key \in CounterKeys
           /\ req'[p].limit = LimitOf(req'[p].key) /\ req'[p].no = sent + 1
           /\ req'[p].deadline = now + ReqTimeout
           /\ \E skew \in 0..MaxSkew : req'[p].key[3] = WindowStart(now + skew)
           /\ req'[p].status = "pending"
<1>1. PICK i \in Identities, e \in Endpoints, skew \in 0..MaxSkew :
        req'[p] = [NoRequest EXCEPT !.no = sent + 1, !.limit = Limit(i),
                       !.key = <<Identifier(i), e, WindowStart(now + skew)>>,
                       !.deadline = now + ReqTimeout, !.status = "pending"]
  BY DEF Starts
<1> DEFINE k == <<Identifier(i), e, WindowStart(now + skew)>>
<1>2. now + skew \in 0..(MaxTime + MaxSkew) /\ sent + 1 \in Nat /\ now + ReqTimeout \in Nat
  BY DEF BaseInv, TypeOK
<1>3. k \in CounterKeys /\ k[3] = WindowStart(now + skew)
  BY <1>2 DEF CounterKeys
<1>4. Limit(i) \in Nat /\ LimitOf(k) = Limit(i)
  BY LimitOfKey
<1> HIDE DEF k
<1>5. req'[p] = [no |-> sent + 1, limit |-> Limit(i), key |-> k,
                 deadline |-> now + ReqTimeout, tries |-> 0, current |-> 0,
                 at |-> 0, retryAfter |-> 0, status |-> "pending"]
  BY <1>1 DEF NoRequest, k
<1>6. req'[p] \in Request
  BY <1>2, <1>3, <1>4, <1>5 DEF Request
<1> QED BY <1>3, <1>4, <1>5, <1>6

(* An answer without a verdict. *)
LEMMA EmptyFacts ==
    \A r \in {NoRequest, Status("500"), Status("admitted")} :
        r \in Request /\ r.status # "429"
BY DEF NoRequest, Status, Request

(* A counted request keeps its number, counter, limit and deadline. *)
LEMMA CountsFacts ==
    ASSUME BaseInv, NEW p \in Procs, Counts(p)
    PROVE  /\ req'[p] \in Request /\ req'[p].key = req[p].key /\ req'[p].no = req[p].no
           /\ req'[p].limit = req[p].limit /\ req'[p].deadline = req[p].deadline
           /\ req'[p].current = NextValue(req[p].key) /\ req'[p].at = now
           /\ NextValue(req[p].key) \in Nat /\ NextValue(req[p].key) >= 1
           /\ req'[p].status = req[p].status
<1> DEFINE v == NextValue(req[p].key)
<1>1. /\ req[p] \in Request /\ req[p].key \in CounterKeys /\ now \in Nat
      /\ counters \in [CounterKeys -> Counter \cup {None}]
  BY DEF BaseInv, TypeOK, Counts
<1>2. v \in Nat /\ v >= 1
  BY <1>1 DEF NextValue, Counter
<1>3. req'[p] = [req[p] EXCEPT !.current = v, !.at = now]
  BY DEF Counts
<1> HIDE DEF v
<1>4. /\ req'[p].key = req[p].key /\ req'[p].no = req[p].no
      /\ req'[p].limit = req[p].limit /\ req'[p].deadline = req[p].deadline
      /\ req'[p].current = v /\ req'[p].at = now /\ req'[p].status = req[p].status
  BY <1>1, <1>3 DEF Request
<1>5. req'[p] \in Request
  BY <1>1, <1>2, <1>3 DEF Request
<1> QED BY <1>2, <1>4, <1>5 DEF v

(* A request without an answer is over, or tries again. *)
LEMMA MissesFacts ==
    ASSUME BaseInv, NEW p \in Procs, Misses(p)
    PROVE  /\ req'[p] \in Request
           /\ \/ pc'[p] = "idle" /\ req'[p].status # "429"
              \/ /\ pc[p] = "incr" /\ pc'[p] = "incr" /\ req'[p].key = req[p].key
                 /\ req'[p].no = req[p].no /\ req'[p].limit = req[p].limit
                 /\ req'[p].deadline = req[p].deadline
                 /\ req'[p].status = req[p].status
<1>1. CASE pc'[p] = "idle" /\ req'[p] \in {NoRequest, Status("500")}
  BY <1>1, EmptyFacts
<1>2. CASE pc[p] = "incr" /\ pc'[p] = "incr" /\ req'[p] = [req[p] EXCEPT !.tries = @ + 1]
  <2>1. req[p] \in Request /\ req[p].tries + 1 \in Nat
    BY DEF BaseInv, TypeOK, Request
  <2>2. req'[p] \in Request
    BY <1>2, <2>1 DEF Request
  <2>3. /\ req'[p].key = req[p].key
        /\ req'[p].no = req[p].no /\ req'[p].limit = req[p].limit
        /\ req'[p].deadline = req[p].deadline /\ req'[p].status = req[p].status
    BY <1>2, <2>1 DEF Request
  <2> QED BY <1>2, <2>2, <2>3
<1> QED BY <1>1, <1>2 DEF Misses

(* A refusal is about the counter that refused. *)
LEMMA RefusedFacts ==
    ASSUME BaseInv, NEW p \in Procs, Refused(p)
    PROVE  /\ req'[p] \in Request /\ req'[p].status = "429"
           /\ req'[p].key = req[p].key /\ req'[p].limit = req[p].limit
           /\ req'[p].at = now /\ req'[p].retryAfter = TTLSeconds(req[p].key)
<1> DEFINE secs == TTLSeconds(req[p].key)
<1>1. /\ req[p] \in Request /\ req[p].key \in CounterKeys /\ now \in Nat
      /\ counters \in [CounterKeys -> Counter \cup {None}]
  BY DEF BaseInv, TypeOK, Refused
<1>2. secs \in Nat
  <2>1. CASE counters[req[p].key] = None
    BY <2>1 DEF TTLSeconds
  <2>2. CASE counters[req[p].key] # None
    <3> DEFINE x == counters[req[p].key].exp - now + TPS \div 2
    <3>1. counters[req[p].key] \in Counter /\ now <= counters[req[p].key].exp
      BY <1>1, <2>2 DEF BaseInv
    <3>2. TPS \div 2 \in Nat
      OBVIOUS
    <3>3. x \in Nat
      BY <1>1, <3>1, <3>2 DEF Counter
    <3>4. \A a \in Nat : a \div TPS \in Nat
      OBVIOUS
    <3>5. secs = x \div TPS
      BY <2>2 DEF TTLSeconds
    <3> HIDE DEF x
    <3> QED BY <3>3, <3>4, <3>5
  <2> QED BY <2>1, <2>2
<1> HIDE DEF secs
<1>3. req'[p] = [NoRequest EXCEPT !.status = "429", !.retryAfter = secs, !.at = now,
                                  !.key = req[p].key, !.limit = req[p].limit]
  BY DEF Refused, TooMany, secs
<1>4. req'[p] = [no |-> 0, limit |-> req[p].limit, key |-> req[p].key,
                 deadline |-> 0, tries |-> 0, current |-> 0, at |-> now,
                 retryAfter |-> secs, status |-> "429"]
  BY <1>3 DEF NoRequest
<1>5. req[p].limit \in Nat
  BY <1>1 DEF Request
<1> QED BY <1>1, <1>2, <1>4, <1>5 DEF Request, secs

(* The script counts, and starts the life of a counter that is not there. *)
LEMMA ScriptFacts ==
    ASSUME BaseInv, NEW k \in CounterKeys, Script(k)
    PROVE  /\ counters' \in [CounterKeys -> Counter \cup {None}]
           /\ \A j \in CounterKeys \ {k} : counters'[j] = counters[j]
           /\ counters[k] # None =>
                /\ counters'[k] # None /\ counters'[k].n = counters[k].n + 1
                /\ counters'[k].exp = counters[k].exp
           /\ counters[k] = None =>
                \/ counters'[k] = None /\ ExpireSeconds = 0
                \/ /\ counters'[k] # None /\ counters'[k].n = 1
                   /\ counters'[k].exp = now + ExpireSeconds * TPS
           /\ ExpireSeconds \in Nat
<1>1. now \in Nat /\ counters \in [CounterKeys -> Counter \cup {None}]
  BY DEF BaseInv, TypeOK
<1>2. ExpireSeconds \in Nat /\ ExpireSeconds * TPS \in Nat
  <2>1. ExpireSeconds \in Nat
    BY DEF ExpireSeconds
  <2>2. \A a, b \in Nat : a * b \in Nat
    OBVIOUS
  <2> QED BY <2>1, <2>2
<1> DEFINE c == IF counters[k] # None THEN [n |-> counters[k].n + 1, exp |-> counters[k].exp]
                ELSE IF ExpireSeconds = 0 THEN None
                ELSE [n |-> 1, exp |-> now + ExpireSeconds * TPS]
<1>3. counters' = [counters EXCEPT ![k] = c]
  BY DEF Script
<1>4. CASE counters[k] # None
  <2>1. counters[k] \in Counter /\ c = [n |-> counters[k].n + 1, exp |-> counters[k].exp]
    BY <1>1, <1>3, <1>4
  <2>2. c \in Counter /\ c.n = counters[k].n + 1 /\ c.exp = counters[k].exp
    BY <2>1 DEF Counter
  <2> HIDE DEF c
  <2> QED BY <1>1, <1>2, <1>3, <1>4, <2>2, NoneAssumption
<1>5. CASE counters[k] = None /\ ExpireSeconds = 0
  BY <1>1, <1>2, <1>3, <1>5
<1>6. CASE counters[k] = None /\ ExpireSeconds # 0
  <2>1. c \in Counter /\ c.n = 1 /\ c.exp = now + ExpireSeconds * TPS
    BY <1>1, <1>2, <1>3, <1>6 DEF Counter
  <2> HIDE DEF c
  <2> QED BY <1>1, <1>2, <1>3, <1>6, <2>1, NoneAssumption
<1> QED BY <1>4, <1>5, <1>6

(* One more place is gone for nothing. *)
LEMMA WasteFacts ==
    ASSUME BaseInv, NEW k \in CounterKeys, Waste(k)
    PROVE  /\ wasted' \in [CounterKeys -> Nat] /\ wasted'[k] = wasted[k] + 1
           /\ \A j \in CounterKeys \ {k} : wasted'[j] = wasted[j]
BY DEF BaseInv, TypeOK, Waste

(* The counters between two ticks: as they were, or with one more script. *)
LEMMA CountersBase ==
    ASSUME BaseInv, NEW k \in CounterKeys, Script(k), now' = now
    PROVE  \A j \in CounterKeys : counters'[j] # None =>
             counters'[j].n >= 1 /\ now' <= counters'[j].exp
<1>1. now \in Nat /\ ExpireSeconds * TPS \in Nat
  <2>1. ExpireSeconds \in Nat
    BY DEF ExpireSeconds
  <2>2. \A a, b \in Nat : a * b \in Nat
    OBVIOUS
  <2> QED BY <2>1, <2>2 DEF BaseInv, TypeOK
<1>2. \A j \in CounterKeys : counters[j] # None =>
        counters[j].n \in Nat /\ counters[j].n >= 1 /\ now <= counters[j].exp
  BY DEF BaseInv, TypeOK, Counter
<1>3. counters'[k] # None => counters'[k].n >= 1 /\ now' <= counters'[k].exp
  <2>1. CASE counters[k] = None
    BY <1>1, <2>1, ScriptFacts
  <2>2. CASE counters[k] # None
    BY <1>2, <2>2, ScriptFacts
  <2> QED BY <2>1, <2>2
<1> QED BY <1>2, <1>3, ScriptFacts

(* The states of the goroutines after a step of one of them. *)
LEMMA LocalsFacts ==
    ASSUME TypeOK, NEW p \in Procs, Step(p), req'[p] \in Request
    PROVE  /\ pc' \in [Procs -> {"idle", "incr", "ttl"}] /\ req' \in [Procs -> Request]
           /\ \A q \in Procs \ {p} : pc'[q] = pc[q] /\ req'[q] = req[q]
<1>1. pc'[p] \in {"idle", "incr", "ttl"} /\ Others(p)
  BY DEF Step, Starts, Counts, Misses, Refused, Admitted, Fails
<1> QED BY <1>1 DEF TypeOK, Others

(* Every step of a request keeps the base invariant, if the step keeps what
   it says of the request itself, of the counters and of what was served. *)
LEMMA StepBase ==
    ASSUME BaseInv, NEW p \in Procs, Step(p), now' = now, req'[p] \in Request,
           sent' \in Nat, wasted' \in [CounterKeys -> Nat],
           counters' \in [CounterKeys -> Counter \cup {None}],
           \A k \in CounterKeys : counters'[k] # None =>
             counters'[k].n >= 1 /\ now' <= counters'[k].exp,
           served' \in SUBSET Served,
           \A s \in served' \ served :
             s.limit = LimitOf(s.key) /\ s.current \in 1..s.limit /\ s.at <= now,
           (pc'[p] # "idle" \/ req'[p].status = "429") =>
             req'[p].key \in CounterKeys /\ req'[p].limit = LimitOf(req'[p].key),
           pc'[p] = "ttl" => req'[p].current >= 1 /\ req'[p].at <= now
    PROVE  BaseInv'
<1>1. /\ pc' \in [Procs -> {"idle", "incr", "ttl"}] /\ req' \in [Procs -> Request]
      /\ \A q \in Procs \ {p} : pc'[q] = pc[q] /\ req'[q] = req[q]
  BY LocalsFacts DEF BaseInv
<1>2. TypeOK' /\ now' <= MaxTime
  BY <1>1 DEF BaseInv, TypeOK
<1>3. \A q \in Procs : (pc'[q] # "idle" \/ req'[q].status = "429") =>
        req'[q].key \in CounterKeys /\ req'[q].limit = LimitOf(req'[q].key)
  BY <1>1 DEF BaseInv
<1>4. \A q \in Procs : pc'[q] = "ttl" => req'[q].current >= 1 /\ req'[q].at <= now'
  BY <1>1 DEF BaseInv
<1>5. \A s \in served' :
        s.limit = LimitOf(s.key) /\ s.current \in 1..s.limit /\ s.at <= now'
  BY DEF BaseInv
<1> QED BY <1>2, <1>3, <1>4, <1>5 DEF BaseInv, LimitOf, Limit, Identifier

(* The clock goes on; counters past their expiry are gone. *)
LEMMA TickFacts ==
    ASSUME BaseInv, Tick
    PROVE  /\ now' = now + 1 /\ now' <= MaxTime /\ now \in Nat
           /\ UNCHANGED <<pc, req, sent, served, wasted>>
           /\ counters' \in [CounterKeys -> Counter \cup {None}]
           /\ \A k \in CounterKeys :
                \/ counters'[k] = None /\ counters[k] = None
                \/ counters'[k] = None /\ counters[k] # None /\ now' > counters[k].exp
                \/ counters'[k] = counters[k] /\ counters[k] # None /\ now' <= counters[k].exp
<1>1. /\ now \in Nat /\ counters \in [CounterKeys -> Counter \cup {None}]
      /\ now' = now + 1 /\ now' <= MaxTime
      /\ UNCHANGED <<pc, req, sent, served, wasted>>
  BY DEF BaseInv, TypeOK, Tick
<1>2. counters' = [k \in CounterKeys |->
          IF counters[k] # None /\ now' > counters[k].exp THEN None
          ELSE counters[k]]
  BY DEF Tick
<1>3. \A k \in CounterKeys : counters[k] # None => counters[k].exp \in Nat
  BY <1>1 DEF Counter
<1> QED BY <1>1, <1>2, <1>3

(* Types and locals are kept by every step. *)
LEMMA NextBase == BaseInv /\ [Next]_vars => BaseInv'
<1> SUFFICES ASSUME BaseInv, [Next]_vars PROVE BaseInv'
  OBVIOUS
<1>1. TypeOK /\ sent \in Nat /\ now \in Nat /\ wasted \in [CounterKeys -> Nat]
      /\ served \in SUBSET Served
  BY DEF BaseInv, TypeOK
<1>2. ASSUME UNCHANGED counters, UNCHANGED now
      PROVE  /\ counters' \in [CounterKeys -> Counter \cup {None}]
             /\ \A k \in CounterKeys : counters'[k] # None =>
                  counters'[k].n >= 1 /\ now' <= counters'[k].exp
  BY <1>2 DEF BaseInv, TypeOK
<1>3. ASSUME NEW p \in Procs, Starts(p) PROVE BaseInv'
  <2>1. /\ req'[p] \in Request /\ req'[p].key \in CounterKeys
        /\ req'[p].limit = LimitOf(req'[p].key)
    BY <1>3, StartsFacts
  <2>2. UNCHANGED <<counters, served, wasted, now>> /\ pc'[p] # "ttl" /\ sent' \in Nat
    BY <1>1, <1>3 DEF Starts
  <2> QED BY <1>1, <1>2, <1>3, <2>1, <2>2, StepBase DEF Step
<1>4. ASSUME NEW p \in Procs, Counts(p) PROVE BaseInv'
  <2>1. req[p].key \in CounterKeys /\ req[p].limit = LimitOf(req[p].key)
    BY <1>4 DEF Counts, BaseInv
  <2>2. UNCHANGED <<sent, served, wasted, now>> /\ Script(req[p].key)
    BY <1>4 DEF Counts
  <2>3. /\ req'[p] \in Request /\ req'[p].key \in CounterKeys
        /\ req'[p].limit = LimitOf(req'[p].key)
        /\ req'[p].current >= 1 /\ req'[p].at <= now
    BY <1>1, <1>4, <2>1, CountsFacts
  <2>4. /\ counters' \in [CounterKeys -> Counter \cup {None}]
        /\ \A k \in CounterKeys : counters'[k] # None =>
             counters'[k].n >= 1 /\ now' <= counters'[k].exp
    BY <2>1, <2>2, ScriptFacts, CountersBase
  <2> QED BY <1>1, <1>4, <2>2, <2>3, <2>4, StepBase DEF Step
<1>5. ASSUME NEW p \in Procs, Misses(p) PROVE BaseInv'
  <2>1. pc[p] = "incr" =>
          req[p].key \in CounterKeys /\ req[p].limit = LimitOf(req[p].key)
    BY <1>5 DEF BaseInv
  <2>2. /\ now' = now /\ sent' \in Nat /\ UNCHANGED served /\ pc'[p] # "ttl"
        /\ req'[p] \in Request
        /\ (pc'[p] # "idle" \/ req'[p].status = "429") =>
             req'[p].key \in CounterKeys /\ req'[p].limit = LimitOf(req'[p].key)
    BY <1>1, <1>5, <2>1, MissesFacts DEF Misses
  <2>3. CASE UNCHANGED <<counters, wasted>>
    BY <1>1, <1>2, <1>5, <2>2, <2>3, StepBase DEF Step
  <2>4. CASE pc[p] = "incr" /\ Script(req[p].key) /\ Waste(req[p].key)
    BY <1>1, <1>5, <2>1, <2>2, <2>4, ScriptFacts, CountersBase, WasteFacts, StepBase
       DEF Step
  <2> QED BY <1>5, <2>3, <2>4 DEF Misses
<1>6. ASSUME NEW p \in Procs, Refused(p) PROVE BaseInv'
  <2>1. req[p].key \in CounterKeys /\ req[p].limit = LimitOf(req[p].key)
    BY <1>6 DEF Refused, BaseInv
  <2> QED BY <1>1, <1>2, <1>6, <2>1, RefusedFacts, StepBase DEF Refused, Step
<1>7. ASSUME NEW p \in Procs, Admitted(p) PROVE BaseInv'
  <2>1. /\ req[p].key \in CounterKeys /\ req[p].limit = LimitOf(req[p].key)
        /\ req[p] \in Request /\ req[p].current >= 1 /\ req[p].at <= now
        /\ req[p].current <= req[p].limit
    BY <1>7 DEF Admitted, BaseInv, TypeOK, Exceeded, Request
  <2>2. /\ Draw(p) \in Served /\ Draw(p).limit = LimitOf(Draw(p).key)
        /\ Draw(p).current \in 1..Draw(p).limit /\ Draw(p).at <= now
    BY <2>1 DEF Draw, Served, Request
  <2>3. req'[p] \in Request /\ req'[p].status # "429"
    BY <1>7, EmptyFacts DEF Admitted
  <2> QED BY <1>1, <1>2, <1>7, <2>2, <2>3, StepBase DEF Admitted, Step
<1>8. ASSUME NEW p \in Procs, Fails(p) PROVE BaseInv'
  <2>1. req[p].key \in CounterKeys
    BY <1>8 DEF Fails, BaseInv
  <2>2. req'[p] \in Request /\ req'[p].status # "429"
    BY <1>8, EmptyFacts DEF Fails
  <2> QED BY <1>1, <1>2, <1>8, <2>1, <2>2, WasteFacts, StepBase DEF Fails, Step
<1>9. ASSUME Tick PROVE BaseInv'
  <2>1. TypeOK' /\ now' <= MaxTime
    BY <1>9, TickFacts DEF BaseInv, TypeOK
  <2>2. \A k \in CounterKeys : counters'[k] # None =>
          counters'[k].n >= 1 /\ now' <= counters'[k].exp
    BY <1>9, TickFacts DEF BaseInv
  <2>3. \A p \in Procs : pc[p] = "ttl" => req[p].at \in Nat
    BY DEF BaseInv, TypeOK, Request
  <2>4. \A s \in served : s.at \in Nat
    BY <1>1 DEF Served
  <2>5. /\ \A p \in Procs : (pc'[p] # "idle" \/ req'[p].status = "429") =>
             req'[p].key \in CounterKeys /\ req'[p].limit = LimitOf(req'[p].key)
        /\ \A p \in Procs : pc'[p] = "ttl" => req'[p].current >= 1 /\ req'[p].at <= now'
        /\ \A s \in served' :
             s.limit = LimitOf(s.key) /\ s.current \in 1..s.limit /\ s.at <= now'
    BY <1>9, <2>3, <2>4, TickFacts DEF BaseInv
  <2> QED BY <2>1, <2>2, <2>5 DEF BaseInv, LimitOf, Limit, Identifier
<1>10. ASSUME UNCHANGED vars PROVE BaseInv'
  <2>1. /\ counters' = counters /\ pc' = pc /\ req' = req /\ served' = served
        /\ now' = now /\ UNCHANGED <<sent, wasted>>
    BY <1>10 DEF vars
  <2>2. TypeOK'
    BY <2>1 DEF BaseInv, TypeOK
  <2>3. \A k \in CounterKeys : counters'[k] # None =>
          counters'[k].n >= 1 /\ now' <= counters'[k].exp
    BY <2>1 DEF BaseInv
  <2>4. /\ \A p \in Procs : (pc'[p] # "idle" \/ req'[p].status = "429") =>
             req'[p].key \in CounterKeys /\ req'[p].limit = LimitOf(req'[p].key)
        /\ \A p \in Procs : pc'[p] = "ttl" => req'[p].current >= 1 /\ req'[p].at <= now'
        /\ \A s \in served' :
             s.limit = LimitOf(s.key) /\ s.current \in 1..s.limit /\ s.at <= now'
    BY <2>1 DEF BaseInv
  <2>5. now' <= MaxTime
    BY <2>1 DEF BaseInv
  <2> QED BY <2>2, <2>3, <2>4, <2>5 DEF BaseInv, LimitOf, Limit, Identifier
<1> QED BY <1>1, <1>3, <1>4, <1>5, <1>6, <1>7, <1>8, <1>9, <1>10, StepCases DEF Step

(* At the start there is nothing to be wrong. *)
LEMMA InitBase == Init => BaseInv
<1> SUFFICES ASSUME Init PROVE BaseInv
  OBVIOUS
<1>1. NoRequest \in Request /\ NoRequest.status # "429"
  BY EmptyFacts
<1>2. TypeOK
  BY <1>1 DEF Init, TypeOK
<1> QED BY <1>1, <1>2 DEF Init, BaseInv

-----------------------------------------------------------------------------
(* Places: nobody is refused while some are left.                          *)

Passed(k) == {s \in served : s.key = k}

Placed(k) == {q \in Procs : pc[q] = "ttl" /\ req[q].key = k /\ ~Exceeded(q)}

(* The places of a counter that are taken, or gone for nothing. *)
Total(k) == Cardinality(Passed(k)) + Cardinality(Placed(k)) + wasted[k]

(* Requests have numbers of their own. *)
NumbersInv ==
    /\ IsFiniteSet(served)
    /\ \A p \in Procs : pc[p] # "idle" => req[p].no <= sent
    /\ \A p, q \in Procs : (p # q /\ pc[p] # "idle" /\ pc[q] # "idle") =>
         req[p].no # req[q].no
    /\ \A s \in served : s.no <= sent
    /\ \A s \in served, p \in Procs : pc[p] # "idle" => s.no # req[p].no

(* A counter that lives has given away all it has counted, or all there was;
   a request that is refused, or will be, finds the latter. *)
FullInv ==
    /\ \A k \in CounterKeys : counters[k] # None =>
         counters[k].n <= Total(k) \/ LimitOf(k) <= Total(k)
    /\ \A p \in Procs, k \in CounterKeys :
         (pc[p] = "ttl" /\ Exceeded(p) /\ req[p].key = k) => LimitOf(k) <= Total(k)
    /\ \A p \in Procs, k \in CounterKeys :
         (pc[p] = "idle" /\ req[p].status = "429" /\ req[p].key = k) =>
             LimitOf(k) <= Total(k)

(* Numbers stay unique. *)
LEMMA StepNumbers ==
    ASSUME BaseInv, NumbersInv, NEW p \in Procs, Step(p)
    PROVE  NumbersInv'
<1>1. \A q \in Procs : req[q].no \in Nat
  BY DEF BaseInv, TypeOK, Request
<1>2. sent \in Nat /\ \A s \in served : s.no \in Nat
  BY DEF BaseInv, TypeOK, Served
<1>3. /\ req'[p] \in Request
      /\ \/ pc'[p] # "idle" /\ req'[p].no = sent + 1 /\ sent' = sent + 1
         \/ pc'[p] # "idle" /\ pc[p] # "idle" /\ req'[p].no = req[p].no /\ sent' = sent
         \/ pc'[p] = "idle" /\ sent' = sent
  <2>1. CASE Starts(p)
    BY <2>1, StartsFacts DEF Starts
  <2>2. CASE Counts(p)
    BY <2>2, CountsFacts DEF Counts
  <2>3. CASE Misses(p)
    BY <2>3, MissesFacts DEF Misses
  <2>4. CASE Refused(p)
    BY <2>4, RefusedFacts DEF Refused
  <2>5. CASE Admitted(p)
    BY <2>5, EmptyFacts DEF Admitted
  <2>6. CASE Fails(p)
    BY <2>6, EmptyFacts DEF Fails
  <2> QED BY <2>1, <2>2, <2>3, <2>4, <2>5, <2>6 DEF Step
<1>4. \A q \in Procs \ {p} : pc'[q] = pc[q] /\ req'[q] = req[q]
  BY <1>3, LocalsFacts DEF BaseInv
<1>5. \/ served' = served
      \/ served' = served \cup {Draw(p)} /\ pc[p] # "idle" /\ pc'[p] = "idle"
         /\ sent' = sent
  BY DEF Step, Starts, Counts, Misses, Refused, Admitted, Fails
<1>6. Draw(p).no = req[p].no
  BY DEF Draw
<1>7. IsFiniteSet(served')
  BY <1>5, FS_AddElement DEF NumbersInv
<1>8. \A q \in Procs : pc'[q] # "idle" => req'[q].no <= sent'
  BY <1>1, <1>2, <1>3, <1>4 DEF NumbersInv
<1>9. \A q, r \in Procs : (q # r /\ pc'[q] # "idle" /\ pc'[r] # "idle") =>
        req'[q].no # req'[r].no
  BY <1>1, <1>2, <1>3, <1>4 DEF NumbersInv
<1>10. \A s \in served' : s.no <= sent'
  BY <1>1, <1>2, <1>3, <1>5, <1>6 DEF NumbersInv
<1>11. \A s \in served', q \in Procs : pc'[q] # "idle" => s.no # req'[q].no
  <2>1. ASSUME NEW s \in served, NEW q \in Procs, pc'[q] # "idle" PROVE s.no # req'[q].no
    BY <1>1, <1>2, <1>3, <1>4, <2>1 DEF NumbersInv
  <2>2. ASSUME pc[p] # "idle", pc'[p] = "idle", NEW q \in Procs, pc'[q] # "idle"
        PROVE  Draw(p).no # req'[q].no
    BY <1>4, <1>6, <2>2 DEF NumbersInv
  <2> QED BY <1>5, <2>1, <2>2
<1> QED BY <1>7, <1>8, <1>9, <1>10, <1>11 DEF NumbersInv

(* Sizes of the sets that Total counts. *)
LEMMA Sizes ==
    ASSUME BaseInv, NumbersInv, NEW k \in CounterKeys
    PROVE  /\ IsFiniteSet(Passed(k)) /\ Cardinality(Passed(k)) \in Nat
           /\ IsFiniteSet(Placed(k)) /\ Cardinality(Placed(k)) \in Nat
           /\ wasted[k] \in Nat /\ Total(k) \in Nat
<1>1. IsFiniteSet(Passed(k))
  BY FS_Subset DEF Passed, NumbersInv
<1>2. IsFiniteSet(Placed(k))
  BY FS_Subset DEF Placed
<1>3. wasted[k] \in Nat
  BY DEF BaseInv, TypeOK
<1> QED BY <1>1, <1>2, <1>3, FS_CardinalityType DEF Total

(* No step gives a place back, and whoever is counted without being told, or
   is told a number within the limit, takes one. *)
LEMMA StepTotal ==
    ASSUME BaseInv, NumbersInv, NEW p \in Procs, Step(p), NEW k \in CounterKeys
    PROVE  /\ Total(k)' \in Nat /\ Total(k)' >= Total(k)
           /\ (Counts(p) /\ req[p].key = k /\ req'[p].current <= req[p].limit) =>
                Total(k)' >= Total(k) + 1
           /\ (Misses(p) /\ req[p].key = k /\ Waste(k)) => Total(k)' >= Total(k) + 1
<1>1. /\ IsFiniteSet(Passed(k)) /\ Cardinality(Passed(k)) \in Nat
      /\ IsFiniteSet(Placed(k)) /\ Cardinality(Placed(k)) \in Nat
      /\ wasted[k] \in Nat /\ Total(k) \in Nat
  BY Sizes
<1>2. /\ Total(k) = Cardinality(Passed(k)) + Cardinality(Placed(k)) + wasted[k]
      /\ Total(k)' = Cardinality(Passed(k)') + Cardinality(Placed(k)') + wasted'[k]
  BY DEF Total
<1>3. /\ Passed(k)' = {s \in served' : s.key = k}
      /\ Placed(k)' = {q \in Procs : pc'[q] = "ttl" /\ req'[q].key = k
                                     /\ ~(req'[q].current > req'[q].limit)}
  BY DEF Passed, Placed, Exceeded
<1>4. req'[p] \in Request => \A q \in Procs \ {p} : pc'[q] = pc[q] /\ req'[q] = req[q]
  BY LocalsFacts DEF BaseInv
<1>5. ASSUME pc[p] # "ttl", pc'[p] # "ttl", req'[p] \in Request, UNCHANGED served
      PROVE  Passed(k)' = Passed(k) /\ Placed(k)' = Placed(k)
  BY <1>3, <1>4, <1>5 DEF Passed, Placed, Exceeded
<1>6. CASE Starts(p)
  <2>1. Passed(k)' = Passed(k) /\ Placed(k)' = Placed(k) /\ wasted' = wasted
    BY <1>5, <1>6, StartsFacts DEF Starts
  <2>2. ~Counts(p) /\ ~Misses(p)
    BY <1>6 DEF Starts, Counts, Misses
  <2> QED BY <1>1, <1>2, <2>1, <2>2
<1>7. CASE Counts(p)
  <2>1. /\ req'[p] \in Request /\ req'[p].key = req[p].key
        /\ req'[p].limit = req[p].limit /\ pc[p] = "incr" /\ pc'[p] = "ttl"
        /\ UNCHANGED <<served, wasted>> /\ ~Misses(p)
    BY <1>7, CountsFacts DEF Counts, Misses
  <2>2. Passed(k)' = Passed(k) /\ p \notin Placed(k)
    BY <1>3, <2>1 DEF Passed, Placed
  <2>3. CASE req[p].key = k /\ req'[p].current <= req[p].limit
    <3>1. req'[p].current \in Nat /\ req[p].limit \in Nat
      BY <2>1 DEF Request
    <3>2. Placed(k)' = Placed(k) \cup {p}
      BY <1>3, <1>4, <2>1, <2>3, <3>1 DEF Placed, Exceeded
    <3>3. Cardinality(Placed(k)') = Cardinality(Placed(k)) + 1
      BY <1>1, <2>2, <3>2, FS_AddElement
    <3> QED BY <1>1, <1>2, <2>1, <2>2, <3>3
  <2>4. CASE ~(req[p].key = k /\ req'[p].current <= req[p].limit)
    <3>1. req'[p].current \in Nat /\ req[p].limit \in Nat
      BY <2>1 DEF Request
    <3>2. Placed(k)' = Placed(k)
      BY <1>3, <1>4, <2>1, <2>4, <3>1 DEF Placed, Exceeded
    <3> QED BY <1>1, <1>2, <2>1, <2>2, <2>4, <3>2
  <2> QED BY <2>3, <2>4
<1>8. CASE Misses(p)
  <2>1. Passed(k)' = Passed(k) /\ Placed(k)' = Placed(k)
    BY <1>5, <1>8, MissesFacts DEF Misses
  <2>2. ~Counts(p)
    BY <1>8 DEF Counts, Misses
  <2>3. /\ Waste(k) => wasted'[k] = wasted[k] + 1
        /\ wasted'[k] = wasted[k] \/ wasted'[k] = wasted[k] + 1
    <3>1. pc[p] = "incr" => req[p].key \in CounterKeys
      BY DEF BaseInv
    <3>2. Waste(k) => wasted'[k] = wasted[k] + 1
      BY WasteFacts
    <3>3. CASE wasted' = wasted
      BY <3>2, <3>3
    <3>4. CASE pc[p] = "incr" /\ Waste(req[p].key)
      BY <3>1, <3>4, WasteFacts
    <3> QED BY <1>8, <3>2, <3>3, <3>4 DEF Misses
  <2> QED BY <1>1, <1>2, <2>1, <2>2, <2>3
<1>9. CASE Refused(p)
  <2>1. /\ req'[p] \in Request /\ pc[p] = "ttl" /\ pc'[p] = "idle" /\ Exceeded(p)
        /\ UNCHANGED <<served, wasted>> /\ ~Counts(p) /\ ~Misses(p)
    BY <1>9, RefusedFacts DEF Refused, Counts, Misses
  <2>2. Passed(k)' = Passed(k) /\ Placed(k)' = Placed(k)
    BY <1>3, <1>4, <2>1 DEF Passed, Placed, Exceeded
  <2> QED BY <1>1, <1>2, <2>1, <2>2
<1>10. CASE Admitted(p)
  <2>1. /\ req'[p] \in Request /\ pc[p] = "ttl" /\ pc'[p] = "idle" /\ ~Exceeded(p)
        /\ UNCHANGED wasted /\ served' = served \cup {Draw(p)}
        /\ ~Counts(p) /\ ~Misses(p)
    BY <1>10, EmptyFacts DEF Admitted, Counts, Misses
  <2>2. Draw(p) \notin served /\ Draw(p).key = req[p].key
    BY <2>1 DEF Draw, NumbersInv
  <2>3. CASE req[p].key = k
    <3>1. Passed(k)' = Passed(k) \cup {Draw(p)} /\ Draw(p) \notin Passed(k)
      BY <1>3, <2>1, <2>2, <2>3 DEF Passed
    <3>2. Placed(k)' = Placed(k) \ {p} /\ p \in Placed(k)
      BY <1>3, <1>4, <2>1, <2>3 DEF Placed, Exceeded
    <3>3. Cardinality(Passed(k)') = Cardinality(Passed(k)) + 1
      BY <1>1, <3>1, FS_AddElement
    <3>4. Cardinality(Placed(k)') = Cardinality(Placed(k)) - 1
      BY <1>1, <3>2, FS_RemoveElement
    <3> QED BY <1>1, <1>2, <2>1, <3>3, <3>4
  <2>4. CASE req[p].key # k
    <3>1. Passed(k)' = Passed(k) /\ Placed(k)' = Placed(k)
      BY <1>3, <1>4, <2>1, <2>2, <2>4 DEF Passed, Placed, Exceeded
    <3> QED BY <1>1, <1>2, <2>1, <3>1
  <2> QED BY <2>3, <2>4
<1>11. CASE Fails(p)
  <2>1. /\ req'[p] \in Request /\ pc[p] = "ttl" /\ pc'[p] = "idle"
        /\ UNCHANGED served /\ ~Counts(p) /\ ~Misses(p) /\ req[p].key \in CounterKeys
    BY <1>11, EmptyFacts DEF Fails, Counts, Misses, BaseInv
  <2>2. /\ Passed(k)' = Passed(k) /\ Placed(k)' = Placed(k) \ {p}
        /\ req[p].key # k => p \notin Placed(k)
    BY <1>3, <1>4, <2>1 DEF Passed, Placed, Exceeded
  <2>3. wasted'[k] = IF req[p].key = k THEN wasted[k] + 1 ELSE wasted[k]
    BY <1>11, <2>1, WasteFacts DEF Fails
  <2>4. CASE p \in Placed(k)
    <3>1. Cardinality(Placed(k)') = Cardinality(Placed(k)) - 1 /\ req[p].key = k
      BY <1>1, <2>2, <2>4, FS_RemoveElement
    <3> QED BY <1>1, <1>2, <2>1, <2>2, <2>3, <3>1
  <2>5. CASE p \notin Placed(k)
    <3>1. Placed(k)' = Placed(k)
      BY <2>2, <2>5
    <3>2. wasted'[k] \in Nat /\ wasted'[k] >= wasted[k]
      BY <1>1, <2>3
    <3> QED BY <1>1, <1>2, <2>1, <2>2, <3>1, <3>2
  <2> QED BY <2>4, <2>5
<1> QED BY <1>6, <1>7, <1>8, <1>9, <1>10, <1>11 DEF Step

(* A step of a request keeps FullInv. *)
LEMMA StepFull ==
    ASSUME BaseInv, NumbersInv, FullInv, NEW p \in Procs, Step(p)
    PROVE  FullInv'
<1>1. \A k \in CounterKeys :
        /\ Total(k) \in Nat /\ Total(k)' \in Nat /\ Total(k)' >= Total(k)
        /\ LimitOf(k) \in Nat
  BY StepTotal, Sizes, KeyFacts
<1>2. /\ req'[p] \in Request
      /\ (pc'[p] = "ttl" => Counts(p))
      /\ (pc'[p] = "idle" /\ req'[p].status = "429" => Refused(p))
  BY StartsFacts, CountsFacts, MissesFacts, RefusedFacts, EmptyFacts
     DEF Step, Starts, Counts, Misses, Refused, Admitted, Fails
<1>3. \A q \in Procs \ {p} : pc'[q] = pc[q] /\ req'[q] = req[q]
  BY <1>2, LocalsFacts DEF BaseInv
<1>4. \A k \in CounterKeys : counters[k] # None => counters[k].n \in Nat
  BY DEF BaseInv, TypeOK, Counter
<1>5. \A q \in Procs : (pc[q] # "idle" \/ req[q].status = "429") =>
        req[q].key \in CounterKeys /\ req[q].limit = LimitOf(req[q].key)
  BY DEF BaseInv
<1>6. ASSUME Counts(p), Exceeded(p)', NEW k \in CounterKeys, req[p].key = k
      PROVE  LimitOf(k) <= Total(k)
  <2>1. req'[p].limit = LimitOf(k) /\ req'[p].current = NextValue(k)
    BY <1>5, <1>6, CountsFacts DEF Counts
  <2>2. NextValue(k) > LimitOf(k)
    BY <1>6, <2>1 DEF Exceeded
  <2>3. CASE counters[k] = None
    BY <1>1, <2>2, <2>3 DEF NextValue
  <2>4. CASE counters[k] # None
    <3>1. counters[k].n >= LimitOf(k)
      BY <1>1, <1>4, <2>2, <2>4 DEF NextValue
    <3> QED BY <1>1, <1>4, <2>4, <3>1 DEF FullInv
  <2> QED BY <2>3, <2>4
<1>7. ASSUME NEW k \in CounterKeys, counters'[k] # None
      PROVE  counters'[k].n <= Total(k)' \/ LimitOf(k) <= Total(k)'
  <2>1. CASE counters'[k] = counters[k]
    BY <1>1, <1>4, <1>7, <2>1 DEF FullInv
  <2>2. CASE /\ pc[p] = "incr" /\ req[p].key = k /\ Script(k)
             /\ (Total(k)' >= Total(k) + 1 \/ LimitOf(k) <= Total(k)')
    <3>1. CASE counters[k] = None
      BY <1>1, <1>7, <2>2, <3>1, ScriptFacts
    <3>2. CASE counters[k] # None
      <4>1. counters'[k].n = counters[k].n + 1 /\ counters[k].n \in Nat
        BY <1>4, <2>2, <3>2, ScriptFacts
      <4> QED BY <1>1, <2>2, <3>2, <4>1 DEF FullInv
    <3> QED BY <3>1, <3>2
  <2>3. CASE Counts(p)
    <3>1. req[p].key \in CounterKeys /\ Script(req[p].key) /\ pc[p] = "incr"
      BY <1>5, <2>3 DEF Counts
    <3>2. CASE req[p].key # k
      BY <2>1, <3>1, <3>2, ScriptFacts
    <3>3. CASE req[p].key = k
      <4>1. CASE Exceeded(p)'
        BY <1>1, <1>6, <2>2, <2>3, <3>1, <3>3, <4>1
      <4>2. CASE ~Exceeded(p)'
        <5>1. req'[p].current <= req[p].limit
          BY <1>2, <2>3, <4>2, CountsFacts DEF Exceeded, Request
        <5> QED BY <2>2, <2>3, <3>1, <3>3, <5>1, StepTotal
      <4> QED BY <4>1, <4>2
    <3> QED BY <3>2, <3>3
  <2>4. CASE Misses(p) /\ pc[p] = "incr" /\ Script(req[p].key) /\ Waste(req[p].key)
    <3>1. req[p].key \in CounterKeys
      BY <1>5, <2>4
    <3>2. CASE req[p].key # k
      BY <2>1, <2>4, <3>1, <3>2, ScriptFacts
    <3>3. CASE req[p].key = k
      BY <2>2, <2>4, <3>3, StepTotal
    <3> QED BY <3>2, <3>3
  <2>5. CASE UNCHANGED counters
    BY <2>1, <2>5
  <2> QED BY <2>3, <2>4, <2>5 DEF Step, Starts, Misses, Refused, Admitted, Fails
<1>8. ASSUME NEW q \in Procs, NEW k \in CounterKeys, pc'[q] = "ttl", Exceeded(q)',
             req'[q].key = k
      PROVE  LimitOf(k) <= Total(k)'
  <2>1. CASE q = p
    <3>1. Counts(p) /\ req[p].key = k
      BY <1>2, <1>8, <2>1, CountsFacts
    <3> QED BY <1>1, <1>6, <1>8, <2>1, <3>1
  <2>2. CASE q # p
    <3>1. pc[q] = "ttl" /\ req[q].key = k /\ Exceeded(q)
      BY <1>3, <1>8, <2>2 DEF Exceeded
    <3> QED BY <1>1, <3>1 DEF FullInv
  <2> QED BY <2>1, <2>2
<1>9. ASSUME NEW q \in Procs, NEW k \in CounterKeys, pc'[q] = "idle",
             req'[q].status = "429", req'[q].key = k
      PROVE  LimitOf(k) <= Total(k)'
  <2>1. CASE q = p
    <3>1. req[p].key = k /\ Exceeded(p) /\ pc[p] = "ttl"
      BY <1>2, <1>9, <2>1, RefusedFacts DEF Refused
    <3> QED BY <1>1, <3>1 DEF FullInv
  <2>2. CASE q # p
    <3>1. pc[q] = "idle" /\ req[q].key = k /\ req[q].status = "429"
      BY <1>3, <1>9, <2>2
    <3> QED BY <1>1, <3>1 DEF FullInv
  <2> QED BY <2>1, <2>2
<1>10. \A k : LimitOf(k)' = LimitOf(k)
  BY DEF LimitOf, Limit, Identifier
<1> QED BY <1>7, <1>8, <1>9, <1>10 DEF FullInv

PlacesInv == BaseInv /\ NumbersInv /\ FullInv

(* The same with the clock, and for the whole specification. *)
LEMMA PlacesInductive == (Init => PlacesInv) /\ (PlacesInv /\ [Next]_vars => PlacesInv')
<1>1. ASSUME Init PROVE PlacesInv
  <2>1. BaseInv
    BY <1>1, InitBase
  <2>2. NumbersInv
    BY <1>1, FS_EmptySet DEF Init, NumbersInv
  <2>3. FullInv
    BY <1>1, EmptyFacts DEF Init, FullInv
  <2> QED BY <2>1, <2>2, <2>3 DEF PlacesInv
<1>2. ASSUME PlacesInv, UNCHANGED <<pc, req, sent, served, wasted>>,
             \A k \in CounterKeys : counters'[k] # None => counters'[k] = counters[k]
      PROVE  NumbersInv' /\ FullInv'
  <2>1. NumbersInv'
    BY <1>2 DEF PlacesInv, NumbersInv
  <2>2. \A k : Total(k)' = Total(k) /\ LimitOf(k)' = LimitOf(k)
    BY <1>2 DEF Total, Passed, Placed, Exceeded, LimitOf, Limit, Identifier
  <2>3. \A p \in Procs : Exceeded(p)' = Exceeded(p)
    BY <1>2 DEF Exceeded
  <2>4. FullInv'
    BY <1>2, <2>2, <2>3 DEF PlacesInv, FullInv
  <2> QED BY <2>1, <2>4
<1>3. ASSUME PlacesInv, [Next]_vars PROVE PlacesInv'
  <2>1. BaseInv'
    BY <1>3, NextBase DEF PlacesInv
  <2>2. NumbersInv' /\ FullInv'
    <3>1. CASE \E p \in Procs : Step(p)
      BY <1>3, <3>1, StepNumbers, StepFull DEF PlacesInv
    <3>2. CASE Tick
      BY <1>2, <1>3, <3>2, TickFacts DEF PlacesInv
    <3>3. CASE UNCHANGED vars
      BY <1>2, <1>3, <3>3 DEF vars
    <3> QED BY <1>3, <3>1, <3>2, <3>3, StepCases DEF PlacesInv, BaseInv
  <2> QED BY <2>1, <2>2 DEF PlacesInv
<1> QED BY <1>1, <1>3

-----------------------------------------------------------------------------
(* Windows: which values were drawn from which life of a counter.          *)

(* Values drawn from the counters, by requests let through and by requests
   that are about to be judged. *)
Draws == served \cup {Draw(p) : p \in {q \in Procs : pc[q] = "ttl"}}

DrawsOf(k) == {d \in Draws : d.key = k}

(* When the life of the counter began; that of a missing one begins now. *)
Since(k) == IF counters[k] = None THEN now ELSE counters[k].exp - Window

(* No life of the counter of a window ends before the window is over on the
   fastest clock. *)
Bound(k) == WindowEnd(k[3]) - MaxSkew

(* Values D of a counter whose present life began at c, and no earlier one
   ended before b.  Within a life they differ.  If there was an earlier life,
   the present one began after b; if there were two, a window later still. *)
Orderly(D, c, b) ==
    /\ \A d \in D : d.at < c => c > b
    /\ \A d, e \in D : d.current = e.current =>
         /\ (d.at >= c /\ e.at >= c) => d = e
         /\ (d.at < e.at /\ e.at < c) => c > b + Window
         /\ (d # e /\ d.at <= e.at) => d.at < e.at /\ e.at > b
    /\ \A d, e, f \in D :
         (/\ d.current = e.current /\ e.current = f.current
          /\ d.at < e.at /\ e.at < f.at) => f.at > b + Window

(* The life of a counter lasts for a window, and began when the first of its
   requests had read the clock. *)
LifeInv(k) ==
    /\ counters[k] # None => Since(k) <= now /\ Since(k) + Window >= Bound(k)
    /\ \A d \in DrawsOf(k) :
         /\ counters[k] = None => d.at < now
         /\ (counters[k] # None /\ d.at >= Since(k)) => d.current <= counters[k].n
    /\ Orderly(DrawsOf(k), Since(k), Bound(k))

(* A request belongs to the window it is counted in. *)
ClockInv ==
    /\ \A p \in Procs, k \in CounterKeys : (pc[p] # "idle" /\ req[p].key = k) =>
         Bound(k) <= now + Window /\ req[p].deadline < WindowEnd(k[3]) + ReqTimeout
    /\ \A k \in CounterKeys : \A d \in DrawsOf(k) :
         d.at <= now /\ d.at < WindowEnd(k[3]) + ReqTimeout

WindowInv ==
    /\ BaseInv /\ ClockInv /\ RetryAfterEnough
    /\ \A k \in CounterKeys : LifeInv(k)

(* Fewer values are in order, *)
LEMMA OrderlyFewer ==
    ASSUME NEW E, NEW D \in SUBSET E, NEW c \in Int, NEW b \in Int, Orderly(E, c, b)
    PROVE  Orderly(D, c, b)
BY DEF Orderly

(* so is another one that no other request of this life has drawn, *)
LEMMA OrderlyMore ==
    ASSUME NEW D, NEW c \in Int, NEW b \in Int, Orderly(D, c, b), NEW d,
           d.at \in Int, d.at >= c,
           \A e \in D : e.at \in Int /\ e.at <= d.at
                        /\ (e.at >= c => e.current # d.current)
    PROVE  Orderly(D \cup {d}, c, b)
<1>1. \A e \in D \cup {d} : e.at < c => c > b
  BY DEF Orderly
<1>2. \A e \in D : e.current = d.current => e.at < c /\ c > b
  BY DEF Orderly
<1>3. \A e, f \in D \cup {d} : e.current = f.current =>
         /\ (e.at >= c /\ f.at >= c) => e = f
         /\ (e.at < f.at /\ f.at < c) => c > b + Window
         /\ (e # f /\ e.at <= f.at) => e.at < f.at /\ f.at > b
  <2> SUFFICES ASSUME NEW e \in D \cup {d}, NEW f \in D \cup {d}, e.current = f.current
               PROVE  /\ (e.at >= c /\ f.at >= c) => e = f
                      /\ (e.at < f.at /\ f.at < c) => c > b + Window
                      /\ (e # f /\ e.at <= f.at) => e.at < f.at /\ f.at > b
    OBVIOUS
  <2>1. CASE e \in D /\ f \in D
    BY <2>1 DEF Orderly
  <2>2. CASE e \in D /\ f = d
    BY <1>2, <2>2
  <2>3. CASE e = d /\ f \in D
    BY <1>2, <2>3
  <2>4. CASE e = d /\ f = d
    BY <2>4
  <2> QED BY <2>1, <2>2, <2>3, <2>4
<1>4. \A e, f, g \in D \cup {d} :
         (/\ e.current = f.current /\ f.current = g.current
          /\ e.at < f.at /\ f.at < g.at) => g.at > b + Window
  <2> SUFFICES ASSUME NEW e \in D \cup {d}, NEW f \in D \cup {d}, NEW g \in D \cup {d},
                      e.current = f.current, f.current = g.current,
                      e.at < f.at, f.at < g.at
               PROVE  g.at > b + Window
    OBVIOUS
  <2>1. e \in D /\ f \in D
    <3>1. e.at \in Int /\ f.at \in Int /\ g.at \in Int /\ g.at <= d.at
      OBVIOUS
    <3> QED BY <3>1
  <2>2. CASE g \in D
    BY <2>1, <2>2 DEF Orderly
  <2>3. CASE g = d
    <3>1. e.at < c /\ f.at < c
      BY <1>2, <2>1, <2>3
    <3> QED BY <2>1, <2>3, <3>1 DEF Orderly
  <2> QED BY <2>2, <2>3
<1> QED BY <1>1, <1>3, <1>4 DEF Orderly

(* and they are in order for a later life. *)
LEMMA OrderlyLater ==
    ASSUME NEW D, NEW c \in Int, NEW b \in Int, Orderly(D, c, b), NEW l \in Int, l > c,
           \A d \in D : d.at \in Int /\ d.at < l,
           (\A d \in D : d.at < c) \/ (l > c + Window /\ c + Window >= b)
    PROVE  Orderly(D, l, b)
<1>1. \A d \in D : d.at < l => l > b
  BY DEF Orderly
<1>2. \A d, e \in D : d.current = e.current =>
         /\ (d.at >= l /\ e.at >= l) => d = e
         /\ (d.at < e.at /\ e.at < l) => l > b + Window
         /\ (d # e /\ d.at <= e.at) => d.at < e.at /\ e.at > b
  <2> SUFFICES ASSUME NEW d \in D, NEW e \in D, d.current = e.current
               PROVE  /\ (d.at >= l /\ e.at >= l) => d = e
                      /\ (d.at < e.at /\ e.at < l) => l > b + Window
                      /\ (d # e /\ d.at <= e.at) => d.at < e.at /\ e.at > b
    OBVIOUS
  <2>1. (d.at < e.at /\ e.at < l) => l > b + Window
    <3> SUFFICES ASSUME d.at < e.at PROVE l > b + Window
      OBVIOUS
    <3>1. CASE e.at < c
      BY <3>1 DEF Orderly
    <3>2. CASE e.at >= c
      <4>1. d.at < c
        BY <3>2 DEF Orderly
      <4>2. c > b /\ l > c + Window
        BY <3>2, <4>1 DEF Orderly
      <4> QED BY <4>2
    <3> QED BY <3>1, <3>2
  <2>2. ~(d.at >= l)
    OBVIOUS
  <2> QED BY <2>1, <2>2 DEF Orderly
<1> QED BY <1>1, <1>2 DEF Orderly

(* Dividing by a number of ticks per second. *)
LEMMA DivFacts ==
    ASSUME NEW a \in Nat, NEW b \in Nat \ {0}
    PROVE  a \div b \in Nat /\ a % b \in 0..(b - 1) /\ (b * a) \div b = a
OBVIOUS

(* Remainder and quotient. *)
LEMMA ModFact ==
    ASSUME NEW a \in Nat, NEW b \in Nat \ {0}
    PROVE  a % b = a - b * (a \div b)
OBVIOUS

(* EXPIRE is given the whole window, *)
LEMMA ExpireIsWindow ==
    ASSUME Window % TPS = 0
    PROVE  ExpireSeconds * TPS = Window /\ ExpireSeconds # 0
<1>1. Window % TPS = Window - TPS * (Window \div TPS) /\ Window \div TPS \in Nat
  BY DivFacts, ModFact
<1>2. \A x \in Nat : TPS * x = x * TPS
  OBVIOUS
<1>3. ExpireSeconds * TPS = Window
  BY <1>1, <1>2 DEF ExpireSeconds
<1>4. 0 * TPS = 0
  OBVIOUS
<1> QED BY <1>3, <1>4

(* and the clock that a window is named after is within it. *)
LEMMA ClockInWindow ==
    ASSUME Window % TPS = 0, NEW t \in Nat
    PROVE  WindowStart(t) * TPS <= t /\ t < WindowEnd(WindowStart(t))
<1> DEFINE m == Window \div TPS
           q == t \div Window
<1>1. t % Window = t - Window * q /\ q \in Nat /\ t % Window \in 0..(Window - 1)
  BY DivFacts, ModFact
<1>2. Window % TPS = Window - TPS * m /\ m \in Nat
  BY DivFacts, ModFact
<1>4. WindowStart(t) = (t - (t % Window)) \div TPS
  BY DEF WindowStart
<1> HIDE DEF m, q
<1>3. Window = TPS * m
  <2>1. TPS * m \in Nat
    BY <1>2
  <2> QED BY <1>2, <2>1
<1>5. t - (t % Window) = TPS * (m * q) /\ m * q \in Nat
  <2>1. t - (t % Window) = Window * q
    BY <1>1
  <2>2. \A a, b \in Nat : (TPS * a) * b = TPS * (a * b)
    OBVIOUS
  <2>3. \A a, b \in Nat : a * b \in Nat
    OBVIOUS
  <2>4. Window * q = (TPS * m) * q
    BY <1>3, Zenon
  <2>5. (TPS * m) * q = TPS * (m * q) /\ m * q \in Nat
    <3>1. m \in Nat /\ q \in Nat
      BY <1>1, <1>2
    <3> QED BY <3>1, <2>2, <2>3, Zenon
  <2> QED BY <2>1, <2>4, <2>5, Zenon
<1>6. (TPS * (m * q)) \div TPS = m * q
  <2>1. TPS \in Nat \ {0}
    OBVIOUS
  <2> QED BY <1>5, <2>1, DivFacts, Zenon
<1>7. WindowStart(t) * TPS = t - (t % Window)
  <2>1. \A x \in Nat : x * TPS = TPS * x
    OBVIOUS
  <2> QED BY <1>4, <1>5, <1>6, <2>1
<1> QED BY <1>1, <1>7 DEF WindowEnd

(* Retry-After and half a second reach the end of the counter. *)
LEMMA TTLReaches ==
    ASSUME NEW x \in Nat
    PROVE  ((x + TPS \div 2) \div TPS) * TPS + TPS \div 2 >= x
<1> DEFINE h == TPS \div 2
           y == x + h
           s == y \div TPS
<1>1. h \in Nat /\ 2 * h >= TPS - 1
  OBVIOUS
<1> HIDE DEF h
<1>2. y \in Nat
  BY <1>1
<1> HIDE DEF y
<1>3. y % TPS = y - TPS * s /\ s \in Nat /\ y % TPS \in 0..(TPS - 1)
  BY <1>2, DivFacts, ModFact
<1> HIDE DEF s
<1>4. s * TPS = TPS * s /\ TPS * s \in Nat
  BY <1>3
<1>5. s * TPS + h >= x
  BY <1>1, <1>2, <1>3, <1>4 DEF y
<1> QED BY <1>5 DEF s, h, y

(* Values are records of what was drawn, and times are numbers. *)
LEMMA DrawTypes ==
    ASSUME BaseInv
    PROVE  /\ Draws \subseteq Served
           /\ \A k \in CounterKeys :
                Since(k) \in Int /\ Bound(k) \in Int /\ WindowEnd(k[3]) \in Nat
<1>1. \A p \in Procs : pc[p] = "ttl" => Draw(p) \in Served
  BY DEF BaseInv, TypeOK, Request, Draw, Served
<1>2. served \subseteq Served /\ now \in Nat
  BY DEF BaseInv, TypeOK
<1>3. ASSUME NEW k \in CounterKeys
      PROVE  Since(k) \in Int /\ Bound(k) \in Int /\ WindowEnd(k[3]) \in Nat
  <2>1. Since(k) \in Int
    BY <1>2 DEF Since, BaseInv, TypeOK, Counter
  <2>2. \A a \in Nat : a * TPS + Window \in Nat
    OBVIOUS
  <2>3. WindowEnd(k[3]) \in Nat
    BY <2>2, KeyFacts DEF WindowEnd
  <2> QED BY <2>1, <2>3 DEF Bound
<1> QED BY <1>1, <1>2, <1>3 DEF Draws

(* What a step does to the values drawn: a counted request adds one. *)
LEMMA StepDraws ==
    ASSUME BaseInv, NEW p \in Procs, Step(p)
    PROVE  /\ Counts(p) => Draws' \subseteq Draws \cup {Draw(p)'}
           /\ ~Counts(p) => Draws' \subseteq Draws
<1>1. req'[p] \in Request /\ (pc'[p] = "ttl" => Counts(p))
  BY StartsFacts, CountsFacts, MissesFacts, RefusedFacts, EmptyFacts
     DEF Step, Starts, Counts, Misses, Refused, Admitted, Fails
<1>2. \A q \in Procs \ {p} : pc'[q] = pc[q] /\ req'[q] = req[q]
  BY <1>1, LocalsFacts DEF BaseInv
<1>3. \A q \in Procs \ {p} : Draw(q)' = Draw(q)
  BY <1>2 DEF Draw
<1>4. served' = served \/ (served' = served \cup {Draw(p)} /\ pc[p] = "ttl")
  BY DEF Step, Starts, Counts, Misses, Refused, Admitted, Fails
<1>5. served' \subseteq Draws
  BY <1>4 DEF Draws
<1>6. \A q \in Procs \ {p} : pc'[q] = "ttl" => Draw(q)' \in Draws
  BY <1>2, <1>3 DEF Draws
<1>7. Draws' = served' \cup {Draw(q)' : q \in {r \in Procs : pc'[r] = "ttl"}}
  BY DEF Draws
<1> QED BY <1>1, <1>5, <1>6, <1>7

(* Between two ticks a counter keeps the beginning of its life, and counts. *)
LEMMA CounterStep ==
    ASSUME Window % TPS = 0, BaseInv, NEW k \in CounterKeys, LifeInv(k), now' = now,
           \/ counters'[k] = counters[k]
           \/ Script(k) /\ Bound(k) <= now + Window
    PROVE  /\ Since(k)' = Since(k) /\ Bound(k)' = Bound(k)
           /\ counters'[k] # None => Since(k) <= now /\ Since(k) + Window >= Bound(k)
           /\ counters'[k] = None => counters[k] = None
           /\ (counters'[k] # None /\ counters[k] = None) => Since(k) = now
           /\ counters'[k] # None => counters'[k].n \in Nat
           /\ (counters'[k] # None /\ counters[k] # None) =>
                /\ counters[k].n \in Nat
                /\ counters'[k].n \in {counters[k].n, counters[k].n + 1}
           /\ Script(k) => counters'[k] # None /\ counters'[k].n = NextValue(k)
<1>1. now \in Nat /\ counters[k] \in Counter \cup {None}
  BY DEF BaseInv, TypeOK
<1>2. Bound(k)' = Bound(k)
  BY DEF Bound, WindowEnd
<1>3. CASE Script(k)
  <2>1. ExpireSeconds * TPS = Window /\ ExpireSeconds # 0
    BY ExpireIsWindow
  <2>2. CASE counters[k] = None
    <3>1. counters'[k] # None /\ counters'[k].n = 1 /\ counters'[k].exp = now + Window
      BY <1>3, <2>1, <2>2, ScriptFacts
    <3>2. Since(k)' = Since(k) /\ Since(k) = now
      BY <1>1, <2>2, <3>1 DEF Since
    <3>3. NextValue(k) = 1
      BY <2>2 DEF NextValue
    <3>4. Since(k) + Window >= Bound(k)
      <4>1. CASE Bound(k) <= now + Window
        BY <1>1, <3>2, <4>1, DrawTypes
      <4>2. CASE counters'[k] = counters[k]
        BY <2>2, <3>1, <4>2
      <4> QED BY <4>1, <4>2
    <3> QED BY <1>1, <1>2, <1>3, <2>2, <3>1, <3>2, <3>3, <3>4
  <2>3. CASE counters[k] # None
    <3>1. /\ counters'[k] # None /\ counters'[k].n = counters[k].n + 1
          /\ counters'[k].exp = counters[k].exp /\ counters[k].n \in Nat
      BY <1>1, <1>3, <2>3, ScriptFacts DEF Counter
    <3>2. Since(k)' = Since(k) /\ NextValue(k) = counters[k].n + 1
      BY <2>3, <3>1 DEF Since, NextValue
    <3> QED BY <1>2, <1>3, <2>3, <3>1, <3>2 DEF LifeInv
  <2> QED BY <2>2, <2>3
<1>4. CASE counters'[k] = counters[k] /\ ~Script(k)
  <2>1. Since(k)' = Since(k)
    BY <1>4 DEF Since
  <2>2. counters[k] # None => counters[k].n \in Nat
    BY <1>1 DEF Counter
  <2> QED BY <1>2, <1>4, <2>1, <2>2 DEF LifeInv
<1> QED BY <1>3, <1>4

(* A counter from which nobody draws. *)
LEMMA LifeKept ==
    ASSUME Window % TPS = 0, BaseInv, NEW k \in CounterKeys, LifeInv(k), now' = now,
           \/ counters'[k] = counters[k]
           \/ Script(k) /\ Bound(k) <= now + Window,
           DrawsOf(k)' \subseteq DrawsOf(k)
    PROVE  LifeInv(k)'
<1>1. \A d \in DrawsOf(k) : d.at \in Nat /\ d.current \in Nat
  BY DrawTypes DEF DrawsOf, Served
<1>2. Since(k) \in Int /\ Bound(k) \in Int /\ now \in Nat
  BY DrawTypes DEF BaseInv, TypeOK
<1>3. ASSUME NEW d \in DrawsOf(k)
      PROVE  /\ counters'[k] = None => d.at < now
             /\ (counters'[k] # None /\ d.at >= Since(k)) => d.current <= counters'[k].n
  <2>1. CASE counters[k] = None
    BY <1>1, <1>2, <2>1, CounterStep DEF LifeInv
  <2>2. CASE counters[k] # None
    <3>1. counters'[k] # None /\ counters[k].n \in Nat /\ counters'[k].n \in Nat
          /\ counters'[k].n >= counters[k].n
      BY <2>2, CounterStep
    <3> QED BY <1>1, <2>2, <3>1 DEF LifeInv
  <2> QED BY <2>1, <2>2
<1>4. Orderly(DrawsOf(k)', Since(k), Bound(k))
  BY <1>2, OrderlyFewer DEF LifeInv
<1>5. Orderly(DrawsOf(k)', Since(k)', Bound(k)')
  BY <1>4, CounterStep
<1>6. Since(k)' = Since(k) /\ Bound(k)' = Bound(k)
      /\ (counters'[k] # None => Since(k) <= now /\ Since(k) + Window >= Bound(k))
  BY CounterStep
<1>7. Orderly(DrawsOf(k), Since(k), Bound(k))'
  BY <1>5 DEF Orderly
<1>8. \A d \in DrawsOf(k)' :
        /\ counters'[k] = None => d.at < now'
        /\ (counters'[k] # None /\ d.at >= Since(k)') => d.current <= counters'[k].n
  BY <1>3, <1>6
<1>9. counters'[k] # None => Since(k)' <= now' /\ Since(k)' + Window >= Bound(k)'
  BY <1>6
<1> QED BY <1>7, <1>8, <1>9 DEF LifeInv

(* The counter that a request is counted on. *)
LEMMA LifeDrawn ==
    ASSUME Window % TPS = 0, BaseInv, NEW k \in CounterKeys, LifeInv(k), now' = now,
           Script(k), Bound(k) <= now + Window, NEW d,
           DrawsOf(k)' \subseteq DrawsOf(k) \cup {d}, d.at = now,
           d.current = NextValue(k), \A e \in DrawsOf(k) : e.at <= now
    PROVE  LifeInv(k)'
<1>1. \A e \in DrawsOf(k) : e.at \in Nat /\ e.current \in Nat
  BY DrawTypes DEF DrawsOf, Served
<1>2. Since(k) \in Int /\ Bound(k) \in Int /\ now \in Nat
  BY DrawTypes DEF BaseInv, TypeOK
<1>3. /\ Since(k)' = Since(k) /\ Bound(k)' = Bound(k) /\ counters'[k] # None
      /\ Since(k) <= now /\ Since(k) + Window >= Bound(k)
      /\ counters'[k].n = d.current /\ counters'[k].n \in Nat
  BY CounterStep
<1>4. ASSUME NEW e \in DrawsOf(k), e.at >= Since(k)
      PROVE  e.current < d.current
  <2>1. CASE counters[k] = None
    BY <1>1, <1>2, <1>4, <2>1, CounterStep DEF LifeInv
  <2>2. CASE counters[k] # None
    <3>1. counters[k].n \in Nat /\ d.current = counters[k].n + 1
      BY <2>2, CounterStep DEF NextValue
    <3> QED BY <1>1, <1>4, <2>2, <3>1 DEF LifeInv
  <2> QED BY <2>1, <2>2
<1>5. Orderly(DrawsOf(k) \cup {d}, Since(k), Bound(k))
  <2>1. Orderly(DrawsOf(k), Since(k), Bound(k))
    BY DEF LifeInv
  <2>2. \A e \in DrawsOf(k) : e.at \in Int /\ e.at <= d.at
                              /\ (e.at >= Since(k) => e.current # d.current)
    BY <1>1, <1>3, <1>4
  <2>3. d.at \in Int /\ d.at >= Since(k)
    BY <1>2, <1>3
  <2> QED BY <1>2, <2>1, <2>2, <2>3, OrderlyMore
<1>6. Orderly(DrawsOf(k)', Since(k), Bound(k))
  BY <1>2, <1>5, OrderlyFewer
<1>7. Orderly(DrawsOf(k), Since(k), Bound(k))'
  BY <1>3, <1>6 DEF Orderly
<1>8. \A e \in DrawsOf(k)' :
        /\ counters'[k] = None => e.at < now'
        /\ (counters'[k] # None /\ e.at >= Since(k)') => e.current <= counters'[k].n
  BY <1>1, <1>3, <1>4
<1>9. counters'[k] # None => Since(k)' <= now' /\ Since(k)' + Window >= Bound(k)'
  BY <1>3
<1> QED BY <1>7, <1>8, <1>9 DEF LifeInv

(* Time passes: the counter is still missing, still lives, or is gone. *)
LEMMA LifeTick ==
    ASSUME Window % TPS = 0, BaseInv, Tick, NEW k \in CounterKeys, LifeInv(k),
           \A e \in DrawsOf(k) : e.at <= now
    PROVE  LifeInv(k)'
<1>1. \A e \in DrawsOf(k) : e.at \in Nat /\ e.current \in Nat
  BY DrawTypes DEF DrawsOf, Served
<1>2. /\ Since(k) \in Int /\ Bound(k) \in Int /\ now \in Nat /\ now' = now + 1
      /\ counters[k] \in Counter \cup {None}
  BY DrawTypes, TickFacts DEF BaseInv, TypeOK
<1>3. DrawsOf(k)' = DrawsOf(k) /\ Bound(k)' = Bound(k)
  BY TickFacts DEF DrawsOf, Draws, Draw, Bound, WindowEnd
<1>4. Orderly(DrawsOf(k), Since(k), Bound(k))
  BY DEF LifeInv
<1>5. CASE counters[k] = None
  <2>1. counters'[k] = None
    BY <1>5, TickFacts
  <2>2. Since(k) = now /\ Since(k)' = now' /\ \A e \in DrawsOf(k) : e.at < now
    BY <1>5, <2>1 DEF Since, LifeInv
  <2>3. Orderly(DrawsOf(k), now', Bound(k))
    BY <1>1, <1>2, <1>4, <2>2, OrderlyLater
  <2>4. Orderly(DrawsOf(k), Since(k), Bound(k))'
    BY <1>3, <2>2, <2>3 DEF Orderly
  <2>5. \A e \in DrawsOf(k)' : e.at < now'
    BY <1>1, <1>2, <1>3, <2>2
  <2> QED BY <2>1, <2>4, <2>5 DEF LifeInv
<1>6. CASE counters[k] # None /\ counters'[k] = counters[k]
  <2>1. Since(k)' = Since(k)
    BY <1>6 DEF Since
  <2>2. Orderly(DrawsOf(k), Since(k), Bound(k))'
    BY <1>3, <1>4, <2>1 DEF Orderly
  <2>3. Since(k)' <= now' /\ Since(k)' + Window >= Bound(k)'
    BY <1>2, <1>3, <1>6, <2>1 DEF LifeInv
  <2>4. \A e \in DrawsOf(k)' : e.at >= Since(k)' => e.current <= counters'[k].n
    BY <1>3, <1>6, <2>1 DEF LifeInv
  <2> QED BY <1>6, <2>2, <2>3, <2>4 DEF LifeInv
<1>7. CASE counters[k] # None /\ counters'[k] = None /\ now' > counters[k].exp
  <2>1. Since(k)' = now' /\ Since(k) = counters[k].exp - Window /\ counters[k].exp \in Nat
    BY <1>2, <1>7 DEF Since, Counter
  <2>2. now' > Since(k) + Window /\ Since(k) + Window >= Bound(k)
    BY <1>2, <1>7, <2>1 DEF LifeInv
  <2>3. \A e \in DrawsOf(k) : e.at < now'
    BY <1>1, <1>2
  <2>4. Orderly(DrawsOf(k), now', Bound(k))
    <3>1. now' \in Int /\ now' > Since(k)
      BY <1>2, <2>2
    <3> QED BY <1>1, <1>2, <1>4, <2>2, <2>3, <3>1, OrderlyLater
  <2>5. Orderly(DrawsOf(k), Since(k), Bound(k))'
    BY <1>3, <2>1, <2>4 DEF Orderly
  <2> QED BY <1>3, <1>7, <2>3, <2>5 DEF LifeInv
<1> QED BY <1>5, <1>6, <1>7, TickFacts

(* A request that has just read the clock is in time for its window. *)
LEMMA StartsClock ==
    ASSUME Window % TPS = 0, BaseInv, NEW p \in Procs, Starts(p), NEW k \in CounterKeys,
           req'[p].key = k
    PROVE  Bound(k) <= now + Window /\ req'[p].deadline < WindowEnd(k[3]) + ReqTimeout
<1>1. PICK skew \in 0..MaxSkew : k[3] = WindowStart(now + skew)
  BY StartsFacts
<1>2. now \in Nat /\ skew \in Nat /\ skew <= MaxSkew /\ now + skew \in Nat
  BY DEF BaseInv, TypeOK
<1>3. k[3] * TPS <= now + skew /\ now + skew < WindowEnd(k[3])
  BY <1>1, <1>2, ClockInWindow
<1>4. k[3] * TPS \in Nat
  <2>1. \A a \in Nat : a * TPS \in Nat
    OBVIOUS
  <2> QED BY <2>1, KeyFacts
<1>5. Bound(k) <= now + Window
  BY <1>2, <1>3, <1>4 DEF Bound, WindowEnd
<1>6. req'[p].deadline = now + ReqTimeout
  BY StartsFacts
<1> QED BY <1>2, <1>3, <1>4, <1>5, <1>6 DEF WindowEnd

(* Retry-After leads to the end of the window. *)
LEMMA RefusedWaits ==
    ASSUME BaseInv, NEW p \in Procs, Refused(p), NEW k \in CounterKeys,
           req[p].key = k, LifeInv(k)
    PROVE  req'[p].at + req'[p].retryAfter * TPS + TPS \div 2 + MaxSkew
             >= WindowEnd(req'[p].key[3])
<1> DEFINE h == TPS \div 2
<1>1. /\ req'[p].at = now /\ req'[p].retryAfter = TTLSeconds(k) /\ req'[p].key = k
      /\ now \in Nat /\ counters[k] \in Counter \cup {None}
  BY RefusedFacts DEF BaseInv, TypeOK
<1>2. /\ h \in Nat /\ Since(k) \in Int /\ Bound(k) = WindowEnd(k[3]) - MaxSkew
      /\ WindowEnd(k[3]) \in Nat
  BY DrawTypes DEF Bound
<1>3. CASE counters[k] = None
  <2>1. Draw(p) \in DrawsOf(k)
    BY DEF DrawsOf, Draws, Draw, Refused
  <2>2. Draw(p).at < now /\ Since(k) = now
    BY <1>3, <2>1 DEF LifeInv, Since
  <2>3. now > Bound(k)
    BY <2>1, <2>2 DEF LifeInv, Orderly
  <2>4. TTLSeconds(k) * TPS = 0
    BY <1>3 DEF TTLSeconds
  <2> HIDE DEF h
  <2>5. now + 0 + h + MaxSkew >= WindowEnd(k[3])
    BY <1>1, <1>2, <2>3
  <2> QED BY <1>1, <2>4, <2>5 DEF h
<1>4. CASE counters[k] # None
  <2> DEFINE x == counters[k].exp - now
  <2>1. x \in Nat /\ counters[k].exp \in Nat
    BY <1>1, <1>4 DEF BaseInv, Counter
  <2>2. TTLSeconds(k) = (x + h) \div TPS
    BY <1>4 DEF TTLSeconds
  <2>3. ((x + h) \div TPS) * TPS + h >= x
    BY <2>1, TTLReaches
  <2>4. counters[k].exp >= WindowEnd(k[3]) - MaxSkew
    BY <1>2, <1>4, <2>1 DEF LifeInv, Since
  <2>5. ((x + h) \div TPS) * TPS \in Int
    <3>1. x + h \in Nat
      BY <1>2, <2>1
    <3>2. (x + h) \div TPS \in Nat
      BY <3>1, DivFacts
    <3>3. \A a \in Nat : a * TPS \in Int
      OBVIOUS
    <3> QED BY <3>2, <3>3
  <2> DEFINE y == ((x + h) \div TPS) * TPS
  <2>6. y \in Int /\ y + h >= counters[k].exp - now
    BY <2>3, <2>5
  <2> HIDE DEF y, x, h
  <2>7. now + y + h + MaxSkew >= WindowEnd(k[3])
    BY <1>1, <1>2, <2>1, <2>4, <2>6
  <2> QED BY <1>1, <2>2, <2>7 DEF y, h
<1> QED BY <1>3, <1>4

(* Every step of a request keeps WindowInv. *)
LEMMA StepWindow ==
    ASSUME Window % TPS = 0, WindowInv, NEW p \in Procs, Step(p), BaseInv'
    PROVE  WindowInv'
<1>0. BaseInv /\ now' = now /\ now \in Nat
  BY DEF WindowInv, BaseInv, TypeOK, Step, Starts, Counts, Misses, Refused, Admitted, Fails
<1>1. /\ req'[p] \in Request
      /\ (pc'[p] = "idle" /\ req'[p].status = "429" => Refused(p))
      /\ (pc'[p] # "idle" =>
            \/ Starts(p)
            \/ pc[p] # "idle" /\ req'[p].key = req[p].key
               /\ req'[p].deadline = req[p].deadline)
  BY <1>0, StartsFacts, CountsFacts, MissesFacts, RefusedFacts, EmptyFacts
     DEF Step, Starts, Counts, Misses, Refused, Admitted, Fails
<1>2. \A q \in Procs \ {p} : pc'[q] = pc[q] /\ req'[q] = req[q]
  BY <1>0, <1>1, LocalsFacts DEF BaseInv
<1>3. \A k \in CounterKeys : Bound(k)' = Bound(k) /\ Bound(k) \in Int
                             /\ WindowEnd(k[3]) \in Nat
  BY <1>0, DrawTypes DEF Bound, WindowEnd
<1>4. ASSUME NEW q \in Procs, NEW k \in CounterKeys, pc'[q] # "idle", req'[q].key = k
      PROVE  /\ Bound(k)' <= now' + Window
             /\ req'[q].deadline < WindowEnd(k[3]) + ReqTimeout
  <2>1. CASE q = p /\ Starts(p)
    BY <1>0, <1>3, <1>4, <2>1, StartsClock
  <2>2. CASE q # p \/ ~Starts(p)
    <3>1. pc[q] # "idle" /\ req[q].key = k /\ req'[q].deadline = req[q].deadline
      BY <1>1, <1>2, <1>4, <2>2
    <3> QED BY <1>0, <1>3, <3>1 DEF WindowInv, ClockInv
  <2> QED BY <2>1, <2>2
<1>5. ASSUME NEW q \in Procs, pc'[q] = "idle", req'[q].status = "429"
      PROVE  req'[q].at + req'[q].retryAfter * TPS + TPS \div 2 + MaxSkew
                >= WindowEnd(req'[q].key[3])
  <2>1. CASE q = p
    <3>1. Refused(p) /\ req[p].key \in CounterKeys
      BY <1>0, <1>1, <1>5, <2>1 DEF Refused, BaseInv
    <3> QED BY <1>0, <2>1, <3>1, RefusedWaits DEF WindowInv
  <2>2. CASE q # p
    BY <1>2, <1>5, <2>2 DEF WindowInv, RetryAfterEnough
  <2> QED BY <2>1, <2>2
<1>6. \A k \in CounterKeys : \A d \in DrawsOf(k) :
         d.at <= now /\ d.at < WindowEnd(k[3]) + ReqTimeout
  BY DEF WindowInv, ClockInv
<1>7. ASSUME NEW k \in CounterKeys,
             ~Counts(p) \/ req[p].key # k
      PROVE  DrawsOf(k)' \subseteq DrawsOf(k) /\ LifeInv(k)'
  <2>1. DrawsOf(k)' \subseteq DrawsOf(k)
    <3>1. Counts(p) => Draw(p)'.key # k
      BY <1>0, <1>7, CountsFacts DEF Draw
    <3> QED BY <1>0, <1>7, <3>1, StepDraws DEF DrawsOf
  <2>2. pc[p] = "incr" => req[p].key \in CounterKeys
    BY <1>0 DEF BaseInv
  <2>3. counters'[k] = counters[k] \/ (Script(k) /\ Bound(k) <= now + Window)
    <3>1. CASE UNCHANGED counters
      BY <3>1
    <3>2. CASE pc[p] = "incr" /\ Script(req[p].key)
      <4>1. CASE req[p].key = k
        BY <3>2, <4>1 DEF WindowInv, ClockInv
      <4>2. CASE req[p].key # k
        BY <1>0, <2>2, <3>2, <4>2, ScriptFacts
      <4> QED BY <4>1, <4>2
    <3> QED BY <3>1, <3>2 DEF Step, Starts, Counts, Misses, Refused, Admitted, Fails
  <2> QED BY <1>0, <2>1, <2>3, LifeKept DEF WindowInv
<1>8. ASSUME NEW k \in CounterKeys, Counts(p), req[p].key = k
      PROVE  /\ LifeInv(k)'
             /\ \A d \in DrawsOf(k)' : d.at <= now /\ d.at < WindowEnd(k[3]) + ReqTimeout
  <2>1. /\ Draw(p)'.at = now /\ Draw(p)'.current = NextValue(k) /\ Draw(p)'.key = k
    BY <1>0, <1>8, CountsFacts DEF Draw
  <2>2. PICK d : d = Draw(p)'
    OBVIOUS
  <2>3. DrawsOf(k)' \subseteq DrawsOf(k) \cup {d}
    BY <1>0, <1>8, <2>2, StepDraws DEF DrawsOf
  <2>4. /\ Bound(k) <= now + Window /\ req[p].deadline < WindowEnd(k[3]) + ReqTimeout
        /\ Script(k) /\ now <= req[p].deadline /\ req[p].deadline \in Nat
    BY <1>0, <1>8 DEF WindowInv, ClockInv, Counts, CanCall, BaseInv, TypeOK, Request
  <2>5. LifeInv(k)'
    BY <1>0, <1>6, <2>1, <2>2, <2>3, <2>4, LifeDrawn DEF WindowInv
  <2>6. now < WindowEnd(k[3]) + ReqTimeout
    BY <1>0, <1>3, <2>4
  <2> QED BY <1>0, <1>6, <2>1, <2>2, <2>3, <2>5, <2>6
<1>9. \A k \in CounterKeys : LifeInv(k)'
  BY <1>7, <1>8
<1>10. \A k \in CounterKeys : \A d \in DrawsOf(k)' :
         d.at <= now' /\ d.at < WindowEnd(k[3]) + ReqTimeout
  BY <1>0, <1>6, <1>7, <1>8
<1>11. ClockInv'
  BY <1>4, <1>10 DEF ClockInv, WindowEnd
<1>12. RetryAfterEnough'
  BY <1>5 DEF RetryAfterEnough, WindowEnd
<1> QED BY <1>9, <1>11, <1>12 DEF WindowInv

(* WindowInv holds at the start, and every step keeps it. *)
LEMMA WindowInductive ==
    ASSUME Window % TPS = 0
    PROVE  (Init => WindowInv) /\ (WindowInv /\ [Next]_vars => WindowInv')
<1>1. ASSUME Init PROVE WindowInv
  <2>1. BaseInv
    BY <1>1, InitBase
  <2>2. \A p \in Procs : pc[p] = "idle" /\ req[p].status # "429"
    BY <1>1, EmptyFacts DEF Init
  <2>3. \A k : DrawsOf(k) = {}
    BY <1>1, <2>2 DEF DrawsOf, Draws, Init
  <2>4. ClockInv /\ RetryAfterEnough
    BY <2>2, <2>3 DEF ClockInv, RetryAfterEnough
  <2>5. \A k \in CounterKeys : LifeInv(k)
    BY <1>1, <2>3 DEF LifeInv, Orderly, Init
  <2> QED BY <2>1, <2>4, <2>5 DEF WindowInv
<1>2. ASSUME WindowInv, [Next]_vars PROVE WindowInv'
  <2>1. BaseInv /\ BaseInv' /\ TypeOK
    BY <1>2, NextBase DEF WindowInv, BaseInv
  <2>2. CASE \E p \in Procs : Step(p)
    BY <1>2, <2>1, <2>2, StepWindow
  <2>3. CASE Tick
    <3>1. UNCHANGED <<pc, req, served>> /\ now' = now + 1 /\ now \in Nat
      BY <2>1, <2>3, TickFacts
    <3>2. \A k \in CounterKeys : DrawsOf(k)' = DrawsOf(k) /\ Bound(k)' = Bound(k)
                                 /\ Bound(k) \in Int
      BY <2>1, <3>1, DrawTypes DEF DrawsOf, Draws, Draw, Bound, WindowEnd
    <3>3. \A k \in CounterKeys : \A d \in DrawsOf(k) : d.at \in Nat
      BY <2>1, DrawTypes DEF DrawsOf, Served
    <3>4. \A k \in CounterKeys : LifeInv(k)'
      BY <1>2, <2>1, <2>3, LifeTick DEF WindowInv, ClockInv
    <3>5. RetryAfterEnough'
      BY <1>2, <3>1 DEF WindowInv, RetryAfterEnough, WindowEnd
    <3>6. /\ \A p \in Procs, k \in CounterKeys : (pc'[p] # "idle" /\ req'[p].key = k) =>
               /\ Bound(k)' <= now' + Window
               /\ req'[p].deadline < WindowEnd(k[3]) + ReqTimeout
          /\ \A k \in CounterKeys : \A d \in DrawsOf(k)' :
               d.at <= now' /\ d.at < WindowEnd(k[3]) + ReqTimeout
      BY <1>2, <3>1, <3>2, <3>3 DEF WindowInv, ClockInv
    <3>7. ClockInv'
      BY <3>6 DEF ClockInv, WindowEnd
    <3> QED BY <2>1, <3>4, <3>5, <3>7 DEF WindowInv
  <2>4. CASE UNCHANGED vars
    <3>1. UNCHANGED <<counters, pc, req, served, now>>
      BY <2>4 DEF vars
    <3>2. \A k : DrawsOf(k)' = DrawsOf(k) /\ Bound(k)' = Bound(k) /\ Since(k)' = Since(k)
      BY <3>1 DEF DrawsOf, Draws, Draw, Bound, WindowEnd, Since
    <3>3. \A k \in CounterKeys : LifeInv(k)'
      BY <1>2, <3>1, <3>2 DEF WindowInv, LifeInv, Orderly
    <3>4. ClockInv' /\ RetryAfterEnough'
      BY <1>2, <3>1, <3>2 DEF WindowInv, ClockInv, RetryAfterEnough, WindowEnd
    <3> QED BY <2>1, <3>3, <3>4 DEF WindowInv
  <2> QED BY <1>2, <2>1, <2>2, <2>3, <2>4, StepCases
<1> QED BY <1>1, <1>2

-----------------------------------------------------------------------------
(* Results.                                                                *)

(* The counters, the locals of the middleware and the history are what the
   code declares; Retry-After is never negative. *)
THEOREM RateLimiterTypeCorrect == Spec => []TypeOK
<1>1. BaseInv => TypeOK
  BY DEF BaseInv
<1> QED BY <1>1, InitBase, NextBase, PTL DEF Spec

(* Nobody is answered 429 while places are left, whatever fails and whatever
   the length of the window. *)
THEOREM RefusedOnlyWhenFull == Spec => []RejectedOnlyWhenFull
<1>1. PlacesInv => RejectedOnlyWhenFull
  <2> SUFFICES ASSUME PlacesInv, NEW p \in Procs, pc[p] = "idle", req[p].status = "429"
               PROVE  Cardinality({s \in served : s.key = req[p].key})
                        + Cardinality({q \in Procs : /\ pc[q] = "ttl"
                                                     /\ req[q].key = req[p].key
                                                     /\ ~Exceeded(q)})
                        + wasted[req[p].key] >= req[p].limit
    BY DEF RejectedOnlyWhenFull
  <2>1. PICK k \in CounterKeys : k = req[p].key /\ req[p].limit = LimitOf(k)
    BY DEF PlacesInv, BaseInv
  <2>2. LimitOf(k) <= Total(k)
    BY <2>1 DEF PlacesInv, FullInv
  <2>3. Total(k) \in Nat /\ LimitOf(k) \in Nat
    BY Sizes, KeyFacts DEF PlacesInv
  <2>4. Total(k) >= req[p].limit
    BY <2>1, <2>2, <2>3
  <2> QED BY <2>1, <2>4 DEF Total, Passed, Placed
<1> QED BY <1>1, PlacesInductive, PTL DEF Spec

(* In windows of whole seconds, whoever waits for Retry-After is counted in
   a later window. *)
THEOREM RetryAfterIsEnough ==
    ASSUME Window % TPS = 0
    PROVE  Spec => []RetryAfterEnough
<1>1. WindowInv => RetryAfterEnough
  BY DEF WindowInv
<1> QED BY <1>1, WindowInductive, PTL DEF Spec

(* There are n numbers from one to n. *)
LEMMA Numbered == \A n \in Nat : IsFiniteSet(1..n) /\ Cardinality(1..n) = n
<1> SUFFICES ASSUME NEW n \in Nat PROVE IsFiniteSet(1..n) /\ Cardinality(1..n) = n
  OBVIOUS
<1>1. 1 \in Int /\ n \in Int
  OBVIOUS
<1>2. /\ IsFiniteSet(1..n)
      /\ Cardinality(1..n) = IF 1 > n THEN 0 ELSE n - 1 + 1
  BY <1>1, FS_Interval, Zenon
<1>3. (IF 1 > n THEN 0 ELSE n - 1 + 1) = n
  OBVIOUS
<1> QED BY <1>2, <1>3

(* In windows of whole seconds, no more than limit of the requests that are
   counted while the window lasts on every clock are let through. *)
THEOREM LimitHoldsWithinWindow ==
    ASSUME Window % TPS = 0
    PROVE  Spec => []OnTimeWithinLimit
<1>1. WindowInv => OnTimeWithinLimit
  <2> SUFFICES ASSUME WindowInv, NEW s \in served
               PROVE  Cardinality({r \in served : r.key = s.key /\ OnTime(r)}) <= s.limit
    BY DEF OnTimeWithinLimit
  <2> DEFINE S == {r \in served : r.key = s.key /\ OnTime(r)}
             T == 1..s.limit
             f == [r \in S |-> r.current]
  <2>1. BaseInv /\ s \in Served /\ s.key \in CounterKeys /\ s.limit \in Nat
    BY DEF WindowInv, BaseInv, TypeOK, Served
  <2>2. \A r \in S : r.current \in T /\ r.at \in Nat
    BY <2>1 DEF BaseInv, TypeOK, Served
  <2>3. Orderly(DrawsOf(s.key), Since(s.key), Bound(s.key)) /\ S \subseteq DrawsOf(s.key)
    BY <2>1 DEF WindowInv, LifeInv, DrawsOf, Draws
  <2>4. \A r \in S : r.at < Bound(s.key)
    BY DEF OnTime, Bound
  <2>5. \A q, r \in S : q.current = r.current => q = r
    <3> SUFFICES ASSUME NEW q \in S, NEW r \in S, q.current = r.current, q # r
                 PROVE  FALSE
      OBVIOUS
    <3>1. Bound(s.key) \in Int
      BY <2>1, DrawTypes
    <3>2. q.at > Bound(s.key) \/ r.at > Bound(s.key)
      BY <2>2, <2>3 DEF Orderly
    <3> QED BY <2>2, <2>4, <3>1, <3>2
  <2>6. IsFiniteSet(T) /\ Cardinality(T) = s.limit
    BY <2>1, Numbered
  <2>7. f \in [S -> T]
    BY <2>2
  <2>8. IsFiniteSet(S) /\ Cardinality(S) <= Cardinality(T)
    <3>1. f \in Injection(S, T)
      BY <2>5, <2>7 DEF Injection, IsInjective
    <3> QED BY <2>6, <3>1, FS_Injection
  <2> QED BY <2>6, <2>8
<1> QED BY <1>1, WindowInductive, PTL DEF Spec

(* In windows of whole seconds that are longer than a request may take and
   the clocks may differ, a window lets through at most twice its limit. *)
THEOREM AtMostTwoLives ==
    ASSUME Window % TPS = 0, ReqTimeout + MaxSkew <= Window
    PROVE  Spec => []AtMostTwiceTheLimit
<1>1. WindowInv => AtMostTwiceTheLimit
  <2> SUFFICES ASSUME WindowInv, NEW s \in served
               PROVE  Cardinality({r \in served : r.key = s.key}) <= 2 * s.limit
    BY DEF AtMostTwiceTheLimit
  <2> DEFINE S == {r \in served : r.key = s.key}
             T == (1..s.limit) \X {0, 1}
             again(r) == IF \E q \in S : q.current = r.current /\ q.at < r.at
                         THEN 1 ELSE 0
             f == [r \in S |-> <<r.current, again(r)>>]
             b == Bound(s.key)
  <2>1. BaseInv /\ s \in Served /\ s.key \in CounterKeys /\ s.limit \in Nat
    BY DEF WindowInv, BaseInv, TypeOK, Served
  <2>2. \A r \in S : r.current \in 1..s.limit /\ r.at \in Nat
    BY <2>1 DEF BaseInv, TypeOK, Served
  <2>3. Orderly(DrawsOf(s.key), Since(s.key), b) /\ S \subseteq DrawsOf(s.key)
    BY <2>1 DEF WindowInv, LifeInv, DrawsOf, Draws
  <2>4. b \in Int /\ \A r \in S : r.at <= b + Window
    <3>1. WindowEnd(s.key[3]) \in Nat /\ b = WindowEnd(s.key[3]) - MaxSkew
      BY <2>1, DrawTypes DEF Bound
    <3>2. \A r \in S : r.at < WindowEnd(s.key[3]) + ReqTimeout
      BY <2>1, <2>3 DEF WindowInv, ClockInv
    <3> HIDE DEF S
    <3> QED BY <2>2, <3>1, <3>2
  <2> HIDE DEF S, b
  <2>5. \A q, r \in S : (q.current = r.current /\ again(q) = again(r)) => q = r
    <3>1. ASSUME NEW q \in S, NEW r \in S, q.current = r.current, q.at <= r.at, q # r
          PROVE  again(q) = 0 /\ again(r) = 1
      <4>1. q.at < r.at
        BY <2>3, <3>1 DEF Orderly
      <4>2. ASSUME NEW e \in S, e.current = q.current, e.at < q.at PROVE FALSE
        <5>1. r.at > b + Window
          BY <2>3, <3>1, <4>1, <4>2 DEF Orderly
        <5> QED BY <2>2, <2>4, <5>1
      <4> QED BY <3>1, <4>1, <4>2
    <3>2. \A q, r \in S : q.at <= r.at \/ r.at <= q.at
      BY <2>2
    <3> HIDE DEF again
    <3> QED BY <3>1, <3>2
  <2>6. IsFiniteSet(T) /\ Cardinality(T) = s.limit * 2
    <3>1. IsFiniteSet(1..s.limit) /\ Cardinality(1..s.limit) = s.limit
      BY <2>1, Numbered
    <3>2. IsFiniteSet({0, 1}) /\ Cardinality({0, 1}) = 2
      <4>1. IsFiniteSet({0}) /\ Cardinality({0}) = 1
        BY FS_Singleton
      <4>2. 1 \notin {0} /\ {0, 1} = {0} \cup {1}
        OBVIOUS
      <4>3. IsFiniteSet({0} \cup {1}) /\ Cardinality({0} \cup {1}) = Cardinality({0}) + 1
        BY <4>1, <4>2, FS_AddElement
      <4>4. Cardinality({0}) + 1 = 2
        BY <4>1
      <4> QED BY <4>2, <4>3, <4>4, Zenon
    <3>3. /\ IsFiniteSet((1..s.limit) \X {0, 1})
          /\ Cardinality((1..s.limit) \X {0, 1}) = Cardinality(1..s.limit) * Cardinality({0, 1})
      BY <3>1, <3>2, FS_Product, Zenon
    <3> QED BY <3>1, <3>2, <3>3
  <2>7. f \in [S -> T]
    <3>1. \A r \in S : <<r.current, again(r)>> \in T
      BY <2>2
    <3> HIDE DEF T, again
    <3> QED BY <3>1
  <2>8. IsFiniteSet(S) /\ Cardinality(S) <= Cardinality(T)
    <3>1. \A q, r \in S : f[q] = f[r] => q = r
      <4> HIDE DEF again
      <4> QED BY <2>5
    <3> HIDE DEF f, T
    <3>2. f \in Injection(S, T)
      BY <2>7, <3>1 DEF Injection, IsInjective
    <3> QED BY <2>6, <3>2, FS_Injection
  <2>9. Cardinality(S) <= 2 * s.limit
    BY <2>1, <2>6, <2>8
  <2> QED BY <2>9 DEF S
<1> QED BY <1>1, WindowInductive, PTL DEF Spec
=============================================================================
