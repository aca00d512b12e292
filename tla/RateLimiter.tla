---------------------------- MODULE RateLimiter ----------------------------
(***************************************************************************)
(* The RateLimiter middleware: one Redis counter per identifier, endpoint  *)
(* and window, incremented by a Lua script and read back with TTL.         *)
(*                                                                         *)
(* A request reads the clock, runs the script and asks for the TTL in      *)
(* three separate steps; requests on all replicas interleave between them. *)
(* Time is in ticks, TPS of them to a second, so that the whole seconds of *)
(* EXPIRE, TTL and Unix() are visible.  The replicas' clocks differ: now   *)
(* is the slowest one.  Redis only measures durations.                     *)
(***************************************************************************)
EXTENDS Integers, FiniteSets

CONSTANTS
    Identities,   \* what the authentication put into the context
    Endpoints,    \* the endpoints that have a limiter of their own
    JwtLimit,     \* PREDICT_RATE_LIMIT
    Window,       \* PREDICT_RATE_WINDOW, in ticks
    TPS,          \* ticks per second
    ReqTimeout,   \* ticks within which the last call of a request lands
    Retries,      \* attempts go-redis makes after one that failed
    MaxSkew,      \* ticks by which the clock of a replica may be ahead
    Procs,        \* request goroutines, on any replica
    MaxRequests,  \* bound on the requests with an identity
    MaxTime,      \* bound on the clock
    Faulty,       \* whether calls fail and processes die
    None          \* nil

(* Identity: apiKey and rate are set for requests with an X-API-Key only. *)
Identity == [user : Nat, apiKey : Nat \cup {None}, rate : Nat \cup {None}]

(* "user:%d" or "apikey:%d" *)
Identifier(i) ==
    IF i.apiKey # None THEN <<"apikey", i.apiKey>> ELSE <<"user", i.user>>

Limit(i) == IF i.apiKey # None /\ i.rate # None THEN i.rate ELSE JwtLimit

ASSUME TimeAssumption ==
    /\ TPS \in Nat \ {0} /\ Window \in Nat \ {0}
    /\ ReqTimeout \in Nat /\ Retries \in Nat /\ MaxSkew \in Nat
    /\ MaxRequests \in Nat /\ MaxTime \in Nat
    /\ Faulty \in BOOLEAN /\ IsFiniteSet(Procs)

(* The rate of an API key is fixed when the key is created. *)
ASSUME IdentityAssumption ==
    /\ None \notin Nat /\ JwtLimit \in Nat /\ Identities \subseteq Identity
    /\ \A i, j \in Identities : Identifier(i) = Identifier(j) => Limit(i) = Limit(j)

(* now.Truncate(window).Unix() *)
WindowStart(t) == (t - (t % Window)) \div TPS

(* The window's end, in ticks. *)
WindowEnd(w) == w * TPS + Window

CounterKeys ==
    {Identifier(i) : i \in Identities} \X Endpoints
        \X {WindowStart(t) : t \in 0..(MaxTime + MaxSkew)}

Counter == [n : Nat, exp : Nat]

ASSUME NoneAssumption ==
    None \notin Identities /\ None \notin CounterKeys /\ None \notin Counter

VARIABLES
    counters,   \* Redis ratelimit:<identifier>:<endpoint>:<windowStart>
    pc,         \* the next call of each request goroutine
    req,        \* the local variables of each request goroutine
    sent,       \* how many requests the limiter has started on
    served,     \* history: the requests passed on to their handler
    wasted,     \* history: executions of the script that gave no verdict
    now         \* the clock

vars == <<counters, pc, req, sent, served, wasted, now>>

Request == [no : Nat, limit : Nat, key : CounterKeys \cup {None},
            deadline : Nat, tries : Nat, current : Nat, at : Nat,
            retryAfter : Nat,
            status : {"none", "pending", "admitted", "429", "500"}]

(* A request that was let through: its number, counter, limit, the value it
   drew from the counter and when it drew it. *)
Served == [no : Nat, key : CounterKeys, limit : Nat, current : Nat, at : Nat]

NoRequest ==
    [no |-> 0, limit |-> 0, key |-> None, deadline |-> 0, tries |-> 0,
     current |-> 0, at |-> 0, retryAfter |-> 0, status |-> "none"]

Init ==
    /\ counters = [k \in CounterKeys |-> None]
    /\ pc = [p \in Procs |-> "idle"]
    /\ req = [p \in Procs |-> NoRequest]
    /\ sent = 0
    /\ served = {}
    /\ wasted = [k \in CounterKeys |-> 0]
    /\ now = 0

CanCall(p) == now <= req[p].deadline

MayFail(p) == Faulty \/ ~CanCall(p)

(* The answer; the locals are gone with the request. *)
Finish(p, answer) ==
    /\ pc' = [pc EXCEPT ![p] = "idle"]
    /\ req' = [req EXCEPT ![p] = answer]

Status(s) == [NoRequest EXCEPT !.status = s]

(* 429 with Retry-After, for the counter it was refused on. *)
TooMany(p, secs) ==
    [NoRequest EXCEPT !.status = "429", !.retryAfter = secs, !.at = now,
                      !.key = req[p].key, !.limit = req[p].limit]

-----------------------------------------------------------------------------
(* The middleware.                                                         *)

(* No identity in the context. *)
NoIdentity(p) ==
    /\ pc[p] = "idle"
    /\ Finish(p, Status("500"))
    /\ UNCHANGED <<counters, sent, served, wasted, now>>

(* Limit and identifier from the identity, the counter from clock, which is
   time.Now() of the replica; deadline is that of the request's context. *)
ReadClock(p, i, e, clock, deadline) ==
    /\ pc[p] = "idle" /\ sent < MaxRequests
    /\ sent' = sent + 1
    /\ pc' = [pc EXCEPT ![p] = "incr"]
    /\ req' = [req EXCEPT ![p] =
                 [NoRequest EXCEPT !.no = sent', !.limit = Limit(i),
                     !.key = <<Identifier(i), e, WindowStart(clock)>>,
                     !.deadline = deadline, !.status = "pending"]]
    /\ UNCHANGED <<counters, served, wasted, now>>

(* Seeded faults: one second short; minutes passed for seconds. *)
ExpireSecondsShort == (Window \div TPS) - 1
ExpireMinutes == Window \div (60 * TPS)

(* int(window.Seconds()) *)
ExpireSeconds == Window \div TPS

(* The script: INCR, and EXPIRE when the counter is new.  An expiry of zero
   seconds deletes the counter. *)
NextValue(k) == IF counters[k] = None THEN 1 ELSE counters[k].n + 1

Script(k) ==
    counters' = [counters EXCEPT ![k] =
        IF @ # None THEN [n |-> @.n + 1, exp |-> @.exp]
        ELSE IF ExpireSeconds = 0 THEN None
        ELSE [n |-> 1, exp |-> now + ExpireSeconds * TPS]]

Waste(k) == wasted' = [wasted EXCEPT ![k] = @ + 1]

(* An attempt that brings no answer: the script ran, or it did not. *)
Lost(k) ==
    \/ Script(k) /\ Waste(k)
    \/ UNCHANGED <<counters, wasted>>

(* script.Run: an attempt whose answer is lost has counted the request, and
   go-redis tries again. *)
Incr(p) ==
    /\ pc[p] = "incr"
    /\ \/ /\ CanCall(p)
          /\ Script(req[p].key)
          /\ pc' = [pc EXCEPT ![p] = "ttl"]
          /\ req' = [req EXCEPT ![p].current = NextValue(req[p].key),
                                ![p].at = now]
          /\ UNCHANGED wasted
       \/ /\ Faulty /\ CanCall(p) /\ req[p].tries < Retries
          /\ Lost(req[p].key)
          /\ req' = [req EXCEPT ![p].tries = @ + 1]
          /\ UNCHANGED pc
       \/ /\ MayFail(p)
          /\ IF CanCall(p) THEN Lost(req[p].key)
                           ELSE UNCHANGED <<counters, wasted>>
          /\ Finish(p, Status("500"))
    /\ UNCHANGED <<sent, served, now>>

(* Seeded fault: the -2 of a missing key is passed on. *)
TTLSecondsRaw(k) ==
    IF counters[k] = None THEN -2
    ELSE (counters[k].exp - now + TPS \div 2) \div TPS

(* TTL rounds to the nearest second; the -2 of a missing key ends up as 0. *)
TTLSeconds(k) ==
    IF counters[k] = None THEN 0
    ELSE (counters[k].exp - now + TPS \div 2) \div TPS

(* Seeded fault: the last place is not given away. *)
ExceededEarly(p) == req[p].current >= req[p].limit

Exceeded(p) == req[p].current > req[p].limit

(* TTL, the headers, and the verdict. *)
Decide(p) ==
    /\ pc[p] = "ttl"
    /\ \/ /\ CanCall(p) /\ Exceeded(p)
          /\ Finish(p, TooMany(p, TTLSeconds(req[p].key)))
          /\ UNCHANGED <<served, wasted>>
       \/ /\ CanCall(p) /\ ~Exceeded(p)
          /\ Finish(p, Status("admitted"))
          /\ served' = served \cup
               {[no |-> req[p].no, key |-> req[p].key, limit |-> req[p].limit,
                 current |-> req[p].current, at |-> req[p].at]}
          /\ UNCHANGED wasted
       \/ /\ MayFail(p)
          /\ Finish(p, Status("500"))
          /\ Waste(req[p].key)
          /\ UNCHANGED served
    /\ UNCHANGED <<counters, sent, now>>

-----------------------------------------------------------------------------
(* The environment.                                                        *)

(* The replica serving the request dies; what it counted stays counted. *)
Crash(p) ==
    /\ Faulty /\ pc[p] # "idle"
    /\ pc' = [pc EXCEPT ![p] = "idle"]
    /\ req' = [req EXCEPT ![p] = NoRequest]
    /\ \/ pc[p] = "ttl" /\ Waste(req[p].key)
       \/ pc[p] = "incr" /\ UNCHANGED wasted
    /\ UNCHANGED <<counters, sent, served, now>>

(* Redis drops a counter once the clock is past its expiry.  Without faults
   a request is answered before its deadline. *)
Tick ==
    /\ now < MaxTime
    /\ Faulty \/ \A p \in Procs : pc[p] # "idle" => now < req[p].deadline
    /\ now' = now + 1
    /\ counters' = [k \in CounterKeys |->
          IF counters[k] # None /\ now' > counters[k].exp THEN None
          ELSE counters[k]]
    /\ UNCHANGED <<pc, req, sent, served, wasted>>

Next ==
    \/ \E p \in Procs :
         \/ NoIdentity(p)
         \/ \E i \in Identities, e \in Endpoints, skew \in 0..MaxSkew :
              ReadClock(p, i, e, now + skew, now + ReqTimeout)
         \/ Incr(p)
         \/ Decide(p)
         \/ Crash(p)
    \/ Tick

Spec == Init /\ [][Next]_vars
-----------------------------------------------------------------------------
(* Properties.                                                             *)

(* The counters, the locals of the middleware and the history are what the
   code declares them to be; in particular Retry-After is never negative. *)
TypeOK ==
    /\ counters \in [CounterKeys -> Counter \cup {None}]
    /\ pc \in [Procs -> {"idle", "incr", "ttl"}]
    /\ req \in [Procs -> Request]
    /\ sent \in Nat
    /\ served \in SUBSET Served
    /\ wasted \in [CounterKeys -> Nat]
    /\ now \in Nat

(* The request was counted before its window was over on the fastest clock. *)
OnTime(s) == s.at < WindowEnd(s.key[3]) - MaxSkew

(* However the requests of all replicas interleave, however far apart their
   clocks are and whatever answers are lost, no more than limit of the
   requests counted within a window are let through in that window. *)
OnTimeWithinLimit ==
    \A s \in served :
        Cardinality({r \in served : r.key = s.key /\ OnTime(r)}) <= s.limit

(* A request that reads the clock just before the end of the window, or on a
   replica whose clock is behind, can find its counter expired and count from
   one again; at worst that doubles what one window lets through. *)
AtMostTwiceTheLimit ==
    \A s \in served :
        Cardinality({r \in served : r.key = s.key}) <= 2 * s.limit

(* A client answered 429 that waits for Retry-After, half a second for the
   rounding of TTL, and the difference of the clocks is counted in a later
   window. *)
RetryAfterEnough ==
    \A p \in Procs :
        (pc[p] = "idle" /\ req[p].status = "429") =>
            req[p].at + req[p].retryAfter * TPS + TPS \div 2 + MaxSkew
                >= WindowEnd(req[p].key[3])

(* Nobody is answered 429 while places are left: as many requests as the
   limit allows were let through on that counter, are about to be, or took a
   place and came to nothing (a lost answer, a dead replica). *)
RejectedOnlyWhenFull ==
    \A p \in Procs :
        (pc[p] = "idle" /\ req[p].status = "429") =>
            Cardinality({s \in served : s.key = req[p].key})
              + Cardinality({q \in Procs : /\ pc[q] = "ttl"
                                           /\ req[q].key = req[p].key
                                           /\ ~Exceeded(q)})
              + wasted[req[p].key] >= req[p].limit

(* A sliding window: at most limit requests of an identity are let through on
   an endpoint in any period as long as the window, wherever it begins. *)
SlidingWindow ==
    \A s \in served :
        Cardinality({r \in served : /\ r.key[1] = s.key[1]
                                    /\ r.key[2] = s.key[2]
                                    /\ s.at <= r.at
                                    /\ r.at < s.at + Window}) <= s.limit
=============================================================================
