---------------------------- MODULE VendorClient ----------------------------
(***************************************************************************)
(* ThirdPartyClient: calls to the vendor, each a series of HTTP attempts   *)
(* inside one Execute of a circuit breaker that all calls of the process   *)
(* share.                                                                  *)
(*                                                                         *)
(* The breaker (gobreaker) and the retries (resty) are libraries; they are *)
(* modelled from the settings and callbacks the client gives them.         *)
(* Execute asks the breaker before the call and tells it the result after  *)
(* the call, under its mutex both times, and calls of other goroutines run *)
(* in between.  Time appears only as "the expiry of the breaker's current  *)
(* generation is past": attempts may take any time, so the properties hold *)
(* for every relation of Interval, Timeout and the timeout of an attempt.  *)
(***************************************************************************)
EXTENDS Integers, FiniteSets

CONSTANTS
    Procs,        \* request goroutines
    MaxRequests,  \* st.MaxRequests, the calls let through when half-open (1)
    TripAfter,    \* the consecutive failures ReadyToTrip tolerates (5)
    RetryCount    \* attempts after the first (3)

ASSUME SettingsAssumption ==
    /\ MaxRequests \in Nat \ {0} /\ TripAfter \in Nat /\ RetryCount \in Nat
    /\ IsFiniteSet(Procs)

VARIABLES
    breaker,  \* the circuit breaker
    pc,       \* where each goroutine is in Execute
    tries,    \* the attempts it has repeated
    result,   \* what the method returned, or is about to return
    up        \* the vendor answers 200 and nobody gives up waiting

vars == <<breaker, pc, tries, result, up>>

(* calls are the goroutines whose call was admitted in the current
   generation: all that comparing generation numbers tells apart.  requests
   and failures are counted up to the values they are compared with. *)
Breaker == [state : {"closed", "open", "halfopen"}, requests : 0..MaxRequests,
            failures : 0..TripAfter, successes : 0..MaxRequests,
            due : BOOLEAN, calls : SUBSET Procs]

(* toNewGeneration *)
NewGeneration(s) ==
    [state |-> s, requests |-> 0, failures |-> 0, successes |-> 0,
     due |-> FALSE, calls |-> {}]

Init ==
    /\ breaker = NewGeneration("closed")
    /\ pc = [p \in Procs |-> "idle"]
    /\ tries = [p \in Procs |-> 0]
    /\ result = [p \in Procs |-> "none"]
    /\ up \in BOOLEAN

-----------------------------------------------------------------------------
(* The breaker.                                                            *)

(* currentState: an expired closed generation is replaced by a fresh one, an
   expired open one by half-open. *)
CurrentState ==
    IF breaker.due /\ breaker.state = "closed" THEN NewGeneration("closed")
    ELSE IF breaker.due /\ breaker.state = "open" THEN NewGeneration("halfopen")
    ELSE breaker

(* Seeded fault: half-open lets every call through. *)
RefusesOnlyOpen(b) == b.state = "open"

(* beforeRequest: ErrOpenState or ErrTooManyRequests. *)
Refuses(b) ==
    \/ b.state = "open"
    \/ b.state = "halfopen" /\ b.requests >= MaxRequests

Count(n, bound) == IF n < bound THEN n + 1 ELSE n

(* Seeded fault: the failure at hand is not counted. *)
ReadyToTripLate(b) == b.failures > TripAfter

(* ReadyToTrip: counts.ConsecutiveFailures > 5, after this failure. *)
ReadyToTrip(b) == b.failures + 1 > TripAfter

(* Seeded fault: one success more than half-open can bring. *)
OnSuccessStrict(b) ==
    IF b.state = "halfopen" /\ b.successes + 1 > MaxRequests
    THEN NewGeneration("closed")
    ELSE [b EXCEPT !.successes = Count(@, MaxRequests), !.failures = 0]

OnSuccess(b) ==
    IF b.state = "halfopen" /\ b.successes + 1 >= MaxRequests
    THEN NewGeneration("closed")
    ELSE [b EXCEPT !.successes = Count(@, MaxRequests), !.failures = 0]

OnFailure(b) ==
    IF b.state = "halfopen" \/ ReadyToTrip(b) THEN NewGeneration("open")
    ELSE [b EXCEPT !.successes = 0, !.failures = @ + 1]

-----------------------------------------------------------------------------
(* Ping, Version and Predict: one closure each, alike in all but the path. *)

(* cb.Execute up to the call of the closure. *)
Execute(p) ==
    /\ pc[p] = "idle"
    /\ tries' = [tries EXCEPT ![p] = 0]
    /\ result' = [result EXCEPT ![p] = "none"]
    /\ LET b == CurrentState IN
         \/ /\ Refuses(b)
            /\ breaker' = b
            /\ pc' = [pc EXCEPT ![p] = "refused"]
         \/ /\ ~Refuses(b)
            /\ breaker' = [b EXCEPT !.requests = Count(@, MaxRequests),
                                    !.calls = @ \cup {p}]
            /\ pc' = [pc EXCEPT ![p] = "attempt"]
    /\ UNCHANGED up

(* A refused method returns the breaker's error. *)
ReturnRefused(p) ==
    /\ pc[p] = "refused"
    /\ pc' = [pc EXCEPT ![p] = "idle"]
    /\ UNCHANGED <<breaker, tries, result, up>>

(* What an attempt may end with: 200, another status below 500, a status
   from 500 on, or no answer (timeout, refused connection, cancelled). *)
Outcomes == IF up THEN {"200"} ELSE {"200", "4xx", "5xx", "none"}

(* The retry condition asks for another attempt on 5xx.  Whether resty makes
   one when there was no answer is left open. *)
MayRetry(p, o) == o \in {"5xx", "none"} /\ tries[p] < RetryCount

MustRetry(p, o) == o = "5xx" /\ tries[p] < RetryCount

(* One HTTP attempt: the next one, or the end of the closure. *)
Attempt(p) ==
    /\ pc[p] = "attempt"
    /\ \E o \in Outcomes :
         \/ /\ MayRetry(p, o)
            /\ tries' = [tries EXCEPT ![p] = @ + 1]
            /\ UNCHANGED <<pc, result>>
         \/ /\ ~MustRetry(p, o)
            /\ pc' = [pc EXCEPT ![p] = "report"]
            /\ result' = [result EXCEPT ![p] = IF o = "200" THEN "ok"
                                               ELSE "error"]
            /\ UNCHANGED tries
    /\ UNCHANGED <<breaker, up>>

(* Seeded fault: results of earlier generations count as well. *)
AfterRequestAnyGeneration(b, p) ==
    IF result[p] = "ok" THEN OnSuccess([b EXCEPT !.calls = @ \ {p}])
    ELSE OnFailure([b EXCEPT !.calls = @ \ {p}])

(* afterRequest: a result of an earlier generation is ignored. *)
AfterRequest(b, p) ==
    IF p \notin b.calls THEN b
    ELSE IF result[p] = "ok" THEN OnSuccess([b EXCEPT !.calls = @ \ {p}])
    ELSE OnFailure([b EXCEPT !.calls = @ \ {p}])

Report(p) ==
    /\ pc[p] = "report"
    /\ breaker' = AfterRequest(CurrentState, p)
    /\ pc' = [pc EXCEPT ![p] = "idle"]
    /\ UNCHANGED <<tries, result, up>>

-----------------------------------------------------------------------------
(* The environment.                                                        *)

(* The clock passes the expiry of the generation; half-open has none. *)
Elapse ==
    /\ ~breaker.due /\ breaker.state # "halfopen"
    /\ breaker' = [breaker EXCEPT !.due = TRUE]
    /\ UNCHANGED <<pc, tries, result, up>>

VendorChanges == up' = ~up /\ UNCHANGED <<breaker, pc, tries, result>>

(* The process restarts, with a new breaker. *)
Restart ==
    /\ breaker' = NewGeneration("closed")
    /\ pc' = [p \in Procs |-> "idle"]
    /\ tries' = [p \in Procs |-> 0]
    /\ result' = [p \in Procs |-> "none"]
    /\ UNCHANGED up

Next ==
    \/ \E p \in Procs :
         Execute(p) \/ ReturnRefused(p) \/ Attempt(p) \/ Report(p)
    \/ Elapse
    \/ VendorChanges
    \/ Restart

(* An attempt ends after at most three seconds, goroutines are scheduled,
   and time passes.  Nothing makes anybody call the vendor. *)
Fairness ==
    /\ \A p \in Procs :
         WF_vars(ReturnRefused(p)) /\ WF_vars(Attempt(p)) /\ WF_vars(Report(p))
    /\ WF_vars(Elapse)

Spec == Init /\ [][Next]_vars /\ Fairness
-----------------------------------------------------------------------------
(* Properties.                                                             *)

(* The breaker's counters stay within what the settings allow: it never
   tolerates more failures in a row than ReadyToTrip does. *)
TypeOK ==
    /\ breaker \in Breaker
    /\ pc \in [Procs -> {"idle", "refused", "attempt", "report"}]
    /\ tries \in [Procs -> 0..RetryCount]
    /\ result \in [Procs -> {"none", "ok", "error"}]
    /\ up \in BOOLEAN

(* When half-open, the vendor is bothered by no more than MaxRequests calls
   admitted since, however many goroutines find the timeout expired at once
   and however late the calls from before the trip are. *)
ProbesBounded ==
    breaker.state = "halfopen" =>
        Cardinality({p \in Procs : pc[p] # "idle" /\ p \in breaker.calls})
            <= MaxRequests

(* The breaker leaves half-open only when a call admitted while half-open
   ends, and closes only when the vendor answered that call with 200: a late
   answer to a call from before the trip decides nothing. *)
ProbeDecides ==
    [][(breaker.state = "halfopen" /\ breaker'.state # "halfopen") =>
          \/ Restart
          \/ \E p \in breaker.calls :
               /\ pc[p] = "report" /\ pc'[p] = "idle"
               /\ breaker'.state = "closed" <=> result[p] = "ok"]_vars

(* Once the vendor stays healthy and calls keep coming, the breaker closes
   for good: it is not stuck open, nor half-open behind a lost probe. *)
Recovers ==
    (<>[]up /\ []<><<\E p \in Procs : Execute(p)>>_vars) =>
        <>[](breaker.state = "closed")
=============================================================================
