---------------------------- MODULE VendorTimed ----------------------------
(***************************************************************************)
(* VendorClient with the durations of its settings, against a vendor that  *)
(* answers every attempt with a 5xx while calls keep coming: every         *)
(* goroutine calls again as soon as its last call is over.                 *)
(*                                                                         *)
(* Time is in seconds.  The waits between attempts are taken as zero; they *)
(* would only make calls longer.                                           *)
(***************************************************************************)
EXTENDS VendorClient

CONSTANTS
    Interval,       \* st.Interval (10s)
    Timeout,        \* st.Timeout (5s)
    AttemptTimeout  \* resty's timeout of an attempt (3s)

VARIABLES
    timer,   \* seconds until the breaker's generation expires
    spent    \* how long the attempt of each goroutine has run

timedVars == <<vars, timer, spent>>

TimedInit ==
    /\ Init /\ ~up
    /\ timer = Interval
    /\ spent = [p \in Procs |-> 0]

(* A new generation has a new expiry; a half-open one has none. *)
SetExpiry ==
    timer' =
      IF breaker'.state = breaker.state /\ breaker'.due = breaker.due THEN timer
      ELSE IF breaker'.state = "closed" THEN Interval ELSE Timeout

(* The attempt is answered with a 5xx: again, until the retries are used up. *)
Fails(p) ==
    /\ Attempt(p)
    /\ IF tries[p] < RetryCount THEN tries' # tries ELSE result'[p] = "error"
    /\ spent' = [spent EXCEPT ![p] = 0]

Calls(p) ==
    /\ \/ Fails(p)
       \/ (Execute(p) \/ ReturnRefused(p) \/ Report(p)) /\ UNCHANGED spent
    /\ SetExpiry

(* A second passes for every attempt and for the breaker, whose generation
   expires when its time is over. *)
Tick ==
    /\ \A p \in Procs :
         pc[p] = "refused" \/ (pc[p] = "attempt" /\ spent[p] < AttemptTimeout)
    /\ spent' = [p \in Procs |-> IF pc[p] = "attempt" THEN spent[p] + 1 ELSE 0]
    /\ IF timer > 0 THEN timer' = timer - 1 /\ UNCHANGED vars
       ELSE /\ UNCHANGED timer
            /\ \/ Elapse
               \/ (breaker.due \/ breaker.state = "halfopen") /\ UNCHANGED vars

TimedNext == Tick \/ \E p \in Procs : Calls(p)

(* Goroutines are scheduled and time passes. *)
TimedSpec == TimedInit /\ [][TimedNext]_timedVars /\ WF_timedVars(TimedNext)

(* The circuit breaker prevents further requests to a vendor that fails every
   one: sooner or later it is open.  It is not: four attempts of up to three
   seconds outlast Interval, the failure of such a call belongs to a
   generation that is over, and afterRequest ignores it. *)
FailingVendorTrips == <>(breaker.state = "open")
=============================================================================
