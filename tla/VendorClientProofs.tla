------------------------- MODULE VendorClientProofs -------------------------
(***************************************************************************)
(* The safety properties of VendorClient hold for every finite set of      *)
(* goroutines and all settings of breaker and retries.                     *)
(***************************************************************************)
EXTENDS VendorClient, FiniteSetTheorems, TLAPS

USE SettingsAssumption

(* A call that the breaker has admitted and not heard of again is running. *)
CallsRun == \A p \in breaker.calls : pc[p] \in {"attempt", "report"}

(* While half-open, every call of the generation has been counted; without
   this the limit on the count would say nothing about the calls. *)
ProbesCounted ==
    breaker.state = "halfopen" => Cardinality(breaker.calls) <= breaker.requests

IInv == TypeOK /\ CallsRun /\ ProbesCounted

-----------------------------------------------------------------------------
(* The breaker on its own.                                                 *)

(* Changing its counts leaves a breaker a breaker. *)
LEMMA CountsFacts ==
    ASSUME NEW c \in Breaker, NEW m \in 0..MaxRequests, NEW n \in 0..TripAfter
    PROVE  LET d == [c EXCEPT !.successes = m, !.failures = n]
           IN  /\ d \in Breaker /\ d.state = c.state /\ d.calls = c.calls
               /\ d.requests = c.requests
BY DEF Breaker

(* What beforeRequest and afterRequest may rely on. *)
Sound(b) ==
    /\ b \in Breaker
    /\ b.state = "halfopen" => Cardinality(b.calls) <= b.requests

(* toNewGeneration starts with no call and no count. *)
LEMMA NewGenerationSound ==
    ASSUME NEW s \in {"closed", "open", "halfopen"}
    PROVE  /\ Sound(NewGeneration(s))
           /\ NewGeneration(s).state = s /\ NewGeneration(s).calls = {}
BY FS_EmptySet DEF Sound, NewGeneration, Breaker

(* currentState forgets calls, and never touches a half-open generation. *)
LEMMA CurrentStateSound ==
    ASSUME Sound(breaker)
    PROVE  /\ Sound(CurrentState)
           /\ CurrentState.calls \subseteq breaker.calls
           /\ breaker.state = "halfopen" => CurrentState = breaker
BY NewGenerationSound DEF CurrentState, Sound, Breaker

(* Counting an admitted call keeps the count ahead of the calls: a half-open
   breaker at its limit has refused before. *)
LEMMA AdmitSound ==
    ASSUME NEW b, Sound(b), ~Refuses(b), NEW p \in Procs
    PROVE  Sound([b EXCEPT !.requests = Count(@, MaxRequests),
                           !.calls = @ \cup {p}])
<1> DEFINE c == [b EXCEPT !.requests = Count(@, MaxRequests),
                          !.calls = @ \cup {p}]
<1>1. b \in Breaker /\ IsFiniteSet(b.calls)
  BY FS_Subset DEF Sound, Breaker
<1>2. c \in Breaker
  <2>1. Count(b.requests, MaxRequests) \in 0..MaxRequests
    BY <1>1 DEF Breaker, Count
  <2>2. b.calls \cup {p} \in SUBSET Procs
    BY <1>1 DEF Breaker
  <2> QED BY <1>1, <2>1, <2>2 DEF Breaker
<1>3. ASSUME c.state = "halfopen"
      PROVE  Cardinality(c.calls) <= c.requests
  <2>1. b.state = "halfopen" /\ c.calls = b.calls \cup {p}
    BY <1>1, <1>3 DEF Breaker
  <2>2. c.requests = b.requests + 1
    BY <1>1, <2>1 DEF Refuses, Count, Breaker
  <2>3. Cardinality(b.calls) \in Nat
    BY <1>1, FS_CardinalityType
  <2>4. Cardinality(b.calls \cup {p}) \in {Cardinality(b.calls), Cardinality(b.calls) + 1}
    BY <1>1, FS_AddElement
  <2> QED BY <1>1, <2>1, <2>2, <2>3, <2>4 DEF Sound, Breaker
<1> QED BY <1>2, <1>3 DEF Sound

(* A result of the current generation leaves the breaker sound, and brings no
   call back; it moves a half-open breaker to closed only on success. *)
LEMMA AfterRequestSound ==
    ASSUME NEW b, Sound(b), NEW p \in Procs
    PROVE  /\ Sound(AfterRequest(b, p))
           /\ AfterRequest(b, p).calls \subseteq b.calls \ {p}
           /\ (b.state = "halfopen" /\ AfterRequest(b, p).state # "halfopen") =>
                 /\ p \in b.calls
                 /\ AfterRequest(b, p).state = "closed" <=> result[p] = "ok"
<1> DEFINE c == [b EXCEPT !.calls = @ \ {p}]
<1>1. b \in Breaker /\ IsFiniteSet(b.calls)
  BY FS_Subset DEF Sound, Breaker
<1>2. CASE p \notin b.calls
  BY <1>1, <1>2 DEF AfterRequest, Breaker
<1>3. CASE p \in b.calls
  <2>1. c \in Breaker /\ c.state = b.state /\ c.calls = b.calls \ {p}
    BY <1>1 DEF Breaker
  <2>2. c.state = "halfopen" => Cardinality(c.calls) <= c.requests
    <3>1. Cardinality(b.calls) \in Nat
      BY <1>1, FS_CardinalityType
    <3>2. Cardinality(b.calls \ {p}) = Cardinality(b.calls) - 1
      BY <1>1, <1>3, FS_RemoveElement
    <3> QED BY <1>1, <2>1, <3>1, <3>2 DEF Sound, Breaker
  <2>3. CASE result[p] = "ok"
    <3>1. AfterRequest(b, p) = OnSuccess(c)
      BY <1>3, <2>3 DEF AfterRequest
    <3>2. CASE c.state = "halfopen" /\ c.successes + 1 >= MaxRequests
      BY <1>3, <2>1, <2>3, <3>1, <3>2, NewGenerationSound DEF OnSuccess
    <3>3. CASE ~(c.state = "halfopen" /\ c.successes + 1 >= MaxRequests)
      <4> DEFINE d == [c EXCEPT !.successes = Count(@, MaxRequests), !.failures = 0]
      <4>1. AfterRequest(b, p) = d
        BY <3>1, <3>3 DEF OnSuccess
      <4>2. /\ d \in Breaker /\ d.state = c.state /\ d.calls = c.calls
            /\ d.requests = c.requests
        <5> HIDE DEF c
        <5>1. Count(c.successes, MaxRequests) \in 0..MaxRequests
          BY <2>1 DEF Breaker, Count
        <5>2. 0 \in 0..TripAfter
          OBVIOUS
        <5> QED BY <2>1, <5>1, <5>2, CountsFacts
      <4> HIDE DEF d, c
      <4> QED BY <2>1, <2>2, <4>1, <4>2 DEF Sound
    <3> QED BY <3>2, <3>3
  <2>4. CASE result[p] # "ok"
    <3>1. AfterRequest(b, p) = OnFailure(c)
      BY <1>3, <2>4 DEF AfterRequest
    <3>2. CASE c.state = "halfopen" \/ ReadyToTrip(c)
      BY <1>3, <2>1, <2>4, <3>1, <3>2, NewGenerationSound DEF OnFailure
    <3>3. CASE ~(c.state = "halfopen" \/ ReadyToTrip(c))
      <4> DEFINE d == [c EXCEPT !.successes = 0, !.failures = @ + 1]
      <4>1. AfterRequest(b, p) = d
        BY <3>1, <3>3 DEF OnFailure
      <4>2. /\ d \in Breaker /\ d.state = c.state /\ d.calls = c.calls
            /\ d.requests = c.requests
        <5> HIDE DEF c
        <5>1. c.failures + 1 \in 0..TripAfter
          BY <2>1, <3>3 DEF Breaker, ReadyToTrip
        <5>2. 0 \in 0..MaxRequests
          OBVIOUS
        <5> QED BY <2>1, <5>1, <5>2, CountsFacts
      <4> HIDE DEF d, c
      <4> QED BY <2>1, <3>3, <4>1, <4>2 DEF Sound
    <3> QED BY <3>2, <3>3
  <2> QED BY <2>3, <2>4
<1> QED BY <1>2, <1>3

-----------------------------------------------------------------------------
(* The invariant.                                                          *)

(* IInv says of the breaker that it is sound. *)
LEMMA InvSound == IInv <=> TypeOK /\ CallsRun /\ Sound(breaker)
BY DEF IInv, ProbesCounted, Sound, TypeOK

(* The first breaker is closed and no goroutine is inside Execute. *)
LEMMA InitInv == Init => IInv
<1> SUFFICES ASSUME Init PROVE IInv
  OBVIOUS
<1>1. Sound(breaker) /\ breaker.calls = {}
  BY NewGenerationSound DEF Init
<1> QED BY <1>1, InvSound DEF Init, TypeOK, CallsRun, Sound

(* Every step preserves it. *)
LEMMA NextInv == IInv /\ [Next]_vars => IInv'
<1> SUFFICES ASSUME IInv, [Next]_vars PROVE IInv'
  OBVIOUS
<1>1. TypeOK /\ CallsRun /\ Sound(breaker)
  BY InvSound
<1> SUFFICES TypeOK' /\ CallsRun' /\ Sound(breaker')
  BY DEF IInv, ProbesCounted, Sound, TypeOK
<1> DEFINE b == CurrentState
<1>2. /\ Sound(b) /\ b.calls \subseteq breaker.calls /\ b \in Breaker
      /\ breaker.calls \subseteq Procs
  BY <1>1, CurrentStateSound DEF Sound, Breaker
<1>3. ASSUME NEW p \in Procs, Execute(p) PROVE TypeOK' /\ CallsRun' /\ Sound(breaker')
  <2>1. CASE Refuses(b) /\ breaker' = b /\ pc' = [pc EXCEPT ![p] = "refused"]
    BY <1>1, <1>2, <1>3, <2>1 DEF Execute, TypeOK, CallsRun
  <2>2. CASE /\ ~Refuses(b)
             /\ breaker' = [b EXCEPT !.requests = Count(@, MaxRequests),
                                     !.calls = @ \cup {p}]
             /\ pc' = [pc EXCEPT ![p] = "attempt"]
    <3>1. Sound(breaker')
      BY <1>2, <2>2, AdmitSound
    <3>2. breaker'.calls = b.calls \cup {p}
      BY <1>2, <2>2 DEF Breaker
    <3>3. CallsRun'
      BY <1>1, <1>2, <2>2, <3>2 DEF TypeOK, CallsRun
    <3> QED BY <1>1, <1>3, <2>2, <3>1, <3>3 DEF Execute, TypeOK, Sound
  <2> QED BY <1>3, <2>1, <2>2 DEF Execute
<1>4. ASSUME NEW p \in Procs, ReturnRefused(p)
      PROVE  TypeOK' /\ CallsRun' /\ Sound(breaker')
  BY <1>1, <1>2, <1>4 DEF ReturnRefused, TypeOK, CallsRun
<1>5. ASSUME NEW p \in Procs, Attempt(p)
      PROVE  TypeOK' /\ CallsRun' /\ Sound(breaker')
  BY <1>1, <1>2, <1>5 DEF Attempt, MayRetry, TypeOK, CallsRun
<1>6. ASSUME NEW p \in Procs, Report(p)
      PROVE  TypeOK' /\ CallsRun' /\ Sound(breaker')
  <2>1. breaker' = AfterRequest(b, p) /\ pc' = [pc EXCEPT ![p] = "idle"]
    BY <1>6 DEF Report
  <2>2. Sound(breaker') /\ breaker'.calls \subseteq b.calls \ {p}
    BY <1>2, <2>1, AfterRequestSound
  <2>3. CallsRun'
    BY <1>1, <1>2, <2>1, <2>2 DEF TypeOK, CallsRun
  <2> QED BY <1>1, <1>6, <2>1, <2>2, <2>3 DEF Report, TypeOK, Sound
<1>7. CASE Elapse
  <2>1. breaker' = [breaker EXCEPT !.due = TRUE] /\ UNCHANGED <<pc, tries, result, up>>
    BY <1>7 DEF Elapse
  <2>2. /\ breaker' \in Breaker /\ breaker'.calls = breaker.calls
        /\ breaker'.state = breaker.state
    BY <1>1, <2>1 DEF Sound, Breaker
  <2> QED BY <1>1, <1>7, <2>1, <2>2 DEF Elapse, TypeOK, CallsRun, Sound
<1>8. CASE VendorChanges
  BY <1>1, <1>8 DEF VendorChanges, TypeOK, CallsRun
<1>9. CASE Restart
  <2>1. Sound(breaker') /\ breaker'.calls = {}
    BY <1>9, NewGenerationSound DEF Restart
  <2> QED BY <1>1, <1>9, <2>1 DEF Restart, TypeOK, CallsRun, Sound
<1>10. CASE UNCHANGED vars
  BY <1>1, <1>10 DEF vars, TypeOK, CallsRun
<1> QED BY <1>3, <1>4, <1>5, <1>6, <1>7, <1>8, <1>9, <1>10 DEF Next

(* The invariant of breaker and goroutines holds throughout. *)
THEOREM VendorClientInductive == Spec => []IInv
BY InitInv, NextInv, PTL DEF Spec

(* The breaker's counters and the goroutines of ThirdPartyClient keep to what
   the settings allow, for all settings. *)
THEOREM VendorClientTypeCorrect == Spec => []TypeOK
<1>1. IInv => TypeOK
  BY DEF IInv
<1> QED BY <1>1, VendorClientInductive, PTL

(* However many goroutines find the timeout over, no more than MaxRequests
   calls admitted by the half-open breaker are with the vendor. *)
THEOREM ProbesAreBounded == Spec => []ProbesBounded
<1>1. ASSUME IInv PROVE ProbesBounded
  <2> DEFINE S == {p \in Procs : pc[p] # "idle" /\ p \in breaker.calls}
  <2> SUFFICES ASSUME breaker.state = "halfopen" PROVE Cardinality(S) <= MaxRequests
    BY DEF ProbesBounded
  <2>1. breaker \in Breaker /\ IsFiniteSet(breaker.calls)
    BY <1>1, FS_Subset DEF IInv, TypeOK, Breaker
  <2>2. /\ IsFiniteSet(S) /\ Cardinality(S) <= Cardinality(breaker.calls)
    BY <2>1, FS_Subset
  <2>3. Cardinality(S) \in Nat /\ Cardinality(breaker.calls) \in Nat
    BY <2>1, <2>2, FS_CardinalityType
  <2>4. Cardinality(breaker.calls) <= breaker.requests
    BY <1>1 DEF IInv, ProbesCounted
  <2>5. breaker.requests \in 0..MaxRequests
    BY <2>1 DEF Breaker
  <2> HIDE DEF S
  <2> QED BY <2>2, <2>3, <2>4, <2>5
<1> QED BY <1>1, VendorClientInductive, PTL

(* A half-open breaker is decided by a call it admitted itself, as that call
   ended; no late answer from before the trip opens or closes it. *)
THEOREM ProbeAloneDecides == Spec => ProbeDecides
<1> DEFINE Leaves == breaker.state = "halfopen" /\ breaker'.state # "halfopen"
           Decided(p) == /\ pc[p] = "report" /\ pc'[p] = "idle"
                         /\ breaker'.state = "closed" <=> result[p] = "ok"
           Decides == Leaves => Restart \/ \E p \in breaker.calls : Decided(p)
<1>1. ASSUME IInv, [Next]_vars PROVE [Decides]_vars
  <2> SUFFICES ASSUME Next, Leaves PROVE Restart \/ \E p \in breaker.calls : Decided(p)
    BY <1>1
  <2>1. Sound(breaker) /\ CurrentState = breaker
    BY <1>1, InvSound, CurrentStateSound
  <2>2. breaker \in Breaker /\ pc \in [Procs -> {"idle", "refused", "attempt", "report"}]
    BY <1>1 DEF IInv, TypeOK
  <2>3. ASSUME NEW p \in Procs, Execute(p) PROVE FALSE
    BY <2>1, <2>2, <2>3 DEF Execute, Breaker
  <2>4. ASSUME NEW p \in Procs, ReturnRefused(p) \/ Attempt(p) PROVE FALSE
    BY <2>4 DEF ReturnRefused, Attempt
  <2>5. ASSUME NEW p \in Procs, Report(p) PROVE p \in breaker.calls /\ Decided(p)
    BY <2>1, <2>2, <2>5, AfterRequestSound DEF Report
  <2>6. ASSUME Elapse \/ VendorChanges PROVE FALSE
    BY <2>2, <2>6 DEF Elapse, VendorChanges, Breaker
  <2> QED BY <2>3, <2>4, <2>5, <2>6 DEF Next
<1> QED BY <1>1, VendorClientInductive, PTL DEF Spec, ProbeDecides
=============================================================================
