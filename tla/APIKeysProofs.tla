--------------------------- MODULE APIKeysProofs ---------------------------
(***************************************************************************)
(* IInv is an invariant of APIKeys for all values of the constants, and    *)
(* the safety properties and the refinement of KeyRegistry follow from it. *)
(***************************************************************************)
EXTENDS APIKeysRegistry, TLAPS

USE ConstantsAssumption DEF Never

-----------------------------------------------------------------------------
(* Hashing, and the three ways a goroutine moves on.                       *)

(* SHA-256 is modelled collision free: a hash determines its key. *)
LEMMA HashInjective ==
    ASSUME NEW k, NEW l, HashAPIKey(k) = HashAPIKey(l) PROVE k = l
BY DEF HashAPIKey

(* The hash of a presented key is a key of the Redis hash cache. *)
LEMMA HashIsHash ==
    ASSUME NEW k \in AllKeys PROVE HashAPIKey(k) \in Hashes
BY DEF Hashes

Others(p) == \A q \in Procs \ {p} : pc'[q] = pc[q] /\ req'[q] = req[q]

(* Answering a request changes only the goroutine that answers and keeps the
   identity it had. *)
LEMMA FinishFacts ==
    ASSUME TypeOK, NEW p \in Procs, NEW s \in Statuses, Finish(p, s)
    PROVE  /\ pc' \in [Procs -> Steps] /\ req' \in [Procs -> Request]
           /\ Others(p)
           /\ pc'[p] = "idle" /\ req'[p].status = s /\ req'[p].deadline = 0
           /\ req'[p].op = req[p].op /\ req'[p].key = req[p].key
           /\ req'[p].user = req[p].user /\ req'[p].id = req[p].id
           /\ req'[p].rate = req[p].rate
<1>1. req[p] \in Request /\ pc[p] \in Steps
  BY DEF TypeOK
<1>2. pc' = [pc EXCEPT ![p] = "idle"]
  BY DEF Finish
<1>3. req' = [req EXCEPT ![p] = [req[p] EXCEPT !.status = s, !.label = None,
                                               !.hash = None, !.deadline = 0]]
  BY <1>1 DEF Finish, TypeOK, Request
<1>4. [req[p] EXCEPT !.status = s, !.label = None, !.hash = None,
                     !.deadline = 0] \in Request
  BY <1>1 DEF Request
<1> QED BY <1>1, <1>2, <1>3, <1>4 DEF TypeOK, Others, Steps, Request

(* Starting a request installs its locals and its first call. *)
LEMMA StartFacts ==
    ASSUME TypeOK, NEW p \in Procs, NEW step \in Steps, NEW r \in Request,
           Start(p, step, r)
    PROVE  /\ pc' \in [Procs -> Steps] /\ req' \in [Procs -> Request]
           /\ Others(p)
           /\ pc'[p] = step /\ req'[p] = r
BY DEF Start, TypeOK, Others

(* A fresh request is a request; its deadline lies ReqTimeout ahead. *)
LEMMA NewRequestFacts ==
    ASSUME TypeOK, NEW op \in {"create", "auth", "delete"}
    PROVE  /\ NewRequest(op) \in Request
           /\ NewRequest(op).op = op
           /\ NewRequest(op).deadline = now + ReqTimeout
           /\ NewRequest(op).status = "pending"
           /\ NoRequest \in Request
<1>1. NoRequest \in Request
  BY DEF NoRequest, Request, Statuses
<1>2. now + ReqTimeout \in Nat
  BY DEF TypeOK
<1> QED BY <1>1, <1>2 DEF NewRequest, Request, Statuses

(* Moving on to the next call, the locals unchanged. *)
LEMMA GotoFacts ==
    ASSUME TypeOK, NEW p \in Procs, NEW step \in Steps, Goto(p, step),
           UNCHANGED req
    PROVE  /\ pc' \in [Procs -> Steps] /\ req' \in [Procs -> Request]
           /\ Others(p) /\ pc'[p] = step
BY DEF Goto, TypeOK, Others

-----------------------------------------------------------------------------
(* What every step of the system leaves alone.                             *)

(* Ids are never reused, a revocation is recorded once and with the current
   time, keys stay known and time does not run backwards. *)
HistoryStep ==
    /\ \A i \in Ids : minted[i] # None => minted'[i] = minted[i]
    /\ \A i \in Ids : \/ revokedAt'[i] = revokedAt[i]
                      \/ revokedAt[i] = Never /\ revokedAt'[i] = now
    /\ known \subseteq known' /\ drawn \subseteq drawn'
    /\ now <= now'

(* A goroutine that does not move keeps what it relies on. *)
LEMMA RequestFrame ==
    ASSUME TypeOK, TypeOK', HistoryStep, NEW q \in Procs, RequestOK(q),
           pc'[q] = pc[q], req'[q] = req[q]
    PROVE  RequestOK(q)'
<1>1. req[q] \in Request /\ now \in Nat /\ now' \in Nat
  BY DEF TypeOK
<1>2. HoldsIdentity(q) => HoldsIdentity(q)'
  BY DEF HoldsIdentity, HistoryStep
<1>3. ASSUME NEW d \in Nat, ReqTimeout <= d, req[q].id \in Ids,
             req[q].deadline <= now + ReqTimeout, WithinGrace(q, d)
      PROVE  WithinGrace(q, d)'
  BY <1>1, <1>3 DEF WithinGrace, HistoryStep, TypeOK, Request
<1>4. /\ ReqTimeout \in Nat /\ TTL + 2 * ReqTimeout \in Nat
      /\ ReqTimeout <= TTL + 2 * ReqTimeout
  OBVIOUS
<1>5. HoldsIdentity(q) => req[q].id \in Ids
  BY DEF HoldsIdentity
<1>6. req[q].deadline <= now' + ReqTimeout
  BY <1>1 DEF RequestOK, HistoryStep, Request
<1>7. req[q].op = "auth" => req[q].key \in known' \cup {BogusKey}
  BY DEF RequestOK, HistoryStep
<1>8. Answered(q, "auth", "admitted")' => HoldsIdentity(q)
  BY DEF Answered, RequestOK
<1>9. pc[q] \in {"fill", "index"} =>
        HoldsIdentity(q)' /\ WithinGrace(q, ReqTimeout)'
  BY <1>2, <1>3, <1>4, <1>5 DEF RequestOK
<1>10. pc[q] = "user" =>
        HoldsIdentity(q)' /\ WithinGrace(q, TTL + 2 * ReqTimeout)'
  BY <1>2, <1>3, <1>4, <1>5 DEF RequestOK
<1>11. req[q].op = "create" /\ pc[q] # "idle" => req[q].key \in drawn'
  BY DEF RequestOK, HistoryStep
<1> QED BY <1>2, <1>6, <1>7, <1>8, <1>9, <1>10, <1>11 DEF RequestOK

(* A refusal that had a cause still has it. *)
LEMMA RefusedFrame ==
    ASSUME TypeOK, TypeOK', HistoryStep, NEW q \in Procs, RequestOK(q),
           RefusedForCause(q), pc'[q] = pc[q], req'[q] = req[q]
    PROVE  RefusedForCause(q)'
<1>1. SUFFICES ASSUME Answered(q, "auth", "401")', req[q].key \in known'
               PROVE  \E i \in Ids : /\ minted'[i] # None
                                     /\ minted'[i].key = req[q].key
                                     /\ revokedAt'[i] # Never
  BY DEF RefusedForCause
<1>2. req[q].key \in known
  BY <1>1 DEF Answered, RequestOK, TypeOK
<1>3. PICK i \in Ids : /\ minted[i] # None /\ minted[i].key = req[q].key
                       /\ revokedAt[i] # Never
  BY <1>1, <1>2 DEF RefusedForCause, Answered
<1> QED BY <1>3 DEF HistoryStep

(* A step that leaves the hash cache alone keeps the bound on stale entries:
   an entry already there expires at most TTL after the current time. *)
LEMMA StaleFrame ==
    ASSUME TypeOK, CacheInv, StaleEntriesDie, HistoryStep, UNCHANGED byHash
    PROVE  StaleEntriesDie'
<1>1. SUFFICES ASSUME NEW h \in Hashes, byHash[h] # None, byHash[h].active,
                      revokedAt'[byHash[h].id] # Never
               PROVE  byHash[h].exp
                        <= revokedAt'[byHash[h].id] + ReqTimeout + TTL
  BY DEF StaleEntriesDie
<1>2. byHash[h] \in CachedKey
  BY <1>1 DEF TypeOK
<1>3. byHash[h].exp \in Nat /\ byHash[h].id \in Ids /\ now \in Nat
  BY <1>2 DEF CachedKey, TypeOK
<1>4. byHash[h].exp <= now + TTL
  BY <1>1 DEF CacheInv
<1> QED BY <1>1, <1>3, <1>4 DEF StaleEntriesDie, HistoryStep, TypeOK

(* A step that leaves the cache alone keeps it in agreement with the table. *)
LEMMA CacheFrame ==
    ASSUME TypeOK, TypeOK', CacheInv, HistoryStep, UNCHANGED <<cache, now>>
    PROVE  CacheInv'
<1>1. ASSUME NEW h \in Hashes, byHash[h] # None
      PROVE  byHash[h] \in CachedKey /\ byHash[h].id \in Ids
             /\ byHash[h].exp \in Nat
  BY <1>1 DEF TypeOK, CachedKey
<1> QED BY <1>1 DEF CacheInv, HistoryStep, TypeOK, cache

(* A step that forgets nothing that was inserted keeps the issued keys known. *)
LEMMA KnownFrame ==
    ASSUME KnownInv, HistoryStep, UNCHANGED known PROVE KnownInv'
BY DEF KnownInv, HistoryStep

-----------------------------------------------------------------------------
(* Steps that change nothing but one goroutine's own state.                *)

(* Such a step preserves IInv when the goroutine can rely, at its next call,
   on what RequestOK says and refuses a key only for cause. *)
LEMMA LocalStep ==
    ASSUME IInv, NEW p \in Procs,
           UNCHANGED <<apiKeys, cache, known, history, now>>,
           drawn \subseteq drawn', drawn' \subseteq Keys,
           pc' \in [Procs -> Steps], req' \in [Procs -> Request], Others(p),
           RequestOK(p)', RefusedForCause(p)'
    PROVE  IInv'
<1> USE DEF cache, history
<1>1. TypeOK /\ TypeOK'
  BY DEF IInv, TypeOK
<1>2. HistoryStep
  BY <1>1 DEF HistoryStep, TypeOK
<1>3. TableInv' /\ KnownInv' /\ CacheInv' /\ StaleEntriesDie'
  BY DEF IInv, TableInv, KnownInv, CacheInv, StaleEntriesDie
<1>4. RequestInv'
  BY <1>1, <1>2, RequestFrame DEF IInv, RequestInv, Others
<1>5. LiveKeyNeverRefused'
  BY <1>1, <1>2, RefusedFrame DEF IInv, RequestInv, LiveKeyNeverRefused, Others
<1> QED BY <1>1, <1>3, <1>4, <1>5 DEF IInv

(* The early returns of the handlers preserve the invariant. *)
LEMMA RejectRequestInv ==
    ASSUME IInv, NEW p \in Procs, RejectRequest(p) PROVE IInv'
<1> DEFINE r == [NoRequest EXCEPT !.status = "rejected"]
<1>1. TypeOK /\ now \in Nat
  BY DEF IInv, TypeOK
<1>2. r \in Request /\ r.op = "none" /\ r.deadline = 0
  BY DEF NoRequest, Request, Statuses
<1>3. /\ pc' \in [Procs -> Steps] /\ req' \in [Procs -> Request] /\ Others(p)
      /\ pc'[p] = "idle" /\ req'[p] = r
  BY <1>1, <1>2, StartFacts DEF RejectRequest, Steps
<1>4. RequestOK(p)' /\ RefusedForCause(p)'
  BY <1>1, <1>2, <1>3 DEF RequestOK, RefusedForCause, Answered, RejectRequest
<1> QED BY <1>1, <1>3, <1>4, LocalStep DEF RejectRequest, TypeOK

(* A failure of generateRandomKey preserves the invariant. *)
LEMMA RandomKeyFailsInv ==
    ASSUME IInv, NEW p \in Procs, RandomKeyFails(p) PROVE IInv'
<1> DEFINE r == [NoRequest EXCEPT !.op = "create", !.status = "500"]
<1>1. TypeOK /\ now \in Nat
  BY DEF IInv, TypeOK
<1>2. r \in Request /\ r.op = "create" /\ r.deadline = 0
  BY DEF NoRequest, Request, Statuses
<1>3. /\ pc' \in [Procs -> Steps] /\ req' \in [Procs -> Request] /\ Others(p)
      /\ pc'[p] = "idle" /\ req'[p] = r
  BY <1>1, <1>2, StartFacts DEF RandomKeyFails, Steps
<1>4. RequestOK(p)' /\ RefusedForCause(p)'
  BY <1>1, <1>2, <1>3 DEF RequestOK, RefusedForCause, Answered, RandomKeyFails
<1> QED BY <1>1, <1>3, <1>4, LocalStep DEF RandomKeyFails, TypeOK

(* APIKeyHandler, up to the INSERT, preserves the invariant. *)
LEMMA StartCreateInv ==
    ASSUME IInv, NEW p \in Procs, NEW u \in Users, NEW l \in Labels,
           NEW n \in RateInputs, StartCreate(p, u, l, n)
    PROVE  IInv'
<1>1. TypeOK /\ now \in Nat
  BY DEF IInv, TypeOK
<1>2. PICK k \in Keys \ drawn :
         /\ Start(p, "insert", [NewRequest("create") EXCEPT
                                  !.user = u, !.label = l, !.key = k,
                                  !.rate = EffectiveRate(n)])
         /\ drawn' = drawn \cup {k}
  BY DEF StartCreate
<1> DEFINE r == [NewRequest("create") EXCEPT !.user = u, !.label = l,
                              !.key = k, !.rate = EffectiveRate(n)]
<1>3. EffectiveRate(n) \in Nat /\ k \in AllKeys
  BY DEF EffectiveRate, AllKeys
<1>4. /\ r \in Request /\ r.op = "create" /\ r.deadline = now + ReqTimeout
      /\ r.user = u /\ r.label = l /\ r.key = k
  BY <1>1, <1>3, NewRequestFacts DEF Request
<1> HIDE DEF r
<1>5. /\ pc' \in [Procs -> Steps] /\ req' \in [Procs -> Request] /\ Others(p)
      /\ pc'[p] = "insert" /\ req'[p] = r
  BY <1>1, <1>2, <1>4, StartFacts DEF Steps, r
<1>6. RequestOK(p)' /\ RefusedForCause(p)'
  BY <1>1, <1>2, <1>4, <1>5 DEF RequestOK, RefusedForCause, Answered, StartCreate
<1> QED BY <1>1, <1>2, <1>5, <1>6, LocalStep DEF StartCreate, TypeOK

(* APIKeyAuth, up to the cache lookup, preserves the invariant. *)
LEMMA StartAuthInv ==
    ASSUME IInv, NEW p \in Procs, NEW k \in AllKeys, StartAuth(p, k)
    PROVE  IInv'
<1>1. TypeOK /\ now \in Nat
  BY DEF IInv, TypeOK
<1> DEFINE r == [NewRequest("auth") EXCEPT !.key = k]
<1>2. /\ r \in Request /\ r.op = "auth" /\ r.deadline = now + ReqTimeout
      /\ r.key = k
  BY <1>1, NewRequestFacts DEF Request
<1> HIDE DEF r
<1>3. /\ pc' \in [Procs -> Steps] /\ req' \in [Procs -> Request] /\ Others(p)
      /\ pc'[p] = "lookup" /\ req'[p] = r
  BY <1>1, <1>2, StartFacts DEF Steps, r, StartAuth
<1>4. RequestOK(p)' /\ RefusedForCause(p)'
  BY <1>1, <1>2, <1>3 DEF RequestOK, RefusedForCause, Answered, StartAuth
<1> QED BY <1>1, <1>3, <1>4, LocalStep DEF StartAuth, TypeOK

(* DeleteAPIKeyHandler, up to the DELETE, preserves the invariant. *)
LEMMA StartDeleteInv ==
    ASSUME IInv, NEW p \in Procs, NEW u \in Users, NEW i \in Ids,
           StartDelete(p, u, i)
    PROVE  IInv'
<1>1. TypeOK /\ now \in Nat
  BY DEF IInv, TypeOK
<1> DEFINE r == [NewRequest("delete") EXCEPT !.user = u, !.id = i]
<1>2. /\ r \in Request /\ r.op = "delete" /\ r.deadline = now + ReqTimeout
      /\ r.user = u /\ r.id = i
  BY <1>1, NewRequestFacts DEF Request
<1> HIDE DEF r
<1>3. /\ pc' \in [Procs -> Steps] /\ req' \in [Procs -> Request] /\ Others(p)
      /\ pc'[p] = "delete" /\ req'[p] = r
  BY <1>1, <1>2, StartFacts DEF Steps, r, StartDelete
<1>4. RequestOK(p)' /\ RefusedForCause(p)'
  BY <1>1, <1>2, <1>3 DEF RequestOK, RefusedForCause, Answered, StartDelete
<1> QED BY <1>1, <1>3, <1>4, LocalStep DEF StartDelete, TypeOK

(* A process that dies leaves the invariant intact. *)
LEMMA CrashInv ==
    ASSUME IInv, NEW p \in Procs, Crash(p) PROVE IInv'
<1>1. TypeOK /\ now \in Nat
  BY DEF IInv, TypeOK
<1>2. NoRequest \in Request /\ NoRequest.op = "none" /\ NoRequest.deadline = 0
  BY DEF NoRequest, Request, Statuses
<1>3. /\ pc' \in [Procs -> Steps] /\ req' \in [Procs -> Request] /\ Others(p)
      /\ pc'[p] = "idle" /\ req'[p] = NoRequest
  BY <1>1, <1>2 DEF Crash, Steps, Others, TypeOK
<1>4. RequestOK(p)' /\ RefusedForCause(p)'
  BY <1>1, <1>2, <1>3 DEF RequestOK, RefusedForCause, Answered, Crash
<1> QED BY <1>1, <1>3, <1>4, LocalStep DEF Crash, TypeOK

(* The goroutine learns the identity behind a key and moves on. *)
Learns(p, step, i, u, a, n) ==
    /\ Goto(p, step)
    /\ req' = [req EXCEPT ![p].id = i, ![p].user = u,
                          ![p].active = a, ![p].rate = n]

(* It then holds that identity; what it was called with stays. *)
LEMMA LearnFacts ==
    ASSUME TypeOK, NEW p \in Procs, NEW i \in Ids, NEW u \in Users,
           NEW a \in BOOLEAN, NEW n \in Nat, NEW step \in Steps,
           Learns(p, step, i, u, a, n)
    PROVE  /\ pc' \in [Procs -> Steps] /\ req' \in [Procs -> Request]
           /\ Others(p) /\ pc'[p] = step
           /\ req'[p].id = i /\ req'[p].user = u /\ req'[p].active = a
           /\ req'[p].rate = n /\ req'[p].key = req[p].key
           /\ req'[p].op = req[p].op /\ req'[p].deadline = req[p].deadline
<1>1. req[p] \in Request
  BY DEF TypeOK
<1>2. req' = [req EXCEPT ![p] = [req[p] EXCEPT !.id = i, !.user = u,
                                               !.active = a, !.rate = n]]
  BY <1>1 DEF TypeOK, Request, Learns
<1>3. [req[p] EXCEPT !.id = i, !.user = u, !.active = a, !.rate = n] \in Request
  BY <1>1 DEF Request
<1>4. pc' \in [Procs -> Steps] /\ pc'[p] = step
  BY DEF Goto, TypeOK, Learns
<1> QED BY <1>1, <1>2, <1>3, <1>4 DEF TypeOK, Others, Goto, Request, Learns

(* GET apikey:<hash> of GetAPIKeyByHash preserves the invariant: what a hit
   says is what was inserted, and bounded in age. *)
LEMMA LookupInv ==
    ASSUME IInv, NEW p \in Procs, Lookup(p) PROVE IInv'
<1> USE DEF cache, history
<1> DEFINE c == byHash[HashAPIKey(req[p].key)]
<1>1. TypeOK /\ now \in Nat /\ req[p] \in Request /\ RequestOK(p)
  BY DEF IInv, TypeOK, RequestInv
<1>2. /\ UNCHANGED <<apiKeys, cache, drawn, known, history, now>>
      /\ pc[p] = "lookup"
  BY DEF Lookup
<1>3. /\ req[p].op = "auth" /\ req[p].key \in known \cup {BogusKey}
      /\ req[p].deadline <= now + ReqTimeout /\ req[p].deadline \in Nat
  BY <1>1, <1>2 DEF RequestOK, Request
<1>4. HashAPIKey(req[p].key) \in Hashes
  BY <1>1, <1>3, HashIsHash DEF TypeOK, AllKeys
<1>5. CASE /\ c # None
           /\ req' = [req EXCEPT ![p].id = c.id, ![p].user = c.user,
                                 ![p].active = c.active, ![p].rate = c.rate]
           /\ Goto(p, "user")
  <2>1. c \in CachedKey
    BY <1>1, <1>4, <1>5 DEF TypeOK
  <2>2. c.id \in Ids /\ c.user \in Users /\ c.active \in BOOLEAN
        /\ c.rate \in Nat /\ c.exp \in Nat
    BY <2>1 DEF CachedKey
  <2>3. /\ minted[c.id] # None
        /\ HashAPIKey(req[p].key) = HashAPIKey(minted[c.id].key)
        /\ c.user = minted[c.id].user /\ c.rate = minted[c.id].rate
        /\ now <= c.exp /\ (~c.active => revokedAt[c.id] # Never)
    BY <1>4, <1>5 DEF IInv, CacheInv
  <2>4. c.active /\ revokedAt[c.id] # Never =>
          c.exp <= revokedAt[c.id] + ReqTimeout + TTL
    BY <1>4, <1>5 DEF IInv, StaleEntriesDie
  <2>5. minted[c.id] \in Minted
    BY <1>1, <2>2, <2>3 DEF TypeOK
  <2>6. /\ req[p].key \in Keys
        /\ minted[c.id] = [key |-> req[p].key, user |-> c.user, rate |-> c.rate]
    BY <2>3, <2>5, HashInjective DEF Minted
  <2>7. /\ pc' \in [Procs -> Steps] /\ req' \in [Procs -> Request]
        /\ Others(p) /\ pc'[p] = "user"
        /\ req'[p].id = c.id /\ req'[p].user = c.user /\ req'[p].active = c.active
        /\ req'[p].rate = c.rate /\ req'[p].key = req[p].key
        /\ req'[p].op = req[p].op /\ req'[p].deadline = req[p].deadline
    <3>1. "user" \in Steps
      BY DEF Steps
    <3>2. Learns(p, "user", c.id, c.user, c.active, c.rate)
      BY <1>5 DEF Learns
    <3> HIDE DEF c
    <3> QED BY <1>1, <2>2, <3>1, <3>2, LearnFacts
  <2> HIDE DEF c
  <2>8. HoldsIdentity(p)'
    BY <1>2, <2>2, <2>3, <2>6, <2>7 DEF HoldsIdentity
  <2>9. revokedAt[c.id] \in Nat \cup {Never}
    BY <1>1, <2>2 DEF TypeOK
  <2>10. WithinGrace(p, TTL + 2 * ReqTimeout)'
    BY <1>1, <1>2, <1>3, <2>2, <2>3, <2>4, <2>7, <2>9 DEF WithinGrace
  <2>11. RequestOK(p)' /\ RefusedForCause(p)'
    BY <1>2, <1>3, <2>7, <2>8, <2>10 DEF RequestOK, RefusedForCause, Answered
  <2> QED BY <1>1, <1>2, <2>7, <2>11, LocalStep DEF TypeOK
<1>6. CASE Goto(p, "select") /\ UNCHANGED req
  <2>1. /\ pc' \in [Procs -> Steps] /\ req' \in [Procs -> Request]
        /\ Others(p) /\ pc'[p] = "select"
    BY <1>1, <1>6, GotoFacts DEF Steps
  <2>2. RequestOK(p)' /\ RefusedForCause(p)'
    BY <1>2, <1>3, <1>6, <2>1 DEF RequestOK, RefusedForCause, Answered
  <2> QED BY <1>1, <1>2, <2>1, <2>2, LocalStep DEF TypeOK
<1> QED BY <1>5, <1>6 DEF Lookup

(* What a goroutine answers is no stronger than what it held. *)
LEMMA FinishOK ==
    ASSUME TypeOK, NEW p \in Procs, NEW s \in Statuses, Finish(p, s),
           known \subseteq known', now' \in Nat, RequestOK(p),
           s \notin {"admitted", "401"}
    PROVE  RequestOK(p)' /\ RefusedForCause(p)'
<1>1. /\ pc'[p] = "idle" /\ req'[p].status = s /\ req'[p].deadline = 0
      /\ req'[p].op = req[p].op /\ req'[p].key = req[p].key
  BY FinishFacts
<1>2. RefusedForCause(p)'
  BY <1>1 DEF RefusedForCause, Answered
<1>3. ~Answered(p, "auth", "admitted")'
  BY <1>1 DEF Answered
<1>4. req'[p].op = "auth" => req'[p].key \in known' \cup {BogusKey}
  BY <1>1 DEF RequestOK
<1>5. req'[p].deadline <= now' + ReqTimeout
  <2>1. \A n \in Nat : 0 <= n + ReqTimeout
    OBVIOUS
  <2> QED BY <1>1, <2>1
<1>6. /\ pc'[p] \notin {"lookup", "select", "fill", "index", "delete",
                        "findhash", "dropid", "drophash"}
      /\ pc'[p] \notin {"insert", "user", "touch"}
  BY <1>1
<1> QED BY <1>1, <1>2, <1>3, <1>4, <1>5, <1>6 DEF RequestOK

(* The SELECT of GetAPIKeyByHash preserves the invariant: a row that is found
   is the row of the presented key, and a live issued key is found. *)
LEMMA SelectInv ==
    ASSUME IInv, NEW p \in Procs, Select(p) PROVE IInv'
<1> USE DEF cache, history
<1> DEFINE h == HashAPIKey(req[p].key)
<1>1. TypeOK /\ now \in Nat /\ req[p] \in Request /\ RequestOK(p) /\ TableInv
  BY DEF IInv, TypeOK, RequestInv
<1>2. /\ UNCHANGED <<apiKeys, cache, drawn, known, history, now>>
      /\ pc[p] = "select"
  BY DEF Select
<1>3. /\ req[p].op = "auth" /\ req[p].key \in known \cup {BogusKey}
      /\ req[p].deadline <= now + ReqTimeout /\ req[p].deadline \in Nat
  BY <1>1, <1>2 DEF RequestOK, Request
<1>4. CASE /\ \E i \in Ids :
               /\ Matches(i, h)
               /\ req' = [req EXCEPT ![p].id = i,
                                     ![p].user = apiKeys[i].user,
                                     ![p].active = apiKeys[i].active,
                                     ![p].rate = apiKeys[i].rate]
           /\ Goto(p, "fill")
  <2>1. PICK i \in Ids :
               /\ Matches(i, h)
               /\ req' = [req EXCEPT ![p].id = i,
                                     ![p].user = apiKeys[i].user,
                                     ![p].active = apiKeys[i].active,
                                     ![p].rate = apiKeys[i].rate]
    BY <1>4
  <2>2. apiKeys[i] \in Row /\ apiKeys[i] # None
    BY <1>1, <2>1 DEF TypeOK, Matches
  <2>3. /\ apiKeys[i].user \in Users /\ apiKeys[i].active \in BOOLEAN
        /\ apiKeys[i].rate \in Nat
    BY <2>2 DEF Row
  <2>4. /\ minted[i] # None
        /\ (revokedAt[i] = Never <=> apiKeys[i].active)
        /\ HashAPIKey(req[p].key) = HashAPIKey(minted[i].key)
        /\ apiKeys[i].user = minted[i].user /\ apiKeys[i].rate = minted[i].rate
    BY <1>1, <2>1, <2>2 DEF TableInv, Matches
  <2>5. minted[i] \in Minted
    BY <1>1, <2>4 DEF TypeOK
  <2>6. /\ req[p].key \in Keys
        /\ minted[i] = [key |-> req[p].key, user |-> apiKeys[i].user,
                        rate |-> apiKeys[i].rate]
    BY <2>4, <2>5, HashInjective DEF Minted
  <2>7. /\ pc' \in [Procs -> Steps] /\ req' \in [Procs -> Request]
        /\ Others(p) /\ pc'[p] = "fill"
        /\ req'[p].id = i /\ req'[p].user = apiKeys[i].user
        /\ req'[p].active = apiKeys[i].active
        /\ req'[p].rate = apiKeys[i].rate /\ req'[p].key = req[p].key
        /\ req'[p].op = req[p].op /\ req'[p].deadline = req[p].deadline
    <3>1. "fill" \in Steps
      BY DEF Steps
    <3>2. Learns(p, "fill", i, apiKeys[i].user, apiKeys[i].active,
                 apiKeys[i].rate)
      BY <1>4, <2>1 DEF Learns
    <3> QED BY <1>1, <2>3, <3>1, <3>2, LearnFacts
  <2>8. HoldsIdentity(p)'
    BY <1>2, <2>3, <2>4, <2>6, <2>7 DEF HoldsIdentity
  <2>9. WithinGrace(p, ReqTimeout)'
    BY <1>2, <2>4, <2>7 DEF WithinGrace
  <2>10. RequestOK(p)' /\ RefusedForCause(p)'
    BY <1>2, <1>3, <2>7, <2>8, <2>9 DEF RequestOK, RefusedForCause, Answered
  <2> QED BY <1>1, <1>2, <2>7, <2>10, LocalStep DEF TypeOK
<1>5. CASE (~\E i \in Ids : Matches(i, h)) /\ Finish(p, "401")
  <2>1. /\ pc' \in [Procs -> Steps] /\ req' \in [Procs -> Request]
        /\ Others(p) /\ pc'[p] = "idle" /\ req'[p].status = "401"
        /\ req'[p].deadline = 0 /\ req'[p].op = req[p].op
        /\ req'[p].key = req[p].key
    BY <1>1, <1>5, FinishFacts DEF Statuses
  <2>2. RequestOK(p)'
    BY <1>1, <1>2, <1>3, <2>1 DEF RequestOK, Answered
  <2>3. RefusedForCause(p)'
    <3>1. SUFFICES ASSUME req[p].key \in known
                   PROVE  \E i \in Ids : /\ minted[i] # None
                                         /\ minted[i].key = req[p].key
                                         /\ revokedAt[i] # Never
      BY <1>2, <2>1 DEF RefusedForCause
    <3>2. PICK i \in Ids : minted[i] # None /\ minted[i].key = req[p].key
      BY <3>1 DEF IInv, KnownInv
    <3>3. revokedAt[i] # Never
      BY <1>1, <1>5, <3>2 DEF TableInv, Matches
    <3> QED BY <3>2, <3>3
  <2> QED BY <1>1, <1>2, <2>1, <2>2, <2>3, LocalStep DEF TypeOK
<1>6. CASE Finish(p, "500")
  <2>1. pc' \in [Procs -> Steps] /\ req' \in [Procs -> Request] /\ Others(p)
    BY <1>1, <1>6, FinishFacts DEF Statuses
  <2>2. RequestOK(p)' /\ RefusedForCause(p)'
    BY <1>1, <1>2, <1>6, FinishOK DEF Statuses
  <2> QED BY <1>1, <1>2, <2>1, <2>2, LocalStep DEF TypeOK
<1> QED BY <1>4, <1>5, <1>6 DEF Select

(* The active check and GetUserByID of APIKeyAuth preserve the invariant. *)
LEMMA LoadUserInv ==
    ASSUME IInv, NEW p \in Procs, LoadUser(p) PROVE IInv'
<1> USE DEF cache, history
<1>1. TypeOK /\ now \in Nat /\ req[p] \in Request /\ RequestOK(p)
  BY DEF IInv, TypeOK, RequestInv
<1>2. /\ UNCHANGED <<apiKeys, cache, drawn, known, history, now>>
      /\ pc[p] = "user"
  BY DEF LoadUser
<1>3. /\ req[p].op = "auth" /\ req[p].key \in known \cup {BogusKey}
      /\ HoldsIdentity(p) /\ WithinGrace(p, TTL + 2 * ReqTimeout)
      /\ req[p].deadline <= now + ReqTimeout
  BY <1>1, <1>2 DEF RequestOK
<1>4. CASE ~req[p].active /\ Finish(p, "401")
  <2>1. /\ pc' \in [Procs -> Steps] /\ req' \in [Procs -> Request]
        /\ Others(p) /\ pc'[p] = "idle" /\ req'[p].status = "401"
        /\ req'[p].deadline = 0 /\ req'[p].op = req[p].op
        /\ req'[p].key = req[p].key
    BY <1>1, <1>4, FinishFacts DEF Statuses
  <2>2. RequestOK(p)'
    BY <1>1, <1>2, <1>3, <2>1 DEF RequestOK, Answered
  <2>3. RefusedForCause(p)'
    BY <1>2, <1>3, <1>4, <2>1 DEF RefusedForCause, HoldsIdentity, WithinGrace
  <2> QED BY <1>1, <1>2, <2>1, <2>2, <2>3, LocalStep DEF TypeOK
<1>5. CASE Goto(p, "touch") /\ UNCHANGED req
  <2>1. /\ pc' \in [Procs -> Steps] /\ req' \in [Procs -> Request]
        /\ Others(p) /\ pc'[p] = "touch"
    BY <1>1, <1>5, GotoFacts DEF Steps
  <2>2. HoldsIdentity(p)'
    BY <1>2, <1>3, <1>5 DEF HoldsIdentity
  <2>3. RequestOK(p)' /\ RefusedForCause(p)'
    BY <1>2, <1>3, <1>5, <2>1, <2>2 DEF RequestOK, RefusedForCause, Answered
  <2> QED BY <1>1, <1>2, <2>1, <2>3, LocalStep DEF TypeOK
<1>6. CASE Finish(p, "500")
  <2>1. pc' \in [Procs -> Steps] /\ req' \in [Procs -> Request] /\ Others(p)
    BY <1>1, <1>6, FinishFacts DEF Statuses
  <2>2. RequestOK(p)' /\ RefusedForCause(p)'
    BY <1>1, <1>2, <1>6, FinishOK DEF Statuses
  <2> QED BY <1>1, <1>2, <2>1, <2>2, LocalStep DEF TypeOK
<1> QED BY <1>4, <1>5, <1>6 DEF LoadUser

(* GET apikey_id:<id> of DeleteAPIKey preserves the invariant. *)
LEMMA FindHashInv ==
    ASSUME IInv, NEW p \in Procs, FindHash(p) PROVE IInv'
<1> USE DEF cache, history
<1>1. TypeOK /\ now \in Nat /\ req[p] \in Request /\ RequestOK(p)
  BY DEF IInv, TypeOK, RequestInv
<1>2. /\ UNCHANGED <<apiKeys, cache, drawn, known, history, now>>
      /\ pc[p] = "findhash"
  BY DEF FindHash
<1>3. /\ req[p].op = "delete" /\ req[p].user \in Users /\ req[p].id \in Ids
      /\ req[p].deadline <= now + ReqTimeout
  BY <1>1, <1>2 DEF RequestOK
<1>4. CASE /\ byId[req[p].id] # None
           /\ req' = [req EXCEPT ![p].hash = byId[req[p].id].hash]
           /\ Goto(p, "dropid")
  <2>1. byId[req[p].id].hash \in Hashes
    BY <1>1, <1>3, <1>4 DEF TypeOK, CachedHash
  <2> DEFINE r == [req[p] EXCEPT !.hash = byId[req[p].id].hash]
  <2>2. /\ r \in Request /\ r.op = "delete" /\ r.user = req[p].user
        /\ r.id = req[p].id /\ r.hash \in Hashes
        /\ r.deadline = req[p].deadline
    BY <1>1, <1>3, <2>1 DEF Request
  <2>3. req' = [req EXCEPT ![p] = r]
    BY <1>1, <1>4 DEF TypeOK
  <2> HIDE DEF r
  <2>4. /\ pc' \in [Procs -> Steps] /\ req' \in [Procs -> Request]
        /\ Others(p) /\ pc'[p] = "dropid" /\ req'[p] = r
    BY <1>1, <1>4, <2>2, <2>3 DEF Goto, TypeOK, Steps, Others
  <2>5. RequestOK(p)' /\ RefusedForCause(p)'
    BY <1>2, <1>3, <2>2, <2>4 DEF RequestOK, RefusedForCause, Answered
  <2> QED BY <1>1, <1>2, <2>4, <2>5, LocalStep DEF TypeOK
<1>5. CASE Finish(p, "204")
  <2>1. pc' \in [Procs -> Steps] /\ req' \in [Procs -> Request] /\ Others(p)
    BY <1>1, <1>5, FinishFacts DEF Statuses
  <2>2. RequestOK(p)' /\ RefusedForCause(p)'
    BY <1>1, <1>2, <1>5, FinishOK DEF Statuses
  <2> QED BY <1>1, <1>2, <2>1, <2>2, LocalStep DEF TypeOK
<1> QED BY <1>4, <1>5 DEF FindHash

-----------------------------------------------------------------------------
(* Steps that change the table or the cache.                               *)

(* One goroutine moves; the others keep what they rely on. *)
LEMMA SharedStep ==
    ASSUME IInv, TypeOK', HistoryStep, NEW p \in Procs, Others(p),
           TableInv', KnownInv', CacheInv', StaleEntriesDie',
           RequestOK(p)', RefusedForCause(p)'
    PROVE  IInv'
<1>1. RequestInv'
  BY RequestFrame DEF IInv, RequestInv, Others
<1>2. LiveKeyNeverRefused'
  BY RefusedFrame DEF IInv, RequestInv, LiveKeyNeverRefused, Others
<1> QED BY <1>1, <1>2 DEF IInv

(* What InsertRow does to the table and to the history. *)
LEMMA InsertRowFacts ==
    ASSUME TypeOK, TableInv, NEW p \in Procs, NEW i \in Ids, InsertRow(p, i),
           req[p].user \in Users, req[p].key \in Keys, req[p].label \in Labels,
           UNCHANGED <<revokedAt, drawn, known, now>>
    PROVE  /\ apiKeys' \in [Ids -> Row \cup {None}]
           /\ minted' \in [Ids -> Minted \cup {None}]
           /\ minted'[i] = [key |-> req[p].key, user |-> req[p].user,
                            rate |-> req[p].rate]
           /\ minted'[i] # None /\ revokedAt[i] = Never
           /\ HistoryStep /\ TableInv'
<1> DEFINE row == [user |-> req[p].user, hash |-> HashAPIKey(req[p].key),
                   label |-> req[p].label, active |-> TRUE,
                   rate |-> req[p].rate, used |-> FALSE]
           mint == [key |-> req[p].key, user |-> req[p].user,
                    rate |-> req[p].rate]
<1>1. req[p].rate \in Nat /\ now \in Nat
  BY DEF TypeOK, Request
<1>2. HashAPIKey(req[p].key) \in Hashes
  BY HashIsHash DEF AllKeys
<1>3. row \in Row /\ mint \in Minted
  BY <1>1, <1>2 DEF Row, Minted
<1>4. row # None /\ mint # None
  BY <1>3, NoneAssumption
<1>5. /\ row.active /\ row.hash = HashAPIKey(mint.key)
      /\ row.user = mint.user /\ row.rate = mint.rate
  OBVIOUS
<1>6. /\ minted[i] = None /\ apiKeys' = [apiKeys EXCEPT ![i] = row]
      /\ minted' = [minted EXCEPT ![i] = mint]
  BY DEF InsertRow
<1> HIDE DEF row, mint
<1>7. /\ apiKeys' \in [Ids -> Row \cup {None}]
      /\ minted' \in [Ids -> Minted \cup {None}]
      /\ minted'[i] = mint /\ apiKeys'[i] = row
  BY <1>3, <1>6 DEF TypeOK
<1>8. HistoryStep
  BY <1>1, <1>6 DEF HistoryStep, TypeOK
<1>9. revokedAt[i] = Never
  BY <1>6 DEF TableInv
<1>10. TableInv'
  BY <1>4, <1>5, <1>6, <1>7, <1>9 DEF TableInv, TypeOK
<1> QED BY <1>4, <1>7, <1>8, <1>9, <1>10 DEF mint

(* The INSERT of CreateAPIKey preserves the invariant in each of its outcomes,
   a lost answer included. *)
LEMMA InsertInv ==
    ASSUME IInv, NEW p \in Procs, Insert(p) PROVE IInv'
<1> USE DEF cache, history
<1>1. /\ TypeOK /\ now \in Nat /\ req[p] \in Request /\ RequestOK(p)
      /\ TableInv /\ KnownInv /\ CacheInv /\ StaleEntriesDie
  BY DEF IInv, TypeOK, RequestInv
<1>2. /\ UNCHANGED <<cache, drawn, known, revokedAt, now>>
      /\ pc[p] = "insert"
  BY DEF Insert
<1>3. /\ req[p].op = "create" /\ req[p].user \in Users /\ req[p].key \in Keys
      /\ req[p].label \in Labels /\ req[p].deadline <= now + ReqTimeout
      /\ req[p].key \in drawn
  BY <1>1, <1>2 DEF RequestOK
<1>4. CASE UNCHANGED <<apiKeys, minted>> /\ (Finish(p, "409") \/ Finish(p, "500"))
  <2>1. pc' \in [Procs -> Steps] /\ req' \in [Procs -> Request] /\ Others(p)
    BY <1>1, <1>4, FinishFacts DEF Statuses
  <2>2. RequestOK(p)' /\ RefusedForCause(p)'
    BY <1>1, <1>2, <1>4, FinishOK DEF Statuses
  <2> QED BY <1>1, <1>2, <1>4, <2>1, <2>2, LocalStep DEF TypeOK
<1>5. ASSUME NEW i \in Ids, InsertRow(p, i), pc' \in [Procs -> Steps],
             req' \in [Procs -> Request], Others(p), RequestOK(p)',
             RefusedForCause(p)'
      PROVE  IInv'
  <2>1. /\ apiKeys' \in [Ids -> Row \cup {None}]
        /\ minted' \in [Ids -> Minted \cup {None}]
        /\ HistoryStep /\ TableInv'
    BY <1>1, <1>2, <1>3, <1>5, InsertRowFacts
  <2>2. TypeOK'
    BY <1>1, <1>2, <1>5, <2>1 DEF TypeOK
  <2>3. KnownInv' /\ CacheInv' /\ StaleEntriesDie'
    BY <1>1, <1>2, <2>1, <2>2, KnownFrame, CacheFrame, StaleFrame
  <2> QED BY <1>5, <2>1, <2>2, <2>3, SharedStep
<1>6. CASE \E i \in Ids : InsertRow(p, i) /\ Finish(p, "500")
  <2>1. PICK i \in Ids : InsertRow(p, i) /\ Finish(p, "500")
    BY <1>6
  <2>2. pc' \in [Procs -> Steps] /\ req' \in [Procs -> Request] /\ Others(p)
    BY <1>1, <2>1, FinishFacts DEF Statuses
  <2>3. RequestOK(p)' /\ RefusedForCause(p)'
    BY <1>1, <1>2, <2>1, FinishOK DEF Statuses
  <2> QED BY <1>5, <2>1, <2>2, <2>3
<1>7. CASE /\ \E i \in Ids :
               /\ InsertRow(p, i)
               /\ req' = [req EXCEPT ![p].id = i, ![p].active = TRUE]
           /\ Goto(p, "fill")
  <2>1. PICK i \in Ids :
               /\ InsertRow(p, i)
               /\ req' = [req EXCEPT ![p].id = i, ![p].active = TRUE]
    BY <1>7
  <2> DEFINE r == [req[p] EXCEPT !.id = i, !.active = TRUE]
  <2>2. /\ r \in Request /\ r.op = "create" /\ r.id = i /\ r.active
        /\ r.user = req[p].user /\ r.key = req[p].key /\ r.rate = req[p].rate
        /\ r.deadline = req[p].deadline
    BY <1>1, <1>3 DEF Request
  <2>3. req' = [req EXCEPT ![p] = r]
    BY <1>1, <2>1 DEF TypeOK, Request
  <2> HIDE DEF r
  <2>4. /\ pc' \in [Procs -> Steps] /\ req' \in [Procs -> Request]
        /\ Others(p) /\ pc'[p] = "fill" /\ req'[p] = r
    BY <1>1, <1>7, <2>2, <2>3 DEF Goto, TypeOK, Steps, Others
  <2>5. /\ minted'[i] = [key |-> req[p].key, user |-> req[p].user,
                          rate |-> req[p].rate]
        /\ minted'[i] # None /\ revokedAt[i] = Never
    BY <1>1, <1>2, <1>3, <2>1, InsertRowFacts
  <2>6. HoldsIdentity(p)' /\ WithinGrace(p, ReqTimeout)'
    BY <1>2, <1>3, <2>2, <2>4, <2>5 DEF HoldsIdentity, WithinGrace
  <2>7. RequestOK(p)' /\ RefusedForCause(p)'
    BY <1>2, <1>3, <2>2, <2>4, <2>6 DEF RequestOK, RefusedForCause, Answered
  <2> QED BY <1>5, <2>1, <2>4, <2>7
<1> QED BY <1>4, <1>6, <1>7 DEF Insert

(* SET apikey:<hash> preserves the invariant: a request that fills in a key
   revoked meanwhile has a deadline close to the revocation. *)
LEMMA FillInv ==
    ASSUME IInv, NEW p \in Procs, Fill(p) PROVE IInv'
<1> USE DEF cache, history
<1>1. /\ TypeOK /\ now \in Nat /\ req[p] \in Request /\ RequestOK(p)
      /\ TableInv /\ KnownInv /\ CacheInv /\ StaleEntriesDie
  BY DEF IInv, TypeOK, RequestInv
<1>2. /\ UNCHANGED <<apiKeys, byId, req, drawn, known, history, now>>
      /\ pc[p] = "fill" /\ Goto(p, "index")
  BY DEF Fill
<1>3. /\ req[p].op \in {"create", "auth"} /\ HoldsIdentity(p)
      /\ WithinGrace(p, ReqTimeout) /\ req[p].deadline <= now + ReqTimeout
      /\ req[p].op = "auth" => req[p].key \in known \cup {BogusKey}
      /\ req[p].op = "create" => req[p].key \in drawn
  BY <1>1, <1>2 DEF RequestOK
<1>4. /\ pc' \in [Procs -> Steps] /\ req' \in [Procs -> Request]
      /\ Others(p) /\ pc'[p] = "index"
  BY <1>1, <1>2, GotoFacts DEF Steps
<1>5. RequestOK(p)' /\ RefusedForCause(p)'
  BY <1>2, <1>3, <1>4 DEF RequestOK, RefusedForCause, Answered,
                          HoldsIdentity, WithinGrace
<1>6. CASE UNCHANGED byHash
  BY <1>1, <1>2, <1>4, <1>5, <1>6, LocalStep DEF TypeOK
<1> DEFINE h == HashAPIKey(req[p].key)
           e == [id |-> req[p].id, user |-> req[p].user,
                 active |-> req[p].active, rate |-> req[p].rate,
                 exp |-> Expiry]
<1>7. CASE CanCall(p) /\ byHash' = [byHash EXCEPT ![h] = e]
  <2>1. /\ req[p].id \in Ids /\ req[p].user \in Users /\ req[p].rate \in Nat
        /\ req[p].active \in BOOLEAN /\ Expiry \in Nat
        /\ req[p].deadline \in Nat /\ now <= req[p].deadline
        /\ Expiry = now + TTL /\ revokedAt[req[p].id] \in Nat \cup {Never}
    BY <1>1, <1>3, <1>7 DEF HoldsIdentity, Request, Expiry, CanCall, TypeOK
  <2>2. h \in Hashes
    BY <1>3, HashIsHash DEF HoldsIdentity, AllKeys
  <2>3. /\ e \in CachedKey /\ e.id = req[p].id /\ e.active = req[p].active
        /\ e.exp = now + TTL
    BY <2>1 DEF CachedKey
  <2>4. /\ minted[e.id] # None /\ h = HashAPIKey(minted[e.id].key)
        /\ e.user = minted[e.id].user /\ e.rate = minted[e.id].rate
    BY <1>3 DEF HoldsIdentity
  <2>5. ~e.active => revokedAt[e.id] # Never
    BY <1>3, <2>3 DEF WithinGrace
  <2>6. e.active /\ revokedAt[e.id] # Never =>
           e.exp <= revokedAt[e.id] + ReqTimeout + TTL
    BY <1>1, <1>3, <2>1, <2>3 DEF WithinGrace
  <2> HIDE DEF h, e
  <2>7. byHash' \in [Hashes -> CachedKey \cup {None}]
    BY <1>1, <1>7, <2>3 DEF TypeOK
  <2>8. TypeOK'
    BY <1>1, <1>2, <1>4, <2>7 DEF TypeOK
  <2>9. HistoryStep
    BY <1>1, <1>2 DEF HistoryStep, TypeOK
  <2>10. TableInv' /\ KnownInv'
    BY <1>1, <1>2 DEF TableInv, KnownInv
  <2>11. ASSUME NEW g \in Hashes
         PROVE  byHash'[g] = IF g = h THEN e ELSE byHash[g]
    BY <1>1, <1>7 DEF TypeOK
  <2>12. CacheInv'
    BY <1>1, <1>2, <2>3, <2>4, <2>5, <2>11 DEF CacheInv
  <2>13. StaleEntriesDie'
    BY <1>1, <1>2, <2>6, <2>11 DEF StaleEntriesDie
  <2> QED BY <1>4, <1>5, <2>8, <2>9, <2>10, <2>12, <2>13, SharedStep
<1> QED BY <1>6, <1>7 DEF Fill

(* SET apikey_id:<id>, and the 201 that follows it, preserve the invariant. *)
LEMMA IndexInv ==
    ASSUME IInv, NEW p \in Procs, Index(p) PROVE IInv'
<1> USE DEF cache, history
<1>1. /\ TypeOK /\ now \in Nat /\ req[p] \in Request /\ RequestOK(p)
      /\ TableInv /\ KnownInv /\ CacheInv /\ StaleEntriesDie
  BY DEF IInv, TypeOK, RequestInv
<1>2. /\ UNCHANGED <<apiKeys, byHash, drawn, history, now>>
      /\ pc[p] = "index"
  BY DEF Index
<1>3. /\ HoldsIdentity(p) /\ WithinGrace(p, ReqTimeout)
      /\ req[p].deadline <= now + ReqTimeout /\ req[p].deadline \in Nat
      /\ req[p].op \in {"create", "auth"}
      /\ req[p].op = "auth" => req[p].key \in known \cup {BogusKey}
  BY <1>1, <1>2 DEF RequestOK, Request
<1>4. /\ req[p].id \in Ids /\ req[p].key \in Keys /\ minted[req[p].id] # None
      /\ minted[req[p].id].key = req[p].key
      /\ revokedAt[req[p].id] \in Nat \cup {Never}
  BY <1>1, <1>3 DEF HoldsIdentity, TypeOK
<1>5. /\ known \subseteq known' /\ known' \subseteq drawn /\ KnownInv'
      /\ pc' \in [Procs -> Steps] /\ req' \in [Procs -> Request] /\ Others(p)
      /\ RequestOK(p)' /\ RefusedForCause(p)'
  <2>1. CASE /\ req[p].op = "create" /\ Finish(p, "201")
             /\ known' = known \cup {req[p].key}
    <3>1. /\ pc' \in [Procs -> Steps] /\ req' \in [Procs -> Request] /\ Others(p)
          /\ RequestOK(p)' /\ RefusedForCause(p)'
      BY <1>1, <1>2, <2>1, FinishFacts, FinishOK DEF Statuses
    <3>2. KnownInv'
      BY <1>1, <1>2, <1>4, <2>1 DEF KnownInv
    <3>3. known \subseteq known'
      BY <2>1
    <3>4. req[p].key \in drawn
      BY <1>1, <1>2, <2>1 DEF RequestOK
    <3> QED BY <1>1, <2>1, <3>1, <3>2, <3>3, <3>4 DEF TypeOK
  <2>2. CASE /\ req[p].op = "auth" /\ Goto(p, "user")
             /\ UNCHANGED <<req, known>>
    <3>1. /\ pc' \in [Procs -> Steps] /\ req' \in [Procs -> Request] /\ Others(p)
          /\ pc'[p] = "user"
      BY <1>1, <2>2, GotoFacts DEF Steps
    <3>2. HoldsIdentity(p)' /\ WithinGrace(p, TTL + 2 * ReqTimeout)'
      BY <1>2, <1>3, <1>4, <2>2 DEF HoldsIdentity, WithinGrace
    <3>3. RequestOK(p)' /\ RefusedForCause(p)'
      BY <1>2, <1>3, <2>2, <3>1, <3>2 DEF RequestOK, RefusedForCause, Answered
    <3>4. KnownInv'
      BY <1>1, <1>2, <2>2 DEF KnownInv
    <3> QED BY <1>1, <2>2, <3>1, <3>3, <3>4 DEF TypeOK
  <2> QED BY <2>1, <2>2 DEF Index
<1> DEFINE e == [hash |-> HashAPIKey(req[p].key), exp |-> Expiry]
<1>6. /\ e \in CachedHash /\ e.hash = HashAPIKey(req[p].key)
  <2>1. Expiry \in Nat
    BY <1>1 DEF Expiry
  <2>2. HashAPIKey(req[p].key) \in Hashes
    BY <1>4, HashIsHash DEF AllKeys
  <2> QED BY <2>1, <2>2 DEF CachedHash
<1>7. byId' = [byId EXCEPT ![req[p].id] = e] \/ byId' = byId
  BY DEF Index
<1> HIDE DEF e
<1>8. byId' \in [Ids -> CachedHash \cup {None}]
  BY <1>1, <1>6, <1>7 DEF TypeOK
<1>9. TypeOK'
  BY <1>1, <1>2, <1>5, <1>8 DEF TypeOK
<1>10. HistoryStep
  BY <1>1, <1>2, <1>5 DEF HistoryStep, TypeOK
<1>11. ASSUME NEW i \in Ids
       PROVE  byId'[i] = byId[i] \/ (i = req[p].id /\ byId'[i] = e)
  BY <1>1, <1>7 DEF TypeOK
<1>12. CacheInv'
  BY <1>1, <1>2, <1>4, <1>6, <1>11 DEF CacheInv
<1>13. TableInv' /\ StaleEntriesDie'
  BY <1>1, <1>2 DEF TableInv, StaleEntriesDie
<1> QED BY <1>5, <1>9, <1>10, <1>12, <1>13, SharedStep

(* UpdateAPIKeyLastUsed, and the admission that follows it, preserve the
   invariant. *)
LEMMA TouchInv ==
    ASSUME IInv, NEW p \in Procs, Touch(p) PROVE IInv'
<1> USE DEF cache, history
<1>1. /\ TypeOK /\ now \in Nat /\ req[p] \in Request /\ RequestOK(p)
      /\ TableInv /\ KnownInv /\ CacheInv /\ StaleEntriesDie
  BY DEF IInv, TypeOK, RequestInv
<1>2. /\ UNCHANGED <<cache, drawn, known, history, now>>
      /\ pc[p] = "touch" /\ Finish(p, "admitted")
  BY DEF Touch
<1>3. req[p].op = "auth" /\ HoldsIdentity(p)
      /\ req[p].key \in known \cup {BogusKey}
  BY <1>1, <1>2 DEF RequestOK
<1>4. /\ pc' \in [Procs -> Steps] /\ req' \in [Procs -> Request] /\ Others(p)
      /\ pc'[p] = "idle" /\ req'[p].status = "admitted"
      /\ req'[p].deadline = 0 /\ req'[p].op = req[p].op
      /\ req'[p].key = req[p].key /\ req'[p].user = req[p].user
      /\ req'[p].id = req[p].id /\ req'[p].rate = req[p].rate
  BY <1>1, <1>2, FinishFacts DEF Statuses
<1>5. HoldsIdentity(p)'
  BY <1>2, <1>3, <1>4 DEF HoldsIdentity
<1>6. RequestOK(p)' /\ RefusedForCause(p)'
  BY <1>1, <1>2, <1>3, <1>4, <1>5 DEF RequestOK, RefusedForCause, Answered
<1>7. CASE UNCHANGED apiKeys
  BY <1>1, <1>2, <1>4, <1>6, <1>7, LocalStep DEF TypeOK
<1>8. CASE /\ apiKeys[req[p].id] # None
           /\ apiKeys' = [apiKeys EXCEPT ![req[p].id].used = TRUE]
  <2> DEFINE j == req[p].id
             row == [apiKeys[j] EXCEPT !.used = TRUE]
  <2>1. j \in Ids /\ apiKeys[j] \in Row
    BY <1>1, <1>3, <1>8 DEF HoldsIdentity, TypeOK
  <2>2. /\ row \in Row /\ row.hash = apiKeys[j].hash
        /\ row.user = apiKeys[j].user /\ row.rate = apiKeys[j].rate
        /\ row.active = apiKeys[j].active
    BY <2>1 DEF Row
  <2>3. row # None
    BY <2>2, NoneAssumption
  <2>4. apiKeys' = [apiKeys EXCEPT ![j] = row]
    BY <1>8
  <2> HIDE DEF j, row
  <2>5. apiKeys' \in [Ids -> Row \cup {None}]
    BY <1>1, <2>2, <2>4 DEF TypeOK
  <2>6. TypeOK'
    BY <1>1, <1>2, <1>4, <2>5 DEF TypeOK
  <2>7. HistoryStep
    BY <1>1, <1>2 DEF HistoryStep, TypeOK
  <2>8. ASSUME NEW i \in Ids
        PROVE  apiKeys'[i] = IF i = j THEN row ELSE apiKeys[i]
    BY <1>1, <2>4 DEF TypeOK
  <2>9. TableInv'
    <3>1. SUFFICES ASSUME NEW i \in Ids
                   PROVE  /\ (minted[i] = None <=> minted'[i] = None)
                          /\ minted'[i] = minted[i]
                          /\ revokedAt'[i] = revokedAt[i]
                          /\ (apiKeys'[i] # None <=> apiKeys[i] # None)
                          /\ apiKeys[i] # None =>
                               /\ apiKeys'[i].active = apiKeys[i].active
                               /\ apiKeys'[i].hash = apiKeys[i].hash
                               /\ apiKeys'[i].user = apiKeys[i].user
                               /\ apiKeys'[i].rate = apiKeys[i].rate
      BY <1>1 DEF TableInv
    <3> QED BY <1>2, <1>8, <2>2, <2>3, <2>8 DEF j
  <2>10. KnownInv' /\ CacheInv' /\ StaleEntriesDie'
    BY <1>1, <1>2, <2>6, <2>7, KnownFrame, CacheFrame, StaleFrame
  <2> QED BY <1>4, <1>6, <2>6, <2>7, <2>9, <2>10, SharedStep
<1> QED BY <1>7, <1>8 DEF Touch

(* What RemoveRow does to the table and to the history. *)
LEMMA RemoveRowFacts ==
    ASSUME TypeOK, TableInv, NEW u \in Users, NEW i \in Ids, RemoveRow(u, i),
           UNCHANGED <<minted, drawn, known, now>>
    PROVE  /\ apiKeys' \in [Ids -> Row \cup {None}]
           /\ revokedAt' \in [Ids -> Nat \cup {Never}]
           /\ HistoryStep /\ TableInv'
<1>1. now \in Nat /\ now # Never
  BY DEF TypeOK
<1>2. CASE UNCHANGED <<apiKeys, revokedAt>>
  BY <1>1, <1>2 DEF TypeOK, HistoryStep, TableInv
<1>3. CASE /\ Owns(u, i) /\ apiKeys' = [apiKeys EXCEPT ![i] = None]
           /\ RecordRevocation(i)
  <2>1. revokedAt' = [revokedAt EXCEPT ![i] =
                        IF revokedAt[i] = Never THEN now ELSE revokedAt[i]]
    BY <1>3 DEF RecordRevocation
  <2>2. /\ apiKeys' \in [Ids -> Row \cup {None}]
        /\ revokedAt' \in [Ids -> Nat \cup {Never}]
    BY <1>1, <1>3, <2>1 DEF TypeOK
  <2>3. HistoryStep
    BY <1>1, <2>1 DEF HistoryStep, TypeOK
  <2>4. minted[i] # None
    BY <1>3 DEF Owns, TableInv
  <2>5. /\ \A j \in Ids : apiKeys'[j] = IF j = i THEN None ELSE apiKeys[j]
        /\ \A j \in Ids : j # i => revokedAt'[j] = revokedAt[j]
        /\ revokedAt'[i] # Never
    BY <1>1, <1>3, <2>1 DEF TypeOK
  <2>6. TableInv'
    BY <2>4, <2>5 DEF TableInv
  <2> QED BY <2>2, <2>3, <2>6
<1> QED BY <1>2, <1>3 DEF RemoveRow

(* The DELETE of DeleteAPIKey preserves the invariant in each of its outcomes,
   a lost answer included. *)
LEMMA DeleteRowInv ==
    ASSUME IInv, NEW p \in Procs, DeleteRow(p) PROVE IInv'
<1> USE DEF cache, history
<1>1. /\ TypeOK /\ now \in Nat /\ req[p] \in Request /\ RequestOK(p)
      /\ TableInv /\ KnownInv /\ CacheInv /\ StaleEntriesDie
  BY DEF IInv, TypeOK, RequestInv
<1>2. /\ UNCHANGED <<cache, drawn, known, minted, now>>
      /\ pc[p] = "delete"
  BY DEF DeleteRow
<1>3. /\ req[p].op = "delete" /\ req[p].user \in Users /\ req[p].id \in Ids
      /\ req[p].deadline <= now + ReqTimeout
  BY <1>1, <1>2 DEF RequestOK
<1>4. RemoveRow(req[p].user, req[p].id) \/ UNCHANGED <<apiKeys, revokedAt>>
  BY DEF DeleteRow
<1>5. /\ apiKeys' \in [Ids -> Row \cup {None}]
      /\ revokedAt' \in [Ids -> Nat \cup {Never}]
      /\ HistoryStep /\ TableInv'
  <2>1. CASE RemoveRow(req[p].user, req[p].id)
    BY <1>1, <1>2, <1>3, <2>1, RemoveRowFacts
  <2>2. CASE UNCHANGED <<apiKeys, revokedAt>>
    BY <1>1, <1>2, <2>2 DEF TypeOK, HistoryStep, TableInv
  <2> QED BY <1>4, <2>1, <2>2
<1>6. /\ pc' \in [Procs -> Steps] /\ req' \in [Procs -> Request] /\ Others(p)
      /\ RequestOK(p)' /\ RefusedForCause(p)'
  <2>1. CASE Goto(p, "findhash") /\ UNCHANGED req
    <3>1. /\ pc' \in [Procs -> Steps] /\ req' \in [Procs -> Request]
          /\ Others(p) /\ pc'[p] = "findhash"
      BY <1>1, <2>1, GotoFacts DEF Steps
    <3> QED BY <1>2, <1>3, <2>1, <3>1 DEF RequestOK, RefusedForCause, Answered
  <2>2. CASE Finish(p, "500")
    BY <1>1, <1>2, <2>2, FinishFacts, FinishOK DEF Statuses
  <2> QED BY <2>1, <2>2 DEF DeleteRow
<1>7. TypeOK'
  BY <1>1, <1>2, <1>5, <1>6 DEF TypeOK
<1>8. KnownInv' /\ CacheInv' /\ StaleEntriesDie'
  BY <1>1, <1>2, <1>5, <1>7, KnownFrame, CacheFrame, StaleFrame
<1> QED BY <1>5, <1>6, <1>7, <1>8, SharedStep

(* DEL apikey_id:<id> preserves the invariant. *)
LEMMA DropIdInv ==
    ASSUME IInv, NEW p \in Procs, DropId(p) PROVE IInv'
<1> USE DEF cache, history
<1>1. /\ TypeOK /\ now \in Nat /\ req[p] \in Request /\ RequestOK(p)
      /\ TableInv /\ KnownInv /\ CacheInv /\ StaleEntriesDie
  BY DEF IInv, TypeOK, RequestInv
<1>2. /\ UNCHANGED <<apiKeys, byHash, req, drawn, known, history, now>>
      /\ pc[p] = "dropid" /\ Goto(p, "drophash")
      /\ (byId' = [byId EXCEPT ![req[p].id] = None] \/ byId' = byId)
  BY DEF DropId
<1>3. /\ pc' \in [Procs -> Steps] /\ req' \in [Procs -> Request]
      /\ Others(p) /\ pc'[p] = "drophash"
  BY <1>1, <1>2, GotoFacts DEF Steps
<1>4. RequestOK(p)' /\ RefusedForCause(p)'
  BY <1>1, <1>2, <1>3 DEF RequestOK, RefusedForCause, Answered
<1>5. byId' \in [Ids -> CachedHash \cup {None}]
  BY <1>1, <1>2 DEF TypeOK
<1>6. TypeOK'
  BY <1>1, <1>2, <1>3, <1>5 DEF TypeOK
<1>7. HistoryStep
  BY <1>1, <1>2 DEF HistoryStep, TypeOK
<1>8. \A i \in Ids : byId'[i] = None \/ byId'[i] = byId[i]
  BY <1>1, <1>2 DEF TypeOK
<1>9. CacheInv'
  BY <1>1, <1>2, <1>8 DEF CacheInv
<1>10. TableInv' /\ KnownInv' /\ StaleEntriesDie'
  BY <1>1, <1>2 DEF TableInv, KnownInv, StaleEntriesDie
<1> QED BY <1>3, <1>4, <1>6, <1>7, <1>9, <1>10, SharedStep

(* DEL apikey:<hash> preserves the invariant. *)
LEMMA DropHashInv ==
    ASSUME IInv, NEW p \in Procs, DropHash(p) PROVE IInv'
<1> USE DEF cache, history
<1>1. /\ TypeOK /\ now \in Nat /\ req[p] \in Request /\ RequestOK(p)
      /\ TableInv /\ KnownInv /\ CacheInv /\ StaleEntriesDie
  BY DEF IInv, TypeOK, RequestInv
<1>2. /\ UNCHANGED <<apiKeys, byId, drawn, known, history, now>>
      /\ pc[p] = "drophash" /\ Finish(p, "204")
      /\ (byHash' = [byHash EXCEPT ![req[p].hash] = None] \/ byHash' = byHash)
  BY DEF DropHash
<1>3. /\ pc' \in [Procs -> Steps] /\ req' \in [Procs -> Request] /\ Others(p)
      /\ RequestOK(p)' /\ RefusedForCause(p)'
  BY <1>1, <1>2, FinishFacts, FinishOK DEF Statuses
<1>4. byHash' \in [Hashes -> CachedKey \cup {None}]
  BY <1>1, <1>2 DEF TypeOK
<1>5. TypeOK'
  BY <1>1, <1>2, <1>3, <1>4 DEF TypeOK
<1>6. HistoryStep
  BY <1>1, <1>2 DEF HistoryStep, TypeOK
<1>7. \A h \in Hashes : byHash'[h] = None \/ byHash'[h] = byHash[h]
  BY <1>1, <1>2 DEF TypeOK
<1>8. CacheInv'
  BY <1>1, <1>2, <1>7 DEF CacheInv
<1>9. StaleEntriesDie'
  BY <1>1, <1>2, <1>7 DEF StaleEntriesDie
<1>10. TableInv' /\ KnownInv'
  BY <1>1, <1>2 DEF TableInv, KnownInv
<1> QED BY <1>3, <1>5, <1>6, <1>8, <1>9, <1>10, SharedStep

(* An operator's deactivation of a key preserves the invariant. *)
LEMMA DeactivateInv ==
    ASSUME IInv, NEW i \in Ids, Deactivate(i) PROVE IInv'
<1> USE DEF cache, history
<1>1. /\ TypeOK /\ now \in Nat /\ now # Never
      /\ TableInv /\ KnownInv /\ CacheInv /\ StaleEntriesDie
  BY DEF IInv, TypeOK
<1> DEFINE row == [apiKeys[i] EXCEPT !.active = FALSE]
<1>2. /\ UNCHANGED <<cache, pc, req, drawn, known, minted, now>>
      /\ apiKeys[i] # None /\ apiKeys' = [apiKeys EXCEPT ![i] = row]
      /\ revokedAt' = [revokedAt EXCEPT ![i] =
                         IF revokedAt[i] = Never THEN now ELSE revokedAt[i]]
  BY DEF Deactivate, RecordRevocation
<1>3. apiKeys[i] \in Row
  BY <1>1, <1>2 DEF TypeOK
<1>4. /\ row \in Row /\ ~row.active /\ row.hash = apiKeys[i].hash
      /\ row.user = apiKeys[i].user /\ row.rate = apiKeys[i].rate
  BY <1>3 DEF Row
<1> HIDE DEF row
<1>5. TypeOK'
  BY <1>1, <1>2, <1>4 DEF TypeOK
<1>6. HistoryStep
  BY <1>1, <1>2 DEF HistoryStep, TypeOK
<1>7. /\ \A j \in Ids : apiKeys'[j] = IF j = i THEN row ELSE apiKeys[j]
      /\ \A j \in Ids : j # i => revokedAt'[j] = revokedAt[j]
      /\ revokedAt'[i] # Never
  BY <1>1, <1>2 DEF TypeOK
<1>8. TableInv'
  BY <1>1, <1>2, <1>4, <1>7 DEF TableInv
<1>9. KnownInv' /\ CacheInv' /\ StaleEntriesDie'
  BY <1>1, <1>2, <1>5, <1>6, KnownFrame, CacheFrame, StaleFrame
<1>10. RequestInv'
  BY <1>1, <1>2, <1>5, <1>6, RequestFrame DEF IInv, RequestInv
<1>11. LiveKeyNeverRefused'
  BY <1>1, <1>2, <1>5, <1>6, RefusedFrame
     DEF IInv, RequestInv, LiveKeyNeverRefused
<1> QED BY <1>5, <1>8, <1>9, <1>10, <1>11 DEF IInv

(* Time passes; the entries that are left have not expired. *)
LEMMA TickInv ==
    ASSUME IInv, Tick PROVE IInv'
<1> USE DEF cache, history
<1>1. /\ TypeOK /\ now \in Nat
      /\ TableInv /\ KnownInv /\ CacheInv /\ StaleEntriesDie
  BY DEF IInv, TypeOK
<1>2. /\ UNCHANGED <<apiKeys, pc, req, drawn, known, history>> /\ now' = now + 1
      /\ byHash' = [h \in Hashes |-> Live(byHash[h], now')]
      /\ byId' = [i \in Ids |-> Live(byId[i], now')]
  BY DEF Tick
<1>3. /\ \A h \in Hashes :
           \/ byHash'[h] = None
           \/ byHash'[h] = byHash[h] /\ ~(now' > byHash[h].exp)
      /\ \A i \in Ids : byId'[i] = None \/ byId'[i] = byId[i]
  BY <1>2 DEF Live
<1>4. /\ byHash' \in [Hashes -> CachedKey \cup {None}]
      /\ byId' \in [Ids -> CachedHash \cup {None}]
  BY <1>1, <1>2, <1>3 DEF TypeOK
<1>5. TypeOK'
  BY <1>1, <1>2, <1>4 DEF TypeOK
<1>6. HistoryStep
  BY <1>1, <1>2 DEF HistoryStep, TypeOK
<1>7. \A h \in Hashes : byHash[h] # None =>
         byHash[h].exp \in Nat /\ byHash[h].id \in Ids
  BY <1>1 DEF TypeOK, CachedKey
<1>8. CacheInv'
  BY <1>1, <1>2, <1>3, <1>7 DEF CacheInv
<1>9. StaleEntriesDie'
  BY <1>1, <1>2, <1>3 DEF StaleEntriesDie
<1>10. TableInv' /\ KnownInv'
  BY <1>1, <1>2 DEF TableInv, KnownInv
<1>11. RequestInv'
  BY <1>1, <1>2, <1>5, <1>6, RequestFrame DEF IInv, RequestInv
<1>12. LiveKeyNeverRefused'
  BY <1>1, <1>2, <1>5, <1>6, RefusedFrame
     DEF IInv, RequestInv, LiveKeyNeverRefused
<1> QED BY <1>5, <1>8, <1>9, <1>10, <1>11, <1>12 DEF IInv

-----------------------------------------------------------------------------
(* The invariant.                                                          *)

(* The empty table and the empty cache satisfy the invariant. *)
LEMMA InitInv == Init => IInv
<1> SUFFICES ASSUME Init PROVE IInv
  OBVIOUS
<1>1. NoRequest \in Request /\ NoRequest.op = "none" /\ NoRequest.deadline = 0
  BY DEF NoRequest, Request, Statuses
<1>2. TypeOK
  BY <1>1 DEF Init, TypeOK, Steps
<1>3. TableInv /\ KnownInv /\ CacheInv /\ StaleEntriesDie
  BY DEF Init, TableInv, KnownInv, CacheInv, StaleEntriesDie
<1>4. RequestInv /\ LiveKeyNeverRefused
  BY <1>1 DEF Init, RequestInv, RequestOK, LiveKeyNeverRefused,
              RefusedForCause, Answered
<1> QED BY <1>2, <1>3, <1>4 DEF IInv

(* A stuttering step changes nothing the invariant speaks of. *)
LEMMA StutterInv == IInv /\ UNCHANGED vars => IInv'
<1> SUFFICES ASSUME IInv, UNCHANGED vars PROVE IInv'
  OBVIOUS
<1>1. TypeOK' /\ TableInv' /\ KnownInv' /\ CacheInv' /\ StaleEntriesDie'
  BY DEF IInv, vars, TypeOK, TableInv, KnownInv, CacheInv, StaleEntriesDie
<1>2. RequestInv' /\ LiveKeyNeverRefused'
  BY DEF IInv, vars, RequestInv, RequestOK, LiveKeyNeverRefused,
         RefusedForCause, Answered, HoldsIdentity, WithinGrace
<1> QED BY <1>1, <1>2 DEF IInv

(* Every action preserves the invariant. *)
LEMMA NextInv == IInv /\ [Next]_vars => IInv'
<1> SUFFICES ASSUME IInv, [Next]_vars PROVE IInv'
  OBVIOUS
<1>1. ASSUME NEW p \in Procs, RejectRequest(p) \/ RandomKeyFails(p) \/ Crash(p)
      PROVE  IInv'
  BY <1>1, RejectRequestInv, RandomKeyFailsInv, CrashInv
<1>2. ASSUME NEW p \in Procs, NEW u \in Users, NEW l \in Labels,
             NEW r \in RateInputs, StartCreate(p, u, l, r)
      PROVE  IInv'
  BY <1>2, StartCreateInv
<1>3. ASSUME NEW p \in Procs, NEW k \in AllKeys, StartAuth(p, k) PROVE IInv'
  BY <1>3, StartAuthInv
<1>4. ASSUME NEW p \in Procs, NEW u \in Users, NEW i \in Ids,
             StartDelete(p, u, i)
      PROVE  IInv'
  BY <1>4, StartDeleteInv
<1>5. ASSUME NEW p \in Procs, ProcStep(p) PROVE IInv'
  <2>1. CASE Insert(p) \/ Fill(p) \/ Index(p)
    BY <2>1, InsertInv, FillInv, IndexInv
  <2>2. CASE Lookup(p) \/ Select(p) \/ LoadUser(p) \/ Touch(p)
    BY <2>2, LookupInv, SelectInv, LoadUserInv, TouchInv
  <2>3. CASE DeleteRow(p) \/ FindHash(p) \/ DropId(p) \/ DropHash(p)
    BY <2>3, DeleteRowInv, FindHashInv, DropIdInv, DropHashInv
  <2> QED BY <1>5, <2>1, <2>2, <2>3 DEF ProcStep
<1>6. ASSUME NEW i \in Ids, Deactivate(i) PROVE IInv'
  BY <1>6, DeactivateInv
<1>7. CASE Tick
  BY <1>7, TickInv
<1>8. CASE UNCHANGED vars
  BY <1>8, StutterInv
<1> QED BY <1>1, <1>2, <1>3, <1>4, <1>5, <1>6, <1>7, <1>8 DEF Next

(* The inductive invariant holds in every reachable state: the table, both
   cache indexes and every request in flight agree on whose key is whose and
   on how long a revoked key can survive in the cache. *)
THEOREM Inductive == Spec => []IInv
BY InitInv, NextInv, PTL DEF Spec

(* Type correctness of the table, the cache and the request goroutines. *)
THEOREM TypeCorrect == Spec => []TypeOK
<1>1. IInv => TypeOK
  BY DEF IInv
<1> QED BY <1>1, Inductive, PTL

(* APIKeyAuth never admits a request under another key's id, owner or rate. *)
THEOREM Ownership == Spec => []AdmittedAsOwner
<1>1. IInv => AdmittedAsOwner
  BY DEF IInv, RequestInv, RequestOK, AdmittedAsOwner, HoldsIdentity
<1> QED BY <1>1, Inductive, PTL

(* An entry of the Redis cache that would admit a revoked key is gone TTL +
   ReqTimeout after the revocation, whatever failed in DeleteAPIKey. *)
THEOREM StaleBound == Spec => []StaleEntriesDie
<1>1. IInv => StaleEntriesDie
  BY DEF IInv
<1> QED BY <1>1, Inductive, PTL

(* A key its owner received in a 201 is answered 401 only once revoked. *)
THEOREM NoFalseRefusal == Spec => []LiveKeyNeverRefused
<1>1. IInv => LiveKeyNeverRefused
  BY DEF IInv
<1> QED BY <1>1, Inductive, PTL

(* The active check of APIKeyAuth lets a revoked key pass no later than TTL
   plus two request lifetimes after its revocation. *)
THEOREM RevocationBound == Spec => RevocationTakesHold
<1>1. IInv /\ [Next]_vars =>
        [\A p \in Procs :
            (/\ pc[p] = "user" /\ pc'[p] = "touch"
             /\ revokedAt[req[p].id] # Never) =>
                now <= revokedAt[req[p].id] + TTL + 2 * ReqTimeout]_vars
  <2>1. SUFFICES ASSUME IInv, Next, NEW p \in Procs, pc[p] = "user",
                        pc'[p] = "touch", revokedAt[req[p].id] # Never
                 PROVE  now <= revokedAt[req[p].id] + TTL + 2 * ReqTimeout
    OBVIOUS
  <2>2. /\ req[p].id \in Ids /\ WithinGrace(p, TTL + 2 * ReqTimeout)
        /\ req[p].deadline \in Nat /\ revokedAt[req[p].id] \in Nat /\ now \in Nat
    <3>1. HoldsIdentity(p) /\ WithinGrace(p, TTL + 2 * ReqTimeout)
      BY <2>1 DEF IInv, RequestInv, RequestOK
    <3> QED BY <2>1, <3>1 DEF IInv, TypeOK, Request, HoldsIdentity
  <2>3. LoadUser(p)
    <3>1. pc \in [Procs -> Steps]
      BY <2>1 DEF IInv, TypeOK
    <3>2. pc' # pc
      BY <2>1
    <3>3. PICK q \in Procs :
            \/ RejectRequest(q) \/ RandomKeyFails(q) \/ Crash(q) \/ ProcStep(q)
            \/ \E u \in Users, l \in Labels, r \in RateInputs :
                 StartCreate(q, u, l, r)
            \/ \E k \in AllKeys : StartAuth(q, k)
            \/ \E u \in Users, i \in Ids : StartDelete(q, u, i)
      BY <2>1, <3>2 DEF Next, Deactivate, Tick
    <3>4. CASE \/ RejectRequest(q) \/ RandomKeyFails(q) \/ Crash(q)
               \/ \E u \in Users, l \in Labels, r \in RateInputs :
                    StartCreate(q, u, l, r)
               \/ \E k \in AllKeys : StartAuth(q, k)
               \/ \E u \in Users, i \in Ids : StartDelete(q, u, i)
      <4>1. \E s \in {"idle", "insert", "lookup", "delete"} :
               pc' = [pc EXCEPT ![q] = s]
        BY <3>4 DEF RejectRequest, RandomKeyFails, Crash, StartCreate,
                    StartAuth, StartDelete, Start
      <4> QED BY <2>1, <3>1, <4>1
    <3>5. CASE Insert(q) \/ Fill(q) \/ Index(q) \/ Lookup(q) \/ Select(q)
               \/ Touch(q) \/ DeleteRow(q) \/ FindHash(q) \/ DropId(q)
               \/ DropHash(q)
      <4>1. \E s \in {"idle", "fill", "index", "user", "select", "findhash",
                      "dropid", "drophash"} :
               pc' = [pc EXCEPT ![q] = s]
        BY <3>5 DEF Insert, Fill, Index, Lookup, Select, Touch, DeleteRow,
                    FindHash, DropId, DropHash, Goto, Finish
      <4> QED BY <2>1, <3>1, <4>1
    <3>6. CASE LoadUser(q)
      <4>1. \E s \in Steps : pc' = [pc EXCEPT ![q] = s]
        BY <3>6 DEF LoadUser, Goto, Finish, Steps
      <4>2. q = p
        BY <2>1, <3>1, <4>1
      <4> QED BY <3>6, <4>2
    <3> QED BY <3>3, <3>4, <3>5, <3>6 DEF ProcStep
  <2>4. req[p].active /\ now <= req[p].deadline
    BY <2>1, <2>2, <2>3 DEF LoadUser, Finish, CanCall, IInv, TypeOK
  <2> QED BY <2>1, <2>2, <2>4 DEF WithinGrace
<1> QED BY <1>1, Inductive, PTL DEF Spec, RevocationTakesHold

-----------------------------------------------------------------------------
(* The refinement of KeyRegistry.                                          *)

(* No key is issued twice: a key that is about to be inserted has been drawn
   by one goroutine, and has not been inserted. *)
FreshInv ==
    /\ \A i \in Ids : minted[i] # None => minted[i].key \in drawn
    /\ \A p \in Procs : pc[p] = "insert" =>
         /\ req[p].rate \in {EffectiveRate(r) : r \in RateInputs}
         /\ ~\E i \in Ids : minted[i] # None /\ minted[i].key = req[p].key
    /\ \A p, q \in Procs :
         pc[p] = "insert" /\ pc[q] = "insert" /\ req[p].key = req[q].key => p = q

(* A step of the registry, or one that it does not see. *)
RegistryStep == [Registry!Next]_(Registry!vars)

(* The verdicts after the step of one goroutine. *)
LEMMA VerdictStep ==
    ASSUME NEW p \in Procs, Others(p), NEW v, Verdict(p)' = v
    PROVE  [q \in Procs |-> Verdict(q)]' = [[q \in Procs |-> Verdict(q)] EXCEPT ![p] = v]
<1>1. ASSUME NEW q \in Procs \ {p} PROVE Verdict(q)' = Verdict(q)
  BY DEF Verdict, Answered, Others
<1> QED BY <1>1

(* Steps that draw no key and insert none issue no key twice. *)
LEMMA FreshFrame ==
    ASSUME FreshInv, UNCHANGED <<minted, drawn>>,
           \A q \in Procs : pc'[q] = "insert" => pc[q] = "insert" /\ req'[q] = req[q]
    PROVE  FreshInv'
BY DEF FreshInv

(* The request has no verdict. *)
Unseen(p) == pc[p] # "touch" /\ ~Answered(p, "auth", "401")

(* A step that leaves the registry alone forgets a verdict or does nothing. *)
LEMMA UnseenStep ==
    ASSUME FreshInv, NEW p \in Procs, Others(p), Unseen(p)', pc'[p] # "insert",
           UNCHANGED <<minted, known, revokedAt, now, drawn>>
    PROVE  RegistryStep /\ FreshInv'
<1>1. Verdict(p)' = None
  BY DEF Unseen, Verdict, Answered
<1>2. [q \in Procs |-> Verdict(q)]' = [[q \in Procs |-> Verdict(q)] EXCEPT ![p] = None]
  BY <1>1, VerdictStep
<1>3. CASE Verdict(p) = None
  <2>1. [q \in Procs |-> Verdict(q)]' = [q \in Procs |-> Verdict(q)]
    BY <1>2, <1>3
  <2> QED BY <2>1, FreshFrame DEF RegistryStep, Registry!vars, Others
<1>4. CASE Verdict(p) # None
  <2>1. Registry!Forget(p)
    BY <1>2, <1>4 DEF Registry!Forget
  <2> QED BY <2>1, FreshFrame DEF RegistryStep, Registry!Next, Others
<1> QED BY <1>3, <1>4

(* Requests that start, and those that a process takes with it when it dies. *)
LEMMA StartsRefine ==
    ASSUME IInv, FreshInv, NEW p \in Procs,
           \/ RejectRequest(p) \/ RandomKeyFails(p) \/ Crash(p)
           \/ \E k \in AllKeys : StartAuth(p, k)
           \/ \E u \in Users, i \in Ids : StartDelete(p, u, i)
    PROVE  RegistryStep /\ FreshInv'
<1>1. TypeOK /\ NoRequest.op = "none" /\ NoRequest \in Request
  BY NewRequestFacts DEF IInv, NoRequest
<1>2. UNCHANGED <<minted, known, revokedAt, now, drawn>>
  BY DEF RejectRequest, RandomKeyFails, Crash, StartAuth, StartDelete, history
<1>3. CASE RejectRequest(p)
  <2> DEFINE r == [NoRequest EXCEPT !.status = "rejected"]
  <2>1. r \in Request /\ r.op = "none"
    BY DEF NoRequest, Request, Statuses
  <2> HIDE DEF r
  <2>2. Others(p) /\ pc'[p] = "idle" /\ req'[p] = r
    BY <1>1, <1>3, <2>1, StartFacts DEF RejectRequest, Steps, r
  <2> QED BY <1>2, <2>1, <2>2, UnseenStep DEF Unseen, Answered
<1>4. CASE RandomKeyFails(p)
  <2> DEFINE r == [NoRequest EXCEPT !.op = "create", !.status = "500"]
  <2>1. r \in Request /\ r.op = "create"
    BY DEF NoRequest, Request, Statuses
  <2> HIDE DEF r
  <2>2. Others(p) /\ pc'[p] = "idle" /\ req'[p] = r
    BY <1>1, <1>4, <2>1, StartFacts DEF RandomKeyFails, Steps, r
  <2> QED BY <1>2, <2>1, <2>2, UnseenStep DEF Unseen, Answered
<1>5. CASE Crash(p)
  <2>1. Others(p) /\ pc'[p] = "idle" /\ req'[p] = NoRequest
    BY <1>1, <1>5 DEF Crash, Others, TypeOK
  <2> QED BY <1>1, <1>2, <2>1, UnseenStep DEF Unseen, Answered
<1>6. ASSUME NEW k \in AllKeys, StartAuth(p, k) PROVE RegistryStep /\ FreshInv'
  <2> DEFINE r == [NewRequest("auth") EXCEPT !.key = k]
  <2>1. r \in Request
    BY <1>1, NewRequestFacts DEF Request
  <2> HIDE DEF r
  <2>2. Others(p) /\ pc'[p] = "lookup"
    BY <1>1, <1>6, <2>1, StartFacts DEF StartAuth, Steps, r
  <2> QED BY <1>2, <1>6, <2>2, UnseenStep DEF Unseen, Answered
<1>7. ASSUME NEW u \in Users, NEW i \in Ids, StartDelete(p, u, i)
      PROVE  RegistryStep /\ FreshInv'
  <2> DEFINE r == [NewRequest("delete") EXCEPT !.user = u, !.id = i]
  <2>1. r \in Request
    BY <1>1, NewRequestFacts DEF Request
  <2> HIDE DEF r
  <2>2. Others(p) /\ pc'[p] = "delete"
    BY <1>1, <1>7, <2>1, StartFacts DEF StartDelete, Steps, r
  <2> QED BY <1>2, <1>7, <2>2, UnseenStep DEF Unseen, Answered
<1> QED BY <1>3, <1>4, <1>5, <1>6, <1>7

(* generateRandomKey returns a key that nobody has. *)
LEMMA StartCreateRefines ==
    ASSUME IInv, FreshInv, NEW p \in Procs, NEW u \in Users, NEW l \in Labels,
           NEW n \in RateInputs, StartCreate(p, u, l, n)
    PROVE  RegistryStep /\ FreshInv'
<1>1. TypeOK /\ RequestInv /\ UNCHANGED <<minted, known, revokedAt, now>>
  BY DEF IInv, StartCreate, history
<1>2. PICK k \in Keys \ drawn :
         /\ Start(p, "insert", [NewRequest("create") EXCEPT
                                  !.user = u, !.label = l, !.key = k,
                                  !.rate = EffectiveRate(n)])
         /\ drawn' = drawn \cup {k}
  BY DEF StartCreate
<1> DEFINE r == [NewRequest("create") EXCEPT !.user = u, !.label = l,
                              !.key = k, !.rate = EffectiveRate(n)]
<1>3. EffectiveRate(n) \in Nat /\ k \in AllKeys
  BY DEF EffectiveRate, AllKeys
<1>4. r \in Request /\ r.op = "create" /\ r.key = k /\ r.rate = EffectiveRate(n)
  BY <1>1, <1>3, NewRequestFacts DEF Request
<1> HIDE DEF r
<1>5. Others(p) /\ pc'[p] = "insert" /\ req'[p] = r
  BY <1>1, <1>2, <1>4, StartFacts DEF Steps, r
<1>6. \A q \in Procs : pc[q] = "insert" => req[q].key \in drawn
  BY <1>1 DEF RequestInv, RequestOK
<1>7. FreshInv'
  <2>1. \A i \in Ids : minted'[i] # None => minted'[i].key \in drawn'
    BY <1>1, <1>2 DEF FreshInv
  <2>2. ~\E i \in Ids : minted'[i] # None /\ minted'[i].key = k
    BY <1>1, <1>2 DEF FreshInv
  <2>3. \A q \in Procs \ {p} : pc'[q] = "insert" =>
          /\ req'[q].key # k /\ req'[q].rate \in {EffectiveRate(m) : m \in RateInputs}
          /\ ~\E i \in Ids : minted'[i] # None /\ minted'[i].key = req'[q].key
    BY <1>1, <1>2, <1>5, <1>6 DEF FreshInv, Others
  <2>4. \A q, s \in Procs : q # p /\ s # p /\ pc'[q] = "insert" /\ pc'[s] = "insert"
          /\ req'[q].key = req'[s].key => q = s
    BY <1>5 DEF FreshInv, Others
  <2>5. \A q, s \in Procs : pc'[q] = "insert" /\ pc'[s] = "insert"
          /\ req'[q].key = req'[s].key => q = s
    BY <1>4, <1>5, <2>3, <2>4
  <2>6. \A q \in Procs : pc'[q] = "insert" =>
          /\ req'[q].rate \in {EffectiveRate(m) : m \in RateInputs}
          /\ ~\E i \in Ids : minted'[i] # None /\ minted'[i].key = req'[q].key
    BY <1>4, <1>5, <2>2, <2>3
  <2> QED BY <2>1, <2>5, <2>6 DEF FreshInv
<1>8. Verdict(p)' = None
  BY <1>5 DEF Verdict, Answered
<1>9. [q \in Procs |-> Verdict(q)]' = [[q \in Procs |-> Verdict(q)] EXCEPT ![p] = None]
  BY <1>5, <1>8, VerdictStep
<1>10. CASE Verdict(p) = None
  <2>1. [q \in Procs |-> Verdict(q)]' = [q \in Procs |-> Verdict(q)]
    BY <1>9, <1>10
  <2> QED BY <1>1, <1>7, <2>1 DEF RegistryStep, Registry!vars
<1>11. CASE Verdict(p) # None
  <2>1. Registry!Forget(p)
    BY <1>1, <1>9, <1>11 DEF Registry!Forget
  <2> QED BY <1>7, <2>1 DEF RegistryStep, Registry!Next
<1> QED BY <1>10, <1>11

(* The calls that neither issue, revoke nor judge a key. *)
LEMMA CallsRefine ==
    ASSUME IInv, FreshInv, NEW p \in Procs,
           \/ Fill(p) \/ Lookup(p) \/ Touch(p) \/ FindHash(p) \/ DropId(p) \/ DropHash(p)
    PROVE  RegistryStep /\ FreshInv'
<1> USE DEF history
<1>1. TypeOK /\ req[p] \in Request /\ RequestOK(p)
  BY DEF IInv, TypeOK, RequestInv
<1>2. UNCHANGED <<minted, known, revokedAt, now, drawn>>
  BY DEF Fill, Lookup, Touch, FindHash, DropId, DropHash
<1>3. ASSUME NEW s \in {"204", "admitted"}, Finish(p, s)
      PROVE  RegistryStep /\ FreshInv'
  <2>1. Others(p) /\ pc'[p] = "idle" /\ req'[p].status = s
    BY <1>1, <1>3, FinishFacts DEF Statuses
  <2> QED BY <1>2, <1>3, <2>1, UnseenStep DEF Unseen, Answered
<1>4. ASSUME NEW s \in {"index", "user", "select", "dropid", "drophash"}, Goto(p, s),
             \A q \in Procs \ {p} : req'[q] = req[q]
      PROVE  RegistryStep /\ FreshInv'
  <2>1. Others(p) /\ pc'[p] = s
    BY <1>1, <1>4 DEF Goto, Others, TypeOK
  <2> QED BY <1>2, <1>4, <2>1, UnseenStep DEF Unseen, Answered
<1>5. CASE Fill(p)
  BY <1>4, <1>5 DEF Fill
<1>6. CASE Lookup(p)
  <2>1. Goto(p, "user") \/ Goto(p, "select")
    BY <1>6 DEF Lookup
  <2>2. \A q \in Procs \ {p} : req'[q] = req[q]
    BY <1>1, <1>6 DEF Lookup, TypeOK
  <2> QED BY <1>4, <2>1, <2>2
<1>7. CASE Touch(p)
  BY <1>3, <1>7 DEF Touch
<1>8. CASE FindHash(p)
  <2>1. CASE Finish(p, "204")
    BY <1>3, <2>1
  <2>2. CASE Goto(p, "dropid") /\ req' = [req EXCEPT ![p].hash = byId[req[p].id].hash]
    <3>1. \A q \in Procs \ {p} : req'[q] = req[q]
      BY <1>1, <2>2 DEF TypeOK
    <3> QED BY <1>4, <2>2, <3>1
  <2> QED BY <1>8, <2>1, <2>2 DEF FindHash
<1>9. CASE DropId(p)
  BY <1>4, <1>9 DEF DropId
<1>10. CASE DropHash(p)
  BY <1>3, <1>10 DEF DropHash
<1> QED BY <1>5, <1>6, <1>7, <1>8, <1>9, <1>10

(* The 401 of APIKeyAuth is a refusal for cause. *)
LEMMA RefusalRefines ==
    ASSUME IInv, IInv', FreshInv, NEW p \in Procs, Finish(p, "401"),
           req[p].op = "auth", pc[p] \in {"select", "user"},
           UNCHANGED <<minted, known, revokedAt, now, drawn>>
    PROVE  RegistryStep /\ FreshInv'
<1>1. TypeOK /\ RequestOK(p) /\ RefusedForCause(p)'
  BY DEF IInv, RequestInv, LiveKeyNeverRefused
<1>2. /\ Others(p) /\ pc'[p] = "idle" /\ req'[p].status = "401"
      /\ req'[p].op = "auth" /\ req'[p].key = req[p].key
  BY <1>1, FinishFacts DEF Statuses
<1>3. /\ Verdict(p) = None
      /\ Verdict(p)' = [answer |-> "401", key |-> req[p].key]
  BY <1>2 DEF Verdict, Answered
<1>4. [q \in Procs |-> Verdict(q)]' =
        [[q \in Procs |-> Verdict(q)] EXCEPT ![p] = Registry!Refused(req[p].key)]
  BY <1>2, <1>3, VerdictStep DEF Registry!Refused
<1>5. req[p].key \in Keys \cup {BogusKey}
  BY <1>1 DEF RequestOK, TypeOK
<1>6. req[p].key \in known =>
        \E i \in Ids : Registry!IssuedAs(i, req[p].key) /\ revokedAt[i] # Registry!Never
  BY <1>1, <1>2 DEF RefusedForCause, Answered, Registry!IssuedAs, Registry!Never
<1>7. Registry!Refuse(p, req[p].key)
  BY <1>3, <1>4, <1>6 DEF Registry!Refuse
<1>8. RegistryStep
  BY <1>5, <1>7 DEF RegistryStep, Registry!Next
<1> QED BY <1>2, <1>8, FreshFrame DEF Others

(* GetAPIKeyByHash from the table judges a key that no row has. *)
LEMMA SelectRefines ==
    ASSUME IInv, IInv', FreshInv, NEW p \in Procs, Select(p)
    PROVE  RegistryStep /\ FreshInv'
<1>1. TypeOK /\ req[p].op = "auth" /\ pc[p] = "select"
  BY DEF IInv, RequestInv, RequestOK, Select
<1>2. UNCHANGED <<minted, known, revokedAt, now, drawn>>
  BY DEF Select, history
<1>3. CASE Finish(p, "401")
  BY <1>1, <1>2, <1>3, RefusalRefines
<1>4. CASE Finish(p, "500")
  <2>1. Others(p) /\ pc'[p] = "idle" /\ req'[p].status = "500"
    BY <1>1, <1>4, FinishFacts DEF Statuses
  <2> QED BY <1>2, <2>1, UnseenStep DEF Unseen, Answered
<1>5. ASSUME NEW i \in Ids, Goto(p, "fill"),
             req' = [req EXCEPT ![p].id = i, ![p].user = apiKeys[i].user,
                                ![p].active = apiKeys[i].active,
                                ![p].rate = apiKeys[i].rate]
      PROVE  RegistryStep /\ FreshInv'
  <2>1. Others(p) /\ pc'[p] = "fill"
    BY <1>1, <1>5 DEF Goto, Others, TypeOK
  <2> QED BY <1>2, <2>1, UnseenStep DEF Unseen, Answered
<1> QED BY <1>3, <1>4, <1>5 DEF Select

(* The active check of APIKeyAuth admits the owner in time, or refuses. *)
LEMMA LoadUserRefines ==
    ASSUME IInv, IInv', FreshInv, NEW p \in Procs, LoadUser(p)
    PROVE  RegistryStep /\ FreshInv'
<1>1. /\ TypeOK /\ req[p] \in Request /\ pc[p] = "user" /\ RequestOK(p)
      /\ req[p].op = "auth" /\ HoldsIdentity(p) /\ WithinGrace(p, TTL + 2 * ReqTimeout)
  BY DEF IInv, TypeOK, RequestInv, RequestOK, LoadUser
<1>2. UNCHANGED <<minted, known, revokedAt, now, drawn>>
  BY DEF LoadUser, history
<1>3. CASE Finish(p, "401")
  BY <1>1, <1>2, <1>3, RefusalRefines
<1>4. CASE Finish(p, "500")
  <2>1. Others(p) /\ pc'[p] = "idle" /\ req'[p].status = "500"
    BY <1>1, <1>4, FinishFacts DEF Statuses
  <2> QED BY <1>2, <2>1, UnseenStep DEF Unseen, Answered
<1>5. CASE req[p].active /\ CanCall(p) /\ Goto(p, "touch") /\ UNCHANGED req
  <2> DEFINE i == req[p].id
             t == req[p].deadline
  <2>1. Others(p) /\ pc'[p] = "touch"
    BY <1>1, <1>5, GotoFacts DEF Steps
  <2>2. /\ i \in Ids /\ req[p].key \in Keys /\ minted[i] # None
        /\ minted[i].key = req[p].key /\ minted[i].user = req[p].user
        /\ minted[i].rate = req[p].rate
    BY <1>1 DEF HoldsIdentity
  <2>3. minted[i].key \in known
    BY <1>1, <2>2 DEF RequestOK
  <2>4. t \in now .. now + ReqTimeout
    BY <1>1, <1>5 DEF CanCall, RequestOK, Request, TypeOK
  <2>5. revokedAt[i] # Registry!Never => t <= revokedAt[i] + (TTL + 2 * ReqTimeout)
    BY <1>1, <1>5 DEF WithinGrace, Registry!Never
  <2>6. /\ Verdict(p) = None
        /\ Verdict(p)' = Registry!Admitted(i, t)
    BY <1>1, <1>5, <2>1, <2>2 DEF Verdict, Answered, Registry!Admitted
  <2>7. [q \in Procs |-> Verdict(q)]' =
          [[q \in Procs |-> Verdict(q)] EXCEPT ![p] = Registry!Admitted(i, t)]
    BY <2>1, <2>6, VerdictStep
  <2> HIDE DEF i, t
  <2>8. Registry!Admit(p, i, t)
    BY <1>2, <2>2, <2>3, <2>5, <2>6, <2>7 DEF Registry!Admit
  <2>9. RegistryStep
    BY <2>2, <2>4, <2>8 DEF RegistryStep, Registry!Next
  <2> QED BY <1>2, <2>1, <2>9, FreshFrame DEF Others
<1> QED BY <1>3, <1>4, <1>5 DEF LoadUser

(* The INSERT of CreateAPIKey issues a key, also when its answer is lost. *)
LEMMA InsertRefines ==
    ASSUME IInv, FreshInv, NEW p \in Procs, Insert(p)
    PROVE  RegistryStep /\ FreshInv'
<1>1. /\ TypeOK /\ req[p] \in Request /\ pc[p] = "insert" /\ RequestOK(p)
      /\ req[p].op = "create" /\ req[p].user \in Users /\ req[p].key \in Keys
      /\ req[p].key \in drawn
  BY DEF IInv, TypeOK, RequestInv, RequestOK, Insert
<1>2. UNCHANGED <<known, revokedAt, now, drawn>>
  BY DEF Insert
<1>3. ASSUME NEW s \in Statuses, Finish(p, s)
      PROVE  Others(p) /\ pc'[p] # "insert" /\ Unseen(p)'
  <2>1. Others(p) /\ pc'[p] = "idle" /\ req'[p].op = "create"
    BY <1>1, <1>3, FinishFacts
  <2> QED BY <2>1 DEF Unseen, Answered
<1>4. CASE UNCHANGED minted /\ (Finish(p, "409") \/ Finish(p, "500"))
  <2>1. Others(p) /\ pc'[p] # "insert" /\ Unseen(p)'
    BY <1>3, <1>4 DEF Statuses
  <2> QED BY <1>2, <1>4, <2>1, UnseenStep
<1>5. ASSUME NEW i \in Ids, InsertRow(p, i), Others(p), pc'[p] # "insert", Unseen(p)'
      PROVE  RegistryStep /\ FreshInv'
  <2> DEFINE mint == [key |-> req[p].key, user |-> req[p].user, rate |-> req[p].rate]
  <2>1. minted[i] = None /\ minted' = [minted EXCEPT ![i] = mint]
    BY <1>5 DEF InsertRow
  <2>2. /\ req[p].rate \in {EffectiveRate(r) : r \in RateInputs}
        /\ ~\E j \in Ids : Registry!IssuedAs(j, req[p].key)
    BY <1>1 DEF FreshInv, Registry!IssuedAs
  <2>3. Verdict(p) = None /\ Verdict(p)' = None
    BY <1>1, <1>5 DEF Verdict, Unseen, Answered
  <2>4. [q \in Procs |-> Verdict(q)]' = [q \in Procs |-> Verdict(q)]
    BY <1>5, <2>3, VerdictStep
  <2>5. Registry!Issue(i, req[p].key, req[p].user, req[p].rate)
    BY <1>2, <2>1, <2>2, <2>4 DEF Registry!Issue
  <2>6. RegistryStep
    BY <1>1, <2>2, <2>5 DEF RegistryStep, Registry!Next
  <2>7. /\ \A j \in Ids : minted'[j] = IF j = i THEN mint ELSE minted[j]
        /\ mint.key = req[p].key
    BY <1>1, <2>1 DEF TypeOK
  <2> HIDE DEF mint
  <2>8. \A j \in Ids : minted'[j] # None => minted'[j].key \in drawn'
    BY <1>1, <1>2, <2>7 DEF FreshInv
  <2>9. \A q \in Procs : pc'[q] = "insert" =>
          q # p /\ pc[q] = "insert" /\ req'[q] = req[q] /\ req[q].key # req[p].key
    BY <1>1, <1>5 DEF FreshInv, Others
  <2>10. \A q \in Procs : pc'[q] = "insert" =>
          ~\E j \in Ids : minted'[j] # None /\ minted'[j].key = req'[q].key
    BY <2>7, <2>9 DEF FreshInv
  <2> QED BY <2>6, <2>8, <2>9, <2>10 DEF FreshInv
<1>6. ASSUME NEW i \in Ids, InsertRow(p, i), Goto(p, "fill"),
             req' = [req EXCEPT ![p].id = i, ![p].active = TRUE]
      PROVE  RegistryStep /\ FreshInv'
  <2>1. Others(p) /\ pc'[p] = "fill"
    BY <1>1, <1>6 DEF Goto, Others, TypeOK
  <2> QED BY <1>5, <1>6, <2>1 DEF Unseen, Answered
<1>7. ASSUME NEW i \in Ids, InsertRow(p, i), Finish(p, "500")
      PROVE  RegistryStep /\ FreshInv'
  BY <1>3, <1>5, <1>7 DEF Statuses
<1> QED BY <1>4, <1>6, <1>7 DEF Insert

(* The second SET ends in a 201 that delivers the key, or goes on. *)
LEMMA IndexRefines ==
    ASSUME IInv, FreshInv, NEW p \in Procs, Index(p)
    PROVE  RegistryStep /\ FreshInv'
<1>1. /\ TypeOK /\ req[p] \in Request /\ pc[p] = "index" /\ HoldsIdentity(p)
  BY DEF IInv, TypeOK, RequestInv, RequestOK, Index
<1>2. UNCHANGED <<minted, revokedAt, now, drawn>>
  BY DEF Index, history
<1>3. CASE Goto(p, "user") /\ UNCHANGED <<req, known>>
  <2>1. Others(p) /\ pc'[p] = "user"
    BY <1>1, <1>3, GotoFacts DEF Steps
  <2> QED BY <1>2, <1>3, <2>1, UnseenStep DEF Unseen, Answered
<1>4. CASE Finish(p, "201") /\ known' = known \cup {req[p].key}
  <2>1. Others(p) /\ pc'[p] = "idle" /\ req'[p].status = "201"
    BY <1>1, <1>4, FinishFacts DEF Statuses
  <2>2. Verdict(p) = None /\ Verdict(p)' = None
    BY <1>1, <2>1 DEF Verdict, Answered
  <2>3. [q \in Procs |-> Verdict(q)]' = [q \in Procs |-> Verdict(q)]
    BY <2>1, <2>2, VerdictStep
  <2>4. req[p].key \in Keys /\ \E i \in Ids : Registry!IssuedAs(i, req[p].key)
    BY <1>1 DEF HoldsIdentity, Registry!IssuedAs
  <2>5. Registry!Deliver(req[p].key)
    BY <1>2, <1>4, <2>3, <2>4 DEF Registry!Deliver
  <2>6. RegistryStep
    BY <2>4, <2>5 DEF RegistryStep, Registry!Next
  <2> QED BY <1>2, <2>1, <2>6, FreshFrame DEF Others
<1> QED BY <1>3, <1>4 DEF Index

(* Only the first deletion or deactivation of a key revokes it. *)
LEMMA RevocationRefines ==
    ASSUME IInv, FreshInv, NEW i \in Ids, apiKeys[i] # None, RecordRevocation(i),
           UNCHANGED <<minted, known, now, drawn>>,
           [q \in Procs |-> Verdict(q)]' = [q \in Procs |-> Verdict(q)],
           \A q \in Procs : pc'[q] = "insert" => pc[q] = "insert" /\ req'[q] = req[q]
    PROVE  RegistryStep /\ FreshInv'
<1>1. minted[i] # None /\ revokedAt \in [Ids -> Nat \cup {Never}]
  BY DEF IInv, TableInv, TypeOK
<1>2. revokedAt' = [revokedAt EXCEPT ![i] =
                      IF revokedAt[i] = Never THEN now ELSE revokedAt[i]]
  BY DEF RecordRevocation
<1>3. CASE revokedAt[i] = Never
  <2>1. Registry!Revoke(i)
    BY <1>1, <1>2, <1>3 DEF Registry!Revoke, Registry!Never
  <2> QED BY <2>1, FreshFrame DEF RegistryStep, Registry!Next
<1>4. CASE revokedAt[i] # Never
  <2>1. revokedAt' = revokedAt
    BY <1>1, <1>2, <1>4
  <2> QED BY <2>1, FreshFrame DEF RegistryStep, Registry!vars
<1> QED BY <1>3, <1>4

(* The DELETE of DeleteAPIKey, also when its answer is lost. *)
LEMMA DeleteRowRefines ==
    ASSUME IInv, FreshInv, NEW p \in Procs, DeleteRow(p)
    PROVE  RegistryStep /\ FreshInv'
<1>1. /\ TypeOK /\ req[p] \in Request /\ pc[p] = "delete" /\ req[p].op = "delete"
      /\ req[p].id \in Ids
  BY DEF IInv, TypeOK, RequestInv, RequestOK, DeleteRow
<1>2. UNCHANGED <<minted, known, now, drawn>>
  BY DEF DeleteRow
<1>3. Others(p) /\ pc'[p] \in {"findhash", "idle"} /\ req'[p].op = "delete"
  <2>1. CASE Goto(p, "findhash") /\ UNCHANGED req
    BY <1>1, <2>1, GotoFacts DEF Steps
  <2>2. CASE Finish(p, "500")
    BY <1>1, <2>2, FinishFacts DEF Statuses
  <2> QED BY <2>1, <2>2 DEF DeleteRow
<1>4. Unseen(p)' /\ pc'[p] # "insert"
  BY <1>3 DEF Unseen, Answered
<1>5. CASE UNCHANGED revokedAt
  BY <1>2, <1>3, <1>4, <1>5, UnseenStep
<1>6. CASE Owns(req[p].user, req[p].id) /\ RecordRevocation(req[p].id)
  <2>1. Verdict(p) = None /\ Verdict(p)' = None
    BY <1>1, <1>4 DEF Verdict, Unseen, Answered
  <2>2. [q \in Procs |-> Verdict(q)]' = [q \in Procs |-> Verdict(q)]
    BY <1>3, <2>1, VerdictStep
  <2> QED BY <1>1, <1>2, <1>3, <1>6, <2>2, RevocationRefines DEF Owns, Others
<1> QED BY <1>5, <1>6 DEF DeleteRow, RemoveRow

(* An operator's deactivation, and the clock. *)
LEMMA EnvironmentRefines ==
    ASSUME IInv, FreshInv, Tick \/ \E i \in Ids : Deactivate(i)
    PROVE  RegistryStep /\ FreshInv'
<1>1. UNCHANGED <<pc, req, minted, drawn, known>>
  BY DEF Tick, Deactivate, history
<1>2. [q \in Procs |-> Verdict(q)]' = [q \in Procs |-> Verdict(q)]
  BY <1>1 DEF Verdict, Answered
<1>3. CASE Tick
  <2>1. Registry!Tick
    BY <1>1, <1>2, <1>3 DEF Tick, history, Registry!Tick
  <2> QED BY <1>1, <2>1, FreshFrame DEF RegistryStep, Registry!Next
<1>4. ASSUME NEW i \in Ids, Deactivate(i) PROVE RegistryStep /\ FreshInv'
  BY <1>1, <1>2, <1>4, RevocationRefines DEF Deactivate
<1> QED BY <1>3, <1>4

(* Initially no key has been issued and no request has a verdict. *)
LEMMA InitRefines == Init => Registry!Init /\ FreshInv
<1> SUFFICES ASSUME Init PROVE Registry!Init /\ FreshInv
  OBVIOUS
<1>1. \A q \in Procs : Verdict(q) = None
  BY DEF Init, Verdict, Answered, NoRequest
<1>2. Registry!Init
  BY <1>1 DEF Init, Registry!Init, Registry!Never
<1>3. FreshInv
  BY DEF Init, FreshInv
<1> QED BY <1>2, <1>3

(* Every step of the requests, the clock and the operator is a step of the
   registry or one that the registry does not see. *)
LEMMA NextRefines ==
    ASSUME IInv, IInv', FreshInv, [Next]_vars PROVE RegistryStep /\ FreshInv'
<1>1. ASSUME NEW p \in Procs, ProcStep(p) PROVE RegistryStep /\ FreshInv'
  BY <1>1, CallsRefine, InsertRefines, IndexRefines, SelectRefines, LoadUserRefines,
     DeleteRowRefines DEF ProcStep
<1>2. ASSUME NEW p \in Procs, NEW u \in Users, NEW l \in Labels, NEW r \in RateInputs,
             StartCreate(p, u, l, r)
      PROVE  RegistryStep /\ FreshInv'
  BY <1>2, StartCreateRefines
<1>3. ASSUME NEW p \in Procs,
             \/ RejectRequest(p) \/ RandomKeyFails(p) \/ Crash(p)
             \/ \E k \in AllKeys : StartAuth(p, k)
             \/ \E u \in Users, i \in Ids : StartDelete(p, u, i)
      PROVE  RegistryStep /\ FreshInv'
  BY <1>3, StartsRefine
<1>4. CASE UNCHANGED vars
  <2>1. [q \in Procs |-> Verdict(q)]' = [q \in Procs |-> Verdict(q)]
    BY <1>4 DEF vars, Verdict, Answered
  <2> QED BY <1>4, <2>1, FreshFrame DEF vars, RegistryStep, Registry!vars
<1> QED BY <1>1, <1>2, <1>3, <1>4, EnvironmentRefines DEF Next

(* Table, cache and request goroutines implement KeyRegistry: seen through the
   verdicts of APIKeyAuth, every key is issued once, delivered, revoked once,
   honoured for TTL + 2 * ReqTimeout after that at most, and refused for cause. *)
THEOREM RegistryImplemented == Spec => ImplementsRegistry
<1>1. IInv /\ IInv' /\ FreshInv /\ [Next]_vars => RegistryStep /\ FreshInv'
  BY NextRefines
<1> QED BY <1>1, InitRefines, Inductive, PTL
        DEF Spec, ImplementsRegistry, Registry!Spec, RegistryStep
=============================================================================
