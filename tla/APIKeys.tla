------------------------------ MODULE APIKeys ------------------------------
(***************************************************************************)
(* API keys: the api_keys table, the Redis cache in front of it, and the   *)
(* three requests that touch them - POST /v1/apikeys, DELETE               *)
(* /v1/apikeys/{id} and the X-API-Key authentication of APIKeyAuth.        *)
(*                                                                         *)
(* Every SQL statement and every Redis command is one step, so requests    *)
(* served by different goroutines (or by the two replicas of               *)
(* deploy/stack.yml) interleave between them.  A call may fail, may take   *)
(* effect although its answer is lost, and fails once the request context  *)
(* is past its deadline; the process may die between any two steps.        *)
(***************************************************************************)
EXTENDS Integers

CONSTANTS
    Users,        \* owners of keys; rows of the users table, never deleted
    Labels,       \* key labels that pass validation
    Keys,         \* the plaintext keys crypto/rand can produce
    BogusKey,     \* a presented X-API-Key that the service never issued
    Ids,          \* values of the api_keys.id sequence
    RateInputs,   \* the rate_rpm a client may send; 0 when it sends none
    DefaultRate,  \* the rate_rpm used when the client sends none (100)
    Procs,        \* request goroutines
    TTL,          \* lifetime of a cache entry (one hour in main.go)
    ReqTimeout,   \* within which the calls of a request land (15s context
                  \*   of router.go, and the tail of a call in flight)
    MaxTime,      \* bound on the clock
    Faulty,       \* whether calls fail and processes die (TRUE or FALSE)
    None          \* SQL NULL, Redis nil, "not set"

AllKeys == Keys \cup {BogusKey}

(* SHA-256, collision free: an opaque value that determines its key. *)
HashAPIKey(key) == <<"sha256", key>>

Hashes == {HashAPIKey(k) : k \in AllKeys}

(* A row of api_keys; used stands for "last_used_at is not NULL". *)
Row == [user : Users, hash : Hashes, label : Labels, active : BOOLEAN,
        rate : Nat, used : BOOLEAN]

(* The JSON value stored under apikey:<hash>, with its expiry instant. *)
CachedKey == [id : Ids, user : Users, active : BOOLEAN, rate : Nat, exp : Nat]

(* The value stored under apikey_id:<id>, with its expiry instant. *)
CachedHash == [hash : Hashes, exp : Nat]

(* What was inserted under an id, for as long as the model runs. *)
Minted == [key : Keys, user : Users, rate : Nat]

(* revokedAt of a key that was neither deleted nor deactivated. *)
Never == -1

ASSUME ConstantsAssumption ==
    /\ TTL \in Nat /\ ReqTimeout \in Nat /\ MaxTime \in Nat
    /\ Faulty \in BOOLEAN
    /\ RateInputs \subseteq Nat /\ DefaultRate \in Nat
    /\ BogusKey \notin Keys

ASSUME NoneAssumption ==
    /\ None \notin Row /\ None \notin CachedKey /\ None \notin CachedHash
    /\ None \notin Minted /\ None \notin Ids /\ None \notin AllKeys
    /\ None \notin Users

VARIABLES
    apiKeys,    \* the api_keys table, by id
    byHash,     \* Redis apikey:<hash>
    byId,       \* Redis apikey_id:<id>
    pc,         \* the next call of each request goroutine
    req,        \* the local variables of each request goroutine
    drawn,      \* keys crypto/rand has returned
    known,      \* keys a client received in a 201
    minted,     \* history: what was inserted under each id
    revokedAt,  \* history: when each id was first deleted or deactivated
    now         \* wall clock

cache == <<byHash, byId>>
history == <<minted, revokedAt>>
vars == <<apiKeys, byHash, byId, pc, req, drawn, known, minted, revokedAt, now>>

Steps == {"idle", "insert", "lookup", "select", "fill", "index", "user",
          "touch", "delete", "findhash", "dropid", "drophash"}

Statuses == {"none", "pending", "rejected", "201", "204", "401", "409",
             "500", "admitted"}

Request == [op : {"none", "create", "auth", "delete"},
            user : Users \cup {None}, key : AllKeys \cup {None},
            label : Labels \cup {None}, id : Ids \cup {None},
            active : BOOLEAN, rate : Nat, hash : Hashes \cup {None},
            deadline : Nat, status : Statuses]

NoRequest ==
    [op |-> "none", user |-> None, key |-> None, label |-> None, id |-> None,
     active |-> FALSE, rate |-> 0, hash |-> None, deadline |-> 0,
     status |-> "none"]

Init ==
    /\ apiKeys = [i \in Ids |-> None]
    /\ byHash = [h \in Hashes |-> None]
    /\ byId = [i \in Ids |-> None]
    /\ pc = [p \in Procs |-> "idle"]
    /\ req = [p \in Procs |-> NoRequest]
    /\ drawn = {}
    /\ known = {}
    /\ minted = [i \in Ids |-> None]
    /\ revokedAt = [i \in Ids |-> Never]
    /\ now = 0

-----------------------------------------------------------------------------
(* Requests: start, move to the next call, answer.                         *)

NewRequest(op) ==
    [NoRequest EXCEPT !.op = op, !.deadline = now + ReqTimeout,
                      !.status = "pending"]

Start(p, step, r) ==
    /\ pc[p] = "idle"
    /\ pc' = [pc EXCEPT ![p] = step]
    /\ req' = [req EXCEPT ![p] = r]

Goto(p, step) == pc' = [pc EXCEPT ![p] = step]

(* The answer; the locals it does not depend on are gone with the request. *)
Finish(p, status) ==
    /\ pc' = [pc EXCEPT ![p] = "idle"]
    /\ req' = [req EXCEPT ![p].status = status, ![p].label = None,
                          ![p].hash = None, ![p].deadline = 0]

(* A call made after the deadline of its context fails at once. *)
CanCall(p) == now <= req[p].deadline

MayFail(p) == Faulty \/ ~CanCall(p)

(* Seeded fault: no rate is stored as "unlimited". *)
EffectiveRateUnlimited(r) == IF r > 0 THEN r ELSE -1

(* rate_rpm is optional: zero means "use the default". *)
EffectiveRate(r) == IF r > 0 THEN r ELSE DefaultRate

(* Early returns of the handlers, before any call: no identity (401), body
   too large (413) or malformed, validation failed, id that does not parse
   (400). *)
RejectRequest(p) ==
    /\ Start(p, "idle", [NoRequest EXCEPT !.status = "rejected"])
    /\ UNCHANGED <<apiKeys, cache, drawn, known, history, now>>

(* APIKeyHandler up to the repository call; crypto/rand never repeats. *)
StartCreate(p, u, l, r) ==
    /\ \E k \in Keys \ drawn :
         /\ Start(p, "insert", [NewRequest("create") EXCEPT
                                  !.user = u, !.label = l, !.key = k,
                                  !.rate = EffectiveRate(r)])
         /\ drawn' = drawn \cup {k}
    /\ UNCHANGED <<apiKeys, cache, known, history, now>>

(* generateRandomKey returns an error. *)
RandomKeyFails(p) ==
    /\ Faulty
    /\ Start(p, "idle", [NoRequest EXCEPT !.op = "create", !.status = "500"])
    /\ UNCHANGED <<apiKeys, cache, drawn, known, history, now>>

(* APIKeyAuth with a non-empty X-API-Key header. *)
StartAuth(p, k) ==
    /\ k \in known \cup {BogusKey}
    /\ Start(p, "lookup", [NewRequest("auth") EXCEPT !.key = k])
    /\ UNCHANGED <<apiKeys, cache, drawn, known, history, now>>

(* DeleteAPIKeyHandler: any user may name any id. *)
StartDelete(p, u, i) ==
    /\ Start(p, "delete", [NewRequest("delete") EXCEPT !.user = u, !.id = i])
    /\ UNCHANGED <<apiKeys, cache, drawn, known, history, now>>

-----------------------------------------------------------------------------
(* CreateAPIKey.                                                           *)

(* UNIQUE (user_id, label). *)
LabelTaken(u, l) ==
    \E i \in Ids : /\ apiKeys[i] # None
                   /\ apiKeys[i].user = u
                   /\ apiKeys[i].label = l

(* INSERT INTO api_keys: id from the sequence, active defaults to true. *)
InsertRow(p, i) ==
    /\ minted[i] = None
    /\ apiKeys' = [apiKeys EXCEPT ![i] =
                     [user |-> req[p].user, hash |-> HashAPIKey(req[p].key),
                      label |-> req[p].label, active |-> TRUE,
                      rate |-> req[p].rate, used |-> FALSE]]
    /\ minted' = [minted EXCEPT ![i] =
                    [key |-> req[p].key, user |-> req[p].user,
                     rate |-> req[p].rate]]

Insert(p) ==
    /\ pc[p] = "insert"
    /\ \/ /\ CanCall(p) /\ LabelTaken(req[p].user, req[p].label)
          /\ Finish(p, "409")
          /\ UNCHANGED <<apiKeys, minted>>
       \/ /\ CanCall(p) /\ ~LabelTaken(req[p].user, req[p].label)
          /\ \E i \in Ids :
               /\ InsertRow(p, i)
               /\ req' = [req EXCEPT ![p].id = i, ![p].active = TRUE]
          /\ Goto(p, "fill")
       \/ /\ MayFail(p)
          /\ Finish(p, "500")
          /\ UNCHANGED <<apiKeys, minted>>
       \/ /\ Faulty /\ CanCall(p) \* committed, but the answer is lost
          /\ ~LabelTaken(req[p].user, req[p].label)
          /\ \E i \in Ids : InsertRow(p, i)
          /\ Finish(p, "500")
    /\ UNCHANGED <<cache, drawn, known, revokedAt, now>>

-----------------------------------------------------------------------------
(* The two SETs that GetAPIKeyByHash and CreateAPIKey have in common.      *)

(* Seeded fault: the lifetime is applied twice. *)
ExpiryTwice == now + 2 * TTL

Expiry == now + TTL

(* Seeded fault: the cached value lacks the rate. *)
FillWithoutRate(p) ==
    /\ pc[p] = "fill"
    /\ \/ /\ CanCall(p)
          /\ byHash' = [byHash EXCEPT ![HashAPIKey(req[p].key)] =
                          [id |-> req[p].id, user |-> req[p].user,
                           active |-> req[p].active, rate |-> 0,
                           exp |-> Expiry]]
       \/ MayFail(p) /\ UNCHANGED byHash
    /\ Goto(p, "index")
    /\ UNCHANGED <<apiKeys, byId, req, drawn, known, history, now>>

(* SET apikey:<hash>; an error is ignored. *)
Fill(p) ==
    /\ pc[p] = "fill"
    /\ \/ /\ CanCall(p)
          /\ byHash' = [byHash EXCEPT ![HashAPIKey(req[p].key)] =
                          [id |-> req[p].id, user |-> req[p].user,
                           active |-> req[p].active, rate |-> req[p].rate,
                           exp |-> Expiry]]
       \/ MayFail(p) /\ UNCHANGED byHash
    /\ Goto(p, "index")
    /\ UNCHANGED <<apiKeys, byId, req, drawn, known, history, now>>

(* SET apikey_id:<id>, then 201 with the plaintext key or on with the
   authentication; an error is ignored. *)
Index(p) ==
    /\ pc[p] = "index"
    /\ \/ /\ CanCall(p)
          /\ byId' = [byId EXCEPT ![req[p].id] =
                        [hash |-> HashAPIKey(req[p].key), exp |-> Expiry]]
       \/ MayFail(p) /\ UNCHANGED byId
    /\ \/ /\ req[p].op = "create"
          /\ Finish(p, "201")
          /\ known' = known \cup {req[p].key}
       \/ /\ req[p].op = "auth"
          /\ Goto(p, "user")
          /\ UNCHANGED <<req, known>>
    /\ UNCHANGED <<apiKeys, byHash, drawn, history, now>>

-----------------------------------------------------------------------------
(* APIKeyAuth: GetAPIKeyByHash, the active check, GetUserByID and          *)
(* UpdateAPIKeyLastUsed.                                                   *)

(* GET apikey:<hash>; a miss and an error both fall through to SQL. *)
Lookup(p) ==
    LET c == byHash[HashAPIKey(req[p].key)] IN
    /\ pc[p] = "lookup"
    /\ \/ /\ CanCall(p) /\ c # None
          /\ req' = [req EXCEPT ![p].id = c.id, ![p].user = c.user,
                                ![p].active = c.active, ![p].rate = c.rate]
          /\ Goto(p, "user")
       \/ /\ c = None \/ MayFail(p)
          /\ Goto(p, "select")
          /\ UNCHANGED req
    /\ UNCHANGED <<apiKeys, cache, drawn, known, history, now>>

(* Seeded fault: any row will do. *)
MatchesAny(i, h) == apiKeys[i] # None

(* WHERE key_hash = $1 *)
Matches(i, h) == apiKeys[i] # None /\ apiKeys[i].hash = h

(* Seeded fault: every error is taken for sql.ErrNoRows. *)
SelectErrorIsNoRows(p) ==
    /\ pc[p] = "select"
    /\ \/ /\ CanCall(p)
          /\ \E i \in Ids :
               /\ Matches(i, HashAPIKey(req[p].key))
               /\ req' = [req EXCEPT ![p].id = i,
                                     ![p].user = apiKeys[i].user,
                                     ![p].active = apiKeys[i].active,
                                     ![p].rate = apiKeys[i].rate]
          /\ Goto(p, "fill")
       \/ Finish(p, "401")
    /\ UNCHANGED <<apiKeys, cache, drawn, known, history, now>>

(* SELECT ... FROM api_keys WHERE key_hash = $1. *)
Select(p) ==
    LET h == HashAPIKey(req[p].key) IN
    /\ pc[p] = "select"
    /\ \/ /\ CanCall(p)
          /\ \E i \in Ids :
               /\ Matches(i, h)
               /\ req' = [req EXCEPT ![p].id = i,
                                     ![p].user = apiKeys[i].user,
                                     ![p].active = apiKeys[i].active,
                                     ![p].rate = apiKeys[i].rate]
          /\ Goto(p, "fill")
       \/ /\ CanCall(p) /\ ~\E i \in Ids : Matches(i, h)
          /\ Finish(p, "401")
       \/ MayFail(p) /\ Finish(p, "500")
    /\ UNCHANGED <<apiKeys, cache, drawn, known, history, now>>

(* An inactive key is refused; otherwise load the owner's users row. *)
LoadUser(p) ==
    /\ pc[p] = "user"
    /\ \/ ~req[p].active /\ Finish(p, "401")
       \/ /\ req[p].active /\ CanCall(p)
          /\ Goto(p, "touch")
          /\ UNCHANGED req
       \/ req[p].active /\ MayFail(p) /\ Finish(p, "500")
    /\ UNCHANGED <<apiKeys, cache, drawn, known, history, now>>

(* UPDATE api_keys SET last_used_at; no row and an error are both ignored.
   The request goes on to its handler with the identity in its context. *)
Touch(p) ==
    /\ pc[p] = "touch"
    /\ \/ /\ CanCall(p) /\ apiKeys[req[p].id] # None
          /\ apiKeys' = [apiKeys EXCEPT ![req[p].id].used = TRUE]
       \/ /\ apiKeys[req[p].id] = None \/ MayFail(p)
          /\ UNCHANGED apiKeys
    /\ Finish(p, "admitted")
    /\ UNCHANGED <<cache, drawn, known, history, now>>

-----------------------------------------------------------------------------
(* DeleteAPIKey.                                                           *)

(* DELETE ... WHERE user_id = $1 AND id = $2. *)
Owns(u, i) == apiKeys[i] # None /\ apiKeys[i].user = u

RecordRevocation(i) ==
    revokedAt' = [revokedAt EXCEPT ![i] = IF @ = Never THEN now ELSE @]

RemoveRow(u, i) ==
    \/ /\ Owns(u, i)
       /\ apiKeys' = [apiKeys EXCEPT ![i] = None]
       /\ RecordRevocation(i)
    \/ /\ ~Owns(u, i)
       /\ UNCHANGED <<apiKeys, revokedAt>>

(* Deleting no row is a success; an error leaves the cache alone, although
   the row may be gone. *)
DeleteRow(p) ==
    /\ pc[p] = "delete"
    /\ \/ /\ CanCall(p)
          /\ RemoveRow(req[p].user, req[p].id)
          /\ Goto(p, "findhash")
          /\ UNCHANGED req
       \/ /\ MayFail(p)
          /\ UNCHANGED <<apiKeys, revokedAt>>
          /\ Finish(p, "500")
       \/ /\ Faulty /\ CanCall(p) \* deleted, but the answer is lost
          /\ RemoveRow(req[p].user, req[p].id)
          /\ Finish(p, "500")
    /\ UNCHANGED <<cache, drawn, known, minted, now>>

(* GET apikey_id:<id>; without it the cached key cannot be found. *)
FindHash(p) ==
    /\ pc[p] = "findhash"
    /\ \/ /\ CanCall(p) /\ byId[req[p].id] # None
          /\ req' = [req EXCEPT ![p].hash = byId[req[p].id].hash]
          /\ Goto(p, "dropid")
       \/ /\ byId[req[p].id] = None \/ MayFail(p)
          /\ Finish(p, "204")
    /\ UNCHANGED <<apiKeys, cache, drawn, known, history, now>>

(* DEL apikey_id:<id>; an error is ignored. *)
DropId(p) ==
    /\ pc[p] = "dropid"
    /\ \/ CanCall(p) /\ byId' = [byId EXCEPT ![req[p].id] = None]
       \/ MayFail(p) /\ UNCHANGED byId
    /\ Goto(p, "drophash")
    /\ UNCHANGED <<apiKeys, byHash, req, drawn, known, history, now>>

(* DEL apikey:<hash>, then 204; an error is ignored. *)
DropHash(p) ==
    /\ pc[p] = "drophash"
    /\ \/ CanCall(p) /\ byHash' = [byHash EXCEPT ![req[p].hash] = None]
       \/ MayFail(p) /\ UNCHANGED byHash
    /\ Finish(p, "204")
    /\ UNCHANGED <<apiKeys, byId, drawn, known, history, now>>

-----------------------------------------------------------------------------
(* The environment.                                                        *)

(* The process serving the request dies (or is killed after the shutdown
   grace period): nothing of the request is left but its effects. *)
Crash(p) ==
    /\ Faulty
    /\ pc[p] # "idle"
    /\ pc' = [pc EXCEPT ![p] = "idle"]
    /\ req' = [req EXCEPT ![p] = NoRequest]
    /\ UNCHANGED <<apiKeys, cache, drawn, known, history, now>>

(* An operator clears api_keys.active; no code of the service does. *)
Deactivate(i) ==
    /\ apiKeys[i] # None /\ apiKeys[i].active
    /\ apiKeys' = [apiKeys EXCEPT ![i].active = FALSE]
    /\ RecordRevocation(i)
    /\ UNCHANGED <<cache, pc, req, drawn, known, minted, now>>

(* Redis drops a key once the clock is past its expiry. *)
Live(e, t) == IF e # None /\ t > e.exp THEN None ELSE e

(* Without faults a request is answered before its deadline. *)
Tick ==
    /\ now < MaxTime
    /\ Faulty \/ \A p \in Procs : pc[p] # "idle" => now < req[p].deadline
    /\ now' = now + 1
    /\ byHash' = [h \in Hashes |-> Live(byHash[h], now')]
    /\ byId' = [i \in Ids |-> Live(byId[i], now')]
    /\ UNCHANGED <<apiKeys, pc, req, drawn, known, history>>

ProcStep(p) ==
    \/ Insert(p) \/ Fill(p) \/ Index(p)
    \/ Lookup(p) \/ Select(p) \/ LoadUser(p) \/ Touch(p)
    \/ DeleteRow(p) \/ FindHash(p) \/ DropId(p) \/ DropHash(p)

Next ==
    \/ \E p \in Procs :
         \/ RejectRequest(p)
         \/ \E u \in Users, l \in Labels, r \in RateInputs :
              StartCreate(p, u, l, r)
         \/ RandomKeyFails(p)
         \/ \E k \in AllKeys : StartAuth(p, k)
         \/ \E u \in Users, i \in Ids : StartDelete(p, u, i)
         \/ ProcStep(p)
         \/ Crash(p)
    \/ \E i \in Ids : Deactivate(i)
    \/ Tick

Spec == Init /\ [][Next]_vars
-----------------------------------------------------------------------------
(* Properties.                                                             *)

(* Rows, cache entries and the locals of the handlers are what the code
   declares them to be, and a client only ever receives a key that
   generateRandomKey returned. *)
TypeOK ==
    /\ apiKeys \in [Ids -> Row \cup {None}]
    /\ byHash \in [Hashes -> CachedKey \cup {None}]
    /\ byId \in [Ids -> CachedHash \cup {None}]
    /\ pc \in [Procs -> Steps]
    /\ req \in [Procs -> Request]
    /\ drawn \subseteq Keys
    /\ known \subseteq drawn
    /\ minted \in [Ids -> Minted \cup {None}]
    /\ revokedAt \in [Ids -> Nat \cup {Never}]
    /\ now \in Nat

Answered(p, op, status) ==
    pc[p] = "idle" /\ req[p].op = op /\ req[p].status = status

(* Whatever the cache, concurrent requests and lost answers did, a request
   admitted by APIKeyAuth carries the id, owner and rate that were inserted
   for exactly the key it presented. *)
AdmittedAsOwner ==
    \A p \in Procs :
        Answered(p, "auth", "admitted") =>
            /\ minted[req[p].id] # None
            /\ minted[req[p].id] = [key |-> req[p].key, user |-> req[p].user,
                                    rate |-> req[p].rate]

(* The cache forgets a revoked key: an entry that would still admit a deleted
   or deactivated key expires at the latest TTL after the deadline of a
   request that was running when the key was revoked - even when the
   invalidation of DeleteAPIKey failed, was skipped, or ran before a slow
   GetAPIKeyByHash wrote the entry back. *)
StaleEntriesDie ==
    \A h \in Hashes :
        LET c == byHash[h] IN
        (c # None /\ c.active /\ revokedAt[c.id] # Never) =>
            c.exp <= revokedAt[c.id] + ReqTimeout + TTL

(* From the clients' side: APIKeyAuth establishes no identity for a revoked
   key later than TTL plus two request lifetimes after its revocation. *)
RevocationTakesHold ==
    [][\A p \in Procs :
          (/\ pc[p] = "user" /\ pc'[p] = "touch"
           /\ revokedAt[req[p].id] # Never) =>
              now <= revokedAt[req[p].id] + TTL + 2 * ReqTimeout]_vars

RefusedForCause(p) ==
    (Answered(p, "auth", "401") /\ req[p].key \in known) =>
        \E i \in Ids : /\ minted[i] # None
                       /\ minted[i].key = req[p].key
                       /\ revokedAt[i] # Never

(* A client that received its key in a 201 is answered 401 only when the key
   has been deleted or deactivated: no fault of Redis or PostgreSQL and no
   interleaving turns a live key into an "invalid API key". *)
LiveKeyNeverRefused == \A p \in Procs : RefusedForCause(p)
-----------------------------------------------------------------------------
(* The inductive invariant behind the safety properties.                   *)

(* The request holds what was inserted for the key it is about. *)
HoldsIdentity(p) ==
    /\ req[p].id \in Ids /\ req[p].key \in Keys /\ req[p].user \in Users
    /\ minted[req[p].id] # None
    /\ minted[req[p].id] = [key |-> req[p].key, user |-> req[p].user,
                            rate |-> req[p].rate]

(* The deadline of the request is at most d after the revocation. *)
WithinGrace(p, d) ==
    /\ req[p].active => \/ revokedAt[req[p].id] = Never
                        \/ req[p].deadline <= revokedAt[req[p].id] + d
    /\ ~req[p].active => revokedAt[req[p].id] # Never

(* An id is either free, or its row agrees with what was inserted; the row
   is there and active exactly while the key is not revoked. *)
TableInv ==
    \A i \in Ids :
        /\ minted[i] = None => apiKeys[i] = None /\ revokedAt[i] = Never
        /\ minted[i] # None =>
             (revokedAt[i] = Never <=> apiKeys[i] # None /\ apiKeys[i].active)
        /\ apiKeys[i] # None =>
             /\ apiKeys[i].hash = HashAPIKey(minted[i].key)
             /\ apiKeys[i].user = minted[i].user
             /\ apiKeys[i].rate = minted[i].rate

KnownInv == \A k \in known : \E i \in Ids : minted[i] # None /\ minted[i].key = k

(* Cache entries agree with the row they were made from. *)
CacheInv ==
    /\ \A h \in Hashes :
        LET c == byHash[h] IN
        c # None =>
            /\ minted[c.id] # None /\ h = HashAPIKey(minted[c.id].key)
            /\ c.user = minted[c.id].user /\ c.rate = minted[c.id].rate
            /\ now <= c.exp /\ c.exp <= now + TTL
            /\ ~c.active => revokedAt[c.id] # Never
    /\ \A i \in Ids :
        byId[i] # None => /\ minted[i] # None
                          /\ byId[i].hash = HashAPIKey(minted[i].key)

(* What a request goroutine may rely on at each of its calls. *)
RequestOK(p) ==
    /\ req[p].deadline <= now + ReqTimeout
    /\ req[p].op = "auth" => req[p].key \in known \cup {BogusKey}
    /\ req[p].op = "create" /\ pc[p] # "idle" => req[p].key \in drawn
    /\ pc[p] = "insert" => /\ req[p].op = "create" /\ req[p].user \in Users
                           /\ req[p].key \in Keys /\ req[p].label \in Labels
    /\ pc[p] \in {"lookup", "select"} => req[p].op = "auth"
    /\ pc[p] \in {"fill", "index"} =>
         /\ req[p].op \in {"create", "auth"}
         /\ HoldsIdentity(p) /\ WithinGrace(p, ReqTimeout)
    /\ pc[p] = "user" =>
         /\ req[p].op = "auth"
         /\ HoldsIdentity(p) /\ WithinGrace(p, TTL + 2 * ReqTimeout)
    /\ pc[p] = "touch" => req[p].op = "auth" /\ HoldsIdentity(p)
    /\ pc[p] \in {"delete", "findhash", "dropid", "drophash"} =>
         req[p].op = "delete" /\ req[p].user \in Users /\ req[p].id \in Ids
    /\ pc[p] \in {"dropid", "drophash"} => req[p].hash \in Hashes
    /\ Answered(p, "auth", "admitted") => HoldsIdentity(p)

RequestInv == \A p \in Procs : RequestOK(p)

IInv == /\ TypeOK
        /\ TableInv
        /\ KnownInv
        /\ CacheInv
        /\ RequestInv
        /\ StaleEntriesDie
        /\ LiveKeyNeverRefused
=============================================================================
