------------------------------ MODULE Predict ------------------------------
(***************************************************************************)
(* PredictHandler: from the body of the request over the call of the       *)
(* vendor to the row in inference_logs and the answer.                     *)
(*                                                                         *)
(* The API key of a request can be deleted at any time before the row is   *)
(* written (or was, when the key was found in the cache), the context can  *)
(* end at any time (client gone, 15s over), and the statement can fail.    *)
(***************************************************************************)
EXTENDS Integers

CONSTANTS
    KeyIds,       \* ids of API keys that were created
    Amounts,      \* the amounts clients send, in units of 1/Unit
    Precision,    \* significant bits of a float (53 in a float64)
    MaxExp,       \* bound on the exponent of an amount
    Procs,        \* request goroutines
    MaxRequests,  \* bound on the requests
    Faulty,       \* whether calls fail and processes die
    None          \* NULL, nil

-----------------------------------------------------------------------------
(* Amounts: floating-point numbers with Precision bits, of either sign.    *)

(* 1/2, 1 and 0.01, in units in which these and all floats from 1/2 on are
   integers.  Smaller amounts are never computed with: any number of units
   stands for one. *)
Half == 25 * 2^(Precision - 1)

Unit == 2 * Half

Cent == Unit \div 100

Magnitude(v) == IF v < 0 THEN -v ELSE v

(* The distance of neighbouring floats at v, from 1/2 on. *)
Ulp(v) ==
    LET e == CHOOSE e \in 0..MaxExp :
               Half * 2^e <= Magnitude(v) /\ Magnitude(v) < Half * 2^(e + 1)
    IN  25 * 2^e

Float(v) == Magnitude(v) >= Half => Magnitude(v) % Ulp(v) = 0

(* Round to nearest.  A whole amount and a cent make no tie: 25 divides every
   ulp, and not a cent. *)
Round(x) ==
    LET y == ((Magnitude(x) + (Ulp(x) \div 2)) \div Ulp(x)) * Ulp(x)
    IN  IF x < 0 THEN -y ELSE y

IsWhole(v) == Magnitude(v) % Unit = 0

(* Seeded fault: one is added instead of 0.01. *)
ensureDecimalByOne(v) == IF IsWhole(v) THEN v + Unit ELSE v

(* v == float64(int64(v)), then v + 0.01.  Where int64(v) overflows, 0.01 is
   too small to change v either way.  A negative amount moves towards zero. *)
ensureDecimal(v) == IF IsWhole(v) THEN Round(v + Cent) ELSE v

-----------------------------------------------------------------------------

(* What the handler can tell of a body: longer than 1MB, cut off before the
   JSON ends, no JSON, JSON of the wrong types, JSON that does not validate,
   or a valid request with its amount, which may have the character U+0000 in
   merchant_type or device_type. *)
BadKinds == {"too large", "cut off", "no json", "wrong types", "invalid"}

ValidKinds == {"valid", "nul"}

Body == [kind : BadKinds, amount : {0}] \cup [kind : ValidKinds, amount : Int]

Bodies == [kind : BadKinds, amount : {0}] \cup [kind : ValidKinds, amount : Amounts]

Statuses == {"none", "pending", "200", "400", "413", "502"}

(* A row of inference_logs; no and by are history: the number of the request
   and the key it came with. *)
Log == [no : Nat, by : KeyIds \cup {None}, key : KeyIds \cup {None},
        payload : Body, response : BOOLEAN, error : BOOLEAN]

ASSUME ConstantsAssumption ==
    /\ MaxRequests \in Nat /\ Faulty \in BOOLEAN
    /\ None \notin KeyIds /\ None \notin Body
    /\ Precision \in Nat /\ Precision > 5 /\ MaxExp \in Nat
    /\ \A v \in Amounts : /\ v \in Int /\ v # 0 /\ Float(v)
                          /\ Magnitude(v) <= Half * 2^MaxExp

(* Arithmetic, by name for the proofs: the provers do not know it. *)
ASSUME PowersOfTwo ==
    2^0 = 1 /\ \A n \in 0..(Precision + MaxExp) : 2^(n + 1) = 2 * 2^n

VARIABLES
    apiKeys,  \* the ids that are in api_keys
    logs,     \* inference_logs
    pc,       \* the next call of each request goroutine
    req,      \* the local variables of each request goroutine
    sent,     \* how many requests there have been
    vendor    \* history: which amount the vendor got for which request

vars == <<apiKeys, logs, pc, req, sent, vendor>>

Request == [no : Nat, key : KeyIds \cup {None}, body : Body \cup {None},
            ctx : BOOLEAN, payload : Body \cup {None}, response : BOOLEAN,
            status : Statuses, dbFailed : BOOLEAN]

Receipt == [no : Nat, asked : Int, amount : Int]

NoRequest == [no |-> 0, key |-> None, body |-> None, ctx |-> FALSE,
              payload |-> None, response |-> FALSE, status |-> "none",
              dbFailed |-> FALSE]

Init ==
    /\ apiKeys = KeyIds
    /\ logs = {}
    /\ pc = [p \in Procs |-> "idle"]
    /\ req = [p \in Procs |-> NoRequest]
    /\ sent = 0
    /\ vendor = {}

-----------------------------------------------------------------------------
(* The handler.                                                            *)

(* A request with an identity: that of a JWT, or of an API key, which may
   have been admitted from the cache after it was deleted. *)
Start(p, k, b) ==
    /\ pc[p] = "idle" /\ sent < MaxRequests
    /\ sent' = sent + 1
    /\ pc' = [pc EXCEPT ![p] = "body"]
    /\ req' = [req EXCEPT ![p] = [NoRequest EXCEPT !.no = sent', !.key = k,
                                     !.body = b, !.ctx = TRUE,
                                     !.status = "pending"]]
    /\ UNCHANGED <<apiKeys, logs, vendor>>

(* What is to be logged, and the answer that follows. *)
ToLog(p, payload, response, status) ==
    /\ pc' = [pc EXCEPT ![p] = "log"]
    /\ req' = [req EXCEPT ![p].payload = payload, ![p].response = response,
                          ![p].status = status]

(* io.ReadAll, json.Unmarshal and validation. *)
ReadBody(p) ==
    LET b == req[p].body IN
    /\ pc[p] = "body"
    /\ \/ b.kind = "too large" /\ ToLog(p, None, FALSE, "413")
       \/ /\ b.kind \in BadKinds \ {"too large"}
          /\ ToLog(p, b, FALSE, "400")
       \/ /\ b.kind \in ValidKinds
          /\ pc' = [pc EXCEPT ![p] = "predict"]
          /\ UNCHANGED req
    /\ UNCHANGED <<apiKeys, logs, sent, vendor>>

(* Seeded fault: the features are logged as they came. *)
LoggedFeaturesAsked(b) == b

(* maskSensitiveData(serviceReq.Features): no feature has one of the names it
   masks, and the map is the one that ensureDecimal changed. *)
LoggedFeatures(b) == [b EXCEPT !.amount = ensureDecimal(@)]

(* vendorSvc.Predict.  A call that failed may have reached the vendor. *)
CallVendor(p) ==
    LET b == req[p].body IN
    /\ pc[p] = "predict"
    /\ \/ /\ req[p].ctx
          /\ vendor' = vendor \cup
               {[no |-> req[p].no, asked |-> b.amount,
                 amount |-> ensureDecimal(b.amount)]}
          /\ \/ ToLog(p, LoggedFeatures(b), TRUE, "200")
             \/ ToLog(p, LoggedFeatures(b), FALSE, "502")
       \/ /\ ToLog(p, LoggedFeatures(b), FALSE, "502")
          /\ UNCHANGED vendor
    /\ UNCHANGED <<apiKeys, logs, sent>>

(* Seeded fault: the column takes anything. *)
StorableAlways(payload) == TRUE

(* request_payload is JSONB NOT NULL, and JSONB has no U+0000. *)
Storable(payload) ==
    payload # None /\ payload.kind \notin {"cut off", "no json", "nul"}

(* Seeded fault: the column is NOT NULL. *)
KeyExistsAlways(k) == k \in apiKeys

(* api_key_id REFERENCES api_keys; NULL for a JWT. *)
KeyExists(k) == k = None \/ k \in apiKeys

InsertLog(p) ==
    /\ req[p].ctx /\ Storable(req[p].payload) /\ KeyExists(req[p].key)
    /\ logs' = logs \cup
         {[no |-> req[p].no, by |-> req[p].key, key |-> req[p].key, payload |-> req[p].payload,
           response |-> req[p].response, error |-> req[p].status # "200"]}

(* saveInferenceLog: an error is only logged.  dbFailed is history: the
   statement failed in the database and not for one of the reasons below. *)
SaveLog(p) ==
    /\ pc[p] = "log"
    /\ \/ InsertLog(p) /\ UNCHANGED req
       \/ /\ \/ ~req[p].ctx
             \/ ~Storable(req[p].payload)
             \/ ~KeyExists(req[p].key)
          /\ UNCHANGED <<logs, req>>
       \/ /\ Faulty
          /\ req' = [req EXCEPT ![p].dbFailed = TRUE]
          /\ UNCHANGED logs
    /\ pc' = [pc EXCEPT ![p] = "idle"]
    /\ UNCHANGED <<apiKeys, sent, vendor>>

-----------------------------------------------------------------------------
(* The rest of the system.                                                 *)

(* Seeded fault: the reference is left dangling. *)
DeleteKeyOnly(k) ==
    /\ k \in apiKeys
    /\ apiKeys' = apiKeys \ {k}
    /\ UNCHANGED <<logs, pc, req, sent, vendor>>

(* DELETE FROM api_keys, with ON DELETE SET NULL. *)
DeleteKey(k) ==
    /\ k \in apiKeys
    /\ apiKeys' = apiKeys \ {k}
    /\ logs' = {IF l.key = k THEN [l EXCEPT !.key = None] ELSE l : l \in logs}
    /\ UNCHANGED <<pc, req, sent, vendor>>

(* The client goes away, or the 15 seconds are over. *)
ContextEnds(p) ==
    /\ pc[p] # "idle" /\ req[p].ctx
    /\ req' = [req EXCEPT ![p].ctx = FALSE]
    /\ UNCHANGED <<apiKeys, logs, pc, sent, vendor>>

(* The process serving the request dies. *)
Crash(p) ==
    /\ Faulty /\ pc[p] # "idle"
    /\ pc' = [pc EXCEPT ![p] = "idle"]
    /\ req' = [req EXCEPT ![p] = NoRequest]
    /\ UNCHANGED <<apiKeys, logs, sent, vendor>>

Next ==
    \/ \E p \in Procs :
         \/ \E k \in KeyIds \cup {None}, b \in Bodies : Start(p, k, b)
         \/ ReadBody(p) \/ CallVendor(p) \/ SaveLog(p)
         \/ ContextEnds(p) \/ Crash(p)
    \/ \E k \in KeyIds : DeleteKey(k)

Spec == Init /\ [][Next]_vars
-----------------------------------------------------------------------------
(* Properties.                                                             *)

(* The rows, the locals of the handler and what the vendor gets are what the
   code declares them to be; in particular a row always has a payload. *)
TypeOK ==
    /\ apiKeys \subseteq KeyIds
    /\ logs \in SUBSET Log
    /\ pc \in [Procs -> {"idle", "body", "predict", "log"}]
    /\ req \in [Procs -> Request]
    /\ sent \in Nat
    /\ vendor \in SUBSET Receipt

(* A row names the API key of its request for as long as there is such a key,
   and no key afterwards, whether the key is deleted before, during or after
   the request. *)
LogNamesItsKey ==
    \A l \in logs : l.key = IF l.by \in apiKeys THEN l.by ELSE None

(* The amount in the row is the amount that the vendor scored. *)
LoggedAsScored ==
    \A l \in logs, v \in vendor : l.no = v.no => l.payload.amount = v.amount

(* Unless the database fails, a prediction that was answered 200 has a row
   that says so - or its API key was deleted, its context ended, or a feature
   holds a U+0000. *)
ServedIsLogged ==
    \A p \in Procs :
        (pc[p] = "idle" /\ req[p].status = "200") =>
            \/ \E l \in logs : l.no = req[p].no /\ l.response /\ ~l.error
            \/ req[p].dbFailed
            \/ ~req[p].ctx
            \/ req[p].key \in KeyIds \ apiKeys
            \/ req[p].body.kind = "nul"

(* ensureDecimal never lowers an amount and never raises it by more than two
   cents. *)
AmountWithinTwoCents ==
    \A v \in vendor : v.amount >= v.asked /\ v.amount - v.asked <= 2 * Cent

(* The amounts the vendor gets have a decimal part, up to the amount from
   which on a float has no room for a cent (2^47 in a float64): ensureDecimal
   is not undone by the rounding of the addition. *)
AmountHasDecimals ==
    \A v \in vendor :
        Magnitude(v.asked) < Unit * 2^(Precision - 6) => ~IsWhole(v.amount)
=============================================================================
