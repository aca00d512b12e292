---------------------------- MODULE KeyRegistry ----------------------------
(***************************************************************************)
(* What API keys promise, without table, cache and calls: a key is issued  *)
(* under an id, handed to its client, and later revoked; whoever presents  *)
(* it is admitted as its owner, for the time of a request, until Grace     *)
(* after the revocation; a client is refused for a revoked key only.       *)
(*                                                                         *)
(* APIKeys implements it (APIKeysRegistry), and Service builds on it.      *)
(***************************************************************************)
EXTENDS Integers

CONSTANTS
    Users,       \* owners of keys
    Keys,        \* keys that can be issued
    BogusKey,    \* a key that is never issued
    Ids,         \* names under which keys are issued
    Rates,       \* requests per minute a key can be given
    Procs,       \* request goroutines
    ReqTimeout,  \* how long a verdict can be acted upon
    Grace,       \* how long after its revocation a key may be honoured
    None

VARIABLES
    minted,      \* what was issued under each id
    known,       \* the keys that clients hold
    revokedAt,   \* when each id was revoked
    verdict,     \* what each request was told about its key
    now

vars == <<minted, known, revokedAt, verdict, now>>

Never == -1

Admitted(i, t) ==
    [answer |-> "admitted", id |-> i, key |-> minted[i].key,
     user |-> minted[i].user, rate |-> minted[i].rate, until |-> t]

Refused(k) == [answer |-> "401", key |-> k]

Init ==
    /\ minted = [i \in Ids |-> None]
    /\ known = {}
    /\ revokedAt = [i \in Ids |-> Never]
    /\ verdict = [p \in Procs |-> None]
    /\ now = 0

IssuedAs(i, k) == minted[i] # None /\ minted[i].key = k

(* A key is issued once, under one id. *)
Issue(i, k, u, r) ==
    /\ minted[i] = None
    /\ ~\E j \in Ids : IssuedAs(j, k)
    /\ minted' = [minted EXCEPT ![i] = [key |-> k, user |-> u, rate |-> r]]
    /\ UNCHANGED <<known, revokedAt, verdict, now>>

(* The client learns a key that was issued; that may never happen. *)
Deliver(k) ==
    /\ \E i \in Ids : IssuedAs(i, k)
    /\ known' = known \cup {k}
    /\ UNCHANGED <<minted, revokedAt, verdict, now>>

Revoke(i) ==
    /\ minted[i] # None /\ revokedAt[i] = Never
    /\ revokedAt' = [revokedAt EXCEPT ![i] = now]
    /\ UNCHANGED <<minted, known, verdict, now>>

(* The holder of a key is admitted as its owner, and may act until t. *)
Admit(p, i, t) ==
    /\ verdict[p] = None
    /\ minted[i] # None /\ minted[i].key \in known
    /\ revokedAt[i] # Never => t <= revokedAt[i] + Grace
    /\ verdict' = [verdict EXCEPT ![p] = Admitted(i, t)]
    /\ UNCHANGED <<minted, known, revokedAt, now>>

(* Strangers are refused, and holders of a revoked key. *)
Refuse(p, k) ==
    /\ verdict[p] = None
    /\ k \in known => \E i \in Ids : IssuedAs(i, k) /\ revokedAt[i] # Never
    /\ verdict' = [verdict EXCEPT ![p] = Refused(k)]
    /\ UNCHANGED <<minted, known, revokedAt, now>>

(* The request is over. *)
Forget(p) ==
    /\ verdict[p] # None
    /\ verdict' = [verdict EXCEPT ![p] = None]
    /\ UNCHANGED <<minted, known, revokedAt, now>>

Tick ==
    /\ now' = now + 1
    /\ UNCHANGED <<minted, known, revokedAt, verdict>>

Next ==
    \/ \E i \in Ids, k \in Keys, u \in Users, r \in Rates : Issue(i, k, u, r)
    \/ \E k \in Keys : Deliver(k)
    \/ \E i \in Ids : Revoke(i)
    \/ \E p \in Procs :
         \/ \E i \in Ids, t \in now .. now + ReqTimeout : Admit(p, i, t)
         \/ \E k \in Keys \cup {BogusKey} : Refuse(p, k)
         \/ Forget(p)
    \/ Tick

Spec == Init /\ [][Next]_vars
=============================================================================
