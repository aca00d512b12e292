------------------------------- MODULE Router -------------------------------
(***************************************************************************)
(* NewRouter: which middleware a request of each route passes, in which    *)
(* order, and the identity it has when it reaches the limiter and the      *)
(* handler.  A middleware answers the request itself or hands it on.       *)
(***************************************************************************)
EXTENDS Sequences

CONSTANTS
    KeyOwner,   \* the user the presented API key belongs to
    TokenUser,  \* the user_id claim of the presented JWT
    None        \* no identity

ASSUME UsersAssumption ==
    /\ KeyOwner # TokenUser
    /\ None \notin [user : {KeyOwner, TokenUser}, byKey : BOOLEAN]

(* The X-API-Key header: absent, or a key that is unknown, inactive, active. *)
KeyHeaders == {"absent", "unknown", "inactive", "active"}

(* The Authorization header: absent, not of the form "Bearer <token>", a
   token that fails verification, one without a user_id number, a good one. *)
TokenHeaders == {"absent", "malformed", "invalid", "noclaim", "valid"}

VARIABLES
    route,     \* the route of the request
    headers,   \* its credentials
    todo,      \* the middleware and the handler still to run
    identity,  \* the Identity in the context: [user, byKey], or None
    limited,   \* the identities the limiter counted the request for
    outcome    \* how the request was answered

vars == <<route, headers, todo, identity, limited, outcome>>

(* AuthEither *)
VendorAuth == <<"APIKeyAuth", "JWTAuth", "finalAuthCheck">>

Routes == {"sign-up", "sign-in", "me", "list", "create", "delete", "ping",
           "models", "predict", "fraud"}

Public == {"sign-up", "sign-in"}

KeyRoutes == {"list", "create", "delete"}

LimitedRoutes == {"models", "predict", "fraud"}

(* Seeded fault: /inference/predict without its limiter. *)
ChainOfUnlimited(r) ==
    CASE r \in Public -> <<"handler">>
      [] r \in KeyRoutes \cup {"me"} -> <<"JWTAuth", "handler">>
      [] r = "ping" -> VendorAuth \o <<"handler">>
      [] r = "models" -> VendorAuth \o <<"RateLimiter", "handler">>
      [] r = "predict" -> VendorAuth \o <<"JWTAuth", "handler">>
      [] r = "fraud" -> <<"APIKeyAuth", "RateLimiter", "handler">>

(* Seeded fault: the key routes accept either credential. *)
ChainOfKeysByKey(r) ==
    CASE r \in Public -> <<"handler">>
      [] r \in KeyRoutes \cup {"me", "ping"} -> VendorAuth \o <<"handler">>
      [] r = "models" -> VendorAuth \o <<"RateLimiter", "handler">>
      [] r = "predict" -> VendorAuth \o <<"RateLimiter", "JWTAuth", "handler">>
      [] r = "fraud" -> <<"APIKeyAuth", "RateLimiter", "handler">>

(* The routes under /v1. *)
ChainOf(r) ==
    CASE r \in Public -> <<"handler">>
      [] r \in KeyRoutes \cup {"me"} -> <<"JWTAuth", "handler">>
      [] r = "ping" -> VendorAuth \o <<"handler">>
      [] r = "models" -> VendorAuth \o <<"RateLimiter", "handler">>
      [] r = "predict" -> VendorAuth \o <<"RateLimiter", "JWTAuth", "handler">>
      [] r = "fraud" -> <<"APIKeyAuth", "RateLimiter", "handler">>

Init ==
    /\ route \in Routes
    /\ headers \in [key : KeyHeaders, token : TokenHeaders]
    /\ todo = ChainOf(route)
    /\ identity = None
    /\ limited = <<>>
    /\ outcome = "pending"

-----------------------------------------------------------------------------
(* The middleware.                                                         *)

AtMiddleware(m) == todo # <<>> /\ Head(todo) = m

(* next.ServeHTTP *)
HandOn(i) ==
    /\ todo' = Tail(todo)
    /\ identity' = i
    /\ UNCHANGED outcome

(* response.RespondWithError, and return *)
Answer(status) ==
    /\ todo' = <<>>
    /\ outcome' = status
    /\ UNCHANGED identity

(* Without a key: hand on.  Otherwise 401, 500 when a call fails, or the
   identity of the key's owner. *)
APIKeyAuth ==
    /\ AtMiddleware("APIKeyAuth")
    /\ \/ headers.key = "absent" /\ HandOn(identity)
       \/ headers.key \in {"unknown", "inactive"} /\ Answer("401")
       \/ headers.key = "active" /\ HandOn([user |-> KeyOwner, byKey |-> TRUE])
       \/ headers.key # "absent" /\ Answer("500")
    /\ UNCHANGED <<route, headers, limited>>

(* Seeded fault: the token replaces the identity there is. *)
JWTAuthReplaces ==
    /\ AtMiddleware("JWTAuth")
    /\ \/ headers.token \in {"absent", "malformed"} /\ HandOn(identity)
       \/ headers.token \in {"invalid", "noclaim"} /\ Answer("401")
       \/ headers.token = "valid" /\ HandOn([user |-> TokenUser, byKey |-> FALSE])
    /\ UNCHANGED <<route, headers, limited>>

(* With an identity, or without a bearer token: hand on.  Otherwise 401, 500
   when the user cannot be loaded, or the identity of the token's user. *)
JWTAuth ==
    /\ AtMiddleware("JWTAuth")
    /\ \/ /\ identity # None \/ headers.token \in {"absent", "malformed"}
          /\ HandOn(identity)
       \/ /\ identity = None /\ headers.token \in {"invalid", "noclaim"}
          /\ Answer("401")
       \/ /\ identity = None /\ headers.token = "valid"
          /\ HandOn([user |-> TokenUser, byKey |-> FALSE]) \/ Answer("500")
    /\ UNCHANGED <<route, headers, limited>>

finalAuthCheck ==
    /\ AtMiddleware("finalAuthCheck")
    /\ \/ identity # None /\ HandOn(identity)
       \/ identity = None /\ Answer("401")
    /\ UNCHANGED <<route, headers, limited>>

(* Counted for the identity in the context; passed on, over the limit (429)
   or failed (500). *)
RateLimiter ==
    /\ AtMiddleware("RateLimiter")
    /\ \/ identity = None /\ Answer("no identity") /\ UNCHANGED limited
       \/ /\ identity # None
          /\ limited' = Append(limited, identity)
          /\ HandOn(identity) \/ Answer("429") \/ Answer("500")
    /\ UNCHANGED <<route, headers>>

(* Every handler but the public ones begins with IdentityFrom. *)
Handler ==
    /\ AtMiddleware("handler")
    /\ \/ route \in Public /\ Answer("served")
       \/ route \notin Public /\ identity # None /\ Answer("served")
       \/ route \notin Public /\ identity = None /\ Answer("401")
    /\ UNCHANGED <<route, headers, limited>>

Next == APIKeyAuth \/ JWTAuth \/ finalAuthCheck \/ RateLimiter \/ Handler

Spec == Init /\ [][Next]_vars
-----------------------------------------------------------------------------
(* Properties.                                                             *)

Served(routes) == outcome = "served" /\ route \in routes

(* A handler that needs an identity runs for the user whose credential the
   request proved: the owner of the API key wherever a key is looked at, even
   when the request carries another user's token; otherwise the user of a
   verified token. *)
ServedAsProved ==
    Served(Routes \ Public) =>
        \/ /\ identity = [user |-> KeyOwner, byKey |-> TRUE]
           /\ headers.key = "active"
        \/ /\ identity = [user |-> TokenUser, byKey |-> FALSE]
           /\ headers.token = "valid"
           /\ route \in KeyRoutes \cup {"me"} \/ headers.key = "absent"

(* An API key cannot list, create or delete API keys. *)
KeysManagedByUsersOnly == Served(KeyRoutes) => headers.token = "valid"

(* The handlers that call the vendor's models run only for requests that the
   limiter counted exactly once, and for the identity the handler sees: the
   second JWTAuth of /inference/predict changes nothing after the count. *)
CountedOnceAsServed == Served(LimitedRoutes) => limited = <<identity>>

(* The limiter always finds an identity in the context. *)
LimiterHasIdentity == outcome # "no identity"
=============================================================================
