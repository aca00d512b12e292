---------------------------- MODULE RouterProofs ----------------------------
(***************************************************************************)
(* The safety properties of Router hold whoever the users are.             *)
(***************************************************************************)
EXTENDS Router, Integers, SequenceTheorems, TLAPS

USE UsersAssumption

(* The identities that APIKeyAuth and JWTAuth put into the context. *)
OwnerOfKey == [user |-> KeyOwner, byKey |-> TRUE]

UserOfToken == [user |-> TokenUser, byKey |-> FALSE]

(* Routes on which an API key is looked at, first of all. *)
VendorRoutes == {"ping", "models", "predict", "fraud"}

(* What can be left of a chain. *)
ToHandler == <<"handler">>
ToUser == <<"JWTAuth", "handler">>

Left(r) ==
    CASE r \in Public -> {ToHandler, <<>>}
      [] r \in KeyRoutes \cup {"me"} -> {ToUser, ToHandler, <<>>}
      [] r = "ping" ->
           {<<"APIKeyAuth", "JWTAuth", "finalAuthCheck", "handler">>,
            <<"JWTAuth", "finalAuthCheck", "handler">>,
            <<"finalAuthCheck", "handler">>, ToHandler, <<>>}
      [] r = "models" ->
           {<<"APIKeyAuth", "JWTAuth", "finalAuthCheck", "RateLimiter", "handler">>,
            <<"JWTAuth", "finalAuthCheck", "RateLimiter", "handler">>,
            <<"finalAuthCheck", "RateLimiter", "handler">>,
            <<"RateLimiter", "handler">>, ToHandler, <<>>}
      [] r = "predict" ->
           {<<"APIKeyAuth", "JWTAuth", "finalAuthCheck", "RateLimiter", "JWTAuth", "handler">>,
            <<"JWTAuth", "finalAuthCheck", "RateLimiter", "JWTAuth", "handler">>,
            <<"finalAuthCheck", "RateLimiter", "JWTAuth", "handler">>,
            <<"RateLimiter", "JWTAuth", "handler">>, ToUser, ToHandler, <<>>}
      [] r = "fraud" ->
           {<<"APIKeyAuth", "RateLimiter", "handler">>, <<"RateLimiter", "handler">>,
            ToHandler, <<>>}

-----------------------------------------------------------------------------
(* The chains.                                                             *)

(* Three middleware followed by one more, written out. *)
LEMMA Join1 ==
    ASSUME NEW S, NEW a \in S, NEW b \in S, NEW c \in S, NEW d \in S
    PROVE  <<a, b, c>> \o <<d>> = <<a, b, c, d>>
<1> DEFINE s == <<a, b, c>> \o <<d>>
           t == <<a, b, c, d>>
<1>1. <<a, b, c>> \in Seq(S) /\ <<d>> \in Seq(S) /\ t \in Seq(S)
  OBVIOUS
<1>2. /\ s \in Seq(S) /\ Len(s) = 4
      /\ \A i \in 1..4 : s[i] = IF i <= 3 THEN <<a, b, c>>[i] ELSE <<d>>[i - 3]
  BY <1>1, ConcatProperties
<1>3. s[1] = a /\ s[2] = b /\ s[3] = c /\ s[4] = d
  BY <1>2
<1>4. t[1] = a /\ t[2] = b /\ t[3] = c /\ t[4] = d
      /\ Len(t) = 4
  OBVIOUS
<1>5. \A i \in 1..4 : s[i] = t[i]
  <2>1. \A i \in 1..4 : i = 1 \/ i = 2 \/ i = 3 \/ i = 4
    OBVIOUS
  <2> HIDE DEF s, t
  <2> QED BY <1>3, <1>4, <2>1
<1> HIDE DEF s, t
<1> QED BY <1>1, <1>2, <1>4, <1>5, SeqEqual DEF s, t

(* The same for two. *)
LEMMA Join2 ==
    ASSUME NEW S, NEW a \in S, NEW b \in S, NEW c \in S, NEW d \in S, NEW e \in S
    PROVE  <<a, b, c>> \o <<d, e>> = <<a, b, c, d, e>>
<1> DEFINE s == <<a, b, c>> \o <<d, e>>
           t == <<a, b, c, d, e>>
<1>1. <<a, b, c>> \in Seq(S) /\ <<d, e>> \in Seq(S) /\ t \in Seq(S)
  OBVIOUS
<1>2. /\ s \in Seq(S) /\ Len(s) = 5
      /\ \A i \in 1..5 : s[i] = IF i <= 3 THEN <<a, b, c>>[i] ELSE <<d, e>>[i - 3]
  BY <1>1, ConcatProperties
<1>3. s[1] = a /\ s[2] = b /\ s[3] = c /\ s[4] = d /\ s[5] = e
  BY <1>2
<1>4. t[1] = a /\ t[2] = b /\ t[3] = c /\ t[4] = d /\ t[5] = e
      /\ Len(t) = 5
  OBVIOUS
<1>5. \A i \in 1..5 : s[i] = t[i]
  <2>1. \A i \in 1..5 : i = 1 \/ i = 2 \/ i = 3 \/ i = 4 \/ i = 5
    OBVIOUS
  <2> HIDE DEF s, t
  <2> QED BY <1>3, <1>4, <2>1
<1> HIDE DEF s, t
<1> QED BY <1>1, <1>2, <1>4, <1>5, SeqEqual DEF s, t

(* The same for three. *)
LEMMA Join3 ==
    ASSUME NEW S, NEW a \in S, NEW b \in S, NEW c \in S, NEW d \in S, NEW e \in S, NEW f \in S
    PROVE  <<a, b, c>> \o <<d, e, f>> = <<a, b, c, d, e, f>>
<1> DEFINE s == <<a, b, c>> \o <<d, e, f>>
           t == <<a, b, c, d, e, f>>
<1>1. <<a, b, c>> \in Seq(S) /\ <<d, e, f>> \in Seq(S) /\ t \in Seq(S)
  OBVIOUS
<1>2. /\ s \in Seq(S) /\ Len(s) = 6
      /\ \A i \in 1..6 : s[i] = IF i <= 3 THEN <<a, b, c>>[i] ELSE <<d, e, f>>[i - 3]
  BY <1>1, ConcatProperties
<1>3. s[1] = a /\ s[2] = b /\ s[3] = c /\ s[4] = d /\ s[5] = e /\ s[6] = f
  BY <1>2
<1>4. t[1] = a /\ t[2] = b /\ t[3] = c /\ t[4] = d /\ t[5] = e /\ t[6] = f
      /\ Len(t) = 6
  OBVIOUS
<1>5. \A i \in 1..6 : s[i] = t[i]
  <2>1. \A i \in 1..6 : i = 1 \/ i = 2 \/ i = 3 \/ i = 4 \/ i = 5 \/ i = 6
    OBVIOUS
  <2> HIDE DEF s, t
  <2> QED BY <1>3, <1>4, <2>1
<1> HIDE DEF s, t
<1> QED BY <1>1, <1>2, <1>4, <1>5, SeqEqual DEF s, t

(* The chains of NewRouter, middleware by middleware. *)
LEMMA Chains ==
    /\ \A r \in Public : ChainOf(r) = ToHandler
    /\ \A r \in KeyRoutes \cup {"me"} : ChainOf(r) = ToUser
    /\ ChainOf("ping") = <<"APIKeyAuth", "JWTAuth", "finalAuthCheck", "handler">>
    /\ ChainOf("models") =
         <<"APIKeyAuth", "JWTAuth", "finalAuthCheck", "RateLimiter", "handler">>
    /\ ChainOf("predict") =
         <<"APIKeyAuth", "JWTAuth", "finalAuthCheck", "RateLimiter", "JWTAuth", "handler">>
    /\ ChainOf("fraud") = <<"APIKeyAuth", "RateLimiter", "handler">>
<1>1. \A r \in Public : ChainOf(r) = <<"handler">>
  BY DEF ChainOf, Public, KeyRoutes
<1>2. \A r \in KeyRoutes \cup {"me"} : ChainOf(r) = <<"JWTAuth", "handler">>
  BY DEF ChainOf, Public, KeyRoutes
<1>3. ChainOf("ping") = VendorAuth \o <<"handler">>
  BY DEF ChainOf, Public, KeyRoutes
<1>4. ChainOf("models") = VendorAuth \o <<"RateLimiter", "handler">>
  BY DEF ChainOf, Public, KeyRoutes
<1>5. ChainOf("predict") = VendorAuth \o <<"RateLimiter", "JWTAuth", "handler">>
  BY DEF ChainOf, Public, KeyRoutes
<1>6. ChainOf("fraud") = <<"APIKeyAuth", "RateLimiter", "handler">>
  BY DEF ChainOf, Public, KeyRoutes
<1> DEFINE M == {"APIKeyAuth", "JWTAuth", "finalAuthCheck", "RateLimiter", "handler"}
<1>7. /\ "APIKeyAuth" \in M /\ "JWTAuth" \in M /\ "finalAuthCheck" \in M
      /\ "RateLimiter" \in M /\ "handler" \in M
  OBVIOUS
<1> HIDE DEF M
<1>8. VendorAuth \o <<"handler">> = <<"APIKeyAuth", "JWTAuth", "finalAuthCheck", "handler">>
  BY <1>7, Join1 DEF VendorAuth
<1>9. VendorAuth \o <<"RateLimiter", "handler">> =
        <<"APIKeyAuth", "JWTAuth", "finalAuthCheck", "RateLimiter", "handler">>
  BY <1>7, Join2 DEF VendorAuth
<1>10. VendorAuth \o <<"RateLimiter", "JWTAuth", "handler">> =
        <<"APIKeyAuth", "JWTAuth", "finalAuthCheck", "RateLimiter", "JWTAuth", "handler">>
  BY <1>7, Join3 DEF VendorAuth
<1> QED BY <1>1, <1>2, <1>3, <1>4, <1>5, <1>6, <1>8, <1>9, <1>10, Zenon
        DEF ToHandler, ToUser

(* The limiter has handed the request on. *)
Passed == {ToHandler, ToUser}

(* A middleware hands on to what is left of the chain, a key is looked at first
   of all and never again, and the limiter stands before Passed. *)
LEMMA Steps ==
    ASSUME NEW r \in Routes, NEW t \in Left(r), t # <<>>
    PROVE  /\ Head(t) = "handler" => t = ToHandler
           /\ Head(t) # "handler" => Tail(t) \in Left(r) /\ Tail(t) # <<>>
           /\ Head(t) = "APIKeyAuth" => r \in VendorRoutes /\ t = ChainOf(r)
           /\ r \in VendorRoutes /\ t = ChainOf(r) => Head(t) = "APIKeyAuth"
           /\ Tail(t) # ChainOf(r)
           /\ Head(t) = "RateLimiter" =>
                r \in LimitedRoutes /\ t \notin Passed /\ Tail(t) \in Passed
           /\ r \in LimitedRoutes /\ Head(t) \notin {"RateLimiter", "handler"} =>
                (Tail(t) \in Passed <=> t \in Passed)
<1> USE DEF Routes, Public, KeyRoutes, LimitedRoutes, VendorRoutes, ToHandler, ToUser,
            Passed
<1>1. CASE r \in Public
  <2>1. t = ToHandler /\ ChainOf(r) = ToHandler
    BY <1>1, Chains DEF Left
  <2> QED BY <1>1, <2>1
<1>2. CASE r \in KeyRoutes \cup {"me"}
  <2>1. t \in {ToUser, ToHandler} /\ ChainOf(r) = ToUser /\ ToHandler \in Left(r)
    BY <1>2, Chains DEF Left
  <2>2. r \notin VendorRoutes /\ r \notin LimitedRoutes
    BY <1>2
  <2>3. CASE t = ToUser
    BY <2>1, <2>2, <2>3
  <2>4. CASE t = ToHandler
    BY <2>1, <2>2, <2>4
  <2> QED BY <2>1, <2>3, <2>4
<1>3. CASE r = "ping"
  <2> DEFINE t4 == <<"APIKeyAuth", "JWTAuth", "finalAuthCheck", "handler">>
             t3 == <<"JWTAuth", "finalAuthCheck", "handler">>
             t2 == <<"finalAuthCheck", "handler">>
  <2>1. Left(r) = {t4, t3, t2, ToHandler, <<>>} /\ ChainOf(r) = t4
    BY <1>3, Chains DEF Left
  <2>2. CASE t = t4
    BY <1>3, <2>1, <2>2
  <2>3. CASE t = t3
    BY <1>3, <2>1, <2>3
  <2>4. CASE t = t2
    BY <1>3, <2>1, <2>4
  <2>5. CASE t = ToHandler
    BY <1>3, <2>1, <2>5
  <2> HIDE DEF t4, t3, t2
  <2> QED BY <2>1, <2>2, <2>3, <2>4, <2>5, Zenon
<1>4. CASE r = "models"
  <2> DEFINE t5 == <<"APIKeyAuth", "JWTAuth", "finalAuthCheck", "RateLimiter", "handler">>
             t4 == <<"JWTAuth", "finalAuthCheck", "RateLimiter", "handler">>
             t3 == <<"finalAuthCheck", "RateLimiter", "handler">>
             t2 == <<"RateLimiter", "handler">>
  <2>1. Left(r) = {t5, t4, t3, t2, ToHandler, <<>>} /\ ChainOf(r) = t5
    BY <1>4, Chains DEF Left
  <2>2. CASE t = t5
    BY <1>4, <2>1, <2>2
  <2>3. CASE t = t4
    BY <1>4, <2>1, <2>3
  <2>4. CASE t = t3
    BY <1>4, <2>1, <2>4
  <2>5. CASE t = t2
    BY <1>4, <2>1, <2>5
  <2>6. CASE t = ToHandler
    BY <1>4, <2>1, <2>6
  <2> HIDE DEF t5, t4, t3, t2
  <2> QED BY <2>1, <2>2, <2>3, <2>4, <2>5, <2>6, Zenon
<1>5. CASE r = "predict"
  <2> DEFINE t6 == <<"APIKeyAuth", "JWTAuth", "finalAuthCheck", "RateLimiter", "JWTAuth", "handler">>
             t5 == <<"JWTAuth", "finalAuthCheck", "RateLimiter", "JWTAuth", "handler">>
             t4 == <<"finalAuthCheck", "RateLimiter", "JWTAuth", "handler">>
             t3 == <<"RateLimiter", "JWTAuth", "handler">>
  <2>1. Left(r) = {t6, t5, t4, t3, ToUser, ToHandler, <<>>} /\ ChainOf(r) = t6
    BY <1>5, Chains DEF Left
  <2>2. CASE t = t6
    BY <1>5, <2>1, <2>2
  <2>3. CASE t = t5
    BY <1>5, <2>1, <2>3
  <2>4. CASE t = t4
    BY <1>5, <2>1, <2>4
  <2>5. CASE t = t3
    BY <1>5, <2>1, <2>5
  <2>6. CASE t = ToUser
    BY <1>5, <2>1, <2>6
  <2>7. CASE t = ToHandler
    BY <1>5, <2>1, <2>7
  <2> HIDE DEF t6, t5, t4, t3
  <2> QED BY <2>1, <2>2, <2>3, <2>4, <2>5, <2>6, <2>7, Zenon
<1>6. CASE r = "fraud"
  <2> DEFINE t3 == <<"APIKeyAuth", "RateLimiter", "handler">>
             t2 == <<"RateLimiter", "handler">>
  <2>1. Left(r) = {t3, t2, ToHandler, <<>>} /\ ChainOf(r) = t3
    BY <1>6, Chains DEF Left
  <2>2. CASE t = t3
    BY <1>6, <2>1, <2>2
  <2>3. CASE t = t2
    BY <1>6, <2>1, <2>3
  <2>4. CASE t = ToHandler
    BY <1>6, <2>1, <2>4
  <2> HIDE DEF t3, t2
  <2> QED BY <2>1, <2>2, <2>3, <2>4, Zenon
<1> QED BY <1>1, <1>2, <1>3, <1>4, <1>5, <1>6

(* A request starts with its whole chain, and an answered one has none left. *)
LEMMA ChainsStart ==
    ASSUME NEW r \in Routes
    PROVE  /\ ChainOf(r) \in Left(r) /\ ChainOf(r) # <<>> /\ <<>> \in Left(r)
           /\ r \in VendorRoutes => ChainOf(r) \notin Passed
<1> USE DEF Routes, Public, KeyRoutes, VendorRoutes, ToHandler, ToUser, Passed
<1>1. CASE r \in Public
  <2>1. ChainOf(r) = ToHandler /\ Left(r) = {ToHandler, <<>>} /\ r \notin VendorRoutes
    BY <1>1, Chains DEF Left
  <2> QED BY <2>1
<1>2. CASE r \in KeyRoutes \cup {"me"}
  BY <1>2, Chains DEF Left
<1>3. CASE r = "ping"
  BY <1>3, Chains DEF Left
<1>4. CASE r = "models"
  BY <1>4, Chains DEF Left
<1>5. CASE r = "predict"
  BY <1>5, Chains DEF Left
<1>6. CASE r = "fraud"
  BY <1>6, Chains DEF Left
<1> QED BY <1>1, <1>2, <1>3, <1>4, <1>5, <1>6
-----------------------------------------------------------------------------
(* The inductive invariant.                                                *)

(* What is left is a rest of the route's chain, and an answer ends it. *)
ChainInv ==
    /\ route \in Routes
    /\ headers \in [key : KeyHeaders, token : TokenHeaders]
    /\ todo \in Left(route)
    /\ todo # <<>> => outcome = "pending"

(* An identity has its credential, and behind APIKeyAuth a request without the
   key owner's identity carries no key. *)
IdentityInv ==
    /\ identity \in {None, OwnerOfKey, UserOfToken}
    /\ identity = OwnerOfKey => headers.key = "active" /\ route \in VendorRoutes
    /\ identity = UserOfToken => headers.token = "valid"
    /\ route \in VendorRoutes /\ todo = ChainOf(route) => identity = None
    /\ route \in VendorRoutes /\ todo # <<>> /\ todo # ChainOf(route) =>
         identity = OwnerOfKey \/ headers.key = "absent"

(* Before the limiter nothing is counted; after it, the identity there is. *)
CountInv ==
    route \in LimitedRoutes /\ todo # <<>> =>
        /\ todo \in Passed => identity # None /\ limited = <<identity>>
        /\ todo \notin Passed => limited = <<>>

AnswerInv == ServedAsProved /\ KeysManagedByUsersOnly /\ CountedOnceAsServed

IInv == ChainInv /\ IdentityInv /\ CountInv /\ AnswerInv

(* The three identities differ. *)
LEMMA Identities == None # OwnerOfKey /\ None # UserOfToken /\ OwnerOfKey # UserOfToken
<1>1. OwnerOfKey \in [user : {KeyOwner, TokenUser}, byKey : BOOLEAN]
  BY DEF OwnerOfKey
<1>2. UserOfToken \in [user : {KeyOwner, TokenUser}, byKey : BOOLEAN]
  BY DEF UserOfToken
<1>3. OwnerOfKey.user # UserOfToken.user
  BY DEF OwnerOfKey, UserOfToken
<1> QED BY <1>1, <1>2, <1>3, Zenon

(* A limited route looks at a key; a route that does not, is not limited. *)
LEMMA RouteSets ==
    /\ LimitedRoutes \subseteq VendorRoutes /\ VendorRoutes \cap KeyRoutes = {}
    /\ \A r \in Routes \ Public : r \in VendorRoutes \/ r \in KeyRoutes \cup {"me"}
    /\ LimitedRoutes \cap Public = {} /\ KeyRoutes \cap Public = {}
BY DEF LimitedRoutes, VendorRoutes, KeyRoutes, Public, Routes

(* NewRouter puts a request at the head of its chain. *)
LEMMA InitInv == Init => IInv
<1> SUFFICES ASSUME Init PROVE IInv
  OBVIOUS
<1> USE DEF Init
<1>1. ChainInv
  BY ChainsStart DEF ChainInv
<1>2. IdentityInv
  BY Identities DEF IdentityInv
<1>3. CountInv
  BY ChainsStart, RouteSets DEF CountInv
<1>4. AnswerInv
  BY DEF AnswerInv, ServedAsProved, KeysManagedByUsersOnly, CountedOnceAsServed, Served
<1> QED BY <1>1, <1>2, <1>3, <1>4 DEF IInv

(* A middleware that answers with an error keeps the invariant, whatever it has
   counted. *)
LEMMA AnswersInv ==
    ASSUME IInv, NEW status, Answer(status), status # "served",
           UNCHANGED <<route, headers>>
    PROVE  IInv'
<1> USE DEF IInv, Answer
<1>1. ChainInv'
  BY ChainsStart DEF ChainInv
<1>2. IdentityInv'
  BY ChainsStart DEF IdentityInv, ChainInv
<1>3. CountInv'
  BY DEF CountInv
<1>4. AnswerInv'
  BY DEF AnswerInv, ServedAsProved, KeysManagedByUsersOnly, CountedOnceAsServed, Served
<1> QED BY <1>1, <1>2, <1>3, <1>4

(* A middleware other than the handler hands the request on to the rest. *)
LEMMA HandsOn ==
    ASSUME IInv, todo # <<>>, Head(todo) # "handler", NEW i, HandOn(i),
           UNCHANGED <<route, headers>>
    PROVE  /\ ChainInv' /\ AnswerInv'
           /\ todo' # <<>> /\ todo' # ChainOf(route)
           /\ todo' = Tail(todo)
<1>1. /\ route \in Routes /\ todo \in Left(route) /\ outcome = "pending"
      /\ outcome' = "pending" /\ todo' = Tail(todo)
  BY DEF IInv, ChainInv, HandOn
<1>2. todo' \in Left(route) /\ todo' # <<>> /\ todo' # ChainOf(route)
  BY <1>1, Steps, Zenon
<1>3. ChainInv'
  BY <1>1, <1>2 DEF IInv, ChainInv
<1>4. AnswerInv'
  BY <1>1 DEF AnswerInv, ServedAsProved, KeysManagedByUsersOnly, CountedOnceAsServed, Served
<1> QED BY <1>1, <1>2, <1>3, <1>4

(* Handing on anywhere but at the limiter does not change what is counted. *)
LEMMA HandsOnCount ==
    ASSUME IInv, todo # <<>>, Head(todo) \notin {"handler", "RateLimiter"},
           NEW i, HandOn(i), UNCHANGED <<route, headers, limited>>,
           identity # None => i = identity
    PROVE  CountInv'
<1>1. SUFFICES ASSUME route \in LimitedRoutes PROVE CountInv'
  BY DEF CountInv
<1>2. route \in Routes /\ todo \in Left(route) /\ todo' = Tail(todo) /\ identity' = i
  BY DEF IInv, ChainInv, HandOn
<1>3. todo' \in Passed <=> todo \in Passed
  BY <1>1, <1>2, Steps
<1> QED BY <1>1, <1>2, <1>3 DEF IInv, CountInv

(* APIKeyAuth is met once, before there is an identity. *)
LEMMA APIKeyAuthInv == IInv /\ APIKeyAuth => IInv'
<1> SUFFICES ASSUME IInv, APIKeyAuth PROVE IInv'
  OBVIOUS
<1>0. /\ todo # <<>> /\ Head(todo) = "APIKeyAuth"
      /\ UNCHANGED <<route, headers>> /\ UNCHANGED limited
  BY DEF APIKeyAuth, AtMiddleware
<1>1. route \in VendorRoutes /\ todo = ChainOf(route) /\ identity = None
  BY <1>0, Steps DEF IInv, ChainInv, IdentityInv
<1>2. CASE headers.key = "absent" /\ HandOn(identity)
  <2>1. IdentityInv'
    BY <1>0, <1>1, <1>2, HandsOn, Identities DEF IdentityInv, HandOn
  <2> QED BY <1>0, <1>2, <2>1, HandsOn, HandsOnCount DEF IInv
<1>3. CASE headers.key = "active" /\ HandOn(OwnerOfKey)
  <2>1. IdentityInv'
    BY <1>0, <1>1, <1>3, HandsOn, Identities DEF IdentityInv, HandOn
  <2>2. CountInv'
    BY <1>0, <1>1, <1>3, HandsOnCount
  <2> QED BY <1>0, <1>3, <2>1, <2>2, HandsOn DEF IInv
<1>4. CASE Answer("401") \/ Answer("500")
  BY <1>0, <1>4, AnswersInv
<1> QED BY <1>2, <1>3, <1>4 DEF APIKeyAuth, OwnerOfKey

(* JWTAuth establishes the user of the token only where there is no identity yet. *)
LEMMA JWTAuthInv == IInv /\ JWTAuth => IInv'
<1> SUFFICES ASSUME IInv, JWTAuth PROVE IInv'
  OBVIOUS
<1>0. /\ todo # <<>> /\ Head(todo) = "JWTAuth"
      /\ UNCHANGED <<route, headers>> /\ UNCHANGED limited
  BY DEF JWTAuth, AtMiddleware
<1>1. route \in VendorRoutes => todo # ChainOf(route)
  BY <1>0, Steps DEF IInv, ChainInv
<1>2. CASE HandOn(identity)
  <2>1. IdentityInv'
    BY <1>0, <1>1, <1>2, HandsOn DEF IInv, IdentityInv, HandOn
  <2>2. CountInv'
    BY <1>0, <1>2, HandsOnCount
  <2> QED BY <1>0, <1>2, <2>1, <2>2, HandsOn DEF IInv
<1>3. CASE identity = None /\ headers.token = "valid" /\ HandOn(UserOfToken)
  <2>1. IdentityInv'
    BY <1>0, <1>1, <1>3, HandsOn, Identities DEF IInv, IdentityInv, HandOn
  <2>2. CountInv'
    BY <1>0, <1>3, HandsOnCount
  <2> QED BY <1>0, <1>3, <2>1, <2>2, HandsOn DEF IInv
<1>4. CASE Answer("401") \/ Answer("500")
  BY <1>0, <1>4, AnswersInv
<1> QED BY <1>2, <1>3, <1>4 DEF JWTAuth, UserOfToken

(* The check at the end of AuthEither changes nothing. *)
LEMMA FinalAuthCheckInv == IInv /\ finalAuthCheck => IInv'
<1> SUFFICES ASSUME IInv, finalAuthCheck PROVE IInv'
  OBVIOUS
<1>0. /\ todo # <<>> /\ Head(todo) = "finalAuthCheck"
      /\ UNCHANGED <<route, headers>> /\ UNCHANGED limited
  BY DEF finalAuthCheck, AtMiddleware
<1>1. route \in VendorRoutes => todo # ChainOf(route)
  BY <1>0, Steps DEF IInv, ChainInv
<1>2. CASE HandOn(identity)
  <2>1. IdentityInv'
    BY <1>0, <1>1, <1>2, HandsOn DEF IInv, IdentityInv, HandOn
  <2>2. CountInv'
    BY <1>0, <1>2, HandsOnCount
  <2> QED BY <1>0, <1>2, <2>1, <2>2, HandsOn DEF IInv
<1>3. CASE Answer("401")
  BY <1>0, <1>3, AnswersInv
<1> QED BY <1>2, <1>3 DEF finalAuthCheck

(* The limiter counts the identity that the handler will see. *)
LEMMA RateLimiterInv == IInv /\ RateLimiter => IInv'
<1> SUFFICES ASSUME IInv, RateLimiter PROVE IInv'
  OBVIOUS
<1>0. /\ todo # <<>> /\ Head(todo) = "RateLimiter" /\ UNCHANGED <<route, headers>>
      /\ route \in Routes /\ todo \in Left(route)
  BY DEF RateLimiter, AtMiddleware, IInv, ChainInv
<1>1. /\ route \in LimitedRoutes /\ todo \notin Passed /\ Tail(todo) \in Passed
      /\ todo # ChainOf(route) /\ route \in VendorRoutes
  BY <1>0, Steps, RouteSets
<1>2. CASE /\ identity # None /\ limited' = Append(limited, identity)
           /\ HandOn(identity)
  <2>1. IdentityInv'
    BY <1>0, <1>1, <1>2, HandsOn DEF IInv, IdentityInv, HandOn
  <2>2. limited' = <<identity>>
    <3>1. limited = <<>>
      BY <1>0, <1>1 DEF IInv, CountInv
    <3> QED BY <1>2, <3>1
  <2>3. CountInv'
    BY <1>0, <1>1, <1>2, <2>2 DEF CountInv, HandOn
  <2> QED BY <1>0, <1>2, <2>1, <2>3, HandsOn DEF IInv
<1>3. CASE Answer("no identity") \/ Answer("429") \/ Answer("500")
  BY <1>0, <1>3, AnswersInv
<1> QED BY <1>2, <1>3 DEF RateLimiter

(* The handler serves a request with a proved identity, counted if it has to be. *)
LEMMA HandlerInv == IInv /\ Handler => IInv'
<1> SUFFICES ASSUME IInv, Handler PROVE IInv'
  OBVIOUS
<1>0. /\ todo # <<>> /\ Head(todo) = "handler"
      /\ UNCHANGED <<route, headers>> /\ UNCHANGED limited
      /\ route \in Routes /\ todo \in Left(route)
  BY DEF Handler, AtMiddleware, IInv, ChainInv
<1>1. todo = ToHandler /\ (route \in VendorRoutes => todo # ChainOf(route))
  BY <1>0, Steps
<1>2. CASE Answer("401")
  BY <1>0, <1>2, AnswersInv
<1>3. CASE Answer("served") /\ (route \notin Public => identity # None)
  <2>0. todo' = <<>> /\ outcome' = "served" /\ identity' = identity
    BY <1>3 DEF Answer
  <2>1. ChainInv'
    BY <1>0, <2>0, ChainsStart DEF IInv, ChainInv
  <2>2. IdentityInv'
    BY <1>0, <2>0, ChainsStart DEF IInv, IdentityInv
  <2>3. CountInv'
    BY <2>0 DEF CountInv
  <2>4. route \in Routes \ Public => identity \in {OwnerOfKey, UserOfToken}
    BY <1>3 DEF IInv, IdentityInv
  <2>5. ServedAsProved'
    <3>1. route \in Routes \ Public =>
            \/ identity = OwnerOfKey /\ headers.key = "active"
            \/ /\ identity = UserOfToken /\ headers.token = "valid"
               /\ route \in KeyRoutes \cup {"me"} \/ headers.key = "absent"
      BY <1>0, <1>1, <2>4, RouteSets, Identities DEF IInv, IdentityInv
    <3> QED BY <1>0, <2>0, <3>1 DEF ServedAsProved, Served, OwnerOfKey, UserOfToken
  <2>6. KeysManagedByUsersOnly'
    <3>1. route \in KeyRoutes => headers.token = "valid"
      BY <1>0, <2>4, RouteSets DEF IInv, IdentityInv
    <3> QED BY <1>0, <2>0, <3>1 DEF KeysManagedByUsersOnly, Served
  <2>7. CountedOnceAsServed'
    <3>1. route \in LimitedRoutes => limited = <<identity>>
      BY <1>0, <1>1 DEF IInv, CountInv, Passed
    <3> QED BY <1>0, <2>0, <3>1 DEF CountedOnceAsServed, Served
  <2> QED BY <2>1, <2>2, <2>3, <2>5, <2>6, <2>7 DEF IInv, AnswerInv
<1> QED BY <1>2, <1>3 DEF Handler

(* The invariant is inductive. *)
THEOREM RouterInductive == Spec => []IInv
<1>1. IInv /\ [Next]_vars => IInv'
  <2> SUFFICES ASSUME IInv, [Next]_vars PROVE IInv'
    OBVIOUS
  <2>1. CASE Next
    BY <2>1, APIKeyAuthInv, JWTAuthInv, FinalAuthCheckInv, RateLimiterInv, HandlerInv DEF Next
  <2>2. CASE UNCHANGED vars
    BY <2>2 DEF IInv, ChainInv, IdentityInv, CountInv, AnswerInv, ServedAsProved,
       KeysManagedByUsersOnly, CountedOnceAsServed, Served, vars
  <2> QED BY <2>1, <2>2
<1> QED BY InitInv, <1>1, PTL DEF Spec

(* Every handler that needs an identity runs for the user whose credential the
   request proved, and a key outranks a token wherever it is looked at. *)
THEOREM HandlersRunAsProved == Spec => []ServedAsProved
<1>1. IInv => ServedAsProved
  BY DEF IInv, AnswerInv
<1> QED BY <1>1, RouterInductive, PTL

(* No request without a verified token lists, creates or deletes API keys. *)
THEOREM KeysNeedAUser == Spec => []KeysManagedByUsersOnly
<1>1. IInv => KeysManagedByUsersOnly
  BY DEF IInv, AnswerInv
<1> QED BY <1>1, RouterInductive, PTL

(* A vendor request served was counted once, for the identity it is served as. *)
THEOREM ServedIsCountedOnce == Spec => []CountedOnceAsServed
<1>1. IInv => CountedOnceAsServed
  BY DEF IInv, AnswerInv
<1> QED BY <1>1, RouterInductive, PTL
=============================================================================
