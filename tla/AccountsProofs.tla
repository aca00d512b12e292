--------------------------- MODULE AccountsProofs ---------------------------
(* Proofs about Accounts: no two people hold tokens for one email, a token  *)
(* shows its holder's own profile, and good credentials stay good.          *)
EXTENDS Accounts, TLAPS

(* Rows of users are never changed or removed, and tokens are never revoked. *)
Grows ==
    /\ \A i \in Ids : users[i] # None => users'[i] = users[i]
    /\ tokens \subseteq tokens'

(* The goroutines other than p stand still. *)
Others(p) == \A q \in Procs \ {p} : pc'[q] = pc[q] /\ req'[q] = req[q]

(* A goroutine that does not move keeps what it relies on. *)
LEMMA RequestFrame ==
    ASSUME TypeOK, Grows, NEW q \in Procs, RequestOK(q),
           pc'[q] = pc[q], req'[q] = req[q]
    PROVE  RequestOK(q)'
<1>1. Taken(req[q].email) => Taken(req[q].email)'
  BY DEF Taken, HasEmail, Grows
<1>2. ASSUME NEW i \in Ids, Matches(i, req[q]) PROVE Matches(i, req[q])'
  BY <1>2 DEF Matches, HasEmail, Grows
<1> QED BY <1>1, <1>2 DEF RequestOK, Answered, Grows

(* A step of one goroutine that leaves the table and the tokens alone preserves
   the invariant when the goroutine can rely on what RequestOK says. *)
LEMMA LocalStep ==
    ASSUME IInv, NEW p \in Procs, UNCHANGED <<users, tokens, now>>,
           pc' \in [Procs -> {"idle", "exists", "create", "login", "verify",
                              "load", "profile"}],
           req' \in [Procs -> Request], Others(p), RequestOK(p)'
    PROVE  IInv'
<1>1. Grows BY DEF Grows
<1>2. TypeOK' /\ UniqueEmails' /\ TokensInv'
  BY DEF IInv, TypeOK, UniqueEmails, TokensInv, AccountOf
<1>3. ASSUME NEW q \in Procs PROVE RequestOK(q)'
  <2>1. CASE q = p BY <2>1
  <2>2. CASE q # p BY <2>2, <1>1, RequestFrame DEF IInv, RequestInv, Others
  <2> QED BY <2>1, <2>2
<1> QED BY <1>2, <1>3 DEF IInv, RequestInv

(* An answer keeps the locals of the request but for its status. *)
LEMMA FinishFacts ==
    ASSUME TypeOK, NEW p \in Procs,
           NEW s \in {"200", "400", "401", "409", "500"}, Finish(p, s)
    PROVE  /\ pc' \in [Procs -> {"idle", "exists", "create", "login", "verify",
                                 "load", "profile"}]
           /\ req' \in [Procs -> Request] /\ Others(p)
           /\ pc'[p] = "idle" /\ req'[p].status = s
           /\ req'[p].op = req[p].op /\ req'[p].email = req[p].email
           /\ req'[p].token = req[p].token /\ req'[p].user = req[p].user
           /\ req'[p].holder = req[p].holder
BY DEF TypeOK, Finish, Others, Request

(* Moving on to the next call. *)
LEMMA GotoFacts ==
    ASSUME TypeOK, NEW p \in Procs,
           NEW s \in {"create", "load"}, Goto(p, s)
    PROVE  /\ pc' \in [Procs -> {"idle", "exists", "create", "login", "verify",
                                 "load", "profile"}]
           /\ req' \in [Procs -> Request] /\ Others(p)
           /\ pc'[p] = s /\ req'[p] = req[p]
BY DEF TypeOK, Goto, Others

(* A new request installs its locals. *)
LEMMA StartFacts ==
    ASSUME TypeOK, NEW p \in Procs,
           NEW s \in {"idle", "exists", "login", "verify"}, NEW r \in Request,
           Start(p, s, r)
    PROVE  /\ pc' \in [Procs -> {"idle", "exists", "create", "login", "verify",
                                 "load", "profile"}]
           /\ req' \in [Procs -> Request] /\ Others(p)
           /\ pc'[p] = s /\ req'[p] = r /\ UNCHANGED <<users, tokens, now>>
BY DEF TypeOK, Start, Others

-----------------------------------------------------------------------------

(* Requests arrive: SignUpHandler, SignInHandler, MeHandler's JWTAuth, and the
   400 of a bad body. *)
LEMMA ArriveInv ==
    ASSUME IInv, NEW p \in Procs,
           \/ BadRequest(p)
           \/ \E e \in Emails, w \in Passwords :
                StartSignUp(p, e, w) \/ StartSignIn(p, e, w)
           \/ \E t \in tokens : StartMe(p, t)
    PROVE  IInv'
<1> USE DEF IInv
<1>1. NoRequest \in Request BY DEF NoRequest, Request
<1>2. CASE BadRequest(p)
  <2> DEFINE r == [NoRequest EXCEPT !.status = "400"]
  <2>1. r \in Request /\ r.op = "none" /\ r.status = "400"
    BY <1>1 DEF NoRequest, Request
  <2>2. Start(p, "idle", r) BY <1>2 DEF BadRequest
  <2> HIDE DEF r
  <2>3. RequestOK(p)' BY <2>1, <2>2, StartFacts DEF RequestOK, Answered
  <2> QED BY <2>1, <2>2, <2>3, StartFacts, LocalStep
<1>3. ASSUME NEW e \in Emails, NEW w \in Passwords, StartSignUp(p, e, w)
      PROVE  IInv'
  <2> DEFINE r == [NoRequest EXCEPT !.op = "sign-up", !.email = e,
                                    !.password = w, !.status = "pending"]
  <2>1. r \in Request /\ r.op = "sign-up" /\ r.email = e /\ r.password = w
    BY <1>1 DEF NoRequest, Request
  <2>2. Start(p, "exists", r) BY <1>3 DEF StartSignUp
  <2> HIDE DEF r
  <2>3. RequestOK(p)' BY <2>1, <2>2, StartFacts DEF RequestOK, Answered
  <2> QED BY <2>1, <2>2, <2>3, StartFacts, LocalStep
<1>4. ASSUME NEW e \in Emails, NEW w \in Passwords, StartSignIn(p, e, w)
      PROVE  IInv'
  <2> DEFINE h == \E t \in tokens : t.email = e /\ t.hash = Bcrypt[w]
             r == [NoRequest EXCEPT !.op = "sign-in", !.email = e,
                      !.password = w, !.status = "pending", !.holder = h]
  <2>1. Start(p, "login", r) BY <1>4 DEF StartSignIn
  <2>2. h \in BOOLEAN OBVIOUS
  <2>3. ASSUME h PROVE \E i \in Ids : HasEmail(i, e) /\ users[i].hash = Bcrypt[w]
    <3>1. PICK t \in tokens : t.email = e /\ t.hash = Bcrypt[w]
      BY <2>3
    <3>2. t \in Token /\ users[t.user] = [email |-> e, hash |-> Bcrypt[w]]
      BY <3>1 DEF TypeOK, TokensInv, AccountOf
    <3>3. users[t.user] # None
      BY <3>2, NoneAssumption DEF User, Hashes
    <3>4. t.user \in Ids
      BY <3>2 DEF Token
    <3> QED BY <3>2, <3>3, <3>4 DEF HasEmail
  <2> HIDE DEF h
  <2>4. /\ r \in Request /\ r.op = "sign-in" /\ r.email = e /\ r.password = w
        /\ r.holder = h
    BY <1>1, <2>2 DEF NoRequest, Request
  <2> HIDE DEF r
  <2>5. req'[p] = r /\ pc'[p] = "login" /\ UNCHANGED users
    BY <2>1, <2>4, StartFacts
  <2>6. req'[p].holder => (\E i \in Ids : Matches(i, req[p]))'
    BY <2>3, <2>4, <2>5 DEF Matches, HasEmail
  <2>7. RequestOK(p)' BY <2>4, <2>5, <2>6 DEF RequestOK, Answered
  <2> QED BY <2>1, <2>4, <2>7, StartFacts, LocalStep
<1>5. ASSUME NEW t \in tokens, StartMe(p, t) PROVE IInv'
  <2> DEFINE r == [NoRequest EXCEPT !.op = "me", !.token = t,
                                    !.status = "pending"]
  <2>1. r \in Request /\ r.op = "me" /\ r.token = t
    BY <1>1 DEF NoRequest, Request, TypeOK
  <2>2. Start(p, "verify", r) BY <1>5 DEF StartMe
  <2> HIDE DEF r
  <2>3. RequestOK(p)' BY <2>1, <2>2, StartFacts DEF RequestOK, Answered
  <2> QED BY <2>1, <2>2, <2>3, StartFacts, LocalStep
<1> QED BY <1>2, <1>3, <1>4, <1>5

(* GetUserByEmail of SignUp: a 409 is backed by the row that was found. *)
LEMMA CheckEmailInv ==
    ASSUME IInv, NEW p \in Procs, CheckEmail(p) PROVE IInv'
<1> USE DEF IInv
<1>1. req[p].op = "sign-up" /\ req[p].email \in Emails
        /\ req[p].password \in Passwords
  BY DEF CheckEmail, RequestInv, RequestOK
<1>2. UNCHANGED <<users, tokens, now>> BY DEF CheckEmail
<1>3. CASE Goto(p, "create")
  <2>1. RequestOK(p)' BY <1>1, <1>3, GotoFacts DEF RequestOK, Answered
  <2> QED BY <1>2, <1>3, <2>1, GotoFacts, LocalStep
<1>4. CASE Taken(req[p].email) /\ Finish(p, "409")
  <2>1. Taken(req[p].email)' BY <1>2, <1>4, FinishFacts DEF Taken, HasEmail
  <2>2. RequestOK(p)' BY <1>1, <1>4, <2>1, FinishFacts DEF RequestOK, Answered
  <2> QED BY <1>2, <1>4, <2>2, FinishFacts, LocalStep
<1>5. CASE Finish(p, "500")
  <2>1. RequestOK(p)' BY <1>1, <1>5, FinishFacts DEF RequestOK, Answered
  <2> QED BY <1>2, <1>5, <2>1, FinishFacts, LocalStep
<1> QED BY <1>3, <1>4, <1>5 DEF CheckEmail

(* A step that adds a row with a new email, or none, and a token for an
   account that is there, or none, preserves the invariant. *)
LEMMA GrowingStep ==
    ASSUME IInv, NEW p \in Procs, Grows, TypeOK', UniqueEmails',
           \A t \in tokens' \ tokens : AccountOf(t)',
           Others(p), RequestOK(p)'
    PROVE  IInv'
<1>1. TokensInv'
  <2> SUFFICES ASSUME NEW t \in tokens' PROVE AccountOf(t)'
    BY DEF TokensInv
  <2>1. CASE t \in tokens
    <3>1. t.user \in Ids /\ users[t.user] = [email |-> t.email,
                                             hash |-> t.hash]
      BY <2>1 DEF IInv, TypeOK, Token, TokensInv, AccountOf
    <3>2. users[t.user] # None
      BY <2>1, <3>1, NoneAssumption DEF IInv, TypeOK, Token, User
    <3> QED BY <3>1, <3>2 DEF Grows, AccountOf
  <2> QED BY <2>1
<1>2. ASSUME NEW q \in Procs PROVE RequestOK(q)'
  <2>1. CASE q = p BY <2>1
  <2>2. CASE q # p BY <2>2, RequestFrame DEF IInv, RequestInv, Others
  <2> QED BY <2>1, <2>2
<1> QED BY <1>1, <1>2 DEF IInv, RequestInv

(* INSERT INTO users keeps emails unique, because the table refuses a second
   row: the check that SignUp made before may be out of date. *)
LEMMA InsertUserFacts ==
    ASSUME IInv, NEW p \in Procs, NEW i \in Ids, pc[p] = "create",
           ~Collides(req[p].email), InsertUser(p, i)
    PROVE  /\ users' \in [Ids -> User \cup {None}]
           /\ \A j \in Ids : users[j] # None => users'[j] = users[j]
           /\ UniqueEmails'
           /\ users'[i] = [email |-> req[p].email, hash |-> Bcrypt[req[p].password]]
<1> DEFINE u == [email |-> req[p].email, hash |-> Bcrypt[req[p].password]]
<1>1. u \in User /\ u.email = req[p].email
  BY DEF IInv, RequestInv, RequestOK, User, Hashes
<1>2. users' = [users EXCEPT ![i] = u] /\ users[i] = None BY DEF InsertUser
<1>3. \A j \in Ids : users[j] # None => users[j].email # u.email
  BY <1>1 DEF Collides, Taken, HasEmail
<1> HIDE DEF u
<1>4. users'[i] = u /\ \A j \in Ids : j # i => users'[j] = users[j]
  BY <1>2 DEF IInv, TypeOK
<1>5. UniqueEmails'
  BY <1>3, <1>4 DEF UniqueEmails, IInv
<1> QED BY <1>1, <1>2, <1>4, <1>5 DEF IInv, TypeOK, u

(* generateToken for an account that is there. *)
LEMMA TokenFacts ==
    ASSUME IInv, NEW p \in Procs, NEW i \in Ids, AnswerWithToken(p, i),
           req[p].email \in Emails, req[p].password \in Passwords,
           req[p].op # "me",
           users'[i] = [email |-> req[p].email, hash |-> Bcrypt[req[p].password]]
    PROVE  /\ pc' \in [Procs -> {"idle", "exists", "create", "login", "verify",
                                 "load", "profile"}]
           /\ req' \in [Procs -> Request] /\ Others(p)
           /\ tokens \subseteq tokens' /\ tokens' \subseteq Token
           /\ \A t \in tokens' \ tokens : AccountOf(t)'
           /\ RequestOK(p)'
<1> DEFINE t == [user |-> i, exp |-> now + JwtTimeout,
                 email |-> req[p].email, hash |-> Bcrypt[req[p].password]]
<1>1. now + JwtTimeout \in Nat BY ConstantsAssumption DEF IInv, TypeOK
<1>2. t \in Token /\ t.user = i /\ t.email = req[p].email
        /\ t.hash = Bcrypt[req[p].password]
  BY <1>1 DEF Token, Hashes
<1>3. tokens' = tokens \cup {t} BY DEF AnswerWithToken
<1>4. ASSUME NEW x \in tokens' \ tokens PROVE AccountOf(x)'
  <2>1. x = t BY <1>3
  <2>2. x.user = i /\ x.email = req[p].email /\ x.hash = Bcrypt[req[p].password]
    BY <1>2, <2>1
  <2> QED BY <2>2 DEF AccountOf
<1>8. tokens \subseteq tokens' /\ tokens' \subseteq Token
  BY <1>2, <1>3 DEF IInv, TypeOK
<1> HIDE DEF t
<1>5. pc' \in [Procs -> {"idle", "exists", "create", "login", "verify",
                         "load", "profile"}]
        /\ req' \in [Procs -> Request] /\ Others(p)
  <2>1. req[p] \in Request BY DEF IInv, TypeOK
  <2> DEFINE r == [req[p] EXCEPT !.status = "200", !.user = i]
  <2>2. r \in Request BY <2>1 DEF Request
  <2>3. req' = [req EXCEPT ![p] = r]
    BY DEF AnswerWithToken, IInv, TypeOK
  <2> HIDE DEF r
  <2>4. req' \in [Procs -> Request] BY <2>2, <2>3 DEF IInv, TypeOK
  <2> QED BY <2>3, <2>4 DEF AnswerWithToken, IInv, TypeOK, Others
<1>6. pc'[p] = "idle" /\ req'[p].status = "200" /\ req'[p].op = req[p].op
  BY DEF AnswerWithToken, IInv, TypeOK, Request
<1>7. RequestOK(p)' BY <1>6 DEF RequestOK, Answered
<1> QED BY <1>4, <1>5, <1>7, <1>8

(* CreateUser, in each of its outcomes, a lost answer included. *)
LEMMA CreateUserInv ==
    ASSUME IInv, NEW p \in Procs, CreateUser(p) PROVE IInv'
<1>1. /\ pc[p] = "create" /\ req[p].op = "sign-up" /\ TypeOK
      /\ req[p].email \in Emails /\ req[p].password \in Passwords
      /\ UNCHANGED now
  BY DEF IInv, CreateUser, RequestInv, RequestOK
<1>2. CASE Collides(req[p].email) /\ Finish(p, "409") /\ UNCHANGED <<users, tokens>>
  <2>1. Taken(req[p].email)'
    BY <1>1, <1>2, FinishFacts DEF Collides, Taken, HasEmail
  <2>2. RequestOK(p)' BY <1>1, <1>2, <2>1, FinishFacts DEF RequestOK, Answered
  <2> QED BY <1>1, <1>2, <2>2, FinishFacts, LocalStep
<1>3. ASSUME ~Collides(req[p].email), NEW i \in Ids, InsertUser(p, i),
             AnswerWithToken(p, i)
      PROVE  IInv'
  <2>1. Grows BY <1>1, <1>3, InsertUserFacts, TokenFacts DEF Grows
  <2>2. TypeOK'
    BY <1>1, <1>3, InsertUserFacts, TokenFacts DEF TypeOK
  <2> QED BY <1>1, <1>3, <2>1, <2>2, InsertUserFacts, TokenFacts, GrowingStep
<1>4. CASE Finish(p, "500") /\ UNCHANGED <<users, tokens>>
  <2>1. RequestOK(p)' BY <1>1, <1>4, FinishFacts DEF RequestOK, Answered
  <2> QED BY <1>1, <1>4, <2>1, FinishFacts, LocalStep
<1>5. ASSUME ~Collides(req[p].email), NEW i \in Ids, InsertUser(p, i),
             Finish(p, "500"), UNCHANGED tokens
      PROVE  IInv'
  <2>1. Grows BY <1>1, <1>5, InsertUserFacts DEF Grows
  <2>2. TypeOK' BY <1>1, <1>5, InsertUserFacts, FinishFacts DEF TypeOK
  <2>3. RequestOK(p)' BY <1>1, <1>5, FinishFacts DEF RequestOK, Answered
  <2> QED BY <1>1, <1>5, <2>1, <2>2, <2>3, InsertUserFacts, FinishFacts,
             GrowingStep
<1> QED BY <1>2, <1>3, <1>4, <1>5 DEF CreateUser

(* SignIn: the token goes to the account whose password was compared. *)
LEMMA LoginInv ==
    ASSUME IInv, NEW p \in Procs, Login(p) PROVE IInv'
<1>1. /\ pc[p] = "login" /\ req[p].op = "sign-in" /\ TypeOK
      /\ req[p].email \in Emails /\ req[p].password \in Passwords
      /\ UNCHANGED <<users, now>>
  BY DEF IInv, Login, RequestInv, RequestOK
<1>2. ASSUME NEW i \in Ids, Matches(i, req[p]), AnswerWithToken(p, i)
      PROVE  IInv'
  <2>1. users[i] \in User /\ users[i].email = req[p].email
          /\ users[i].hash = Bcrypt[req[p].password]
    BY <1>1, <1>2 DEF Matches, HasEmail, TypeOK
  <2>2. users'[i] = [email |-> req[p].email, hash |-> Bcrypt[req[p].password]]
    BY <1>1, <2>1 DEF User
  <2>3. Grows BY <1>1, <1>2, <2>2, TokenFacts DEF Grows
  <2>4. TypeOK' /\ UniqueEmails'
    BY <1>1, <1>2, <2>2, TokenFacts DEF TypeOK, UniqueEmails, IInv
  <2> QED BY <1>1, <1>2, <2>2, <2>3, <2>4, TokenFacts, GrowingStep
<1>3. CASE /\ ~\E i \in Ids : Matches(i, req[p])
           /\ Finish(p, "401") /\ UNCHANGED tokens
  <2>1. ~req[p].holder BY <1>1, <1>3 DEF IInv, RequestInv, RequestOK
  <2>2. RequestOK(p)' BY <1>1, <1>3, <2>1, FinishFacts DEF RequestOK, Answered
  <2> QED BY <1>1, <1>3, <2>2, FinishFacts, LocalStep
<1>4. CASE /\ pc' = [pc EXCEPT ![p] = "idle"]
           /\ req' = [req EXCEPT ![p].status = "401", ![p].failed = TRUE]
           /\ UNCHANGED tokens
  <2> DEFINE r == [req[p] EXCEPT !.status = "401", !.failed = TRUE]
  <2>1. req[p] \in Request /\ req' = [req EXCEPT ![p] = r]
    BY <1>1, <1>4 DEF TypeOK
  <2>2. r \in Request /\ r.failed /\ r.op = "sign-in"
    BY <1>1, <2>1 DEF Request
  <2> HIDE DEF r
  <2>3. /\ pc' \in [Procs -> {"idle", "exists", "create", "login", "verify",
                              "load", "profile"}]
        /\ req' \in [Procs -> Request] /\ Others(p)
        /\ pc'[p] = "idle" /\ req'[p] = r
    BY <1>1, <1>4, <2>1, <2>2 DEF TypeOK, Others
  <2>4. RequestOK(p)' BY <2>2, <2>3 DEF RequestOK, Answered
  <2> QED BY <1>1, <1>4, <2>3, <2>4, LocalStep
<1> QED BY <1>2, <1>3, <1>4 DEF Login

(* jwt.Parse, GetUserByID and GetUserProfile: the identity is the token's. *)
LEMMA MeInv ==
    ASSUME IInv, NEW p \in Procs, Verify(p) \/ LoadUser(p) \/ Profile(p)
    PROVE  IInv'
<1>1. /\ req[p].op = "me" /\ req[p].token \in tokens /\ TypeOK
      /\ UNCHANGED <<users, tokens, now>>
  BY DEF IInv, Verify, LoadUser, Profile, RequestInv, RequestOK
<1>2. ASSUME NEW s \in {"401", "500"}, Finish(p, s) PROVE IInv'
  <2>1. RequestOK(p)' BY <1>1, <1>2, FinishFacts DEF RequestOK, Answered
  <2> QED BY <1>1, <1>2, <2>1, FinishFacts, LocalStep
<1>3. CASE Verify(p) /\ Goto(p, "load")
  <2>1. RequestOK(p)' BY <1>1, <1>3, GotoFacts DEF RequestOK, Answered
  <2> QED BY <1>1, <1>3, <2>1, GotoFacts, LocalStep
<1>4. CASE /\ pc' = [pc EXCEPT ![p] = "profile"]
           /\ req' = [req EXCEPT ![p].user = req[p].token.user]
  <2>1. req[p].token.user \in Ids BY <1>1 DEF TypeOK, Token
  <2>2. /\ pc' \in [Procs -> {"idle", "exists", "create", "login", "verify",
                              "load", "profile"}]
        /\ req' \in [Procs -> Request] /\ Others(p)
    BY <1>1, <1>4, <2>1 DEF TypeOK, Request, Others
  <2>3. /\ pc'[p] = "profile" /\ req'[p].user = req[p].token.user
        /\ req'[p].token = req[p].token /\ req'[p].op = "me"
    BY <1>1, <1>4 DEF TypeOK, Request
  <2>4. RequestOK(p)' BY <1>1, <2>3 DEF RequestOK, Answered
  <2> QED BY <1>1, <2>2, <2>4, LocalStep
<1>5. CASE Profile(p) /\ Finish(p, "200")
  <2>1. req[p].user = req[p].token.user
    BY <1>5 DEF Profile, IInv, RequestInv, RequestOK
  <2>2. RequestOK(p)' BY <1>1, <1>5, <2>1, FinishFacts DEF RequestOK, Answered
  <2> QED BY <1>1, <1>5, <2>2, FinishFacts, LocalStep
<1>6. CASE Verify(p) BY <1>2, <1>3, <1>6 DEF Verify
<1>7. CASE LoadUser(p) BY <1>2, <1>4, <1>7 DEF LoadUser
<1>8. CASE Profile(p) BY <1>2, <1>5, <1>8 DEF Profile
<1> QED BY <1>6, <1>7, <1>8

(* A process that dies leaves the invariant intact. *)
LEMMA CrashInv ==
    ASSUME IInv, NEW p \in Procs, Crash(p) PROVE IInv'
<1>1. NoRequest \in Request /\ NoRequest.op = "none"
  BY DEF NoRequest, Request
<1>2. /\ pc' \in [Procs -> {"idle", "exists", "create", "login", "verify",
                            "load", "profile"}]
      /\ req' \in [Procs -> Request] /\ Others(p)
      /\ pc'[p] = "idle" /\ req'[p] = NoRequest
  BY <1>1 DEF Crash, IInv, TypeOK, Others
<1>3. RequestOK(p)' BY <1>1, <1>2 DEF RequestOK, Answered
<1> QED BY <1>2, <1>3, LocalStep DEF Crash

(* The clock, and steps that change nothing, preserve the invariant. *)
LEMMA IdleInv ==
    ASSUME IInv, Tick \/ UNCHANGED vars PROVE IInv'
<1>1. UNCHANGED <<users, pc, req, tokens>> /\ now' \in Nat
  BY DEF Tick, vars, IInv, TypeOK
<1> QED BY <1>1 DEF IInv, TypeOK, UniqueEmails, TokensInv, AccountOf,
                    RequestInv, RequestOK, Answered, Taken, HasEmail, Matches

-----------------------------------------------------------------------------

(* The inductive invariant: emails are unique in the table, and every token and
   every request in flight agrees with the row it is about. *)
THEOREM AccountsInductive == Spec => []IInv
<1>1. Init => IInv
  <2> SUFFICES ASSUME Init PROVE IInv
    OBVIOUS
  <2>1. TypeOK BY DEF Init, TypeOK, NoRequest, Request
  <2>2. UniqueEmails /\ TokensInv BY DEF Init, UniqueEmails, TokensInv
  <2>3. RequestInv BY DEF Init, RequestInv, RequestOK, Answered, NoRequest
  <2> QED BY <2>1, <2>2, <2>3 DEF IInv
<1>2. IInv /\ [Next]_vars => IInv'
  BY ArriveInv, CheckEmailInv, CreateUserInv, LoginInv, MeInv, CrashInv, IdleInv
     DEF Next
<1> QED BY <1>1, <1>2, PTL DEF Spec

(* Type correctness of the table, the tokens and the request goroutines. *)
THEOREM AccountsTypeCorrect == Spec => []TypeOK
BY AccountsInductive, PTL DEF IInv

(* However sign-ups race, all tokens for an email belong to one account and
   were earned with one password, as far as bcrypt looks. *)
THEOREM OneHolder == Spec => []OneHolderPerEmail
<1>1. IInv => OneHolderPerEmail
  <2> SUFFICES ASSUME IInv, NEW s \in tokens, NEW t \in tokens,
                      s.email = t.email
               PROVE  s.user = t.user /\ s.hash = t.hash
    BY DEF OneHolderPerEmail
  <2>1. s \in Token /\ t \in Token BY DEF IInv, TypeOK
  <2>2. /\ users[s.user] = [email |-> s.email, hash |-> s.hash]
        /\ users[t.user] = [email |-> t.email, hash |-> t.hash]
    BY DEF IInv, TokensInv, AccountOf
  <2>3. users[s.user] # None /\ users[t.user] # None
    BY <2>1, <2>2, NoneAssumption DEF Token, User
  <2>4. s.user = t.user BY <2>1, <2>2, <2>3 DEF IInv, UniqueEmails, Token
  <2> QED BY <2>2, <2>4
<1> QED BY <1>1, AccountsInductive, PTL

(* /me shows the account whose email and password earned the token. *)
THEOREM OwnProfile == Spec => []MeIsTokenHolder
<1>1. IInv => MeIsTokenHolder
  BY DEF IInv, MeIsTokenHolder, RequestInv, RequestOK, TokensInv, AccountOf
<1> QED BY <1>1, AccountsInductive, PTL

(* SignUp calls an email taken only when it is. *)
THEOREM HonestConflict == Spec => []ConflictMeansTaken
<1>1. IInv => ConflictMeansTaken
  BY DEF IInv, ConflictMeansTaken, RequestInv, RequestOK
<1> QED BY <1>1, AccountsInductive, PTL

(* SignIn refuses credentials that earned a token only when the database fails
   it: no sign-up that races or follows takes an account away. *)
THEOREM GoodCredentialsStay == Spec => []HolderRefusedOnlyByFailure
<1>1. IInv => HolderRefusedOnlyByFailure
  BY DEF IInv, HolderRefusedOnlyByFailure, RequestInv, RequestOK
<1> QED BY <1>1, AccountsInductive, PTL
=============================================================================
