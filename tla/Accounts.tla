------------------------------ MODULE Accounts ------------------------------
(***************************************************************************)
(* Accounts and sessions: the users table, SignUp and SignIn of            *)
(* authService, the JWT they issue, and GET /v1/auth/me, which presents    *)
(* one to JWTAuth.                                                         *)
(*                                                                         *)
(* SignUp looks for the email and inserts the user in two statements, and  *)
(* other sign-ups run in between; the database can fail at each statement, *)
(* or commit one whose answer is lost.                                     *)
(***************************************************************************)
EXTENDS Integers

CONSTANTS
    Emails,         \* email addresses, equal when CITEXT finds them equal
    Passwords,      \* passwords: 8 to 72 characters to sign up, any to sign in
    LongPasswords,  \* those of more than 72 bytes
    Bcrypt,         \* the hash that each one matches: that of its first 72 bytes
    Ids,            \* values of the users.id sequence
    Procs,          \* request goroutines
    JwtTimeout,     \* lifetime of a token (24 hours in main.go)
    MaxTime,        \* bound on the clock
    Faulty,         \* whether calls fail and processes die
    None            \* SQL NULL, "not set"

Hashes == {Bcrypt[w] : w \in Passwords}

(* A row of users. *)
User == [email : Emails, hash : Hashes]

(* The claims of a JWT (user_id and exp), with the email and the hash of the
   password that its holder presented to get it. *)
Token == [user : Ids, exp : Nat, email : Emails, hash : Hashes]

ASSUME ConstantsAssumption ==
    /\ LongPasswords \subseteq Passwords
    /\ JwtTimeout \in Nat /\ MaxTime \in Nat /\ Faulty \in BOOLEAN

ASSUME NoneAssumption ==
    /\ None \notin User /\ None \notin Ids /\ None \notin Token
    /\ None \notin Emails /\ None \notin Passwords /\ None \notin Hashes

VARIABLES
    users,   \* the users table, by id
    pc,      \* the next call of each request goroutine
    req,     \* the local variables of each request goroutine
    tokens,  \* the tokens clients have received
    now      \* the clock

vars == <<users, pc, req, tokens, now>>

Request == [op : {"none", "sign-up", "sign-in", "me"},
            email : Emails \cup {None}, password : Passwords \cup {None},
            token : Token \cup {None}, user : Ids \cup {None},
            holder : BOOLEAN, \* history: these credentials had earned a token
            failed : BOOLEAN, \* history: the database failed the sign-in
            status : {"none", "pending", "200", "400", "401", "409", "500"}]

NoRequest == [op |-> "none", email |-> None, password |-> None,
              token |-> None, user |-> None, holder |-> FALSE,
              failed |-> FALSE, status |-> "none"]

Init ==
    /\ users = [i \in Ids |-> None]
    /\ pc = [p \in Procs |-> "idle"]
    /\ req = [p \in Procs |-> NoRequest]
    /\ tokens = {}
    /\ now = 0

Start(p, step, r) ==
    /\ pc[p] = "idle"
    /\ pc' = [pc EXCEPT ![p] = step]
    /\ req' = [req EXCEPT ![p] = r]
    /\ UNCHANGED <<users, tokens, now>>

Goto(p, step) == pc' = [pc EXCEPT ![p] = step] /\ UNCHANGED req

Finish(p, status) ==
    /\ pc' = [pc EXCEPT ![p] = "idle"]
    /\ req' = [req EXCEPT ![p].status = status]

(* WHERE email = $1 *)
HasEmail(i, e) == users[i] # None /\ users[i].email = e

Taken(e) == \E i \in Ids : HasEmail(i, e)

(* generateToken for user i, and the answer that carries it. *)
AnswerWithToken(p, i) ==
    /\ pc' = [pc EXCEPT ![p] = "idle"]
    /\ req' = [req EXCEPT ![p].status = "200", ![p].user = i]
    /\ tokens' = tokens \cup
         {[user |-> i, exp |-> now + JwtTimeout,
           email |-> req[p].email, hash |-> Bcrypt[req[p].password]]}

-----------------------------------------------------------------------------
(* POST /v1/auth/sign-up.                                                  *)

(* A body that does not decode or does not validate. *)
BadRequest(p) == Start(p, "idle", [NoRequest EXCEPT !.status = "400"])

StartSignUp(p, e, w) ==
    Start(p, "exists", [NoRequest EXCEPT !.op = "sign-up", !.email = e,
                                         !.password = w, !.status = "pending"])

(* Seeded fault: every error is taken for a known email. *)
CheckEmailErrorIsTaken(p) ==
    /\ pc[p] = "exists"
    /\ \/ ~Taken(req[p].email) /\ Goto(p, "create")
       \/ (Taken(req[p].email) \/ Faulty) /\ Finish(p, "409")
    /\ UNCHANGED <<users, tokens, now>>

(* GetUserByEmail, then bcrypt, which refuses more than 72 bytes. *)
CheckEmail(p) ==
    /\ pc[p] = "exists"
    /\ \/ Taken(req[p].email) /\ Finish(p, "409")
       \/ /\ ~Taken(req[p].email) /\ req[p].password \notin LongPasswords
          /\ Goto(p, "create")
       \/ /\ ~Taken(req[p].email) /\ req[p].password \in LongPasswords
          /\ Finish(p, "500")
       \/ Faulty /\ Finish(p, "500")
    /\ UNCHANGED <<users, tokens, now>>

(* Seeded fault: the table lets an email in twice. *)
CollidesNever(e) == FALSE

(* UNIQUE (email) *)
Collides(e) == Taken(e)

(* Seeded fault: the row is written before the password is hashed. *)
InsertUserUnhashed(p, i) ==
    /\ users[i] = None
    /\ users' = [users EXCEPT ![i] = [email |-> req[p].email, hash |-> None]]

(* INSERT INTO users *)
InsertUser(p, i) ==
    /\ users[i] = None
    /\ users' = [users EXCEPT ![i] = [email |-> req[p].email,
                                      hash |-> Bcrypt[req[p].password]]]

(* Seeded fault: INSERT ... ON CONFLICT (email) DO UPDATE. *)
CreateUserUpserts(p) ==
    /\ pc[p] = "create"
    /\ \E i \in Ids :
         /\ HasEmail(i, req[p].email)
              \/ (users[i] = None /\ ~Taken(req[p].email))
         /\ users' = [users EXCEPT ![i] = [email |-> req[p].email,
                                           hash |-> Bcrypt[req[p].password]]]
         /\ AnswerWithToken(p, i)
    /\ UNCHANGED now

(* CreateUser and generateToken. *)
CreateUser(p) ==
    /\ pc[p] = "create"
    /\ \/ /\ Collides(req[p].email)
          /\ Finish(p, "409")
          /\ UNCHANGED <<users, tokens>>
       \/ /\ ~Collides(req[p].email)
          /\ \E i \in Ids : InsertUser(p, i) /\ AnswerWithToken(p, i)
       \/ /\ Faulty
          /\ Finish(p, "500")
          /\ UNCHANGED <<users, tokens>>
       \/ /\ Faulty /\ ~Collides(req[p].email) \* committed, answer lost
          /\ \E i \in Ids : InsertUser(p, i)
          /\ Finish(p, "500")
          /\ UNCHANGED tokens
    /\ UNCHANGED now

-----------------------------------------------------------------------------
(* POST /v1/auth/sign-in.                                                  *)

StartSignIn(p, e, w) ==
    Start(p, "login", [NoRequest EXCEPT
        !.op = "sign-in", !.email = e, !.password = w, !.status = "pending",
        !.holder = \E t \in tokens : t.email = e /\ t.hash = Bcrypt[w]])

(* Seeded fault: the password is not compared. *)
MatchesEmailOnly(i, r) == HasEmail(i, r.email)

(* The row of the email, and CompareHashAndPassword, which takes a password of
   any length and looks at its first 72 bytes. *)
Matches(i, r) == HasEmail(i, r.email) /\ users[i].hash = Bcrypt[r.password]

(* Every error, that of the database included, is "invalid credentials". *)
Login(p) ==
    /\ pc[p] = "login"
    /\ \/ \E i \in Ids : Matches(i, req[p]) /\ AnswerWithToken(p, i)
       \/ /\ ~\E i \in Ids : Matches(i, req[p])
          /\ Finish(p, "401")
          /\ UNCHANGED tokens
       \/ /\ Faulty
          /\ pc' = [pc EXCEPT ![p] = "idle"]
          /\ req' = [req EXCEPT ![p].status = "401", ![p].failed = TRUE]
          /\ UNCHANGED tokens
    /\ UNCHANGED <<users, now>>

-----------------------------------------------------------------------------
(* GET /v1/auth/me, with a token the service signed.                       *)

StartMe(p, t) ==
    Start(p, "verify", [NoRequest EXCEPT !.op = "me", !.token = t,
                                         !.status = "pending"])

(* jwt.Parse: the expiry must lie ahead. *)
Verify(p) ==
    /\ pc[p] = "verify"
    /\ \/ now < req[p].token.exp /\ Goto(p, "load")
       \/ now >= req[p].token.exp /\ Finish(p, "401")
    /\ UNCHANGED <<users, tokens, now>>

(* GetUserByID of JWTAuth: the identity is the user that was loaded. *)
LoadUser(p) ==
    LET i == req[p].token.user IN
    /\ pc[p] = "load"
    /\ \/ /\ users[i] # None
          /\ pc' = [pc EXCEPT ![p] = "profile"]
          /\ req' = [req EXCEPT ![p].user = i]
       \/ (users[i] = None \/ Faulty) /\ Finish(p, "500")
    /\ UNCHANGED <<users, tokens, now>>

(* GetUserProfile of MeHandler. *)
Profile(p) ==
    /\ pc[p] = "profile"
    /\ \/ users[req[p].user] # None /\ Finish(p, "200")
       \/ (users[req[p].user] = None \/ Faulty) /\ Finish(p, "500")
    /\ UNCHANGED <<users, tokens, now>>

-----------------------------------------------------------------------------

(* The process serving the request dies. *)
Crash(p) ==
    /\ Faulty /\ pc[p] # "idle"
    /\ pc' = [pc EXCEPT ![p] = "idle"]
    /\ req' = [req EXCEPT ![p] = NoRequest]
    /\ UNCHANGED <<users, tokens, now>>

Tick ==
    /\ now < MaxTime
    /\ now' = now + 1
    /\ UNCHANGED <<users, pc, req, tokens>>

Next ==
    \/ \E p \in Procs :
         \/ BadRequest(p)
         \/ \E e \in Emails, w \in Passwords :
              StartSignUp(p, e, w) \/ StartSignIn(p, e, w)
         \/ \E t \in tokens : StartMe(p, t)
         \/ CheckEmail(p) \/ CreateUser(p) \/ Login(p)
         \/ Verify(p) \/ LoadUser(p) \/ Profile(p)
         \/ Crash(p)
    \/ Tick

Spec == Init /\ [][Next]_vars
-----------------------------------------------------------------------------
(* Properties.                                                             *)

(* The table, the tokens and the locals of the handlers are what the code
   declares them to be. *)
TypeOK ==
    /\ users \in [Ids -> User \cup {None}]
    /\ pc \in [Procs -> {"idle", "exists", "create", "login", "verify",
                         "load", "profile"}]
    /\ req \in [Procs -> Request]
    /\ tokens \subseteq Token
    /\ now \in Nat

Answered(p, op, status) ==
    pc[p] = "idle" /\ req[p].op = op /\ req[p].status = status

(* However many sign-ups and sign-ins overlap, all the tokens that were ever
   issued for an email name one account, and the password presented to get
   them is the same, as far as bcrypt looks: no sign-up takes over, or shadows,
   an account that somebody else registered. *)
OneHolderPerEmail ==
    \A s, t \in tokens :
        s.email = t.email => s.user = t.user /\ s.hash = t.hash

(* The profile that /me shows is that of the account whose email and password
   were presented when the token was issued. *)
MeIsTokenHolder ==
    \A p \in Procs :
        Answered(p, "me", "200") =>
            users[req[p].user] = [email |-> req[p].token.email,
                                  hash |-> req[p].token.hash]

(* "Email already exists" is said only of an email that has an account. *)
ConflictMeansTaken ==
    \A p \in Procs :
        Answered(p, "sign-up", "409") => Taken(req[p].email)

(* Credentials that have earned a token are good from then on: whoever else
   signs up, at the same time or later, a sign-in with them is called invalid
   only if the database failed during it. *)
HolderRefusedOnlyByFailure ==
    \A p \in Procs :
        (Answered(p, "sign-in", "401") /\ req[p].holder) => req[p].failed
-----------------------------------------------------------------------------
(* The inductive invariant behind the safety properties.                   *)

UniqueEmails ==
    \A i, j \in Ids :
        (users[i] # None /\ users[j] # None /\ users[i].email = users[j].email)
            => i = j

(* The account of a token is there, and as its holder knows it. *)
AccountOf(t) == users[t.user] = [email |-> t.email, hash |-> t.hash]

TokensInv == \A t \in tokens : AccountOf(t)

(* What a request goroutine may rely on at each of its calls. *)
RequestOK(p) ==
    /\ pc[p] \in {"exists", "create", "login"} =>
         req[p].email \in Emails /\ req[p].password \in Passwords
    /\ pc[p] \in {"exists", "create"} => req[p].op = "sign-up"
    /\ pc[p] = "login" => req[p].op = "sign-in"
    /\ (pc[p] \in {"verify", "load", "profile"} \/ Answered(p, "me", "200")) =>
         req[p].op = "me" /\ req[p].token \in tokens
    /\ (pc[p] = "profile" \/ Answered(p, "me", "200")) =>
         req[p].user = req[p].token.user
    /\ Answered(p, "sign-up", "409") => Taken(req[p].email)
    /\ (pc[p] = "login" /\ req[p].holder) => \E i \in Ids : Matches(i, req[p])
    /\ (Answered(p, "sign-in", "401") /\ req[p].holder) => req[p].failed

RequestInv == \A p \in Procs : RequestOK(p)

IInv == TypeOK /\ UniqueEmails /\ TokensInv /\ RequestInv
=============================================================================
