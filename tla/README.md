# Verification of fraudai-service

TLA+ models of the service in `src/`, TLC configurations that check them on small
instances, and proofs that TLAPS checks for every instance. `PROJECT.json` lists the
components, the runs, the source lines behind every definition, the hazards and the
theorems.

## 1. The system

The service is an HTTP API in front of a vendor that scores transactions. Two replicas
(`deploy/stack.yml`) run the same program. They share PostgreSQL and Redis and nothing
else; inside a replica every request has a goroutine, and they share one vendor client.

| Part | State it keeps | Operations | Talks to |
|---|---|---|---|
| API keys (`repo/apikey_repo.go`, `service/apikey.go`, handlers, `auth_api_key.go`) | table `api_keys`; Redis `apikey:<hash>` and `apikey_id:<id>`, one hour each | create, delete, list, authenticate | PostgreSQL, Redis |
| Rate limiter (`middleware/rate_limit.go`) | Redis counters `ratelimit:<identifier>:<endpoint>:<windowStart>` | count and decide | Redis, the identity in the context |
| Vendor client (`clients/thirdparty.go`) | a circuit breaker per process | Ping, Version, Predict, with retries | the vendor |
| Router and authentication chain (`router.go`, `auth_*.go`) | the identity in the request's context | which middleware runs, in which order | all of the above |
| Accounts (`service/auth.go`, `auth_handlers.go`, `user_repo.go`) | table `users`; JWTs in the hands of clients | sign-up, sign-in, `/me` | PostgreSQL |
| Prediction (`handlers.go`, `service/vendor.go`) | table `inference_logs` | read the body, call the vendor, log, answer | vendor client, PostgreSQL |
| Server (`cmd/api/main.go`, `config/config.go`, `entrypoint.sh`, `ReadinessHandler`) | phase of `main`, settings, listener, connections, pool; the progress of the migrations in the database | migrate, start, probe, stop, force, restart | PostgreSQL, Redis, the orchestrator |
| Model listing, observability | none that a request changes | - | - |

What is hard about it, and what correctness means there:

* **A cache next to a table, without transactions.** Looking a key up is GET, SELECT, SET,
  SET; deleting one is DELETE, GET, DEL, DEL. Other requests run between any two of these,
  Redis errors are ignored by design, a call can take effect and lose its answer, and the
  process can die in the middle. Correct: whoever is admitted is admitted as the owner of
  the key presented; a revoked key stops working within a bound that can be named; a live
  key is never called invalid.
* **A counter shared by replicas.** The window is computed before the counter is
  incremented, the remaining time is read in another call, `EXPIRE` and `TTL` work in whole
  seconds, and go-redis repeats a script whose answer was lost. Correct: a window lets no
  more through than its limit, and refuses nobody while a place is left.
* **A circuit breaker with calls that outlive their generation.** Correct: a half-open
  breaker is decided by its probe and by nothing that started before; a healthy vendor
  closes it again.
* **Check-then-insert** of emails by concurrent sign-ups. Correct: an email has one holder, and
  credentials that were good once stay good.
* **Logging after the fact**: the key can be deleted and the context can end between the
  prediction and its row. Correct: rows name the right key and the amount that was scored,
  and a row is missing only for a known reason.
* **A chain of authentication middleware** that differs per route and runs `jwtAuth` twice
  on one of them. Correct: counted once, for the identity that is served.
* **An identity that travels.** Authentication, limiter and handler look at different things
  at different times; nobody looks the key up a second time. Correct, end to end: no score
  for a key long after its revocation, none beyond the rate of that key, no row without a
  place in a window.
* **Start and stop.** Any step of the start can fail, a signal can come at any moment, a
  client can send its request on a connection that was open when the shutdown began, and
  handlers can outlast every timeout; migrations can be interrupted, and what is left of them
  stays in the database. Correct: no server starts on a half migrated database, handlers never lose
  their pool, a forced end costs nobody an answer that could still be delivered, a signal ends the
  process, and a replica whose dependencies come up serves, if no migration was left half done.
* **Timeouts that do not fit together.** Four attempts of three seconds, a breaker that
  forgets every ten, a write timeout of ten, a request context of fifteen.

`PROJECT.json` lists the hazards one by one at their source lines.

## 2. The modules

| Module | Models | Extends |
|---|---|---|
| `KeyRegistry` | what keys promise: the abstract specification | - |
| `APIKeys` | keys, cache, authentication | - |
| `APIKeysRegistry`, `MCAPIKeys` | that `APIKeys` implements `KeyRegistry` | `APIKeys` |
| `RateLimiter`, `MCRateLimiter` | the limiter | - |
| `VendorClient` | retries and circuit breaker | - |
| `VendorTimed` | the same with the durations of the settings | `VendorClient` |
| `Router` | the middleware chains | - |
| `Accounts`, `MCAccounts` | users, JWTs, `/me` | - |
| `Predict`, `MCPredict` | `PredictHandler` and `inference_logs` | - |
| `Server` | one replica from `entrypoint.sh` to its exit | - |
| `Service`, `MCService` | `/v1/fraud/predict` end to end | instances of `KeyRegistry`, `RateLimiter`, `Predict` |
| `APIKeysProofs`, `AccountsProofs`, `RateLimiterProofs`, `VendorClientProofs`, `RouterProofs`, `PredictProofs`, `ServerProofs` | the theorems about each component | the component, `APIKeysRegistry` for `APIKeysProofs` |
| `ServiceProofs` | the theorems about the composition | `Service` |

The `MC` modules hold what only TLC needs (symmetry sets, sample values). Each component
meets the others in few, small facts, which its module takes as input: `Router` takes "this
key is active" (established by `APIKeys`) and "this token is good" (by `Accounts`);
`RateLimiter` and `Predict` take an identity; `Predict` deletes keys the way `APIKeys` does;
`Service` puts the three in a row. What the death of a process, which `Server` explains, means
for the requests in flight is `Crash` or `Restart` of each module.

Common conventions. A goroutine is an element of `Procs`; `pc[p]` is the call it makes next
and `req[p]` its local variables, kept after the answer until the next request, so that
properties can speak about answers. One action is one call of a database, Redis or the
vendor together with all local code up to the next call. With `Faulty` a call may fail, may
take effect and lose its answer, and the process may die between two calls. Operators under
the comment "Seeded fault" are variants of the definition below them with one plausible
mistake; nothing uses them except the experiments that show that a property notices it.

### APIKeys

`apiKeys` is the table, `byHash` and `byId` are the two families of Redis entries with
their expiry. `StartCreate, Insert, Fill, Index` is `CreateAPIKey`; `StartAuth, Lookup,
Select, Fill, Index, LoadUser, Touch` is `APIKeyAuth` over `GetAPIKeyByHash`; `StartDelete,
DeleteRow, FindHash, DropId, DropHash` is `DeleteAPIKey`. `RejectRequest` and
`RandomKeyFails` are the early returns; `Deactivate` is somebody clearing `active` in the
database, which no code does but all code reads. `minted` and `revokedAt` are history.
SHA-256 is collision free, and crypto/rand returns a key once.

`ReqTimeout` stands for the 15 seconds of the request context plus the tail of a call in
flight: the context is checked before a Redis command is sent, and a command that has been
sent runs to its own timeout.

### KeyRegistry and APIKeysRegistry

`KeyRegistry` knows neither table nor cache: a key is issued under an id (`Issue`), its client
learns it (`Deliver`) or never does, it is revoked once (`Revoke`), and a request that presents
it is given a verdict: admitted as the owner, with the right to act until some moment that lies
at most `Grace` after the revocation (`Admit`), or refused, which a holder of a live key never is
(`Refuse`). `APIKeysRegistry` maps `APIKeys` to it: a request has its verdict when it has passed
the active check of `APIKeyAuth` (`pc = "touch"`) and may act until its deadline, or when it was
answered 401; `Grace` is `TTL + 2 * ReqTimeout`; the rates are the effective ones; what was
issued, what clients know and when a key was revoked is the history `APIKeys` keeps. An insert
whose answer is lost is an `Issue` that no `Deliver` follows.

### RateLimiter

Time is in ticks, `TPS` to a second. `ReadClock` fixes limit, identifier and window,
`Incr` runs the Lua script (with go-redis' retries), `Decide` asks for the TTL and gives
the verdict. A counter whose expiry would be zero seconds is deleted at once, as Redis does.
`served` is history, and so is `wasted`: places that were drawn and not used, because the answer
was lost or the process died. Every replica has a clock of its own: `now` is that of the slowest,
and `ReadClock` may read up to `MaxSkew` more.

### VendorClient

`Execute` is the breaker's admission (`ReturnRefused` ends a method it refused), `Attempt` one HTTP attempt, `Report` the breaker's
accounting. Generation numbers are abstracted to the set of calls that belong to the current
generation. Durations are abstracted to `Elapse` (an interval or timeout is over) and to
attempts that take any time. The breaker library is not part of the repository; it is
modelled from the settings and calls in `thirdparty.go`. The three methods differ in path and
payload only, so they are one action. Whether resty repeats an attempt that got no answer is
left open: both are possible in the model.

### VendorTimed

Adds a timer to the breaker's generation and to every attempt, in seconds, under a vendor that
answers every attempt with a 5xx after any time up to the timeout of an attempt, and under
goroutines that call again at once. `Fails` is `Attempt` of `VendorClient` with that answer;
`Tick` is its `Elapse` when the timer has run down. The waits between attempts are zero, in favour
of the code: they make a call only longer.

### Router

One request with every route and every pair of credentials runs through `ChainOf(route)`;
each middleware is an action that answers or hands on.

### Accounts

`StartSignUp, CheckEmail, CreateUser` is `SignUp`, `StartSignIn, Login` is `SignIn`,
`StartMe, Verify, LoadUser, Profile` is `/me` behind `JWTAuth`. `Bcrypt` gives each password the
hash it matches. Two passwords can have the same one: bcrypt looks at the first 72 bytes. At sign-up
it refuses more (`LongPasswords`), at sign-in it does not, so a longer password that begins like the
right one is accepted. "The same password" in the properties means the same hash. A token
remembers, as history, the email and the hash of the password that were presented to get it; a
sign-in remembers whether its credentials had earned a token before, and whether the database failed
it. That such a failure is answered like a wrong password is what the code and its test
(`auth_test.go:119`) want.

### Predict

`Start, ReadBody, CallVendor, SaveLog` is `PredictHandler`. The body is abstracted to what
the handler can tell (too large, cut off, no JSON, wrong types, invalid, valid). Amounts are
floats of `Precision` bits with rounding to nearest, of either sign, fractions below 1 included, and
not zero, which the validation refuses: `ensureDecimal` is modelled by what the addition really
yields. 0.01 is taken as exact; the float64 next to it differs by less than any distance of floats
from 1/2 on. The table's constraints (NOT NULL, JSONB without U+0000, the foreign
key with ON DELETE SET NULL) are part of `SaveLog` and `DeleteKey`.

### Server

`Migrate, ApplyMigrations, LoadConfig, NewDatabase, NewRedisClient, ReadSecret, Notify` are the
steps of the start; each works or ends the process with exit code 1. `schema` is what the database
keeps of golang-migrate, which is external: `migrate up` marks a version dirty, applies it and
removes the mark, one migration after the other (`MigrationStep`); an outage, a failing statement or
a kill in between leaves the mark, and `Migrate` refuses a dirty database until somebody repairs it
by hand, which is not modelled. `LoadConfig` gives every setting its source: a
variable of the environment counts only if viper has heard of the key, from the file, a default or
`BindEnv`; one setting of each kind stands for the others. `ListenAndServe` runs in its goroutine,
so binding the port races `signal.Notify`. Connections are accepted, silent, busy and idle as in
`net/http`, which is external and modelled from how `main` uses it: `Stop` closes the listener,
`Poll` closes quiet connections and returns when none is left, `ForceExit` is the fatal branch
after ten seconds, `CloseDatabase` the deferred `Close`. A probe runs `ReadinessHandler` ping by
ping; a dependency that is down stands for one that does not answer this ping, for whatever reason.
`Kill`, `Restart` (on failure only) and `DependencyChanges` are the surroundings. Time is in ticks
of five seconds, of which every timeout of `main.go` that matters is a multiple.

### Service

A request goes from `Authenticate` (`Admit` of `KeyRegistry`) through `EnterLimiter` and
`LimiterStep` (the actions of `RateLimiter`) to `EnterHandler` and `HandlerStep` (those of
`Predict`). What flows between them is the context: the identity with its rate, and one deadline.
Keys are deleted and deactivated at any time. That limiter and handler have no faults of their own
here is a bound: with faults they are checked alone. `place` and `scored` are history.

## 3. The runs

| Run | Result | What it shows |
|---|---|---|
| `APIKeys_revocation` | holds | one key, two users, two concurrent requests, every fault: owner, staleness bound, no false refusal, and the refinement of `KeyRegistry` |
| `RateLimiter_window` | holds | skewed clocks, every fault: limit on time, twice the limit at worst, Retry-After long enough, no 429 while a place is left |
| `RateLimiter_sliding` | violated | the window is fixed, not sliding (finding 1) |
| `RateLimiter_subsecond` | violated | a window below a second limits nothing (finding 3) |
| `VendorClient_breaker` | holds | one probe, which alone decides; the breaker recovers (liveness) |
| `VendorTimed_slow` | violated | a vendor that fails slowly never opens the breaker (finding 4) |
| `Server_lifecycle` | holds | secrets, migrations, pool, readiness, what a forced shutdown may cut off; the process stops when told and starts in the end (liveness) |
| `Service_predict` | holds | no late score, none beyond the rate, no row without a place |
| `Router_auth` | holds | served as the user proved, keys managed by users only, counted once |
| `Router_limiter_identity` | violated | the limiter can be reached without an identity (finding 2) |
| `Accounts_race` | holds | one holder per email, `/me` shows the holder, 409 is honest, good credentials are refused only by a failing database |
| `Predict_log` | holds | rows name key and amount; missing rows have one of four reasons; decimals |

Bounds, and why they are enough:

* `APIKeys_revocation`: the races of the cache need one key and two requests (one that
  reads before and writes after the other); the second user deletes what is not theirs.
  `TTL = 1`, `ReqTimeout = 1`, `MaxTime = 4`: a key can be created, cached, revoked and cached
  again, and the clock still passes `TTL + 2 * ReqTimeout`. What more keys and more goroutines
  could add is covered by the proofs, `ImplementsRegistry` included.
* `RateLimiter_window`: `Window` of two seconds at two ticks per second, so that rounding to
  seconds shows; clocks up to half a second apart; the clock reaches the second window; three
  requests are one more than twice the limit. `RateLimiter_sliding` has four requests. `RateLimiter_subsecond`
  has a window of one tick, half a second, and neither faults nor skew.
* `VendorClient_breaker`: three goroutines are a call from before the trip, a probe and one
  more; `TripAfter = 2` makes counting and resetting visible; one retry reaches both ends of
  the retry loop.
* `VendorTimed_slow`: the durations of `thirdparty.go`, its four attempts, two goroutines, and a
  breaker that trips on the second failure in a row instead of the sixth, which makes it easier
  to trip. With attempts of one second the same property holds.
* `Server_lifecycle`: one connection and one probe; a second connection would have the same
  freedom as the first. 10 s, 10 s and 5 s are two, two and one tick. Of two migrations either, both
  or none may be there at first, and either may be interrupted. `CutOnlyUnanswerable` speaks of
  connections and not of the probe, whose age is not modelled.
* `Service_predict`: one key of rate one or two, two requests, so that both fit into the window
  or one is refused; the clock reaches the second window, and the deadline of a request can lie
  on either side of the grace of the key.
* `Router`: every route with every pair of credentials, without any bound.
* `Accounts_race`: two emails, two goroutines, two passwords and one of more than 72 bytes, the
  first 72 of which are those of one of the others.
* `Predict_log`: `Precision = 8`, with amounts on either side of the threshold from which on
  0.01 is less than half the distance of two floats (4 with 8 bits, 2^47 with 53), with negative
  ones, among them -1, where a cent leads to denser floats, and with a fraction.

`CHECK_DEADLOCK FALSE` is set where the model ends when the bound on requests is used up
(`RateLimiter`, `Predict`, `Service`) or when the one request is answered (`Router`). The other models
can always go on.

Fairness is assumed in three modules. `VendorClient`: an attempt that was started ends (three
seconds of resty timeout), a goroutine that has its result, or was refused, goes on, time passes.
Nobody is assumed to call the vendor; that calls keep coming is a premise of `Recovers`, next to
the vendor staying healthy. `VendorTimed`: goroutines and time go on. `Server`: `main` and the
goroutine of the listener are scheduled, time passes, and the orchestrator restarts what failed
(`restart_policy`). Nothing is assumed of clients, handlers and dependencies: `StopsWhenTold` has
to hold although a handler may never return, and that dependencies stay up, and that nobody stops
the replica, are premises of `StartsInTheEnd`, and so is that no start leaves a migration half done:
without it the property is false, as the mark in `schema_migrations` outlives the outage.

## 4. Findings

1. **The window is fixed** (`RateLimiter_sliding`). `README.md` promises "a sliding window
   algorithm"; around a border twice the limit passes within one window length.
2. **No identity at the limiter** (`Router_limiter_identity`). `/v1/fraud` has `APIKeyAuth`
   without the final check, so a request without a key is answered 500 by the branch that
   "should not happen if auth middleware is properly configured".
3. **A window below a second limits nothing** (`RateLimiter_subsecond`). `int(window.Seconds())` is
   zero, `EXPIRE` with zero seconds deletes the counter in the script that made it, and every
   request draws one. `PREDICT_RATE_WINDOW` is a `time.Duration` that nothing validates;
   `rate_limit.go` says that the middleware "enforces a rate limit".
4. **A vendor that fails slowly never opens the breaker** (`VendorTimed_slow`). A call of four
   attempts of three seconds outlasts the ten seconds of `Interval`: its failure belongs to a
   generation that is over and is not counted. `thirdparty_test.go` expects failing calls to trip
   the breaker, with a vendor that fails at once.

Seen in the source while modelling, and not given runs of their own: a deleted key can come
back into the cache, when `GetAPIKeyByHash` has read the row before and writes the entry after the
delete (`StaleBound` proves how long it lasts at most); a signal between the start of the listener
and `signal.Notify` ends the process at once; the ten seconds of `Shutdown` are as long as the
default grace of a container stop, after which the process is killed; deleting the id of
another user's key (or of no key) is answered 204 and drops the other user's cache entries,
because `:exec` does not look at the rows affected; `SignIn` answers a failing database with
"invalid credentials", as `auth_test.go:119` asserts for any error of the repository; an interrupted
migration keeps every later start from succeeding; `/inference/predict` accepts an API key
alone although `openapi.yaml` lists `BearerAuth` only; from 2^47 on `ensureDecimal` has no
effect although its comment says it ensures a decimal part (`AmountHasDecimals` states the
range in which it does); rows of `inference_logs` for bodies that are not JSON are always
refused by the column type.

## 5. The proofs

Every safety property that a passing run checks is also proved: for every set of users, keys, ids,
amounts, connections and goroutines, every time and every limit, with and without faults (`Service`
composes its components without faults of their own).

| Module | Theorem | Statement | Hypotheses beyond the module's assumptions |
|---|---|---|---|
| `APIKeysProofs` | `Inductive`, `TypeCorrect` | `[]IInv`, `[]TypeOK` | |
| | `Ownership`, `StaleBound`, `NoFalseRefusal` | `[]AdmittedAsOwner`, `[]StaleEntriesDie`, `[]LiveKeyNeverRefused` | |
| | `RevocationBound` | `RevocationTakesHold`, an action property | |
| | `RegistryImplemented` | `ImplementsRegistry`, the refinement of `KeyRegistry` | |
| `AccountsProofs` | `AccountsInductive`, `AccountsTypeCorrect` | `[]IInv`, `[]TypeOK` | |
| | `OneHolder`, `OwnProfile`, `HonestConflict`, `GoodCredentialsStay` | `[]OneHolderPerEmail`, `[]MeIsTokenHolder`, `[]ConflictMeansTaken`, `[]HolderRefusedOnlyByFailure` | |
| `RateLimiterProofs` | `RateLimiterTypeCorrect` | `[]TypeOK` | |
| | `RefusedOnlyWhenFull` | `[]RejectedOnlyWhenFull` | |
| | `LimitHoldsWithinWindow`, `RetryAfterIsEnough` | `[]OnTimeWithinLimit`, `[]RetryAfterEnough` | `Window % TPS = 0` |
| | `AtMostTwoLives` | `[]AtMostTwiceTheLimit` | `Window % TPS = 0`, `ReqTimeout + MaxSkew <= Window` |
| `VendorClientProofs` | `VendorClientInductive`, `VendorClientTypeCorrect` | `[]IInv`, `[]TypeOK` | |
| | `ProbesAreBounded` | `[]ProbesBounded` | |
| | `ProbeAloneDecides` | `ProbeDecides`, an action property | |
| `RouterProofs` | `RouterInductive` | `[]IInv` | |
| | `HandlersRunAsProved`, `KeysNeedAUser`, `ServedIsCountedOnce` | `[]ServedAsProved`, `[]KeysManagedByUsersOnly`, `[]CountedOnceAsServed` | |
| `PredictProofs` | `PredictInductive`, `PredictTypeCorrect` | `[]IInv`, `[]TypeOK` | |
| | `RowsNameTheirKey`, `RowsAsScored`, `AnswersAreLogged` | `[]LogNamesItsKey`, `[]LoggedAsScored`, `[]ServedIsLogged` | |
| | `AmountsWithinTwoCents`, `AmountsHaveDecimals` | `[]AmountWithinTwoCents`, `[]AmountHasDecimals` | |
| `ServerProofs` | `ServerInductive`, `ServerTypeCorrect` | `[]IInv`, `[]TypeOK` | |
| | `SecretsAreInEffect`, `ServerNeedsMigrations`, `HandlersHavePool`, `ReadinessIsHonest` | `[]SecretsTakeEffect`, `[]ServesOnlyMigrated`, `[]PoolOutlivesHandlers`, `[]ReadinessHonest` | |
| | `ForcedEndIsHarmless` | `CutOnlyUnanswerable`, an action property | `WriteTimeout <= ShutdownTimeout` |
| `ServiceProofs` | `ServiceInductive` | `[]IInv` | |
| | `ScoresInTime`, `ScoresWithinTheRate`, `RowsHavePlaces` | `[]NoLateScore`, `[]ScoredWithinRate`, `[]RowsOfPlaces` | |

The assumptions of the modules say that numbers are numbers, that `None` is none of the values
it stands beside, that `BogusKey` was never issued, that there are finitely many goroutines where
they are counted (`RateLimiter`, `VendorClient`, `Service`), that one identifier has one limit
(`RateLimiter`), what the amounts of `Predict` are, and that `ReqTimeout <= Grace` (`Service`; the
registry that `APIKeys` implements has `Grace = TTL + 2 * ReqTimeout`); `PowersOfTwo` states an arithmetic fact about `2^n` that the provers do
not have. The hypotheses in the last column are real conditions on the settings:

* `Window % TPS = 0`: the window is a whole number of seconds. `EXPIRE` takes whole seconds, and
  with a fraction the counter dies before its window ends. The default is one minute; nothing in
  `config.go` refuses `1500ms`.
* `ReqTimeout + MaxSkew <= Window`: 15 seconds and the difference of the clocks against one minute.
  A request that may be counted later than a whole window could bring a counter back to life a
  third time.
* `WriteTimeout <= ShutdownTimeout`: both are ten seconds in `main.go`. With a longer write timeout
  the forced end would cut off an answer that could still be delivered.

*APIKeys.* None of the properties is inductive. That an admitted request carries the right
owner depends on the cache entry it found, which depends on the row somebody else read; that
an entry dies in time depends on the deadline of the goroutine that is about to write it. The
invariant therefore says what each piece of state may rely on: `TableInv` (rows agree with
what was inserted, and a key is revoked exactly when its row is gone or inactive),
`CacheInv` (an entry agrees with the row it was made from and expires within `TTL`),
`RequestInv` (what a goroutine holds at each of its calls: the identity inserted for its key,
and, if that key is revoked by now, a deadline that lies close enough to the revocation),
`KnownInv`, and the two properties themselves. The bound arises along the chain: a request
that was running at the revocation ends within `ReqTimeout`; what it writes lives `TTL`; a
request that reads this at the last moment ends within another `ReqTimeout`. There is one
lemma per action; frame lemmas (`RequestFrame`, `CacheFrame`, `StaleFrame`, ...) carry the
parts that an action does not touch.

The refinement needs one thing more, `FreshInv`: a key that is about to be inserted was drawn by
one goroutine and has not been inserted. `InitRefines` maps the initial states; a lemma per action
(`InsertRefines`, `SelectRefines`, `LoadUserRefines`, ...) names the step of the registry that it
is, and `UnseenStep` covers the many that are a `Forget` or nothing at all. Since `Service` builds
on `KeyRegistry`, this is what ties the end-to-end model to table and cache.

*Accounts.* `UniqueEmails` comes from the unique index, not from the check before the
insert; `TokensInv` (the account of a token is there, as its holder knows it) makes the rest
follow; `RequestInv` ties a request of `/me` to its token, and a sign-in with credentials that had
earned a token to a row that matches them: rows are never changed, so the row is still there when
the password is compared.

*RateLimiter.* Every step is one of six kinds (`StepCases`): a request starts, counts, is not
counted, is refused, is admitted, or fails. `BaseInv` has the types and what a goroutine holds at
each call. `PlacesInv` balances the books of a counter: what its value says was drawn equals what
was passed on, what is held by goroutines that will pass, and what was wasted; hence a 429 means a
full window. `WindowInv` follows the life of a counter: it was created at some moment by a request
that had read the clock `ReqTimeout + MaxSkew` before at most, expires no earlier than its window,
and the numbers drawn from it are distinct. The requests counted on time all belong to the first
life (`LimitHoldsWithinWindow`); a second life can start only after the end of the window, and no
request of that window is left by the time a third could (`AtMostTwoLives`).

*VendorClient.* `CallsRun` (a call that belongs to the breaker's generation is a call that runs)
and `ProbesCounted` (a half-open breaker has counted every call of its generation) make both
properties follow; a call from an older generation is not among them, so its report changes nothing.

*Router.* `Chains` writes every chain of `NewRouter` out; `Steps` says how the rest of a chain
shrinks. `IdentityInv` (behind `APIKeyAuth`, whoever is not the key's owner carries no key) and
`CountInv` (nothing is counted before the limiter, and the present identity after it) are what each
middleware hands on.

*Predict.* The invariant relates a row, the call of the vendor and the request by the request's
number, and keeps `DeleteKey` and the foreign key in step. The amounts need a lemma about rounding
to `Precision` bits for every precision and exponent (`EnsureDecimalFacts`). A cent takes a whole
amount to floats as dense as the amount's own, or, from minus a power of two, to denser ones, among
which the amount is as well (`CentStays`), so the rounding never crosses it. The exponent of an
amount is the least element of a set of natural numbers, which the library provides, so no
induction over data is needed.

*Server.* `PhaseInv` (what is open in which phase, and that past `entrypoint.sh` the schema is
complete), `HandlersInv` (a connection with a handler means
that `main` is not past the drain), `DrainInv` (a request that was running when `Stop` came is at
least as old as the drain) and `ProbeInv`. The age in `DrainInv` is what `ForcedEndIsHarmless`
rests on.

*Service.* Each property is about what one part does with what another handed it long before, so
the invariant follows a request through the chain. `FlowInv` says where the calls of a request are
made and that limiter and handler work with the identity and the deadline of its verdict. `KeyInv`
has the argument of `NoLateScore`: a verdict ends within `Grace` of the revocation of its key if that
lies before, and at most `ReqTimeout` from now if it comes later (this is where `ReqTimeout <= Grace`
is used); a request that can still reach the vendor is within its verdict, because no time passes
between limiter and handler and the context of a handler ends at the deadline. `NumbersInv` keeps
requests and places apart by number. `WindowInv` has the life of a counter: it expires no earlier
than its window ends, so all numbers drawn within the window come from one life and differ, and each
that was let through lies in `1..rate`, with the rate the key was issued with. `PlaceInv` says that a
place is held by one request at a time, belongs to a window of the request's own key, and is used for
one score; the scores of a window that were counted on time therefore map one to one into `1..rate`
(`ScoresWithinTheRate`). `RowsInv` is the balance behind `RowsOfPlaces`: the rows of a key and the
requests that may still write one are together no more than the places of the key. A new place adds
one to each side, a written row moves one from the requests to the rows, deleting a key clears the
key column and can only merge rows of the model.
`RateLimiterProofs` is not instantiated here: its assumption that one identifier has one limit is
about the identities given to the module, and in `Service` the rate of an id is a variable, fixed
only by the row that was inserted. The window is therefore argued anew, from `minted`.

Every inductive invariant was also checked with TLC, on the instance of its component's run.

Only model-checked: `Recovers`, `StopsWhenTold` and `StartsInTheEnd`, since liveness under fairness
is outside what the proof system does. What the four runs that expect a violation state is false,
and TLC's counterexamples are the evidence.

## 6. Not modelled

Model listing (copies and sorts by distinct names, changes nothing; its call of the vendor is part
of `VendorClient`), logging, metrics, tracing, CORS and request ids (nothing depends on them), the
limits of the connection pools (an exhausted pool is a call that fails, which the modules have),
what the migrations do to the schema (in `Server` they are begun, finished or interrupted), two
replicas that migrate at once (golang-migrate takes an advisory lock), the image and the pipeline.
Two replicas are goroutines that share PostgreSQL and Redis. Within the modelled parts: formatting,
the masking of listed keys, the `X-RateLimit` headers other than Retry-After, the waits between
resty's attempts, and settings beyond one of each kind.

## 7. Plan

Done: `APIKeys`, `RateLimiter`, `VendorClient`, `Router`, `Accounts`, `Predict`, `Server`,
`KeyRegistry` and its refinement, `VendorTimed`, the composition `Service`; the proofs of every
component's safety properties, of the refinement, and of the composition. Left: faults in `Service`
(each component has them alone), and properties for two steps that are modelled and for which the
repository states nothing: a signal between the start of the listener and `signal.Notify`, and the
answer to a sign-up with a password of more than 72 bytes.
