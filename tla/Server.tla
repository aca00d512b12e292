------------------------------- MODULE Server -------------------------------
(***************************************************************************)
(* The life of one replica: entrypoint.sh, LoadConfig, the connections     *)
(* that main opens, the HTTP server in a goroutine of its own, and the     *)
(* graceful shutdown; the orchestrator starts it again when it fails.      *)
(*                                                                         *)
(* Time is in ticks of five seconds.  What net/http does with connections  *)
(* and what viper does with keys is modelled from how main uses them.      *)
(***************************************************************************)
EXTENDS Integers

CONSTANTS
    Conns,            \* client connections
    Migrations,       \* number of migrations in the image
    WriteTimeout,     \* srv.WriteTimeout (10s)
    ShutdownTimeout,  \* of the context given to srv.Shutdown (10s)
    NewGrace          \* age from which Shutdown closes a silent connection (5s)

ASSUME TimeAssumption ==
    /\ WriteTimeout \in Nat /\ ShutdownTimeout \in Nat /\ NewGrace \in Nat
    /\ Migrations \in Nat

(* Settings by where they can come from: config.yaml, SetDefault, BindEnv.
   One of each kind, and those that main cannot start without. *)
FileKeys == {"VENDOR_BASE_URL", "JWT_SECRET_FILE", "REDIS_PASSWORD",
             "PREDICT_RATE_LIMIT"}

DefaultKeys == {"PREDICT_RATE_LIMIT"}

(* Seeded fault: a secret is forgotten. *)
BoundKeysShort == {"PG_DSN", "REDIS_PASSWORD", "JWT_SECRET_FILE"}

BoundKeys == {"PG_DSN", "REDIS_PASSWORD", "VENDOR_TOKEN", "JWT_SECRET_FILE"}

Secrets == {"PG_DSN", "REDIS_PASSWORD", "VENDOR_TOKEN", "JWT_SECRET_FILE"}
Settings == FileKeys \cup DefaultKeys \cup Secrets
Pinged == {"db", "redis"}
Dependencies == Pinged \cup {"port"}

VARIABLES
    env,    \* config.yaml and the secret as found, the variables that are set
    deps,   \* which dependencies answer
    schema, \* what the database remembers of the migrations
    proc,   \* the process: where main is, and what it holds
    conns,  \* the connections of the HTTP server
    probe,  \* a request of /readyz
    told    \* history: somebody asked the replica to stop

vars == <<env, deps, schema, proc, conns, probe, told>>

Environment ==
    [file : {"ok", "missing", "broken"}, secret : BOOLEAN, migrate : BOOLEAN,
     vars : {{}, {"PG_DSN", "VENDOR_TOKEN"}, Secrets}]

(* The table schema_migrations: the last migration that was begun, and whether
   it was left unfinished. *)
Schema == [version : 0..Migrations, dirty : BOOLEAN]

Migrated == [version |-> Migrations, dirty |-> FALSE]

(* settings says where each value is from, listener where ListenAndServe is,
   quit how many signals the channel holds, shutAge how long ago Shutdown was
   called, and pool whether dbConn is open. *)
Process ==
    [phase : {"migrate", "apply", "config", "database", "redis", "secret", "notify",
              "wait", "drain", "return", "closing", "exited"},
     settings : [Settings -> {"env", "file", "default", "none"}],
     listener : {"off", "starting", "up"}, quit : 0..1,
     shutAge : 0..ShutdownTimeout, pool : {"open", "closed"},
     code : {0, 1, 2, 137}]

(* late: the request was read after Shutdown was called. *)
Conn == [state : {"none", "new", "active", "idle"}, age : 0..WriteTimeout,
         late : BOOLEAN]

(* Its next ping, its answer and, as history, the dependencies that were up,
   and down, at some moment while it ran. *)
Probe == [next : {"none", "db", "redis"}, answer : {"none", "200", "503"},
          up : SUBSET Pinged, down : SUBSET Pinged]

Start(phase, code) ==
    [phase |-> phase, settings |-> [k \in Settings |-> "none"],
     listener |-> "off", quit |-> 0, shutAge |-> 0, pool |-> "closed",
     code |-> code]

Fresh(s) == [state |-> s, age |-> 0, late |-> FALSE]

NoProbe == [next |-> "none", answer |-> "none", up |-> {}, down |-> {}]

Init ==
    /\ env \in Environment
    /\ deps \in [Dependencies -> BOOLEAN]
    /\ schema \in [version : 0..Migrations, dirty : {FALSE}]
    /\ proc = Start("migrate", 0)
    /\ conns = [c \in Conns |-> Fresh("none")]
    /\ probe = NoProbe
    /\ told = FALSE

world == <<env, deps, schema, told>>

Become(p) == proc' = p /\ UNCHANGED <<conns, probe>>

(* The process ends, and with it everything it held. *)
Exit(code) ==
    /\ proc' = Start("exited", code)
    /\ conns' = [c \in Conns |-> Fresh("none")]
    /\ probe' = NoProbe

(* os.Exit(1), also that of logger.Fatal: deferred calls do not run. *)
Fatal == Exit(1)

-----------------------------------------------------------------------------
(* Start-up: every step works, or is fatal.                                *)

StartUp(phase, works, p) ==
    /\ proc.phase = phase
    /\ (works /\ Become(p)) \/ (~works /\ Fatal)
    /\ UNCHANGED world

(* entrypoint.sh: migrate up unless MIGRATE=0.  It does not touch a database
   that an earlier run left dirty. *)
Migrate ==
    StartUp("migrate",
            env.migrate => "PG_DSN" \in env.vars /\ deps["db"] /\ ~schema.dirty,
            [proc EXCEPT !.phase = IF env.migrate THEN "apply" ELSE "config"])

(* One step of migrate up: the next migration is marked dirty, it is applied
   and the mark removed, or none is left. *)
MigrationStep ==
    \/ /\ ~schema.dirty /\ schema.version < Migrations
       /\ schema' = [version |-> schema.version + 1, dirty |-> TRUE]
       /\ Become(proc)
    \/ /\ schema.dirty
       /\ schema' = [schema EXCEPT !.dirty = FALSE]
       /\ Become(proc)
    \/ /\ schema = Migrated
       /\ Become([proc EXCEPT !.phase = "config"])
       /\ UNCHANGED schema

(* Seeded fault: without set -e the server starts after a failure, too. *)
ApplyMigrationsNoSetE ==
    /\ proc.phase = "apply"
    /\ \/ deps["db"] /\ MigrationStep
       \/ /\ ~deps["db"] \/ schema.dirty
          /\ Become([proc EXCEPT !.phase = "config"]) /\ UNCHANGED schema
    /\ UNCHANGED <<env, deps, told>>

(* The database goes away, or refuses a statement: set -e ends the shell, and
   a migration that had begun stays dirty.  After the last one, exec. *)
ApplyMigrations ==
    /\ proc.phase = "apply"
    /\ \/ deps["db"] /\ MigrationStep
       \/ (~deps["db"] \/ schema.dirty) /\ Fatal /\ UNCHANGED schema
    /\ UNCHANGED <<env, deps, told>>

(* Unmarshal looks at the keys it has heard of: another one stays empty,
   even if it is set in the environment. *)
Source(k) ==
    LET inFile == k \in FileKeys /\ env.file = "ok" IN
    IF k \in env.vars /\ (inFile \/ k \in DefaultKeys \cup BoundKeys) THEN "env"
    ELSE IF inFile THEN "file"
    ELSE IF k \in DefaultKeys THEN "default"
    ELSE "none"

(* A missing file is accepted, an unreadable one is not. *)
LoadConfig ==
    StartUp("config", env.file # "broken",
            [proc EXCEPT !.phase = "database",
                         !.settings = [k \in Settings |-> Source(k)]])

(* With a ping. *)
NewDatabase ==
    StartUp("database", proc.settings["PG_DSN"] # "none" /\ deps["db"],
            [proc EXCEPT !.phase = "redis", !.pool = "open"])

(* Seeded fault: main returns instead of failing. *)
NewRedisClientReturns ==
    /\ proc.phase = "redis"
    /\ \/ deps["redis"] /\ Become([proc EXCEPT !.phase = "secret"])
       \/ ~deps["redis"] /\ Exit(0)
    /\ UNCHANGED world

(* With a ping. *)
NewRedisClient ==
    StartUp("redis", deps["redis"], [proc EXCEPT !.phase = "secret"])

(* The secret is read, services and router are built, and ListenAndServe
   starts in a goroutine. *)
ReadSecret ==
    StartUp("secret", proc.settings["JWT_SECRET_FILE"] # "none" /\ env.secret,
            [proc EXCEPT !.phase = "notify", !.listener = "starting"])

(* signal.Notify *)
Notify ==
    /\ proc.phase = "notify"
    /\ Become([proc EXCEPT !.phase = "wait"])
    /\ UNCHANGED world

ShuttingDown == proc.phase \in {"drain", "return", "closing"}

(* Binds the port; after Shutdown it returns ErrServerClosed, no error. *)
ListenAndServe ==
    /\ proc.listener = "starting"
    /\ \/ ShuttingDown /\ Become([proc EXCEPT !.listener = "off"])
       \/ ~ShuttingDown /\ deps["port"] /\ Become([proc EXCEPT !.listener = "up"])
       \/ ~ShuttingDown /\ ~deps["port"] /\ Fatal
    /\ UNCHANGED world

-----------------------------------------------------------------------------
(* Connections and requests.                                               *)

Turn(c, from, r) ==
    /\ conns[c].state \in from
    /\ conns' = [conns EXCEPT ![c] = r]
    /\ UNCHANGED <<world, proc, probe>>

Accept(c) == proc.listener = "up" /\ Turn(c, {"none"}, Fresh("new"))

(* Shutdown does not keep an open connection from sending its request. *)
StartRequest(c) ==
    Turn(c, {"new", "idle"}, [Fresh("active") EXCEPT !.late = ShuttingDown])

(* The handler returns.  Past WriteTimeout its answer is lost; then, and
   when shutting down, the connection is closed. *)
EndRequest(c) ==
    Turn(c, {"active"}, IF conns[c].age >= WriteTimeout \/ ShuttingDown
                        THEN Fresh("none") ELSE Fresh("idle"))

(* The client hangs up, or ReadTimeout or IdleTimeout is over. *)
CloseConn(c) == Turn(c, {"new", "idle"}, Fresh("none"))

StartProbe ==
    /\ proc.listener = "up" /\ probe.next = "none"
    /\ LET up == {d \in Pinged : deps[d]} IN
       probe' = [next |-> "db", answer |-> "none", up |-> up,
                 down |-> Pinged \ up]
    /\ UNCHANGED <<world, proc, conns>>

(* Seeded fault: a database that answers is enough. *)
ReadinessHandlerDBOnly ==
    /\ probe.next # "none"
    /\ probe' = [probe EXCEPT !.next = "none",
                              !.answer = IF deps["db"] THEN "200" ELSE "503"]
    /\ UNCHANGED <<world, proc, conns>>

(* One ping after the other; 503 at the first that fails. *)
ReadinessHandler ==
    /\ probe.next # "none"
    /\ probe' =
         IF ~deps[probe.next] THEN [probe EXCEPT !.next = "none", !.answer = "503"]
         ELSE IF probe.next = "db" THEN [probe EXCEPT !.next = "redis"]
         ELSE [probe EXCEPT !.next = "none", !.answer = "200"]
    /\ UNCHANGED <<world, proc, conns>>

-----------------------------------------------------------------------------
(* Signals and shutdown.                                                   *)

(* Seeded fault: a channel without bound. *)
QueuedUnbounded(n) == n + 1

(* Notify does not block: what does not fit into the channel is dropped. *)
Queued(n) == 1

(* SIGINT or SIGTERM; before Notify the runtime ends the process.  The shell
   of entrypoint.sh, as process 1, ignores it. *)
Signal ==
    /\ told' = TRUE
    /\ \/ proc.phase \in {"migrate", "apply"} /\ UNCHANGED <<proc, conns, probe>>
       \/ /\ proc.phase \in {"config", "database", "redis", "secret", "notify"}
          /\ Exit(2)
       \/ /\ proc.phase = "wait" \/ ShuttingDown
          /\ Become([proc EXCEPT !.quit = Queued(@)])
    /\ UNCHANGED <<env, deps, schema>>

(* Seeded fault: Shutdown in a goroutine that nobody waits for. *)
AfterSignalReturn == "return"

(* Shutdown is called, and main waits for it. *)
AfterSignal == "drain"

(* <-quit, and Shutdown closes the listener. *)
Stop ==
    /\ proc.phase = "wait" /\ proc.quit > 0
    /\ Become([proc EXCEPT !.quit = @ - 1, !.phase = AfterSignal,
                           !.listener = IF @ = "up" THEN "off" ELSE @])
    /\ UNCHANGED world

Quiet(r) == r.state = "idle" \/ (r.state = "new" /\ r.age >= NewGrace)

(* Shutdown polls: it closes quiet connections and returns when none is left. *)
Poll ==
    LET left == [c \in Conns |-> IF Quiet(conns[c]) THEN Fresh("none")
                                 ELSE conns[c]]
        done == probe.next = "none" /\ \A c \in Conns : left[c].state = "none"
    IN
    /\ proc.phase = "drain"
    /\ done \/ left # conns
    /\ conns' = left
    /\ proc' = IF done THEN [proc EXCEPT !.phase = "return"] ELSE proc
    /\ UNCHANGED <<world, probe>>

(* Seeded faults: half the time; a context that never ends. *)
OverdueEarly == 2 * proc.shutAge >= ShutdownTimeout
OverdueNever == FALSE

(* The ten seconds are over. *)
Overdue == proc.shutAge >= ShutdownTimeout

(* "server forced to shutdown" *)
ForceExit ==
    /\ proc.phase = "drain" /\ Overdue
    /\ Fatal
    /\ UNCHANGED world

(* main returns: the deferred Close of the pool, then the end. *)
CloseDatabase ==
    /\ proc.phase = "return"
    /\ Become([proc EXCEPT !.phase = "closing", !.pool = "closed"])
    /\ UNCHANGED world

Return == proc.phase = "closing" /\ Exit(0) /\ UNCHANGED world

-----------------------------------------------------------------------------
(* The environment.                                                        *)

DependencyChanges(d) ==
    /\ deps' = [deps EXCEPT ![d] = ~@]
    /\ probe' = IF probe.next = "none" \/ d = "port" THEN probe
                ELSE IF deps[d] THEN [probe EXCEPT !.down = @ \cup {d}]
                ELSE [probe EXCEPT !.up = @ \cup {d}]
    /\ UNCHANGED <<env, schema, proc, conns, told>>

(* SIGKILL, after the stop grace period or for lack of memory. *)
Kill ==
    /\ proc.phase # "exited"
    /\ Exit(137)
    /\ told' = TRUE
    /\ UNCHANGED <<env, deps, schema>>

(* restart_policy: on-failure. *)
Restart ==
    /\ proc.phase = "exited" /\ proc.code # 0
    /\ Become(Start("migrate", 0))
    /\ UNCHANGED world

Older(n, bound) == IF n < bound THEN n + 1 ELSE n

(* Ages are counted up to the value they are compared with. *)
Tick ==
    /\ proc.phase \in {"notify", "wait"}
         \/ (proc.phase = "drain" /\ proc.shutAge < ShutdownTimeout)
    /\ proc' = [proc EXCEPT !.shutAge = IF proc.phase = "drain" THEN @ + 1 ELSE @]
    /\ conns' = [c \in Conns |->
          IF conns[c].state \in {"new", "active"}
          THEN [conns[c] EXCEPT !.age = Older(@, WriteTimeout)] ELSE conns[c]]
    /\ UNCHANGED <<world, probe>>

Main ==
    \/ Migrate \/ ApplyMigrations \/ LoadConfig \/ NewDatabase \/ NewRedisClient
    \/ ReadSecret \/ Notify \/ Stop \/ Poll \/ ForceExit \/ CloseDatabase \/ Return

Next ==
    \/ Main \/ ListenAndServe
    \/ \E c \in Conns :
         Accept(c) \/ StartRequest(c) \/ EndRequest(c) \/ CloseConn(c)
    \/ StartProbe \/ ReadinessHandler
    \/ Signal \/ Kill \/ Restart \/ Tick
    \/ \E d \in Dependencies : DependencyChanges(d)

(* Goroutines are scheduled, time passes, and the orchestrator restarts what
   failed.  Nothing is assumed of clients, handlers and dependencies. *)
Fairness ==
    WF_vars(Main) /\ WF_vars(ListenAndServe) /\ WF_vars(Restart) /\ WF_vars(Tick)

Spec == Init /\ [][Next]_vars /\ Fairness
-----------------------------------------------------------------------------
(* Properties.                                                             *)

(* What main, the server and a probe hold is what the code declares; the
   channel quit never holds more than the one signal it was made for. *)
TypeOK ==
    /\ env \in Environment /\ deps \in [Dependencies -> BOOLEAN]
    /\ schema \in Schema /\ proc \in Process /\ conns \in [Conns -> Conn] /\ probe \in Probe
    /\ told \in BOOLEAN

(* A secret given in the environment is in effect in every process that
   serves, also without config.yaml and also when that file, as the one in
   the repository, does not mention it: LoadConfig has to bind it. *)
SecretsTakeEffect ==
    proc.listener = "up" =>
        \A k \in Secrets \cap env.vars : proc.settings[k] = "env"

(* The migrations are applied "before launching the API server" (README.md):
   whatever outages, failed statements and kills the earlier starts met, a
   container that migrates gets past entrypoint.sh only when the database has
   every migration and none half done. *)
ServesOnlyMigrated ==
    (env.migrate /\ proc.phase \notin {"migrate", "apply", "exited"}) =>
        schema = Migrated

(* No handler runs on a closed pool: between a signal and the deferred Close
   main waits for every request, also for those that arrive on connections
   that were open but silent when Shutdown was called. *)
PoolOutlivesHandlers ==
    (probe.next # "none" \/ \E c \in Conns : conns[c].state = "active") =>
        proc.pool = "open"

(* The forced end of a shutdown costs nobody an answer that could still have
   been delivered: a handler it cuts off is past WriteTimeout, or its request
   was read after Shutdown was called. *)
CutOnlyUnanswerable ==
    [][ForceExit =>
          \A c \in Conns :
              conns[c].state = "active" =>
                  conns[c].age >= WriteTimeout \/ conns[c].late]_vars

(* /readyz says 200 only if database and Redis were both up while it ran, at
   different moments perhaps, and 503 only if one of them was down, which
   stands for every reason not to answer a ping. *)
ReadinessHonest ==
    /\ probe.answer = "200" => probe.up = Pinged
    /\ probe.answer = "503" => probe.down # {}

(* A signal that main has asked for ends the process, whatever handlers,
   clients and further signals do. *)
StopsWhenTold ==
    (proc.phase = "wait" /\ proc.quit > 0) ~> (proc.phase = "exited")

(* A start that failed left a migration half done. *)
LeftDirty == schema.dirty /\ proc.phase # "apply"

(* With settings it can start with, the replica serves for good once its
   dependencies stay up: each failed start leads to another one.  Only a
   migration that was interrupted half-way stands in the way, as no later
   start repairs that. *)
StartsInTheEnd ==
    (/\ env.file = "ok" /\ env.secret /\ "PG_DSN" \in env.vars
     /\ <>[](\A d \in Dependencies : deps[d])
     /\ []~told /\ []~LeftDirty) =>
        <>[](proc.phase = "wait" /\ proc.listener = "up")
=============================================================================
