---------------------------- MODULE ServerProofs ----------------------------
(***************************************************************************)
(* The safety properties of Server hold for any number of connections and  *)
(* any timeouts.                                                           *)
(***************************************************************************)
EXTENDS Server, TLAPS

USE TimeAssumption

Starting == {"migrate", "apply", "config", "database", "redis", "secret"}

(* What main holds in which phase: the settings that LoadConfig made, a pool
   from NewDatabase on until the deferred Close, a listener after ReadSecret
   that is up at most until Shutdown; and a database with every migration, if
   the container migrates. *)
PhaseInv ==
    /\ proc.phase \in {"redis", "secret", "notify", "wait", "drain", "return"} =>
         proc.pool = "open"
    /\ proc.phase \in Starting \cup {"exited"} => proc.listener = "off"
    /\ proc.listener = "up" => proc.phase \in {"notify", "wait"}
    /\ (env.migrate /\ proc.phase \notin {"migrate", "apply", "exited"}) =>
         schema = Migrated
    /\ proc.phase \notin {"migrate", "apply", "config", "exited"} =>
         proc.settings = [k \in Settings |-> Source(k)]
    /\ ~ShuttingDown => proc.shutAge = 0

(* Connections and probes need a server that serves or drains. *)
HandlersInv ==
    (probe.next # "none" \/ \E c \in Conns : conns[c].state # "none") =>
        proc.phase \in {"notify", "wait", "drain"}

(* The handlers that Shutdown found running are as old as the shutdown. *)
DrainInv ==
    proc.phase = "drain" =>
        \A c \in Conns : (conns[c].state = "active" /\ ~conns[c].late) =>
            conns[c].age >= proc.shutAge \/ conns[c].age >= WriteTimeout

(* A running probe has seen what the dependencies are now, and has found the
   database before it asks for Redis. *)
ProbeInv ==
    /\ probe.next # "none" =>
         /\ probe.answer = "none"
         /\ \A d \in Pinged : IF deps[d] THEN d \in probe.up ELSE d \in probe.down
    /\ probe.next = "redis" => "db" \in probe.up
    /\ ReadinessHonest

IInv == TypeOK /\ PhaseInv /\ HandlersInv /\ DrainInv /\ ProbeInv

-----------------------------------------------------------------------------
(* Steps that many actions share.                                          *)

(* A fresh process, connection or probe is well-formed. *)
LEMMA FreshFacts ==
    /\ \A s \in {"migrate", "exited"}, c \in {0, 1, 2, 137} :
         /\ Start(s, c) \in Process /\ Start(s, c).phase = s
         /\ Start(s, c).listener = "off" /\ Start(s, c).shutAge = 0
    /\ \A s \in {"none", "new", "active", "idle"} :
         /\ Fresh(s) \in Conn /\ Fresh(s).state = s /\ Fresh(s).age = 0
         /\ ~Fresh(s).late
    /\ NoProbe \in Probe /\ NoProbe.next = "none" /\ NoProbe.answer = "none"
BY DEF Start, Process, Settings, FileKeys, DefaultKeys, Secrets, Fresh, Conn,
       NoProbe, Probe

(* Where the process ends, nothing is left to be wrong. *)
LEMMA ExitInv ==
    ASSUME IInv, NEW code \in {0, 1, 2, 137}, Exit(code), UNCHANGED <<env, deps, schema>>,
           told' \in BOOLEAN
    PROVE  IInv'
<1>1. /\ proc' = Start("exited", code) /\ probe' = NoProbe
      /\ conns' = [c \in Conns |-> Fresh("none")]
  BY DEF Exit
<1>2. /\ proc' \in Process /\ proc'.phase = "exited" /\ proc'.listener = "off"
      /\ proc'.shutAge = 0
  BY <1>1, FreshFacts
<1>3. /\ conns' \in [Conns -> Conn] /\ \A c \in Conns : conns'[c].state = "none"
      /\ probe' \in Probe /\ probe'.next = "none" /\ probe'.answer = "none"
  BY <1>1, FreshFacts
<1>4. TypeOK'
  BY <1>2, <1>3 DEF IInv, TypeOK
<1>5. PhaseInv' /\ DrainInv'
  BY <1>2 DEF PhaseInv, DrainInv, Starting
<1>6. HandlersInv' /\ ProbeInv'
  BY <1>3 DEF HandlersInv, ProbeInv, ReadinessHonest
<1> QED BY <1>4, <1>5, <1>6 DEF IInv

(* A step of main, or of the listener, that is no shutdown. *)
LEMMA BecomeInv ==
    ASSUME IInv, NEW p \in Process, Become(p), UNCHANGED <<env, deps, schema>>,
           told' \in BOOLEAN, PhaseInv',
           proc.phase = "drain" <=> p.phase = "drain",
           p.shutAge = proc.shutAge,
           proc.phase \in {"notify", "wait"} => p.phase \in {"notify", "wait"}
    PROVE  IInv'
<1>1. proc' = p /\ UNCHANGED <<conns, probe>>
  BY DEF Become
<1>2. TypeOK'
  BY <1>1 DEF IInv, TypeOK
<1>3. HandlersInv'
  BY <1>1 DEF IInv, HandlersInv
<1>4. DrainInv'
  BY <1>1 DEF IInv, DrainInv
<1>5. ProbeInv'
  BY <1>1 DEF IInv, ProbeInv, ReadinessHonest
<1> QED BY <1>2, <1>3, <1>4, <1>5 DEF IInv

(* A step of a connection: a request that starts during the shutdown is
   marked, a running one is not touched. *)
LEMMA TurnInv ==
    ASSUME IInv, NEW c \in Conns, NEW from, NEW r \in Conn, Turn(c, from, r),
           r.state # "none" => proc.phase \in {"notify", "wait", "drain"},
           r.state = "active" => r.late = ShuttingDown
    PROVE  IInv'
<1>1. conns' = [conns EXCEPT ![c] = r] /\ UNCHANGED <<env, deps, schema, told, proc, probe>>
  BY DEF Turn, world
<1>2. /\ TypeOK' /\ conns'[c] = r
      /\ \A d \in Conns \ {c} : conns'[d] = conns[d]
  BY <1>1 DEF IInv, TypeOK
<1>3. PhaseInv' /\ ProbeInv'
  BY <1>1 DEF IInv, PhaseInv, ShuttingDown, Source, ProbeInv, ReadinessHonest
<1>4. HandlersInv'
  BY <1>1, <1>2 DEF IInv, HandlersInv
<1>5. DrainInv'
  BY <1>1, <1>2 DEF IInv, DrainInv, ShuttingDown
<1> QED BY <1>2, <1>3, <1>4, <1>5 DEF IInv

-----------------------------------------------------------------------------
(* One lemma per group of actions.                                         *)

(* The first process has done nothing yet. *)
LEMMA InitInv == Init => IInv
<1> SUFFICES ASSUME Init PROVE IInv
  OBVIOUS
<1>1. /\ proc \in Process /\ proc.phase = "migrate" /\ proc.listener = "off"
      /\ proc.shutAge = 0
  BY FreshFacts DEF Init
<1>2. /\ conns \in [Conns -> Conn] /\ \A c \in Conns : conns[c].state = "none"
      /\ probe \in Probe /\ probe.next = "none" /\ probe.answer = "none"
  BY FreshFacts DEF Init
<1>3. TypeOK
  BY <1>1, <1>2 DEF Init, TypeOK, Schema
<1>4. PhaseInv /\ DrainInv /\ HandlersInv /\ ProbeInv
  BY <1>1, <1>2 DEF PhaseInv, DrainInv, HandlersInv, ProbeInv, ReadinessHonest, Starting
<1> QED BY <1>3, <1>4 DEF IInv

(* A step of the start works, with a process that suits its phase, or ends
   the process. *)
LEMMA StartUpInv ==
    ASSUME IInv, NEW phase, NEW works \in BOOLEAN, NEW p \in Process,
           StartUp(phase, works, p), phase \in Starting,
           p.phase \in Starting \cup {"notify"}, p.shutAge = proc.shutAge,
           (proc' = p /\ UNCHANGED world) => PhaseInv'
    PROVE  IInv'
<1>1. proc.phase = phase /\ UNCHANGED world /\ told' \in BOOLEAN
  BY DEF StartUp, world, IInv, TypeOK
<1>2. CASE Become(p)
  <2>1. PhaseInv'
    BY <1>1, <1>2 DEF Become
  <2> QED BY <1>1, <1>2, <2>1, BecomeInv DEF world, Starting
<1>3. CASE Fatal
  BY <1>1, <1>3, ExitInv DEF Fatal, world
<1> QED BY <1>2, <1>3 DEF StartUp

(* The migrations run before anything is configured or opened. *)
LEMMA MigrateInv == IInv /\ Migrate => IInv'
<1> SUFFICES ASSUME IInv, Migrate PROVE IInv'
  OBVIOUS
<1> DEFINE next == IF env.migrate THEN "apply" ELSE "config"
           p == [proc EXCEPT !.phase = next]
           works == env.migrate => "PG_DSN" \in env.vars /\ deps["db"] /\ ~schema.dirty
<1>1. proc \in Process /\ StartUp("migrate", works, p) /\ proc.phase = "migrate"
  BY DEF IInv, TypeOK, Migrate, StartUp
<1>2. next \in {"apply", "config"} /\ (env.migrate => next = "apply")
  OBVIOUS
<1> HIDE DEF next
<1>3. /\ p \in Process /\ p.phase = next /\ p.shutAge = proc.shutAge
      /\ p.listener = proc.listener
  BY <1>1, <1>2 DEF Process
<1> HIDE DEF p, works
<1>4. (proc' = p /\ UNCHANGED world) => PhaseInv'
  BY <1>1, <1>2, <1>3 DEF IInv, PhaseInv, ShuttingDown, Starting, world
<1>5. works \in BOOLEAN
  BY DEF works
<1> QED BY <1>1, <1>2, <1>3, <1>4, <1>5, StartUpInv DEF Starting

(* A migration is begun or finished, and nothing else happens; the server
   follows when every one is finished. *)
LEMMA ApplyMigrationsInv == IInv /\ ApplyMigrations => IInv'
<1> SUFFICES ASSUME IInv, ApplyMigrations PROVE IInv'
  OBVIOUS
<1>1. /\ proc \in Process /\ proc.phase = "apply" /\ schema \in Schema
      /\ UNCHANGED <<env, deps, told>> /\ told' \in BOOLEAN
      /\ proc.listener = "off" /\ proc.shutAge = 0
  BY DEF IInv, TypeOK, ApplyMigrations, PhaseInv, Starting, ShuttingDown
<1>2. CASE Fatal /\ UNCHANGED schema
  BY <1>1, <1>2, ExitInv DEF Fatal
<1>3. ASSUME Become(proc), schema' \in Schema PROVE IInv'
  <2>1. UNCHANGED <<env, deps, told, proc, conns, probe>>
    BY <1>1, <1>3 DEF Become
  <2>2. TypeOK'
    BY <1>3, <2>1 DEF IInv, TypeOK
  <2>3. PhaseInv'
    BY <1>1, <2>1 DEF PhaseInv, ShuttingDown, Starting
  <2>4. HandlersInv' /\ DrainInv' /\ ProbeInv'
    BY <2>1 DEF IInv, HandlersInv, DrainInv, ProbeInv, ReadinessHonest
  <2> QED BY <2>2, <2>3, <2>4 DEF IInv
<1>4. CASE /\ ~schema.dirty /\ schema.version < Migrations /\ Become(proc)
           /\ schema' = [version |-> schema.version + 1, dirty |-> TRUE]
  BY <1>1, <1>3, <1>4 DEF Schema
<1>5. CASE schema' = [schema EXCEPT !.dirty = FALSE] /\ Become(proc)
  BY <1>1, <1>3, <1>5 DEF Schema
<1>6. CASE /\ schema = Migrated /\ UNCHANGED schema
           /\ Become([proc EXCEPT !.phase = "config"])
  <2> DEFINE p == [proc EXCEPT !.phase = "config"]
  <2>1. /\ p \in Process /\ p.phase = "config" /\ p.shutAge = proc.shutAge
        /\ p.listener = proc.listener
    BY <1>1 DEF Process
  <2>2. Become(p)
    BY <1>6
  <2> HIDE DEF p
  <2>3. PhaseInv'
    BY <1>1, <1>6, <2>1, <2>2 DEF PhaseInv, ShuttingDown, Starting, Become, Migrated
  <2> QED BY <1>1, <1>6, <2>1, <2>2, <2>3, BecomeInv
<1> QED BY <1>2, <1>4, <1>5, <1>6 DEF ApplyMigrations, MigrationStep

(* config.Load, which has to find the secrets where the environment puts them. *)
LEMMA LoadConfigInv == IInv /\ LoadConfig => IInv'
<1> SUFFICES ASSUME IInv, LoadConfig PROVE IInv'
  OBVIOUS
<1> DEFINE p == [proc EXCEPT !.phase = "database",
                             !.settings = [k \in Settings |-> Source(k)]]
<1>1. /\ proc \in Process /\ StartUp("config", env.file # "broken", p)
      /\ proc.phase = "config"
  BY DEF IInv, TypeOK, LoadConfig, StartUp
<1>2. [k \in Settings |-> Source(k)] \in [Settings -> {"env", "file", "default", "none"}]
  BY DEF Source
<1>3. /\ p \in Process /\ p.phase = "database" /\ p.shutAge = proc.shutAge
      /\ p.listener = proc.listener /\ p.settings = [k \in Settings |-> Source(k)]
  BY <1>1, <1>2 DEF Process
<1> HIDE DEF p
<1>4. ASSUME proc' = p, UNCHANGED world PROVE PhaseInv'
  <2>1. \A k \in Settings : Source(k)' = Source(k)
    BY <1>4 DEF Source, world
  <2>2. proc'.settings = [k \in Settings |-> Source(k)']
    BY <1>3, <1>4, <2>1
  <2> QED BY <1>1, <1>3, <1>4, <2>2
         DEF IInv, PhaseInv, ShuttingDown, Starting, Migrated, world
<1> QED BY <1>1, <1>3, <1>4, StartUpInv DEF Starting

(* Source looks at the environment only, which no step changes. *)
LEMMA SourceStable ==
    ASSUME UNCHANGED env
    PROVE  [k \in Settings |-> Source(k)]' = [k \in Settings |-> Source(k)]
BY DEF Source

(* The connection pool and the Redis client are opened before the listener. *)
LEMMA OpenInv == IInv /\ (NewDatabase \/ NewRedisClient) => IInv'
<1>1. ASSUME IInv, NewDatabase PROVE IInv'
  <2> DEFINE p == [proc EXCEPT !.phase = "redis", !.pool = "open"]
  <2>1. /\ proc \in Process /\ proc.phase = "database"
        /\ StartUp("database", proc.settings["PG_DSN"] # "none" /\ deps["db"], p)
    BY <1>1 DEF IInv, TypeOK, NewDatabase, StartUp
  <2>2. /\ p \in Process /\ p.phase = "redis" /\ p.shutAge = proc.shutAge
        /\ p.listener = proc.listener /\ p.settings = proc.settings
        /\ p.pool = "open"
    BY <2>1 DEF Process
  <2> HIDE DEF p
  <2>3. (proc' = p /\ UNCHANGED world) => PhaseInv'
    BY <1>1, <2>1, <2>2, SourceStable DEF IInv, PhaseInv, ShuttingDown, Starting, world
  <2>4. (proc.settings["PG_DSN"] # "none" /\ deps["db"]) \in BOOLEAN
    OBVIOUS
  <2> QED BY <1>1, <2>1, <2>2, <2>3, <2>4, StartUpInv DEF Starting
<1>2. ASSUME IInv, NewRedisClient PROVE IInv'
  <2> DEFINE p == [proc EXCEPT !.phase = "secret"]
  <2>1. /\ proc \in Process /\ proc.phase = "redis"
        /\ StartUp("redis", deps["redis"], p)
    BY <1>2 DEF IInv, TypeOK, NewRedisClient, StartUp
  <2>2. /\ p \in Process /\ p.phase = "secret" /\ p.shutAge = proc.shutAge
        /\ p.listener = proc.listener /\ p.settings = proc.settings
        /\ p.pool = proc.pool
    BY <2>1 DEF Process
  <2> HIDE DEF p
  <2>3. (proc' = p /\ UNCHANGED world) => PhaseInv'
    BY <1>2, <2>1, <2>2, SourceStable DEF IInv, PhaseInv, ShuttingDown, Starting, world
  <2>4. deps["redis"] \in BOOLEAN
    BY <1>2 DEF IInv, TypeOK, Dependencies, Pinged
  <2> QED BY <1>2, <2>1, <2>2, <2>3, <2>4, StartUpInv DEF Starting
<1> QED BY <1>1, <1>2

(* The goroutine of ListenAndServe is started with the pool open. *)
LEMMA ReadSecretInv == IInv /\ ReadSecret => IInv'
<1> SUFFICES ASSUME IInv, ReadSecret PROVE IInv'
  OBVIOUS
<1> DEFINE p == [proc EXCEPT !.phase = "notify", !.listener = "starting"]
           works == proc.settings["JWT_SECRET_FILE"] # "none" /\ env.secret
<1>1. proc \in Process /\ proc.phase = "secret" /\ StartUp("secret", works, p)
  BY DEF IInv, TypeOK, ReadSecret, StartUp
<1>2. /\ p \in Process /\ p.phase = "notify" /\ p.shutAge = proc.shutAge
      /\ p.listener = "starting" /\ p.settings = proc.settings /\ p.pool = proc.pool
  BY <1>1 DEF Process
<1> HIDE DEF p
<1>3. (proc' = p /\ UNCHANGED world) => PhaseInv'
  BY <1>1, <1>2, SourceStable DEF IInv, PhaseInv, ShuttingDown, Starting, world
<1>4. works \in BOOLEAN
  OBVIOUS
<1> HIDE DEF works
<1> QED BY <1>1, <1>2, <1>3, <1>4, StartUpInv DEF Starting

(* signal.Notify changes nothing but what main does next. *)
LEMMA NotifyInv == IInv /\ Notify => IInv'
<1> SUFFICES ASSUME IInv, Notify PROVE IInv'
  OBVIOUS
<1> DEFINE p == [proc EXCEPT !.phase = "wait"]
<1>1. /\ proc \in Process /\ proc.phase = "notify" /\ Become(p) /\ UNCHANGED world
      /\ told' \in BOOLEAN
  BY DEF IInv, TypeOK, Notify, world
<1>2. /\ p \in Process /\ p.phase = "wait" /\ p.shutAge = proc.shutAge
      /\ p.listener = proc.listener /\ p.settings = proc.settings /\ p.pool = proc.pool
  BY <1>1 DEF Process
<1> HIDE DEF p
<1>3. PhaseInv'
  BY <1>1, <1>2, SourceStable DEF IInv, PhaseInv, ShuttingDown, Starting, world, Become
<1> QED BY <1>1, <1>2, <1>3, BecomeInv DEF world

(* The listener comes up, or its failure ends the process. *)
LEMMA ListenAndServeInv == IInv /\ ListenAndServe => IInv'
<1> SUFFICES ASSUME IInv, ListenAndServe PROVE IInv'
  OBVIOUS
<1>1. proc \in Process /\ UNCHANGED world /\ told' \in BOOLEAN /\ proc.listener = "starting"
  BY DEF IInv, TypeOK, ListenAndServe, world
<1>2. ASSUME NEW l \in {"off", "up"}, l = "up" => ~ShuttingDown,
             Become([proc EXCEPT !.listener = l])
      PROVE  IInv'
  <2> DEFINE p == [proc EXCEPT !.listener = l]
  <2>1. /\ p \in Process /\ p.phase = proc.phase /\ p.shutAge = proc.shutAge
        /\ p.listener = l /\ p.settings = proc.settings /\ p.pool = proc.pool
    BY <1>1, <1>2 DEF Process
  <2>2. Become(p)
    BY <1>2
  <2> HIDE DEF p
  <2>3. proc.phase \in {"notify", "wait"} \/ ShuttingDown
    BY <1>1 DEF IInv, PhaseInv, Starting, Process, ShuttingDown
  <2>4. PhaseInv'
    BY <1>1, <1>2, <2>1, <2>2, <2>3, SourceStable
       DEF IInv, PhaseInv, ShuttingDown, Starting, world, Become
  <2> QED BY <1>1, <2>1, <2>2, <2>4, BecomeInv DEF world
<1>3. CASE Fatal
  BY <1>1, <1>3, ExitInv DEF Fatal, world
<1> QED BY <1>2, <1>3 DEF ListenAndServe

(* Connections and their requests come and go while the pool is open. *)
LEMMA ConnectionsInv ==
    ASSUME IInv, NEW c \in Conns,
           Accept(c) \/ StartRequest(c) \/ EndRequest(c) \/ CloseConn(c)
    PROVE  IInv'
<1>1. conns[c].state # "none" => proc.phase \in {"notify", "wait", "drain"}
  BY DEF IInv, HandlersInv
<1>2. CASE Accept(c)
  BY <1>2, FreshFacts, TurnInv DEF Accept, IInv, PhaseInv
<1>3. CASE StartRequest(c)
  <2> DEFINE r == [Fresh("active") EXCEPT !.late = ShuttingDown]
  <2>1. Turn(c, {"new", "idle"}, r) /\ conns[c].state # "none"
    BY <1>3 DEF StartRequest, Turn
  <2>2. ShuttingDown \in BOOLEAN
    BY DEF ShuttingDown
  <2>3. r \in Conn /\ r.state = "active" /\ r.late = ShuttingDown
    BY <2>2 DEF Fresh, Conn
  <2> HIDE DEF r
  <2> QED BY <1>1, <2>1, <2>3, TurnInv
<1>4. CASE EndRequest(c)
  <2> DEFINE r == IF conns[c].age >= WriteTimeout \/ ShuttingDown
                  THEN Fresh("none") ELSE Fresh("idle")
  <2>1. Turn(c, {"active"}, r) /\ conns[c].state # "none"
    BY <1>4 DEF EndRequest, Turn
  <2>2. r \in Conn /\ r.state # "active"
    BY FreshFacts
  <2> HIDE DEF r
  <2> QED BY <1>1, <2>1, <2>2, TurnInv
<1>5. CASE CloseConn(c)
  BY <1>5, FreshFacts, TurnInv DEF CloseConn
<1> QED BY <1>2, <1>3, <1>4, <1>5

(* A probe of /readyz collects what each ping said and answers for that. *)
LEMMA ProbeStepsInv == IInv /\ (StartProbe \/ ReadinessHandler) => IInv'
<1>1. ASSUME IInv, StartProbe PROVE IInv'
  <2> DEFINE up == {d \in Pinged : deps[d]}
  <2>1. /\ proc.listener = "up" /\ UNCHANGED <<env, deps, schema, told, proc, conns>>
        /\ probe' = [next |-> "db", answer |-> "none", up |-> up, down |-> Pinged \ up]
    BY <1>1 DEF StartProbe, world
  <2>2. /\ probe' \in Probe /\ probe'.next = "db" /\ probe'.answer = "none"
        /\ probe'.up = up /\ probe'.down = Pinged \ up
    BY <2>1 DEF Probe
  <2>3. TypeOK'
    BY <1>1, <2>1, <2>2 DEF IInv, TypeOK
  <2>4. PhaseInv' /\ DrainInv'
    BY <1>1, <2>1, SourceStable DEF IInv, PhaseInv, ShuttingDown, DrainInv
  <2>5. HandlersInv'
    BY <1>1, <2>1 DEF IInv, PhaseInv, HandlersInv
  <2>6. ProbeInv'
    BY <2>1, <2>2 DEF ProbeInv, ReadinessHonest
  <2> QED BY <2>3, <2>4, <2>5, <2>6 DEF IInv
<1>2. ASSUME IInv, ReadinessHandler PROVE IInv'
  <2>1. /\ probe.next # "none" /\ UNCHANGED <<env, deps, schema, told, proc, conns>>
        /\ probe \in Probe
    BY <1>2 DEF ReadinessHandler, world, IInv, TypeOK
  <2>2. PICK n \in {"none", "redis"}, a \in {"none", "200", "503"} :
          /\ probe' = [probe EXCEPT !.next = n, !.answer = a]
          /\ n = "redis" => /\ a = "none" /\ deps["db"]
          /\ a = "200" => probe.next = "redis" /\ deps["redis"]
          /\ a = "503" => ~deps[probe.next]
    <3>1. probe.answer = "none" /\ probe.next \in {"db", "redis"}
      BY <1>2, <2>1 DEF IInv, ProbeInv, Probe
    <3>2. CASE ~deps[probe.next]
      BY <1>2, <3>2 DEF ReadinessHandler
    <3>3. CASE deps[probe.next] /\ probe.next = "db"
      <4>1. probe' = [probe EXCEPT !.next = "redis", !.answer = "none"]
        BY <1>2, <2>1, <3>1, <3>3 DEF ReadinessHandler, Probe
      <4> QED BY <3>3, <4>1
    <3>4. CASE deps[probe.next] /\ probe.next = "redis"
      BY <1>2, <3>4 DEF ReadinessHandler
    <3> QED BY <3>1, <3>2, <3>3, <3>4
  <2>3. /\ probe' \in Probe /\ probe'.next = n /\ probe'.answer = a
        /\ probe'.up = probe.up /\ probe'.down = probe.down
    BY <2>1, <2>2 DEF Probe
  <2>4. TypeOK'
    BY <1>2, <2>1, <2>3 DEF IInv, TypeOK
  <2>5. PhaseInv' /\ DrainInv'
    BY <1>2, <2>1, SourceStable DEF IInv, PhaseInv, ShuttingDown, DrainInv
  <2>6. HandlersInv'
    BY <1>2, <2>1 DEF IInv, HandlersInv
  <2>7. ProbeInv'
    BY <1>2, <2>1, <2>2, <2>3
       DEF IInv, TypeOK, ProbeInv, ReadinessHonest, Pinged, Probe
  <2> QED BY <2>4, <2>5, <2>6, <2>7 DEF IInv
<1> QED BY <1>1, <1>2

(* A signal is ignored, ends the process or waits in the channel. *)
LEMMA SignalInv == IInv /\ Signal => IInv'
<1> SUFFICES ASSUME IInv, Signal PROVE IInv'
  OBVIOUS
<1>1. proc \in Process /\ told' \in BOOLEAN /\ UNCHANGED <<env, deps, schema>>
  BY DEF IInv, TypeOK, Signal
<1>2. CASE UNCHANGED <<proc, conns, probe>>
  <2>1. TypeOK' /\ PhaseInv'
    BY <1>1, <1>2, SourceStable DEF IInv, TypeOK, PhaseInv, ShuttingDown
  <2>2. HandlersInv' /\ DrainInv' /\ ProbeInv'
    BY <1>1, <1>2 DEF IInv, HandlersInv, DrainInv, ProbeInv, ReadinessHonest
  <2> QED BY <2>1, <2>2 DEF IInv
<1>3. CASE Exit(2)
  BY <1>1, <1>3, ExitInv
<1>4. CASE Become([proc EXCEPT !.quit = Queued(@)])
  <2> DEFINE p == [proc EXCEPT !.quit = Queued(@)]
  <2>1. /\ p \in Process /\ p.phase = proc.phase /\ p.shutAge = proc.shutAge
        /\ p.listener = proc.listener /\ p.settings = proc.settings /\ p.pool = proc.pool
    BY <1>1 DEF Process, Queued
  <2>2. Become(p)
    BY <1>4
  <2> HIDE DEF p
  <2>3. PhaseInv'
    BY <1>1, <2>1, <2>2, SourceStable DEF IInv, PhaseInv, ShuttingDown, Become
  <2> QED BY <1>1, <2>1, <2>2, <2>3, BecomeInv
<1> QED BY <1>2, <1>3, <1>4 DEF Signal

(* The shutdown begins: every running handler is older than it. *)
LEMMA StopInv == IInv /\ Stop => IInv'
<1> SUFFICES ASSUME IInv, Stop PROVE IInv'
  OBVIOUS
<1>1. /\ proc \in Process /\ proc.phase = "wait" /\ proc.quit = 1
      /\ UNCHANGED <<env, deps, schema, told, conns, probe>> /\ proc.shutAge = 0
  BY DEF IInv, TypeOK, Stop, Become, world, Process, PhaseInv, ShuttingDown
<1>2. PICK l \in {"off", "starting"} :
        proc' = [proc EXCEPT !.quit = 0, !.phase = "drain", !.listener = l]
  <2> DEFINE l == IF proc.listener = "up" THEN "off" ELSE proc.listener
  <2>1. proc' = [proc EXCEPT !.quit = proc.quit - 1, !.phase = "drain", !.listener = l]
    BY DEF Stop, Become, AfterSignal
  <2>2. l \in {"off", "starting"} /\ proc.quit - 1 = 0
    BY <1>1 DEF Process
  <2> HIDE DEF l
  <2> QED BY <2>1, <2>2
<1>3. /\ proc'.quit = 0 /\ proc'.phase = "drain" /\ proc'.listener = l
      /\ proc'.shutAge = proc.shutAge /\ proc'.settings = proc.settings
      /\ proc'.pool = proc.pool
  BY <1>1, <1>2 DEF Process
<1>4. /\ proc' \in Process /\ proc'.phase = "drain" /\ proc'.shutAge = 0
      /\ proc'.listener # "up" /\ proc'.settings = proc.settings /\ proc'.pool = proc.pool
  <2> DEFINE q == [proc EXCEPT !.quit = 0, !.phase = "drain"]
  <2>1. 0 \in 0..1 /\ l \in {"off", "starting", "up"}
    OBVIOUS
  <2>2. q \in Process
    <3> DEFINE z == [proc EXCEPT !.phase = "drain"]
    <3>1. z \in Process
      BY <1>1 DEF Process
    <3>2. q = [z EXCEPT !.quit = 0]
      BY <1>1 DEF Process
    <3> HIDE DEF z, q
    <3> QED BY <2>1, <3>1, <3>2 DEF Process
  <2>3. proc' = [q EXCEPT !.listener = l]
    BY <1>1, <1>2 DEF Process
  <2> HIDE DEF q
  <2>4. proc' \in Process
    BY <2>1, <2>2, <2>3 DEF Process
  <2> QED BY <1>1, <1>2, <1>3, <2>4
<1>5. TypeOK'
  BY <1>1, <1>4 DEF IInv, TypeOK
<1>6. PhaseInv'
  BY <1>1, <1>4, SourceStable DEF IInv, PhaseInv, ShuttingDown, Starting
<1>7. HandlersInv' /\ ProbeInv'
  BY <1>1, <1>4 DEF IInv, HandlersInv, ProbeInv, ReadinessHonest
<1>8. DrainInv'
  BY <1>1, <1>4 DEF IInv, TypeOK, DrainInv, Conn
<1> QED BY <1>5, <1>6, <1>7, <1>8 DEF IInv

(* Shutdown leaves running handlers alone, and returns only without any. *)
LEMMA PollInv == IInv /\ Poll => IInv'
<1> SUFFICES ASSUME IInv, Poll PROVE IInv'
  OBVIOUS
<1> DEFINE left == [c \in Conns |-> IF Quiet(conns[c]) THEN Fresh("none") ELSE conns[c]]
           done == probe.next = "none" /\ \A c \in Conns : left[c].state = "none"
<1>1. /\ proc \in Process /\ conns \in [Conns -> Conn] /\ proc.phase = "drain"
      /\ UNCHANGED <<env, deps, schema, told, probe>> /\ conns' = left
      /\ proc' = IF done THEN [proc EXCEPT !.phase = "return"] ELSE proc
  BY DEF IInv, TypeOK, Poll, world
<1>2. conns' \in [Conns -> Conn]
  BY <1>1, FreshFacts
<1>3. \A c \in Conns : conns'[c] = conns[c] \/ conns'[c].state = "none"
  BY <1>1, FreshFacts
<1>4. done => probe'.next = "none" /\ \A c \in Conns : conns'[c].state = "none"
  BY <1>1
<1>5. done \in BOOLEAN
  OBVIOUS
<1> HIDE DEF left, done
<1>6. /\ proc' \in Process /\ proc'.shutAge = proc.shutAge
      /\ proc'.listener = proc.listener /\ proc'.settings = proc.settings
      /\ proc'.pool = proc.pool /\ proc'.phase = IF done THEN "return" ELSE "drain"
  BY <1>1 DEF Process
<1>7. TypeOK'
  BY <1>1, <1>2, <1>6 DEF IInv, TypeOK
<1>8. PhaseInv'
  BY <1>1, <1>6, SourceStable DEF IInv, PhaseInv, ShuttingDown, Starting
<1>9. HandlersInv'
  BY <1>1, <1>4, <1>6 DEF HandlersInv
<1>10. DrainInv'
  BY <1>1, <1>3, <1>6 DEF IInv, DrainInv
<1>11. ProbeInv'
  BY <1>1 DEF IInv, ProbeInv, ReadinessHonest
<1> QED BY <1>7, <1>8, <1>9, <1>10, <1>11 DEF IInv

(* The pool is closed when no handler is left. *)
LEMMA CloseDatabaseInv == IInv /\ CloseDatabase => IInv'
<1> SUFFICES ASSUME IInv, CloseDatabase PROVE IInv'
  OBVIOUS
<1> DEFINE p == [proc EXCEPT !.phase = "closing", !.pool = "closed"]
<1>1. /\ proc \in Process /\ proc.phase = "return" /\ Become(p) /\ UNCHANGED world
      /\ told' \in BOOLEAN
  BY DEF IInv, TypeOK, CloseDatabase, world
<1>2. /\ p \in Process /\ p.phase = "closing" /\ p.shutAge = proc.shutAge
      /\ p.listener = proc.listener /\ p.settings = proc.settings
  BY <1>1 DEF Process
<1> HIDE DEF p
<1>3. PhaseInv'
  BY <1>1, <1>2, SourceStable DEF IInv, PhaseInv, ShuttingDown, Starting, world, Become
<1> QED BY <1>1, <1>2, <1>3, BecomeInv DEF world

(* The ends of a process, and the next one. *)
LEMMA EndsInv == IInv /\ (ForceExit \/ Return \/ Kill \/ Restart) => IInv'
<1> SUFFICES ASSUME IInv, ForceExit \/ Return \/ Kill \/ Restart PROVE IInv'
  OBVIOUS
<1>1. told' \in BOOLEAN /\ UNCHANGED <<env, deps, schema>>
  BY DEF IInv, TypeOK, ForceExit, Return, Kill, Restart, world
<1>2. CASE ForceExit
  BY <1>1, <1>2, ExitInv DEF ForceExit, Fatal
<1>3. CASE Return
  BY <1>1, <1>3, ExitInv DEF Return
<1>4. CASE Kill
  BY <1>1, <1>4, ExitInv DEF Kill
<1>5. CASE Restart
  <2> DEFINE p == Start("migrate", 0)
  <2>1. /\ p \in Process /\ p.phase = "migrate" /\ p.listener = "off"
        /\ p.shutAge = 0
    BY FreshFacts
  <2>2. Become(p) /\ proc.phase = "exited" /\ proc.shutAge = 0
    BY <1>5 DEF Restart, IInv, PhaseInv, ShuttingDown
  <2> HIDE DEF p
  <2>3. PhaseInv'
    BY <2>1, <2>2 DEF PhaseInv, Become, Starting, ShuttingDown
  <2> QED BY <1>1, <2>1, <2>2, <2>3, BecomeInv
<1> QED BY <1>2, <1>3, <1>4, <1>5

(* Handlers and the shutdown age together. *)
LEMMA TickInv == IInv /\ Tick => IInv'
<1> SUFFICES ASSUME IInv, Tick PROVE IInv'
  OBVIOUS
<1> DEFINE age == IF proc.phase = "drain" THEN proc.shutAge + 1 ELSE proc.shutAge
<1>1. /\ proc \in Process /\ conns \in [Conns -> Conn]
      /\ proc.phase \in {"notify", "wait", "drain"}
      /\ proc.phase = "drain" => proc.shutAge < ShutdownTimeout
      /\ UNCHANGED <<env, deps, schema, told, probe>>
      /\ proc' = [proc EXCEPT !.shutAge = age]
  BY DEF IInv, TypeOK, Tick, world
<1>2. age \in 0..ShutdownTimeout /\ (proc.phase # "drain" => age = proc.shutAge)
      /\ age <= proc.shutAge + 1 /\ proc.shutAge \in Nat
  BY <1>1 DEF Process
<1> HIDE DEF age
<1>3. /\ proc' \in Process /\ proc'.phase = proc.phase /\ proc'.shutAge = age
      /\ proc'.listener = proc.listener /\ proc'.settings = proc.settings
      /\ proc'.pool = proc.pool
  BY <1>1, <1>2 DEF Process
<1>4. \A c \in Conns :
        /\ conns'[c] \in Conn /\ conns'[c].state = conns[c].state
        /\ conns'[c].late = conns[c].late
        /\ conns[c].state = "active" =>
             conns'[c].age >= WriteTimeout \/ conns'[c].age = conns[c].age + 1
  <2> SUFFICES ASSUME NEW c \in Conns
               PROVE  /\ conns'[c] \in Conn /\ conns'[c].state = conns[c].state
                      /\ conns'[c].late = conns[c].late
                      /\ conns[c].state = "active" =>
                           \/ conns'[c].age >= WriteTimeout
                           \/ conns'[c].age = conns[c].age + 1
    OBVIOUS
  <2>1. conns[c] \in Conn
    BY <1>1
  <2>2. CASE conns[c].state \in {"new", "active"}
    <3>1. conns'[c] = [conns[c] EXCEPT !.age = Older(conns[c].age, WriteTimeout)]
      BY <2>2 DEF Tick
    <3>2. /\ Older(conns[c].age, WriteTimeout) \in 0..WriteTimeout
          /\ \/ Older(conns[c].age, WriteTimeout) = conns[c].age + 1
             \/ Older(conns[c].age, WriteTimeout) >= WriteTimeout
      BY <2>1 DEF Older, Conn
    <3> QED BY <2>1, <3>1, <3>2 DEF Conn
  <2>3. CASE conns[c].state \notin {"new", "active"}
    <3>1. conns'[c] = conns[c]
      BY <2>3 DEF Tick
    <3> QED BY <2>1, <2>3, <3>1
  <2> QED BY <2>2, <2>3
<1>5. conns' \in [Conns -> Conn]
  <2>1. \E f : conns' = [c \in Conns |-> f[c]]
    <3> DEFINE f == [c \in Conns |->
          IF conns[c].state \in {"new", "active"}
          THEN [conns[c] EXCEPT !.age = Older(@, WriteTimeout)] ELSE conns[c]]
    <3>1. conns' = f
      BY DEF Tick
    <3>2. f = [c \in Conns |-> f[c]]
      OBVIOUS
    <3> QED BY <3>1, <3>2
  <2> QED BY <1>4, <2>1
<1>6. TypeOK'
  BY <1>1, <1>3, <1>5 DEF IInv, TypeOK
<1>7. PhaseInv'
  BY <1>1, <1>2, <1>3, SourceStable DEF IInv, PhaseInv, ShuttingDown, Starting
<1>8. HandlersInv'
  BY <1>1, <1>3, <1>4 DEF IInv, HandlersInv
<1>9. DrainInv'
  <2>1. \A c \in Conns : conns[c].age \in Nat /\ conns'[c].age \in Nat
    BY <1>1, <1>4 DEF Conn
  <2> QED BY <1>2, <1>3, <1>4, <2>1 DEF IInv, DrainInv
<1>10. ProbeInv'
  BY <1>1 DEF IInv, ProbeInv, ReadinessHonest
<1> QED BY <1>6, <1>7, <1>8, <1>9, <1>10 DEF IInv

(* A running probe notices that a dependency comes or goes. *)
LEMMA DependencyInv ==
    ASSUME IInv, NEW d \in Dependencies, DependencyChanges(d)
    PROVE  IInv'
<1>1. /\ deps \in [Dependencies -> BOOLEAN] /\ probe \in Probe
      /\ UNCHANGED <<env, schema, proc, conns, told>> /\ deps' = [deps EXCEPT ![d] = ~deps[d]]
  BY DEF IInv, TypeOK, DependencyChanges
<1>2. /\ deps' \in [Dependencies -> BOOLEAN] /\ deps'[d] = ~deps[d]
      /\ \A e \in Dependencies \ {d} : deps'[e] = deps[e]
  BY <1>1
<1>3. PICK up \in SUBSET Pinged, down \in SUBSET Pinged :
        /\ probe' = [probe EXCEPT !.up = up, !.down = down]
        /\ probe.up \subseteq up /\ probe.down \subseteq down
        /\ probe.next = "none" => up = probe.up /\ down = probe.down
        /\ probe.next # "none" /\ d # "port" =>
             IF deps[d] THEN d \in down ELSE d \in up
  <2>1. probe = [probe EXCEPT !.up = probe.up, !.down = probe.down]
    BY <1>1 DEF Probe
  <2>2. CASE probe.next = "none" \/ d = "port"
    <3>1. probe' = probe
      BY <2>2 DEF DependencyChanges
    <3> QED BY <1>1, <2>1, <2>2, <3>1 DEF Probe
  <2>3. CASE probe.next # "none" /\ d # "port" /\ deps[d]
    <3>1. probe' = [probe EXCEPT !.down = probe.down \cup {d}]
      BY <2>3 DEF DependencyChanges
    <3>2. probe.down \cup {d} \in SUBSET Pinged /\ probe.up \in SUBSET Pinged
      BY <1>1, <2>3 DEF Probe, Dependencies
    <3>3. probe' = [probe EXCEPT !.up = probe.up, !.down = probe.down \cup {d}]
      BY <1>1, <3>1, <3>2 DEF Probe
    <3> QED BY <2>3, <3>2, <3>3
  <2>4. CASE probe.next # "none" /\ d # "port" /\ ~deps[d]
    <3>1. probe' = [probe EXCEPT !.up = probe.up \cup {d}]
      BY <2>4 DEF DependencyChanges
    <3>2. probe.up \cup {d} \in SUBSET Pinged /\ probe.down \in SUBSET Pinged
      BY <1>1, <2>4 DEF Probe, Dependencies
    <3>3. probe' = [probe EXCEPT !.up = probe.up \cup {d}, !.down = probe.down]
      BY <1>1, <3>1, <3>2 DEF Probe
    <3> QED BY <2>4, <3>2, <3>3
  <2> QED BY <2>2, <2>3, <2>4
<1>4. /\ probe' \in Probe /\ probe'.next = probe.next /\ probe'.answer = probe.answer
      /\ probe'.up = up /\ probe'.down = down
  BY <1>1, <1>3 DEF Probe
<1>5. TypeOK'
  BY <1>1, <1>2, <1>4 DEF IInv, TypeOK
<1>6. PhaseInv' /\ DrainInv'
  BY <1>1, SourceStable DEF IInv, PhaseInv, ShuttingDown, DrainInv
<1>7. HandlersInv'
  BY <1>1, <1>4 DEF IInv, HandlersInv
<1>8. ProbeInv'
  BY <1>2, <1>3, <1>4 DEF IInv, ProbeInv, ReadinessHonest, Dependencies, Pinged
<1> QED BY <1>5, <1>6, <1>7, <1>8 DEF IInv

(* Every step preserves the invariant. *)
LEMMA NextInv == IInv /\ [Next]_vars => IInv'
<1> SUFFICES ASSUME IInv, [Next]_vars PROVE IInv'
  OBVIOUS
<1>1. CASE UNCHANGED vars
  <2>1. UNCHANGED <<env, deps, schema, proc, conns, probe, told>>
    BY <1>1 DEF vars
  <2>2. TypeOK' /\ PhaseInv'
    BY <2>1, SourceStable DEF IInv, TypeOK, PhaseInv, ShuttingDown
  <2>3. HandlersInv' /\ DrainInv' /\ ProbeInv'
    BY <2>1 DEF IInv, HandlersInv, DrainInv, ProbeInv, ReadinessHonest
  <2> QED BY <2>2, <2>3 DEF IInv
<1>2. CASE Main
  BY <1>2, MigrateInv, ApplyMigrationsInv, LoadConfigInv, OpenInv, ReadSecretInv, NotifyInv, StopInv,
     PollInv, CloseDatabaseInv, EndsInv DEF Main
<1>3. CASE \E c \in Conns :
             Accept(c) \/ StartRequest(c) \/ EndRequest(c) \/ CloseConn(c)
  BY <1>3, ConnectionsInv
<1>4. CASE \E d \in Dependencies : DependencyChanges(d)
  BY <1>4, DependencyInv
<1> QED BY <1>1, <1>2, <1>3, <1>4, ListenAndServeInv, ProbeStepsInv, SignalInv,
           EndsInv, TickInv DEF Next

-----------------------------------------------------------------------------
(* Results.                                                                *)

(* Every reachable state of main, its server and a probe satisfies the
   inductive invariant. *)
THEOREM ServerInductive == Spec => []IInv
BY InitInv, NextInv, PTL DEF Spec

(* What main, the server and a probe hold is what the code declares; the
   channel quit never holds more than one signal. *)
THEOREM ServerTypeCorrect == Spec => []TypeOK
<1>1. IInv => TypeOK
  BY DEF IInv
<1> QED BY <1>1, ServerInductive, PTL

(* A secret of the environment is in effect in every process that serves:
   LoadConfig binds each of them. *)
THEOREM SecretsAreInEffect == Spec => []SecretsTakeEffect
<1>1. IInv => SecretsTakeEffect
  <2> SUFFICES ASSUME IInv, proc.listener = "up", NEW k \in Secrets \cap env.vars
               PROVE  proc.settings[k] = "env"
    BY DEF SecretsTakeEffect
  <2>1. proc.settings = [j \in Settings |-> Source(j)] /\ k \in Settings
    BY DEF IInv, PhaseInv, Settings
  <2>2. Source(k) = "env"
    BY DEF Source, Secrets, BoundKeys
  <2> QED BY <2>1, <2>2
<1> QED BY <1>1, ServerInductive, PTL

(* A container that migrates starts the server on a migrated database only,
   whatever happened to earlier starts. *)
THEOREM ServerNeedsMigrations == Spec => []ServesOnlyMigrated
<1>1. IInv => ServesOnlyMigrated
  BY DEF IInv, PhaseInv, ServesOnlyMigrated
<1> QED BY <1>1, ServerInductive, PTL

(* No handler and no probe runs on a closed pool: main closes it only after
   Shutdown has found nothing left. *)
THEOREM HandlersHavePool == Spec => []PoolOutlivesHandlers
<1>1. IInv => PoolOutlivesHandlers
  BY DEF IInv, HandlersInv, PhaseInv, PoolOutlivesHandlers
<1> QED BY <1>1, ServerInductive, PTL

(* /readyz answers for what it has seen. *)
THEOREM ReadinessIsHonest == Spec => []ReadinessHonest
<1>1. IInv => ReadinessHonest
  BY DEF IInv, ProbeInv
<1> QED BY <1>1, ServerInductive, PTL

(* Where Shutdown is given at least the time an answer may take, as main
   gives it, a forced end cuts off nobody who could still be answered. *)
THEOREM ForcedEndIsHarmless ==
    ASSUME WriteTimeout <= ShutdownTimeout
    PROVE  Spec => CutOnlyUnanswerable
<1>1. IInv /\ [Next]_vars =>
        [ForceExit =>
           \A c \in Conns :
              conns[c].state = "active" =>
                  conns[c].age >= WriteTimeout \/ conns[c].late]_vars
  <2> SUFFICES ASSUME IInv, ForceExit, NEW c \in Conns, conns[c].state = "active",
                      ~conns[c].late
               PROVE  conns[c].age >= WriteTimeout
    OBVIOUS
  <2>1. proc.phase = "drain" /\ proc.shutAge >= ShutdownTimeout
    BY DEF ForceExit, Overdue
  <2>2. conns[c].age \in Nat /\ proc.shutAge \in Nat
    BY DEF IInv, TypeOK, Conn, Process
  <2> QED BY <2>1, <2>2 DEF IInv, DrainInv
<1> QED BY <1>1, ServerInductive, PTL DEF Spec, CutOnlyUnanswerable
=============================================================================
