---------------------------- MODULE Application ----------------------------
(***************************************************************************)
(* The life of the service's processes: configuration, startup migration,  *)
(* construction of the components, start hooks, work, stop hooks.  The     *)
(* replicas run under one configuration and share a database schema, which *)
(* an operator's run of cmd/migrate changes too.  Hooks and their order    *)
(* are fx's, versions and the lock of the schema golang-migrate's.         *)
(***************************************************************************)
EXTENDS Configuration, Naturals, Sequences

CONSTANTS
  Replicas,  \* processes of cmd/api
  Operator,  \* the process of cmd/migrate
  None,      \* nobody
  Configs,   \* the configurations to start from
  Latest,    \* migrations in cfg.Migration.Path
  Loaded     \* the replicas that get requests and jobs; the others are idle

ASSUME ApplicationAssumption ==
  /\ Operator \notin Replicas
  /\ None \notin Replicas \cup {Operator}
  /\ \A c \in Configs : IsConfig(c)
  /\ Latest \in Nat \ {0}
  /\ Loaded \subseteq Replicas

Processes == Replicas \cup {Operator}

VARIABLES
  cfg,     \* the configuration of the deployment
  proc,    \* the processes
  schema,  \* what is in the database
  lowered  \* has a down migration run since the schema was last complete?

vars == <<cfg, proc, schema, lowered>>

-----------------------------------------------------------------------------
\* The order in which New appends lifecycle hooks: the invocations of the modules
\* in turn, each after what it depends on.
Hooks == << "logger", "db", "tracing", "redis", "events", "outbound",
            "scheduler", "auth", "grpc", "http" >>

\* Hooks that take work in; the others only close what they opened.
Servers == {"events", "scheduler", "grpc", "http"}

FirstServer == CHOOSE i \in DOMAIN Hooks :
  Hooks[i] \in Servers /\ \A j \in 1..(i - 1) : Hooks[j] \notin Servers

Resources == {"logger", "db", "tracing", "redis", "bus", "outbound", "auth"}

\* What work of a server uses.
Uses(s) == CASE s = "events" -> {"logger", "db", "bus"}
             [] s = "scheduler" -> {"logger", "db", "redis"}
             [] OTHER -> {"logger", "db", "tracing", "redis", "outbound", "auth"}

\* phase; dir: direction of the migration; next: fx's numStarted; accepting:
\* servers that take work in; busy: servers with work in progress; open: resources.
Idle(phase) == [ phase |-> phase, dir |-> "up", next |-> 0, accepting |-> {},
                 busy |-> {}, open |-> {} ]

Phases == { "new", "schema", "lock", "migrate", "applying", "construct",
            "starting", "running", "stopping", "rollback", "exited" }

\* The shape of the state: the migration lock is held by a process that migrates,
\* a dirty version is the one being applied or nobody's, and work and resources
\* other than the logger belong to processes that have been constructed.
AppTypeOK ==
  /\ cfg \in Configs
  /\ \A p \in Processes :
       /\ proc[p].phase \in Phases
       /\ proc[p].dir \in {"up", "down"}
       /\ proc[p].next \in 0..Len(Hooks)
       /\ proc[p].accepting \subseteq Servers
       /\ proc[p].busy \subseteq Servers
       /\ proc[p].open \subseteq Resources
       /\ proc[p].phase \in {"new", "exited"} => proc[p].open \cup proc[p].busy = {}
       /\ proc[p].phase \in {"schema", "lock", "migrate", "applying", "construct"} =>
            proc[p].open \subseteq {"logger"} /\ proc[p].busy = {}
       /\ proc[p].phase \in {"migrate", "applying"} <=> schema.holder = p
       /\ proc[p].phase = "applying" => schema.dirty
  /\ {schema.exists, schema.dirty, lowered} \subseteq BOOLEAN
  /\ schema.version \in 0..Latest
  /\ schema.holder \in Processes \cup {None}

Init ==
  /\ cfg \in Configs
  /\ proc = [p \in Processes |-> Idle(IF p = Operator THEN "exited" ELSE "new")]
  /\ schema \in [exists : BOOLEAN, version : {0}, dirty : {FALSE}, holder : {None}]
  /\ lowered = FALSE

-----------------------------------------------------------------------------
(* Ends *)

\* Fault: a migration that fails keeps the lock.
Released_Kept(p) == schema

\* The schema without p's lock, a lock of p's session.
Released(p) == IF schema.holder = p THEN [schema EXCEPT !.holder = None] ELSE schema

\* The process ends: whatever it held is gone, a dirty version stays.
Exit(p) ==
  /\ proc' = [proc EXCEPT ![p] = Idle("exited")]
  /\ schema' = Released(p)
  /\ UNCHANGED <<cfg, lowered>>

Go(p, phase) == proc' = [proc EXCEPT ![p].phase = phase]

-----------------------------------------------------------------------------
(* Start *)

\* A constructor yields the resources it opens; "failed" is among them when it
\* returns an error.  silent: the first backend that does not answer, or "none".
\* The logger wants a directory for its files and a level it can parse.
NewLogger(c, silent) ==
  IF silent = "files" \/ "log_level" \in c.bad THEN {"failed"} ELSE {"logger"}

\* main: the configuration, then New, which needs the logger before anything else
\* and whose first invocation is the migration.  Without auto_up there is none.
Load(p) ==
  /\ proc[p].phase = "new"
  /\ LoadWithProfile(cfg)
  /\ \E silent \in {"files", "none"} :
       LET opened == NewLogger(cfg, silent) IN
       IF "failed" \in opened THEN Exit(p)
       ELSE /\ proc' = [proc EXCEPT ![p].phase = IF "auto_up" \in cfg.on THEN "schema" ELSE "construct",
                                    ![p].open = opened]
            /\ UNCHANGED <<cfg, schema, lowered>>

LoadFails(p) == proc[p].phase = "new" /\ ~LoadWithProfile(cfg) /\ Exit(p)

\* cmd/migrate, by hand; Run refuses an empty database_url.
Operate(dir) ==
  /\ proc[Operator].phase = "exited"
  /\ LoadWithProfile(cfg)
  /\ "migration_url" \in cfg.on
  /\ proc' = [proc EXCEPT ![Operator] = [Idle("schema") EXCEPT !.dir = dir]]
  /\ UNCHANGED <<cfg, schema, lowered>>

\* CREATE SCHEMA IF NOT EXISTS under an advisory lock of the transaction: one step.
ensureSchema(p) ==
  /\ proc[p].phase = "schema"
  /\ Go(p, "lock")
  /\ schema' = [schema EXCEPT !.exists = @ \/ "create_schema" \in cfg.on]
  /\ UNCHANGED <<cfg, lowered>>

\* migrate.New finds the schema, and Up or Down takes the lock.
Lock(p) ==
  /\ proc[p].phase = "lock"
  /\ schema.exists
  /\ schema.holder = None
  /\ schema' = [schema EXCEPT !.holder = p]
  /\ Go(p, "migrate")
  /\ UNCHANGED <<cfg, lowered>>

\* No such schema, no connection, or LockTimeout.
LockFails(p) == proc[p].phase \in {"schema", "lock"} /\ Exit(p)

\* The version is noted as dirty before its statements are executed.
Apply(p) ==
  LET up == proc[p].dir = "up" IN
  /\ proc[p].phase = "migrate"
  /\ ~schema.dirty
  /\ IF up THEN schema.version < Latest ELSE schema.version > 0
  /\ schema' = [schema EXCEPT !.dirty = TRUE, !.version = IF up THEN @ + 1 ELSE @ - 1]
  /\ lowered' = (lowered \/ ~up)
  /\ Go(p, "applying")
  /\ UNCHANGED cfg

Applied(p) ==
  /\ proc[p].phase = "applying"
  /\ schema' = [schema EXCEPT !.dirty = FALSE]
  /\ lowered' = (lowered /\ schema.version # Latest)
  /\ Go(p, "migrate")
  /\ UNCHANGED cfg

\* Fault: any error of the migration is taken for ErrNoChange.
ApplyFails_Ignored(p) ==
  /\ \/ proc[p].phase = "applying"
     \/ proc[p].phase = "migrate" /\ schema.dirty
  /\ Go(p, "construct")
  /\ schema' = Released(p)
  /\ UNCHANGED <<cfg, lowered>>

\* A statement fails, or the version is dirty from the start.
ApplyFails(p) ==
  /\ \/ proc[p].phase = "applying"
     \/ proc[p].phase = "migrate" /\ schema.dirty
  /\ Exit(p)

\* Nothing is left to apply (ErrNoChange, if nothing was at all): the replica goes
\* on and cmd/migrate ends.
Migrated(p) ==
  /\ proc[p].phase = "migrate"
  /\ ~schema.dirty
  /\ schema.version = IF proc[p].dir = "up" THEN Latest ELSE 0
  /\ IF p = Operator THEN Exit(p)
     ELSE Go(p, "construct") /\ schema' = Released(p) /\ UNCHANGED <<cfg, lowered>>

\* cmd/migrate -steps ends where it was told to.
StepsDone == proc[Operator].phase = "migrate" /\ Exit(Operator)

-----------------------------------------------------------------------------
(* Construction *)

\* What a constructor waits for.
Backends == {"database", "collector", "redis", "jwks", "certificates"}

\* The DSN is parsed; the pool is kept if the database answers the ping, and closed
\* otherwise.
OpenPool(c, silent) ==
  IF "dsn" \in c.bad \/ silent = "database" THEN {"failed"} ELSE {"db"}

NewDatabase(c, silent) == IF "database" \in c.on THEN OpenPool(c, silent) ELSE {}

NewTracing(c, silent) ==
  IF "tracing" \notin c.on THEN {}
  ELSE IF silent = "collector" THEN {"failed"} ELSE {"tracing"}

NewRedis(c, silent) ==
  IF "redis" \notin c.on THEN {}
  ELSE IF silent = "redis" THEN {"failed"} ELSE {"redis"}

\* Certificates are read when the configuration names them.
transportCredentials(c, silent) == "client_tls" \in c.on => silent # "certificates"

\* A client of an upstream is made, or refused: credentials are not sent without TLS.
Dial(c, silent) ==
  /\ Usable(c, {"upstream"})
  /\ transportCredentials(c, silent)
  /\ "credentials" \in c.on => "client_tls" \in c.on
  /\ "target" \notin c.bad

\* All upstreams, or none: the clients made before one that fails are closed.
NewRegistry(c, silent) ==
  IF c.upstreams # {} /\ ~Dial(c, silent) THEN {"failed"} ELSE {"outbound"}

\* The verifier of applications needs its upstream when there is a database.
NewApplicationVerifier(c, silent) ==
  IF "database" \in c.on /\ "application" \notin c.upstreams THEN {"failed"} ELSE {}

\* Both clients of the object storage are made without a call, from host names.
NewStorage(c, silent) ==
  IF "object_storage" \in c.on /\ "endpoint" \in c.bad THEN {"failed"} ELSE {}

\* Time zone and cron expressions are parsed whether the scheduler is on or not.
NewScheduler(c, silent) ==
  IF {"timezone", "specs"} \cap c.bad # {} THEN {"failed"} ELSE {}

NewRuntime(c, silent) ==
  IF "jwks" \notin c.on THEN {}
  ELSE IF "verifier" \in c.bad \/ silent = "jwks" THEN {"failed"} ELSE {"auth"}

\* The gRPC server reads its certificates even when it is not enabled.
serverCredentials(c, silent) ==
  IF "grpc_tls" \in c.on /\ silent = "certificates" THEN {"failed"} ELSE {}

NewServer(c, silent) == IF "proxies" \in c.bad THEN {"failed"} ELSE {}

\* What the modules' invocations construct, directly or for each other.
New(c, silent) ==
  UNION { NewLogger(c, silent), NewDatabase(c, silent), NewTracing(c, silent),
          NewRedis(c, silent), NewRegistry(c, silent),
          NewApplicationVerifier(c, silent), NewStorage(c, silent),
          NewScheduler(c, silent), NewRuntime(c, silent),
          serverCredentials(c, silent), NewServer(c, silent) }

\* A constructor that fails ends the process before any hook is started.
Construct(p) ==
  /\ proc[p].phase = "construct"
  /\ \E silent \in Backends \cup {"none"} :
       LET opened == New(cfg, silent) IN
       IF "failed" \in opened THEN Exit(p)
       ELSE /\ proc' = [proc EXCEPT ![p].phase = "starting", ![p].open = opened,
                                    ![p].next = FirstServer - 1]
            /\ UNCHANGED <<cfg, schema, lowered>>

-----------------------------------------------------------------------------
(* Start hooks *)

\* Fx counts the hooks it has started.  Hooks that only close something have
\* nothing to start: they are counted with the server before them.
Passive(n) == IF n = Len(Hooks) \/ Hooks[n + 1] \in Servers THEN n ELSE n + 1

Starting(p, h) == proc[p].phase = "starting" /\ Hooks[proc[p].next + 1] = h

\* The next hook of p has been started.
Started(p, accepting, busy, open) ==
  /\ proc' = [proc EXCEPT ![p].next = Passive(@ + 1),
                          ![p].phase = IF Hooks[proc[p].next + 1] = "http" THEN "running" ELSE @,
                          ![p].accepting = @ \cup accepting,
                          ![p].busy = @ \cup busy,
                          ![p].open = @ \cup open]
  /\ UNCHANGED <<cfg, schema, lowered>>

\* fx rolls back: the hooks started before this one are stopped.
StartFails(p) ==
  /\ Go(p, "rollback")
  /\ UNCHANGED <<cfg, schema, lowered>>

\* The bus is connected and both loops run.  An enabled bus needs the outbox.
StartEvents(p) ==
  /\ Starting(p, "events")
  /\ \/ /\ "event_bus" \notin cfg.on
        /\ Started(p, {}, {}, {})
     \/ /\ {"event_bus", "database"} \subseteq cfg.on
        /\ Started(p, {"events"}, {"events"}, {"bus"})
     \/ /\ "event_bus" \in cfg.on
        /\ StartFails(p)

StartScheduler(p) ==
  /\ Starting(p, "scheduler")
  /\ Started(p, IF "cron" \in cfg.on THEN {"scheduler"} ELSE {}, {}, {})

StartGRPC(p) ==
  /\ Starting(p, "grpc")
  /\ \/ Started(p, IF "grpc" \in cfg.on THEN {"grpc"} ELSE {}, {}, {})
     \/ "grpc" \in cfg.on /\ StartFails(p)

StartHTTP(p) ==
  /\ Starting(p, "http")
  /\ Started(p, {"http"}, {}, {}) \/ StartFails(p)

-----------------------------------------------------------------------------
(* Work *)

\* A request, a call or a scheduled run begins.
WorkBegins(p, s) ==
  /\ p \in Loaded
  /\ s \in proc[p].accepting \ proc[p].busy
  /\ proc' = [proc EXCEPT ![p].busy = @ \cup {s}]
  /\ UNCHANGED <<cfg, schema, lowered>>

\* The last piece of work of a server ends; the loops of the event bus end when
\* their context is cancelled.
WorkEnds(p, s) ==
  /\ s \in proc[p].busy
  /\ s = "events" => s \notin proc[p].accepting
  /\ proc' = [proc EXCEPT ![p].busy = @ \ {s}]
  /\ UNCHANGED <<cfg, schema, lowered>>

\* Serve returns an error: it is logged and the process goes on.
ServeFails(p, s) ==
  /\ p \in Loaded
  /\ proc[p].phase = "running"
  /\ s \in {"grpc", "http"} \cap proc[p].accepting
  /\ proc' = [proc EXCEPT ![p].accepting = @ \ {s}]
  /\ UNCHANGED <<cfg, schema, lowered>>

-----------------------------------------------------------------------------
(* Stop hooks *)

Signal(p) ==
  /\ proc[p].phase = "running"
  /\ Go(p, "stopping")
  /\ UNCHANGED <<cfg, schema, lowered>>

Stopping(p, h) ==
  /\ proc[p].phase \in {"stopping", "rollback"}
  /\ proc[p].next > 0
  /\ Hooks[proc[p].next] = h

\* The hook is done: what it closes is closed.
Stopped(p, closed) ==
  /\ proc' = [proc EXCEPT ![p].next = @ - 1, ![p].open = @ \ closed]
  /\ UNCHANGED <<cfg, schema, lowered>>

\* Fault: stop waits for the loops without cancelling their context.
StopAccepting_Waits(p, s) ==
  /\ Stopping(p, s)
  /\ s \in proc[p].accepting \ {"events"}
  /\ proc' = [proc EXCEPT ![p].accepting = @ \ {s}]
  /\ UNCHANGED <<cfg, schema, lowered>>

\* Shutdown, GracefulStop and cron's Stop first take no more work in, and the
\* context of the loops is cancelled.
StopAccepting(p, s) ==
  /\ Stopping(p, s)
  /\ s \in proc[p].accepting
  /\ proc' = [proc EXCEPT ![p].accepting = @ \ {s}]
  /\ UNCHANGED <<cfg, schema, lowered>>

\* Fault: the scheduler is stopped without waiting for the running jobs.
StopServer_NoWait(p, s) ==
  /\ Stopping(p, s)
  /\ s \notin proc[p].accepting
  /\ s \in proc[p].busy => s = "scheduler"
  /\ Stopped(p, IF s = "events" THEN {"bus"} ELSE {})

\* Then they wait for the work in progress; the bus is closed after its loops.
StopServer(p, s) ==
  /\ Stopping(p, s)
  /\ s \notin proc[p].accepting \cup proc[p].busy
  /\ Stopped(p, IF s = "events" THEN {"bus"} ELSE {})

\* The other hooks close their resource.
StopResource(p, r) == Stopping(p, r) /\ Stopped(p, {r})

\* Every hook has been stopped, or the time for it is over.
Ended(p) ==
  /\ proc[p].phase \in {"stopping", "rollback"}
  /\ proc[p].next = 0
  /\ Exit(p)

StopTimeout(p) == proc[p].phase \in {"stopping", "rollback"} /\ Exit(p)

-----------------------------------------------------------------------------
(* Environment *)

Kill(p) == proc[p].phase # "exited" /\ Exit(p)

Restart(p) ==
  /\ proc[p].phase = "exited"
  /\ proc' = [proc EXCEPT ![p] = Idle("new")]
  /\ UNCHANGED <<cfg, schema, lowered>>

StopStep(p) ==
  \/ \E s \in Servers : StopAccepting(p, s) \/ StopServer(p, s)
  \/ \E r \in Resources : StopResource(p, r)
  \/ Ended(p)

Migrate(p) ==
  \/ ensureSchema(p) \/ Lock(p) \/ LockFails(p)
  \/ Apply(p) \/ Applied(p) \/ ApplyFails(p) \/ Migrated(p)

Start(p) ==
  \/ Construct(p)
  \/ StartEvents(p) \/ StartScheduler(p) \/ StartGRPC(p) \/ StartHTTP(p)

Next ==
  \/ \E p \in Replicas :
       \/ Load(p) \/ LoadFails(p) \/ Start(p)
       \/ \E s \in Servers : WorkBegins(p, s) \/ WorkEnds(p, s) \/ ServeFails(p, s)
       \/ Signal(p) \/ StopStep(p) \/ StopTimeout(p)
       \/ Restart(p)
  \/ \E p \in Processes : Migrate(p) \/ Kill(p)
  \/ \E dir \in {"up", "down"} : Operate(dir)
  \/ StepsDone

\* Stop hooks are run and work ends: HTTP requests and jobs have deadlines, loops
\* a context, and a gRPC call ends with its client at the latest.  Nothing is
\* assumed of StopTimeout.
Fairness ==
  \A p \in Replicas :
    /\ WF_vars(StopStep(p))
    /\ \A s \in Servers : WF_vars(WorkEnds(p, s))

Spec == Init /\ [][Next]_vars /\ Fairness

-----------------------------------------------------------------------------
(* Properties *)

\* Work in progress never finds a resource closed: stop hooks run in an order in
\* which whatever is closed has no user left, after a signal and when a start that
\* failed is rolled back.
NothingUsesClosed ==
  \A p \in Replicas : \A s \in proc[p].busy :
    Uses(s) \cap (New(cfg, "none") \cup {"bus"}) \subseteq proc[p].open

\* A process that serves has what these features of its configuration work on:
\* Redis for rate limiter and idempotency, bus and outbox for events, the pool for
\* migrated tables, the upstreams that verify applications and permissions, and in
\* production identity tokens and permissions are checked.
RunningIsWired ==
  \A p \in Replicas : proc[p].phase = "running" =>
    /\ {"rate_limit", "idempotency"} \cap cfg.on # {} => "redis" \in proc[p].open
    /\ "event_bus" \in cfg.on => {"bus", "db"} \subseteq proc[p].open
    /\ "auto_up" \in cfg.on => "db" \in proc[p].open
    /\ "database" \in cfg.on => "application" \in cfg.upstreams
    /\ "authorization" \in cfg.on => "authorization" \in cfg.upstreams
    /\ cfg.production => /\ "auth" \in proc[p].open
                         /\ "authorization" \in cfg.on

\* README.md, Migrations: "all pending migrations" have run "before each service
\* process starts its database pool, scheduler, HTTP server, or gRPC server",
\* whoever migrates at the same time and whoever fails half way.  A down migration
\* by hand takes that away.
SchemaCurrent ==
  \A p \in Replicas :
    LET begun == proc[p].accepting \cup (proc[p].open \ {"logger"}) IN
    "auto_up" \in cfg.on /\ begun # {} /\ ~lowered =>
      schema.version = Latest /\ ~schema.dirty

\* A process that is stopped, or whose start is rolled back, ends without the help
\* of the stop timeout: no hook waits for something that never comes.
StopEnds ==
  \A p \in Replicas :
    proc[p].phase \in {"stopping", "rollback"} ~> proc[p].phase = "exited"

=============================================================================
