------------------------- MODULE ApplicationProofs -------------------------
(***************************************************************************)
(* Proofs about Application, for any number of replicas, configurations    *)
(* and migrations: the order of hooks keeps open what work uses, a process *)
(* that serves has what its configuration asks for, and the schema is      *)
(* complete before any replica opens more than its logger.                 *)
(***************************************************************************)
EXTENDS Application, TLAPS

\* Where a hook is in the order of New.
Place(h) == CHOOSE i \in DOMAIN Hooks : Hooks[i] = h

Built == {"starting", "running", "stopping", "rollback"}

Migrating == {"migrate", "applying"}

Procs == [ phase : Phases, dir : {"up", "down"}, next : 0..Len(Hooks),
           accepting : SUBSET Servers, busy : SUBSET Servers, open : SUBSET Resources ]

Schemas == [ exists : BOOLEAN, version : 0..Latest, dirty : BOOLEAN,
             holder : Processes \cup {None} ]

\* Only replicas are constructed, they migrate up, and with a valid configuration.
RoleOK(p, x) ==
  /\ p = Operator => x.phase \in {"exited", "schema", "lock"} \cup Migrating
  /\ p \in Replicas => x.dir = "up"
  /\ p \in Replicas /\ x.phase \notin {"new", "exited"} => LoadWithProfile(cfg)

\* A server is started after the hooks of what it uses and stopped before them:
\* whatever takes work in or has work is among the first x.next hooks, and so is
\* the hook of everything it uses; what is behind one of those hooks is open.
HooksOK(x) ==
  /\ x.phase \notin Built => x.open \subseteq {"logger"} /\ x.busy = {} /\ x.accepting = {}
  /\ x.phase \in {"new", "exited"} => x.open = {}
  /\ x.phase \in Built => "failed" \notin New(cfg, "none")
  /\ x.phase = "starting" => x.next \in {4, 6, 8, 9}
  /\ x.phase = "running" => x.next = Len(Hooks)
  /\ \A s \in x.accepting \cup x.busy : Place(s) <= x.next
  /\ x.phase \in Built => \A r \in New(cfg, "none") : Place(r) <= x.next => r \in x.open
  /\ x.phase \in {"starting", "running"} => New(cfg, "none") \subseteq x.open
  /\ "events" \in x.accepting \cup x.busy => "bus" \in x.open
  /\ "event_bus" \in cfg.on /\ x.phase \in {"starting", "running"} /\ x.next > 4 =>
       "bus" \in x.open /\ "database" \in cfg.on

ProcsInv == \A p \in Processes : RoleOK(p, proc[p]) /\ HooksOK(proc[p])

\* The lock is held by who migrates, and a version is dirty while it is applied.
LockInv ==
  \A p \in Processes :
    /\ proc[p].phase \in Migrating <=> schema.holder = p
    /\ proc[p].phase = "applying" => schema.dirty

\* A replica that is past its migration has found the schema complete, and only a
\* down migration changes a complete schema.
CurrentInv ==
  \A p \in Replicas :
    "auto_up" \in cfg.on /\ proc[p].phase \in Built \cup {"construct"} /\ ~lowered =>
      schema.version = Latest /\ ~schema.dirty

Shape ==
  /\ cfg \in Configs
  /\ proc \in [Processes -> Procs]
  /\ schema \in Schemas
  /\ lowered \in BOOLEAN

AppInv == Shape /\ ProcsInv /\ LockInv /\ CurrentInv

-----------------------------------------------------------------------------
(* Operators of the model *)

\* The hooks by number.
LEMMA HookList ==
  /\ DOMAIN Hooks = 1..10 /\ Len(Hooks) = 10
  /\ Hooks[1] = "logger" /\ Hooks[2] = "db" /\ Hooks[3] = "tracing"
  /\ Hooks[4] = "redis" /\ Hooks[5] = "events" /\ Hooks[6] = "outbound"
  /\ Hooks[7] = "scheduler" /\ Hooks[8] = "auth" /\ Hooks[9] = "grpc"
  /\ Hooks[10] = "http"
BY DEF Hooks

\* Construction leaves the hooks before the event loops counted as started.
LEMMA FirstServerIs == FirstServer = 5
<1>1. /\ 5 \in DOMAIN Hooks /\ Hooks[5] \in Servers
      /\ \A j \in 1..(5 - 1) : Hooks[j] \notin Servers
  BY HookList DEF Servers
<1>2. \A i \in DOMAIN Hooks :
        (Hooks[i] \in Servers /\ \A j \in 1..(i - 1) : Hooks[j] \notin Servers) => i = 5
  <2> SUFFICES ASSUME NEW i \in DOMAIN Hooks, Hooks[i] \in Servers,
                      \A j \in 1..(i - 1) : Hooks[j] \notin Servers
               PROVE  i = 5
    OBVIOUS
  <2>1. i \in 1..10
    BY HookList
  <2>2. ~(5 < i)
    BY <1>1, <2>1
  <2>3. i \notin 1..4
    BY <1>1
  <2> QED BY <2>1, <2>2, <2>3
<1> QED BY <1>1, <1>2 DEF FirstServer

\* No two hooks have one name.
LEMMA PlaceOfHook == \A i \in 1..10 : Place(Hooks[i]) = i
<1> SUFFICES ASSUME NEW i \in 1..10 PROVE Place(Hooks[i]) = i
  OBVIOUS
<1>1. \A j \in DOMAIN Hooks : Hooks[j] = Hooks[i] => j = i
  BY HookList
<1> QED BY <1>1, HookList DEF Place

LEMMA Places ==
  /\ Place("logger") = 1 /\ Place("db") = 2 /\ Place("tracing") = 3
  /\ Place("redis") = 4 /\ Place("events") = 5 /\ Place("outbound") = 6
  /\ Place("scheduler") = 7 /\ Place("auth") = 8 /\ Place("grpc") = 9
  /\ Place("http") = 10
BY HookList, PlaceOfHook

\* What a constructor opens does not depend on the backend that is silent, unless
\* it fails.
LEMMA AllOrFailed ==
  ASSUME NEW c, NEW silent, "failed" \notin New(c, silent)
  PROVE  /\ New(c, silent) = New(c, "none")
         /\ New(c, silent) \subseteq Resources \ {"bus"}
<1>1. /\ NewLogger(c, silent) = NewLogger(c, "none")
      /\ NewLogger(c, silent) \subseteq Resources \ {"bus"}
  BY DEF New, NewLogger, Resources
<1>2. /\ NewDatabase(c, silent) = NewDatabase(c, "none")
      /\ NewDatabase(c, silent) \subseteq Resources \ {"bus"}
  BY DEF New, NewDatabase, OpenPool, Resources
<1>3. /\ NewTracing(c, silent) = NewTracing(c, "none")
      /\ NewTracing(c, silent) \subseteq Resources \ {"bus"}
  BY DEF New, NewTracing, Resources
<1>4. /\ NewRedis(c, silent) = NewRedis(c, "none")
      /\ NewRedis(c, silent) \subseteq Resources \ {"bus"}
  BY DEF New, NewRedis, Resources
<1>5. /\ NewRegistry(c, silent) = NewRegistry(c, "none")
      /\ NewRegistry(c, silent) \subseteq Resources \ {"bus"}
  <2>1. c.upstreams = {} \/ Dial(c, silent)
    BY DEF New, NewRegistry
  <2>2. Dial(c, silent) => Dial(c, "none")
    BY DEF Dial, transportCredentials
  <2> QED BY <2>1, <2>2 DEF NewRegistry, Resources
<1>9. /\ NewStorage(c, silent) = NewStorage(c, "none")
      /\ NewStorage(c, silent) \subseteq Resources \ {"bus"}
  BY DEF New, NewStorage, Resources
<1>10. /\ NewScheduler(c, silent) = NewScheduler(c, "none")
       /\ NewScheduler(c, silent) \subseteq Resources \ {"bus"}
  BY DEF New, NewScheduler, Resources
<1>11. /\ NewServer(c, silent) = NewServer(c, "none")
       /\ NewServer(c, silent) \subseteq Resources \ {"bus"}
  BY DEF New, NewServer, Resources
<1>6. /\ NewApplicationVerifier(c, silent) = NewApplicationVerifier(c, "none")
      /\ NewApplicationVerifier(c, silent) \subseteq Resources \ {"bus"}
  BY DEF New, NewApplicationVerifier, Resources
<1>7. /\ NewRuntime(c, silent) = NewRuntime(c, "none")
      /\ NewRuntime(c, silent) \subseteq Resources \ {"bus"}
  BY DEF New, NewRuntime, Resources
<1>8. /\ serverCredentials(c, silent) = serverCredentials(c, "none")
      /\ serverCredentials(c, silent) \subseteq Resources \ {"bus"}
  BY DEF New, serverCredentials, Resources
<1> QED BY <1>1, <1>2, <1>3, <1>4, <1>5, <1>6, <1>7, <1>8, <1>9, <1>10, <1>11 DEF New

\* The settings Validate passes over that the constructors look at.
LookedAt(c) ==
  UNION { {"log_level", "timezone", "specs", "proxies"},
          IF "database" \in c.on THEN {"dsn"} ELSE {},
          IF "object_storage" \in c.on THEN {"endpoint"} ELSE {},
          IF "jwks" \in c.on THEN {"verifier"} ELSE {},
          IF c.upstreams # {} THEN {"target"} ELSE {} }

\* Where every backend answers, a constructor refuses an accepted configuration for
\* one of these settings and for nothing else: of the relations between settings and
\* of the sections Validate does look at, it leaves nothing for New to find out.
THEOREM RefusedForUncheckedOnly ==
  ASSUME NEW c, LoadWithProfile(c)
  PROVE  "failed" \in New(c, "none") <=> LookedAt(c) \cap c.bad # {}
<1>1. "database" \in c.on => "application" \in c.upstreams
  BY DEF LoadWithProfile, Validate, ValidStores
<1>2. c.upstreams # {} =>
        Usable(c, {"upstream"}) /\ ("credentials" \in c.on => "client_tls" \in c.on)
  BY DEF LoadWithProfile, Validate, validateClientPolicy, Usable
<1>3. c.upstreams # {} => (Dial(c, "none") <=> "target" \notin c.bad)
  BY <1>2 DEF Dial, transportCredentials
<1>4. "failed" \in NewRegistry(c, "none") <=> c.upstreams # {} /\ "target" \in c.bad
  BY <1>3 DEF NewRegistry
<1>5. /\ "failed" \notin NewApplicationVerifier(c, "none")
      /\ "failed" \notin NewTracing(c, "none") /\ "failed" \notin NewRedis(c, "none")
      /\ "failed" \notin serverCredentials(c, "none")
  BY <1>1 DEF NewApplicationVerifier, NewTracing, NewRedis, serverCredentials
<1>6. /\ "failed" \in NewLogger(c, "none") <=> "log_level" \in c.bad
      /\ "failed" \in NewDatabase(c, "none") <=> "database" \in c.on /\ "dsn" \in c.bad
      /\ "failed" \in NewStorage(c, "none") <=> "object_storage" \in c.on /\ "endpoint" \in c.bad
      /\ "failed" \in NewScheduler(c, "none") <=> "timezone" \in c.bad \/ "specs" \in c.bad
      /\ "failed" \in NewRuntime(c, "none") <=> "jwks" \in c.on /\ "verifier" \in c.bad
      /\ "failed" \in NewServer(c, "none") <=> "proxies" \in c.bad
  BY DEF NewLogger, NewDatabase, OpenPool, NewStorage, NewScheduler, NewRuntime, NewServer
<1>7. "failed" \in New(c, "none") <=>
        \/ "failed" \in NewLogger(c, "none") \/ "failed" \in NewDatabase(c, "none")
        \/ "failed" \in NewRegistry(c, "none") \/ "failed" \in NewStorage(c, "none")
        \/ "failed" \in NewScheduler(c, "none") \/ "failed" \in NewRuntime(c, "none")
        \/ "failed" \in NewServer(c, "none")
  BY <1>5 DEF New
<1>8. LookedAt(c) \cap c.bad # {} <=>
        \/ "log_level" \in c.bad \/ "timezone" \in c.bad
        \/ "specs" \in c.bad \/ "proxies" \in c.bad
        \/ ("database" \in c.on /\ "dsn" \in c.bad)
        \/ ("object_storage" \in c.on /\ "endpoint" \in c.bad)
        \/ ("jwks" \in c.on /\ "verifier" \in c.bad)
        \/ (c.upstreams # {} /\ "target" \in c.bad)
  BY DEF LookedAt
<1> QED BY <1>4, <1>6, <1>7, <1>8

-----------------------------------------------------------------------------
(* Steps of one process *)

\* A step that gives p the record q leaves the others as they are.
LEMMA ProcsKept ==
  ASSUME Shape, ProcsInv, NEW p \in Processes, NEW q \in Procs,
         proc' = [proc EXCEPT ![p] = q], cfg' = cfg, RoleOK(p, q), HooksOK(q)
  PROVE  /\ proc' \in [Processes -> Procs]
         /\ proc'[p] = q
         /\ \A o \in Processes \ {p} : proc'[o] = proc[o]
         /\ ProcsInv'
<1>1. /\ proc' \in [Processes -> Procs]
      /\ proc'[p] = q
      /\ \A o \in Processes \ {p} : proc'[o] = proc[o]
  BY DEF Shape
<1>2. ASSUME NEW o \in Processes PROVE RoleOK(o, proc[o])'
  BY <1>1, <1>2 DEF ProcsInv, RoleOK
<1>3. ASSUME NEW o \in Processes PROVE HooksOK(proc[o])'
  BY <1>1, <1>3 DEF ProcsInv, HooksOK
<1> QED BY <1>1, <1>2, <1>3 DEF ProcsInv

\* A step that neither enters nor leaves a migration and does not touch the schema.
LEMMA QuietStep ==
  ASSUME AppInv, NEW p \in Processes, NEW q \in Procs,
         proc' = [proc EXCEPT ![p] = q], UNCHANGED <<cfg, schema, lowered>>,
         RoleOK(p, q), HooksOK(q),
         proc[p].phase \notin Migrating, q.phase \notin Migrating,
         q.phase \in Built \cup {"construct"} =>
           proc[p].phase \in Built \cup {"construct"} \/ "auto_up" \notin cfg.on
  PROVE  AppInv'
<1>1. /\ proc' \in [Processes -> Procs]
      /\ proc'[p] = q
      /\ \A o \in Processes \ {p} : proc'[o] = proc[o]
      /\ ProcsInv'
  BY ProcsKept DEF AppInv
<1>2. Shape'
  BY <1>1 DEF AppInv, Shape
<1>3. LockInv'
  BY <1>1 DEF AppInv, LockInv, Migrating
<1>4. CurrentInv'
  BY <1>1 DEF AppInv, CurrentInv, Processes
<1> QED BY <1>1, <1>2, <1>3, <1>4 DEF AppInv

\* A process that has not been constructed has at most its logger to close.
LEMMA UnbuiltOK ==
  ASSUME NEW q \in Procs, q.phase \notin Built,
         q.open \subseteq {"logger"}, q.busy = {}, q.accepting = {},
         q.phase \in {"new", "exited"} => q.open = {}
  PROVE  HooksOK(q)
BY DEF HooksOK, Built

LEMMA IdleOK ==
  ASSUME NEW phase \in Phases
  PROVE  /\ Idle(phase) \in Procs
         /\ Idle(phase).phase = phase /\ Idle(phase).dir = "up"
         /\ Idle(phase).open = {} /\ Idle(phase).busy = {}
         /\ Idle(phase).accepting = {}
BY HookList DEF Idle, Procs

\* The end of a process, wherever it is: the lock goes with it.
LEMMA ExitStep ==
  ASSUME ApplicationAssumption, AppInv, NEW p \in Processes, Exit(p)
  PROVE  AppInv'
<1>1. PICK q : q = Idle("exited")
  OBVIOUS
<1>2. q \in Procs /\ q.phase = "exited" /\ q.dir = "up" /\ q.open = {} /\ q.busy = {}
      /\ q.accepting = {}
  BY <1>1, IdleOK DEF Phases
<1>3. RoleOK(p, q)
  BY <1>2 DEF RoleOK
<1>4. HooksOK(q)
  BY <1>2, UnbuiltOK DEF Built
<1>5. /\ proc' \in [Processes -> Procs]
      /\ proc'[p] = q
      /\ \A o \in Processes \ {p} : proc'[o] = proc[o]
      /\ ProcsInv'
  BY <1>1, <1>2, <1>3, <1>4, ProcsKept DEF AppInv, Exit
<1>6. /\ schema' \in Schemas
      /\ schema'.version = schema.version /\ schema'.dirty = schema.dirty
      /\ schema'.holder # p
      /\ \A o \in Processes \ {p} : schema'.holder = o <=> schema.holder = o
  <2>1. CASE schema.holder = p
    <3>1. schema' = [schema EXCEPT !.holder = None]
      BY <2>1 DEF Exit, Released
    <3>2. schema \in Schemas /\ None \notin Processes
      BY DEF AppInv, Shape, ApplicationAssumption, Processes
    <3> QED BY <2>1, <3>1, <3>2 DEF Schemas
  <2>2. CASE schema.holder # p
    BY <2>2 DEF Exit, Released, AppInv, Shape
  <2> QED BY <2>1, <2>2
<1>7. Shape'
  BY <1>5, <1>6 DEF AppInv, Shape, Exit
<1>8. LockInv'
  BY <1>2, <1>5, <1>6 DEF AppInv, LockInv, Migrating
<1>9. CurrentInv'
  BY <1>2, <1>5, <1>6 DEF AppInv, CurrentInv, Processes, Exit, Built
<1> QED BY <1>5, <1>7, <1>8, <1>9 DEF AppInv

\* Moving on within what is not constructed.
LEMMA PhaseOK ==
  ASSUME Shape, ProcsInv, NEW p \in Processes, NEW phase \in Phases,
         proc[p].phase \notin Built, phase \notin Built \cup {"new", "exited"}
  PROVE  LET q == [proc[p] EXCEPT !.phase = phase] IN
         /\ q \in Procs /\ q.phase = phase /\ q.dir = proc[p].dir
         /\ HooksOK(q)
         /\ Go(p, phase) => proc' = [proc EXCEPT ![p] = q]
<1>1. PICK q : q = [proc[p] EXCEPT !.phase = phase]
  OBVIOUS
<1>2. proc[p] \in Procs
  BY DEF Shape
<1>3. /\ q \in Procs /\ q.phase = phase /\ q.dir = proc[p].dir
      /\ q.open = proc[p].open /\ q.busy = proc[p].busy /\ q.accepting = proc[p].accepting
  BY <1>1, <1>2 DEF Procs
<1>4. q.open \subseteq {"logger"} /\ q.busy = {} /\ q.accepting = {}
  BY <1>3 DEF ProcsInv, HooksOK
<1>5. HooksOK(q)
  BY <1>3, <1>4, UnbuiltOK
<1>6. Go(p, phase) => proc' = [proc EXCEPT ![p] = q]
  BY <1>1 DEF Go
<1> QED BY <1>1, <1>3, <1>5, <1>6

-----------------------------------------------------------------------------
(* Migration *)

\* Configuration and logger, and an operator's run of cmd/migrate.
LEMMA LoadStep ==
  ASSUME ApplicationAssumption, AppInv, NEW p \in Replicas, Load(p)
  PROVE  AppInv'
<1>1. PICK phase : phase = IF "auto_up" \in cfg.on THEN "schema" ELSE "construct"
  OBVIOUS
<1>2. p \in Processes /\ p # Operator /\ phase \in Phases /\ phase \notin Built
      /\ phase \notin {"new", "exited"} /\ proc[p].phase = "new"
  BY <1>1 DEF Processes, ApplicationAssumption, Phases, Built, Load
<1>3. PICK silent \in {"files", "none"} :
        IF "failed" \in NewLogger(cfg, silent) THEN Exit(p)
        ELSE /\ proc' = [proc EXCEPT ![p].phase = phase, ![p].open = NewLogger(cfg, silent)]
             /\ UNCHANGED <<cfg, schema, lowered>>
  BY <1>1 DEF Load
<1>4. CASE "failed" \in NewLogger(cfg, silent)
  BY <1>2, <1>3, <1>4, ExitStep
<1>5. CASE "failed" \notin NewLogger(cfg, silent)
  <2>1. NewLogger(cfg, silent) = {"logger"}
    BY <1>5 DEF NewLogger
  <2>2. PICK x, q : x = proc[p] /\ q = [x EXCEPT !.phase = phase, !.open = {"logger"}]
    OBVIOUS
  <2>3. x \in Procs /\ RoleOK(p, x) /\ x.busy = {} /\ x.accepting = {}
    BY <1>2, <2>2 DEF AppInv, Shape, ProcsInv, HooksOK, Built
  <2>4. /\ q \in Procs /\ q.phase = phase /\ q.dir = x.dir /\ q.open = {"logger"}
        /\ q.busy = {} /\ q.accepting = {}
    <3>1. {"logger"} \in SUBSET Resources
      BY DEF Resources
    <3> QED BY <1>2, <2>2, <2>3, <3>1 DEF Procs
  <2>5. proc' = [proc EXCEPT ![p] = q]
    <3>1. proc' = [proc EXCEPT ![p].phase = phase, ![p].open = {"logger"}]
      BY <1>3, <1>5, <2>1, Zenon
    <3>2. proc \in [Processes -> Procs]
      BY DEF AppInv, Shape
    <3> QED BY <1>2, <2>2, <3>1, <3>2
  <2>6. HooksOK(q)
    BY <1>2, <2>4, UnbuiltOK
  <2>7. RoleOK(p, q)
    BY <1>2, <2>3, <2>4 DEF RoleOK, Load
  <2> QED BY <1>1, <1>2, <1>3, <1>5, <2>4, <2>5, <2>6, <2>7, QuietStep DEF Migrating, Built
<1> QED BY <1>4, <1>5

LEMMA OperateStep ==
  ASSUME ApplicationAssumption, AppInv, NEW dir \in {"up", "down"}, Operate(dir)
  PROVE  AppInv'
<1>1. PICK i, q : i = Idle("schema") /\ q = [i EXCEPT !.dir = dir]
  OBVIOUS
<1>2. i \in Procs /\ i.phase = "schema" /\ i.open = {} /\ i.busy = {} /\ i.accepting = {}
  BY <1>1, IdleOK DEF Phases
<1>3. q \in Procs /\ q.phase = "schema" /\ q.open = {} /\ q.busy = {} /\ q.accepting = {}
  BY <1>1, <1>2 DEF Procs
<1>4. HooksOK(q)
  BY <1>3, UnbuiltOK DEF Built
<1>5. Operator \in Processes /\ RoleOK(Operator, q)
  BY <1>3 DEF RoleOK, Processes, ApplicationAssumption
<1>6. proc' = [proc EXCEPT ![Operator] = q]
  BY <1>1 DEF Operate
<1> QED BY <1>3, <1>4, <1>5, <1>6, QuietStep DEF Operate, Migrating, Built

LEMMA RestartStep ==
  ASSUME ApplicationAssumption, AppInv, NEW p \in Replicas, Restart(p)
  PROVE  AppInv'
<1>1. PICK q : q = Idle("new")
  OBVIOUS
<1>2. q \in Procs /\ q.phase = "new" /\ q.dir = "up" /\ q.open = {} /\ q.busy = {}
      /\ q.accepting = {}
  BY <1>1, IdleOK DEF Phases
<1>3. HooksOK(q)
  BY <1>2, UnbuiltOK DEF Built
<1>4. p \in Processes /\ RoleOK(p, q)
  BY <1>2 DEF RoleOK, Processes, ApplicationAssumption
<1>5. proc' = [proc EXCEPT ![p] = q]
  BY <1>1 DEF Restart
<1> QED BY <1>2, <1>3, <1>4, <1>5, QuietStep DEF Restart, Migrating, Built

\* Steps of a process between its phases schema and construct: who migrates is in
\* its role whatever the phase.
LEMMA MigrationPhase ==
  ASSUME AppInv, NEW p \in Processes, NEW phase,
         proc[p].phase \in {"schema", "lock"} \cup Migrating,
         phase \in {"lock", "construct"} \cup Migrating,
         phase = "construct" => p # Operator,
         Go(p, phase), cfg' = cfg
  PROVE  /\ proc' \in [Processes -> Procs]
         /\ proc'[p].phase = phase
         /\ \A o \in Processes \ {p} : proc'[o] = proc[o]
         /\ ProcsInv'
<1>1. phase \in Phases /\ phase \notin Built \cup {"new", "exited"} /\ proc[p].phase \notin Built
  BY DEF Phases, Built, Migrating
<1>2. PICK q : q = [proc[p] EXCEPT !.phase = phase]
  OBVIOUS
<1>3. /\ q \in Procs /\ q.phase = phase /\ q.dir = proc[p].dir /\ HooksOK(q)
      /\ proc' = [proc EXCEPT ![p] = q]
  BY <1>1, <1>2, PhaseOK DEF AppInv
<1>4. RoleOK(p, q)
  BY <1>3 DEF RoleOK, AppInv, ProcsInv, Migrating
<1> QED BY <1>3, <1>4, ProcsKept DEF AppInv

LEMMA ensureSchemaStep ==
  ASSUME ApplicationAssumption, AppInv, NEW p \in Processes, ensureSchema(p)
  PROVE  AppInv'
<1>1. /\ proc' \in [Processes -> Procs]
      /\ proc'[p].phase = "lock"
      /\ \A o \in Processes \ {p} : proc'[o] = proc[o]
      /\ ProcsInv'
  BY MigrationPhase DEF ensureSchema
<1>2. /\ schema' \in Schemas
      /\ schema'.version = schema.version /\ schema'.dirty = schema.dirty
      /\ schema'.holder = schema.holder
  BY DEF ensureSchema, AppInv, Shape, Schemas
<1>3. Shape'
  BY <1>1, <1>2 DEF AppInv, Shape, ensureSchema
<1>4. LockInv'
  BY <1>1, <1>2 DEF AppInv, LockInv, Migrating, ensureSchema
<1>5. CurrentInv'
  BY <1>1, <1>2 DEF AppInv, CurrentInv, Processes, ensureSchema, Built
<1> QED BY <1>1, <1>3, <1>4, <1>5 DEF AppInv

LEMMA LockStep ==
  ASSUME ApplicationAssumption, AppInv, NEW p \in Processes, Lock(p)
  PROVE  AppInv'
<1>1. /\ proc' \in [Processes -> Procs]
      /\ proc'[p].phase = "migrate"
      /\ \A o \in Processes \ {p} : proc'[o] = proc[o]
      /\ ProcsInv'
  BY MigrationPhase DEF Lock, Migrating
<1>2. /\ schema' \in Schemas
      /\ schema'.version = schema.version /\ schema'.dirty = schema.dirty
      /\ schema'.holder = p
  BY DEF Lock, AppInv, Shape, Schemas
<1>3. Shape'
  BY <1>1, <1>2 DEF AppInv, Shape, Lock
<1>4. None \notin Processes
  BY DEF ApplicationAssumption, Processes
<1>5. LockInv'
  BY <1>1, <1>2, <1>4 DEF AppInv, LockInv, Migrating, Lock
<1>6. CurrentInv'
  BY <1>1, <1>2 DEF AppInv, CurrentInv, Processes, Lock, Built
<1> QED BY <1>1, <1>3, <1>5, <1>6 DEF AppInv

\* A migration up has something to apply only if the schema is not complete, and
\* so nobody counts on it; one down withdraws the promise.
LEMMA ApplyStep ==
  ASSUME ApplicationAssumption, AppInv, NEW p \in Processes, Apply(p)
  PROVE  AppInv'
<1>1. /\ proc' \in [Processes -> Procs]
      /\ proc'[p].phase = "applying"
      /\ \A o \in Processes \ {p} : proc'[o] = proc[o]
      /\ ProcsInv'
  BY MigrationPhase DEF Apply, Migrating
<1>2. schema \in Schemas /\ schema.version \in 0..Latest /\ Latest \in Nat
  BY DEF AppInv, Shape, Schemas, ApplicationAssumption
<1>3. PICK v : /\ v = IF proc[p].dir = "up" THEN schema.version + 1 ELSE schema.version - 1
               /\ schema' = [schema EXCEPT !.dirty = TRUE, !.version = v]
  BY DEF Apply
<1>4. v \in 0..Latest
  BY <1>2, <1>3 DEF Apply
<1>5. /\ schema' \in Schemas
      /\ schema'.dirty = TRUE /\ schema'.holder = schema.holder
  BY <1>2, <1>3, <1>4 DEF Schemas
<1>6. Shape'
  BY <1>1, <1>5 DEF AppInv, Shape, Apply
<1>7. LockInv'
  BY <1>1, <1>5 DEF AppInv, LockInv, Migrating, Apply
<1>8. CurrentInv'
  <2> SUFFICES ASSUME NEW r \in Replicas, "auto_up" \in cfg.on,
                      proc'[r].phase \in Built \cup {"construct"}, ~lowered'
               PROVE  FALSE
    BY DEF CurrentInv, Apply
  <2>1. r # p /\ proc'[r] = proc[r]
    BY <1>1 DEF Processes, Built
  <2>2. ~lowered /\ proc[p].dir = "up"
    BY DEF Apply
  <2>3. schema.version = Latest
    BY <2>1, <2>2 DEF AppInv, CurrentInv
  <2> QED BY <1>2, <2>2, <2>3 DEF Apply
<1> QED BY <1>1, <1>6, <1>7, <1>8 DEF AppInv

LEMMA AppliedStep ==
  ASSUME ApplicationAssumption, AppInv, NEW p \in Processes, Applied(p)
  PROVE  AppInv'
<1>1. /\ proc' \in [Processes -> Procs]
      /\ proc'[p].phase = "migrate"
      /\ \A o \in Processes \ {p} : proc'[o] = proc[o]
      /\ ProcsInv'
  BY MigrationPhase DEF Applied, Migrating
<1>2. /\ schema' \in Schemas
      /\ schema'.version = schema.version /\ schema'.dirty = FALSE
      /\ schema'.holder = schema.holder
  BY DEF Applied, AppInv, Shape, Schemas
<1>3. Shape'
  BY <1>1, <1>2 DEF AppInv, Shape, Applied
<1>4. schema.holder = p
  BY DEF AppInv, LockInv, Migrating, Applied
<1>5. LockInv'
  BY <1>1, <1>2, <1>4 DEF AppInv, LockInv, Migrating, Applied
<1>6. CurrentInv'
  <2> SUFFICES ASSUME NEW r \in Replicas, "auto_up" \in cfg.on,
                      proc'[r].phase \in Built \cup {"construct"}, ~lowered'
               PROVE  schema.version = Latest
    BY <1>2 DEF CurrentInv, Applied
  <2>1. r # p /\ proc'[r] = proc[r]
    BY <1>1 DEF Processes, Built
  <2>2. ~lowered \/ schema.version = Latest
    BY DEF Applied
  <2> QED BY <2>1, <2>2 DEF AppInv, CurrentInv
<1> QED BY <1>1, <1>3, <1>5, <1>6 DEF AppInv

\* The end of a replica's migration: the schema is complete at that moment.
LEMMA MigratedStep ==
  ASSUME ApplicationAssumption, AppInv, NEW p \in Processes, Migrated(p)
  PROVE  AppInv'
<1>1. CASE p = Operator
  BY <1>1, ExitStep DEF Migrated
<1>2. CASE p # Operator
  <2>1. p \in Replicas /\ proc[p].dir = "up"
    BY <1>2 DEF Processes, AppInv, ProcsInv, RoleOK
  <2>2. /\ Go(p, "construct") /\ cfg' = cfg /\ lowered' = lowered
        /\ schema' = Released(p) /\ schema.version = Latest /\ ~schema.dirty
    BY <1>2, <2>1 DEF Migrated
  <2>3. /\ proc' \in [Processes -> Procs]
        /\ proc'[p].phase = "construct"
        /\ \A o \in Processes \ {p} : proc'[o] = proc[o]
        /\ ProcsInv'
    BY <1>2, <2>2, MigrationPhase DEF Migrated, Migrating
  <2>4. schema.holder = p /\ None \notin Processes
    BY DEF AppInv, LockInv, Migrating, Migrated, ApplicationAssumption, Processes
  <2>5. schema' = [schema EXCEPT !.holder = None]
    BY <2>2, <2>4 DEF Released
  <2>6. /\ schema' \in Schemas
        /\ schema'.version = schema.version /\ schema'.dirty = schema.dirty
        /\ schema'.holder = None
    BY <2>5 DEF AppInv, Shape, Schemas
  <2>7. Shape'
    BY <2>2, <2>3, <2>6 DEF AppInv, Shape
  <2>8. LockInv'
    BY <2>2, <2>3, <2>4, <2>6 DEF AppInv, LockInv, Migrating
  <2>9. CurrentInv'
    BY <2>2, <2>6 DEF CurrentInv
  <2> QED BY <2>3, <2>7, <2>8, <2>9 DEF AppInv
<1> QED BY <1>1, <1>2

-----------------------------------------------------------------------------
(* Hooks and work *)

\* What is left to show of a step of a constructed replica.
LEMMA BuiltStep ==
  ASSUME ApplicationAssumption, AppInv, NEW p \in Replicas, NEW q \in Procs,
         proc' = [proc EXCEPT ![p] = q], UNCHANGED <<cfg, schema, lowered>>,
         proc[p].phase \in Built \cup {"construct"}, q.phase \in Built,
         q.dir = proc[p].dir, HooksOK(q)
  PROVE  AppInv'
<1>1. p \in Processes /\ p # Operator
  BY DEF Processes, ApplicationAssumption
<1>2. RoleOK(p, q)
  BY <1>1 DEF RoleOK, AppInv, ProcsInv, Built
<1>3. proc[p].phase \notin Migrating /\ q.phase \notin Migrating
  BY DEF Migrating, Built
<1> QED BY <1>1, <1>2, <1>3, QuietStep

\* Only a constructed process has servers.
LEMMA ActiveIsBuilt ==
  ASSUME AppInv, NEW p \in Replicas, proc[p].accepting \cup proc[p].busy # {}
  PROVE  proc[p].phase \in Built
BY DEF AppInv, ProcsInv, HooksOK, Processes

LEMMA ConstructStep ==
  ASSUME ApplicationAssumption, AppInv, NEW p \in Replicas, Construct(p)
  PROVE  AppInv'
<1>1. PICK silent \in Backends \cup {"none"} :
        IF "failed" \in New(cfg, silent) THEN Exit(p)
        ELSE /\ proc' = [proc EXCEPT ![p].phase = "starting",
                                     ![p].open = New(cfg, silent),
                                     ![p].next = FirstServer - 1]
             /\ UNCHANGED <<cfg, schema, lowered>>
  BY DEF Construct
<1>2. CASE "failed" \in New(cfg, silent)
  BY <1>1, <1>2, ExitStep DEF Processes
<1>3. CASE "failed" \notin New(cfg, silent)
  <2>1. PICK n : n = New(cfg, silent)
    OBVIOUS
  <2>2. n = New(cfg, "none") /\ n \subseteq Resources /\ "failed" \notin New(cfg, "none")
    BY <1>3, <2>1, AllOrFailed
  <2>3. PICK x, q : x = proc[p] /\ q = [x EXCEPT !.phase = "starting", !.open = n, !.next = 4]
    OBVIOUS
  <2>4. x \in Procs /\ x.busy = {} /\ x.accepting = {}
    BY <2>3 DEF AppInv, Shape, Processes, ProcsInv, HooksOK, Construct, Built
  <2>5. /\ q \in Procs /\ q.phase = "starting" /\ q.open = n /\ q.next = 4
        /\ q.busy = {} /\ q.accepting = {} /\ q.dir = x.dir
    <3>1. "starting" \in Phases /\ 4 \in 0..Len(Hooks)
      BY HookList DEF Phases
    <3> QED BY <2>2, <2>3, <2>4, <3>1 DEF Procs
  <2>6. proc' = [proc EXCEPT ![p] = q]
    <3>1. FirstServer - 1 = 4
      BY FirstServerIs
    <3>2. proc' = [proc EXCEPT ![p].phase = "starting", ![p].open = n, ![p].next = 4]
      BY <1>1, <1>3, <2>1, <3>1, Zenon
    <3>3. proc \in [Processes -> Procs] /\ p \in Processes
      BY DEF AppInv, Shape, Processes
    <3> QED BY <2>3, <3>2, <3>3
  <2>7. HooksOK(q)
    BY <2>2, <2>5 DEF HooksOK, Built
  <2> QED BY <1>1, <1>3, <2>3, <2>5, <2>6, <2>7, BuiltStep DEF Construct, Built
<1> QED BY <1>2, <1>3

\* A start hook adds what it starts to what was started before it.
LEMMA StartedStep ==
  ASSUME ApplicationAssumption, AppInv, NEW p \in Replicas, NEW h,
         Starting(p, h), h \in Servers,
         NEW accepting \in SUBSET {h}, NEW busy \in SUBSET accepting,
         NEW open \in SUBSET {"bus"},
         h = "events" /\ accepting # {} => "bus" \in open,
         h = "events" /\ "event_bus" \in cfg.on => "bus" \in open /\ "database" \in cfg.on,
         Started(p, accepting, busy, open)
  PROVE  AppInv'
<1>1. PICK x, n, f, q :
        /\ x = proc[p] /\ n = Passive(x.next + 1)
        /\ f = IF h = "http" THEN "running" ELSE "starting"
        /\ q = [x EXCEPT !.next = n, !.phase = f, !.accepting = @ \cup accepting,
                         !.busy = @ \cup busy, !.open = @ \cup open]
  OBVIOUS
<1>2. x \in Procs /\ HooksOK(x) /\ x.phase = "starting" /\ x.next \in {4, 6, 8, 9}
  BY <1>1 DEF AppInv, Shape, ProcsInv, HooksOK, Starting, Processes
<1>3. Hooks[x.next + 1] = h /\ Place(h) = x.next + 1
  BY <1>1, <1>2, PlaceOfHook DEF Starting
<1>4. /\ n \in 0..10 /\ n > x.next
      /\ (n \in {6, 8, 9} /\ h # "http") \/ (n = 10 /\ h = "http")
      /\ (x.next = 4) <=> (h = "events")
  <2>1. CASE x.next = 4
    BY <1>1, <1>3, <2>1, HookList DEF Passive, Servers
  <2>2. CASE x.next = 6
    BY <1>1, <1>3, <2>2, HookList DEF Passive, Servers
  <2>3. CASE x.next = 8
    BY <1>1, <1>3, <2>3, HookList DEF Passive, Servers
  <2>4. CASE x.next = 9
    BY <1>1, <1>3, <2>4, HookList DEF Passive, Servers
  <2> QED BY <1>2, <2>1, <2>2, <2>3, <2>4
<1>5. /\ q \in Procs /\ q.next = n /\ q.phase = f /\ q.dir = x.dir
      /\ q.accepting = x.accepting \cup accepting
      /\ q.busy = x.busy \cup busy /\ q.open = x.open \cup open
  <2>1. f \in Phases /\ n \in 0..Len(Hooks) /\ accepting \subseteq Servers
        /\ busy \subseteq Servers /\ open \subseteq Resources
    BY <1>1, <1>4, HookList DEF Phases, Resources
  <2> QED BY <1>1, <1>2, <2>1 DEF Procs
<1>6. proc' = [proc EXCEPT ![p] = q]
  BY <1>1, <1>2, <1>3, Zenon DEF Started
<1>7. HooksOK(q)
  <2>1. f \in {"starting", "running"} /\ f \in Built
    BY <1>1 DEF Built
  <2>2. f = "starting" => n \in {4, 6, 8, 9}
    BY <1>1, <1>4
  <2>3. f = "running" => n = Len(Hooks)
    BY <1>1, <1>4, HookList
  <2>4. \A s \in q.accepting \cup q.busy : Place(s) <= q.next
    <3> SUFFICES ASSUME NEW s \in q.accepting \cup q.busy PROVE Place(s) <= n
      BY <1>5
    <3>1. s \in x.accepting \cup x.busy \/ s = h
      BY <1>5
    <3>2. CASE s = h
      BY <3>2, <1>2, <1>3, <1>4
    <3>3. CASE s \in x.accepting \cup x.busy
      <4>1. Place(s) <= x.next /\ s \in Servers
        BY <3>3, <1>2 DEF HooksOK, Procs
      <4>2. Place(s) \in Nat
        BY <4>1, Places DEF Servers
      <4> QED BY <4>1, <4>2, <1>2, <1>4
    <3> QED BY <3>1, <3>2, <3>3
  <2>5. New(cfg, "none") \subseteq q.open
    BY <1>2, <1>5 DEF HooksOK
  <2>6. "events" \in q.accepting \cup q.busy => "bus" \in q.open
    BY <1>2, <1>5 DEF HooksOK
  <2>7. "event_bus" \in cfg.on => "bus" \in q.open /\ "database" \in cfg.on
    <3>1. CASE h = "events"
      BY <3>1, <1>5
    <3>2. CASE h # "events"
      BY <3>2, <1>2, <1>4, <1>5 DEF HooksOK
    <3> QED BY <3>1, <3>2
  <2>8. "failed" \notin New(cfg, "none") /\ f \notin {"new", "exited"}
    BY <1>1, <1>2 DEF HooksOK, Built
  <2> QED BY <1>5, <2>1, <2>2, <2>3, <2>4, <2>5, <2>6, <2>7, <2>8 DEF HooksOK
<1>8. q.phase \in Built /\ x.phase \in Built
  BY <1>1, <1>2, <1>5 DEF Built
<1> QED BY <1>1, <1>5, <1>6, <1>7, <1>8, BuiltStep DEF Started

\* A process that is started or serves begins to stop with what it has.
LEMMA TurnStep ==
  ASSUME ApplicationAssumption, AppInv, NEW p \in Replicas,
         proc[p].phase \in {"starting", "running"}, NEW phase \in {"rollback", "stopping"},
         Go(p, phase), UNCHANGED <<cfg, schema, lowered>>
  PROVE  AppInv'
<1>1. PICK x, q : x = proc[p] /\ q = [x EXCEPT !.phase = phase]
  OBVIOUS
<1>2. x \in Procs /\ HooksOK(x)
  BY <1>1 DEF AppInv, Shape, ProcsInv, Processes
<1>3. /\ q \in Procs /\ q.phase = phase /\ q.dir = x.dir /\ q.next = x.next
      /\ q.accepting = x.accepting /\ q.busy = x.busy /\ q.open = x.open
  BY <1>1, <1>2 DEF Procs, Phases
<1>4. HooksOK(q)
  BY <1>1, <1>2, <1>3 DEF HooksOK, Built
<1>5. proc' = [proc EXCEPT ![p] = q]
  BY <1>1 DEF Go
<1> QED BY <1>1, <1>3, <1>4, <1>5, BuiltStep DEF Built

LEMMA StartStep ==
  ASSUME ApplicationAssumption, AppInv, NEW p \in Replicas,
         StartEvents(p) \/ StartScheduler(p) \/ StartGRPC(p) \/ StartHTTP(p)
  PROVE  AppInv'
<1>1. ASSUME NEW h, Starting(p, h), StartFails(p) PROVE AppInv'
  BY <1>1, TurnStep DEF Starting, StartFails
<1>2. CASE StartEvents(p)
  <2>1. CASE "event_bus" \notin cfg.on /\ Started(p, {}, {}, {})
    BY <1>2, <2>1, StartedStep DEF StartEvents, Servers
  <2>2. CASE "database" \in cfg.on /\ Started(p, {"events"}, {"events"}, {"bus"})
    BY <1>2, <2>2, StartedStep DEF StartEvents, Servers
  <2> QED BY <1>1, <1>2, <2>1, <2>2 DEF StartEvents
<1>3. CASE StartScheduler(p)
  <2>1. PICK a \in SUBSET {"scheduler"} : Started(p, a, {}, {})
    BY <1>3 DEF StartScheduler
  <2> QED BY <1>3, <2>1, StartedStep DEF StartScheduler, Servers
<1>4. CASE StartGRPC(p)
  <2>1. ASSUME ~StartFails(p) PROVE \E a \in SUBSET {"grpc"} : Started(p, a, {}, {})
    BY <1>4, <2>1 DEF StartGRPC
  <2>2. ASSUME NEW a \in SUBSET {"grpc"}, Started(p, a, {}, {}) PROVE AppInv'
    BY <1>4, <2>2, StartedStep DEF StartGRPC, Servers
  <2> QED BY <1>1, <1>4, <2>1, <2>2 DEF StartGRPC
<1>5. CASE StartHTTP(p)
  <2>1. CASE Started(p, {"http"}, {}, {})
    BY <1>5, <2>1, StartedStep DEF StartHTTP, Servers
  <2> QED BY <1>1, <1>5, <2>1 DEF StartHTTP
<1> QED BY <1>2, <1>3, <1>4, <1>5

\* Work begins at a server that takes it in, and ends.
LEMMA WorkStep ==
  ASSUME ApplicationAssumption, AppInv, NEW p \in Replicas, NEW s \in Servers,
         WorkBegins(p, s) \/ WorkEnds(p, s) \/ ServeFails(p, s) \/ StopAccepting(p, s)
  PROVE  AppInv'
<1>1. proc[p].phase \in Built
  BY ActiveIsBuilt DEF WorkBegins, WorkEnds, ServeFails, StopAccepting
<1>2. PICK a, b :
        /\ a \cup b \subseteq proc[p].accepting \cup proc[p].busy
        /\ proc' = [proc EXCEPT ![p] = [proc[p] EXCEPT !.accepting = a, !.busy = b]]
  <2>1. CASE WorkBegins(p, s)
    <3>1. proc' = [proc EXCEPT ![p] =
                    [proc[p] EXCEPT !.accepting = proc[p].accepting, !.busy = proc[p].busy \cup {s}]]
      BY <2>1 DEF WorkBegins, AppInv, Shape, Procs, Processes
    <3>2. proc[p].accepting \cup (proc[p].busy \cup {s}) \subseteq proc[p].accepting \cup proc[p].busy
      BY <2>1 DEF WorkBegins
    <3> QED BY <3>1, <3>2
  <2>2. CASE WorkEnds(p, s)
    <3>1. proc' = [proc EXCEPT ![p] =
                    [proc[p] EXCEPT !.accepting = proc[p].accepting, !.busy = proc[p].busy \ {s}]]
      BY <2>2 DEF WorkEnds, AppInv, Shape, Procs, Processes
    <3> QED BY <3>1
  <2>3. CASE ServeFails(p, s) \/ StopAccepting(p, s)
    <3>1. proc' = [proc EXCEPT ![p] =
                    [proc[p] EXCEPT !.accepting = proc[p].accepting \ {s}, !.busy = proc[p].busy]]
      BY <2>3 DEF ServeFails, StopAccepting, AppInv, Shape, Procs, Processes
    <3> QED BY <3>1
  <2> QED BY <2>1, <2>2, <2>3
<1>3. PICK x, q : /\ x = proc[p] /\ q = [x EXCEPT !.accepting = a, !.busy = b]
                  /\ a \cup b \subseteq x.accepting \cup x.busy
                  /\ proc' = [proc EXCEPT ![p] = q]
  BY <1>2
<1>4. x \in Procs /\ HooksOK(x)
  BY <1>3 DEF AppInv, Shape, ProcsInv, Processes
<1>5. /\ q \in Procs /\ q.phase = x.phase /\ q.dir = x.dir /\ q.next = x.next
      /\ q.accepting = a /\ q.busy = b /\ q.open = x.open
  BY <1>3, <1>4 DEF Procs
<1>6. HooksOK(q)
  BY <1>1, <1>3, <1>4, <1>5 DEF HooksOK
<1>7. UNCHANGED <<cfg, schema, lowered>>
  BY DEF WorkBegins, WorkEnds, ServeFails, StopAccepting
<1> QED BY <1>1, <1>3, <1>5, <1>6, <1>7, BuiltStep

\* A stop hook closes what no hook before it needs.
LEMMA StoppedStep ==
  ASSUME ApplicationAssumption, AppInv, NEW p \in Replicas, NEW h, NEW closed,
         Stopping(p, h), Stopped(p, closed),
         h \notin proc[p].accepting \cup proc[p].busy,
         closed = {h} \/ closed = {} \/ (h = "events" /\ closed = {"bus"}),
         h # "bus"
  PROVE  AppInv'
<1>1. PICK x, q : x = proc[p] /\ q = [x EXCEPT !.next = @ - 1, !.open = @ \ closed]
  OBVIOUS
<1>2. /\ x \in Procs /\ HooksOK(x) /\ RoleOK(p, x) /\ x.phase \in {"stopping", "rollback"}
      /\ x.next > 0 /\ Hooks[x.next] = h /\ x.next \in 1..10
  BY <1>1, HookList DEF AppInv, Shape, ProcsInv, Processes, Stopping, Procs
<1>3. Place(h) = x.next
  BY <1>2, PlaceOfHook
<1>4. /\ q \in Procs /\ q.phase = x.phase /\ q.dir = x.dir /\ q.next = x.next - 1
      /\ q.accepting = x.accepting /\ q.busy = x.busy /\ q.open = x.open \ closed
  <2>1. x.next - 1 \in 0..Len(Hooks)
    BY <1>2, HookList
  <2> QED BY <1>1, <1>2, <2>1 DEF Procs
<1>5. HooksOK(q)
  <2>1. \A s \in q.accepting \cup q.busy : Place(s) <= q.next
    <3> SUFFICES ASSUME NEW s \in x.accepting \cup x.busy PROVE Place(s) <= x.next - 1
      BY <1>4
    <3>1. s \in Servers /\ Place(s) \in 1..10 /\ Hooks[Place(s)] = s
      BY <1>2, Places, HookList DEF Procs, Servers
    <3>2. Place(s) <= x.next /\ s # h
      BY <1>1, <1>2 DEF HooksOK
    <3>3. Place(s) # x.next
      BY <1>2, <3>1, <3>2
    <3> QED BY <1>2, <3>1, <3>2, <3>3
  <2>2. \A r \in New(cfg, "none") : Place(r) <= q.next => r \in q.open
    <3> SUFFICES ASSUME NEW r \in New(cfg, "none"), Place(r) <= x.next - 1
                 PROVE  r \in x.open /\ r \notin closed
      BY <1>4
    <3>1. r \in Resources \ {"bus"}
      <4>1. "failed" \notin New(cfg, "none")
        BY <1>2 DEF HooksOK, Built
      <4> QED BY <4>1, AllOrFailed
    <3>2. Place(r) \in 1..10
      BY <3>1, Places DEF Resources
    <3>3. Place(r) <= x.next /\ r # h
      BY <1>2, <1>3, <3>2
    <3> QED BY <1>2, <3>1, <3>3 DEF HooksOK, Built
  <2>3. "events" \in q.accepting \cup q.busy => "bus" \in q.open
    BY <1>1, <1>2, <1>4 DEF HooksOK
  <2> QED BY <1>2, <1>4, <2>1, <2>2, <2>3 DEF HooksOK, Built
<1>6. proc' = [proc EXCEPT ![p] = q]
  BY <1>1 DEF Stopped
<1> QED BY <1>1, <1>2, <1>4, <1>5, <1>6, BuiltStep DEF Stopped, Built

LEMMA StopStepKeeps ==
  ASSUME ApplicationAssumption, AppInv, NEW p \in Replicas, StopStep(p)
  PROVE  AppInv'
<1>1. ASSUME NEW s \in Servers, StopServer(p, s) PROVE AppInv'
  <2>1. PICK closed : /\ closed = IF s = "events" THEN {"bus"} ELSE {}
                      /\ Stopped(p, closed)
    BY <1>1 DEF StopServer
  <2>2. s # "bus"
    BY DEF Servers
  <2> QED BY <1>1, <2>1, <2>2, StoppedStep DEF StopServer
<1>2. ASSUME NEW r \in Resources, StopResource(p, r) PROVE AppInv'
  <2>1. PICK x : x = proc[p]
    OBVIOUS
  <2>2. x \in Procs /\ x.next \in 1..10 /\ Hooks[x.next] = r
    BY <1>2, <2>1, HookList DEF AppInv, Shape, Processes, Procs, StopResource, Stopping
  <2>3. r # "bus" /\ r \notin Servers
    BY <2>2, HookList DEF Resources, Servers
  <2>4. r \notin proc[p].accepting \cup proc[p].busy
    BY <2>1, <2>2, <2>3 DEF Procs
  <2> QED BY <1>2, <2>3, <2>4, StoppedStep DEF StopResource
<1>3. CASE Ended(p)
  BY <1>3, ExitStep DEF Ended, Processes
<1>4. ASSUME NEW s \in Servers, StopAccepting(p, s) PROVE AppInv'
  BY <1>4, WorkStep
<1> QED BY <1>1, <1>2, <1>3, <1>4 DEF StopStep

-----------------------------------------------------------------------------
(* The invariant *)

\* AppInv is inductive: it relates each process's hooks to what is open, each
\* migrating process to the lock, and the replicas past their migration to the
\* version of the schema.
THEOREM AppInvariant == Spec => []AppInv
<1> USE ApplicationAssumption
<1>1. Init => AppInv
  <2> SUFFICES ASSUME Init PROVE AppInv
    OBVIOUS
  <2>1. ASSUME NEW p \in Processes
        PROVE  /\ proc[p] \in Procs /\ proc[p].phase \in {"new", "exited"}
               /\ proc[p].dir = "up" /\ proc[p].open = {} /\ proc[p].busy = {}
               /\ proc[p].accepting = {} /\ (p = Operator => proc[p].phase = "exited")
    <3>1. PICK phase : phase = IF p = Operator THEN "exited" ELSE "new"
      OBVIOUS
    <3>2. proc[p] = Idle(phase)
      BY <2>1, <3>1, Zenon DEF Init
    <3>3. phase \in Phases /\ phase \in {"new", "exited"} /\ (p = Operator => phase = "exited")
      BY <3>1 DEF Phases
    <3> QED BY <3>2, <3>3, IdleOK
  <2>2. Shape
    <3>1. proc \in [Processes -> Procs]
      BY <2>1 DEF Init
    <3>2. schema \in Schemas
      <4>1. 0 \in 0..Latest
        BY DEF ApplicationAssumption
      <4> QED BY <4>1 DEF Init, Schemas
    <3> QED BY <3>1, <3>2 DEF Init, Shape
  <2>3. ASSUME NEW p \in Processes PROVE RoleOK(p, proc[p]) /\ HooksOK(proc[p])
    <3>1. HooksOK(proc[p])
      BY <2>1, UnbuiltOK DEF Built
    <3>2. RoleOK(p, proc[p])
      BY <2>1 DEF RoleOK
    <3> QED BY <3>1, <3>2
  <2>4. LockInv
    BY <2>1 DEF Init, LockInv, Migrating, Processes, ApplicationAssumption
  <2>5. CurrentInv
    BY <2>1 DEF CurrentInv, Processes, Built
  <2> QED BY <2>2, <2>3, <2>4, <2>5 DEF AppInv, ProcsInv
<1>2. AppInv /\ [Next]_vars => AppInv'
  <2> SUFFICES ASSUME AppInv, [Next]_vars PROVE AppInv'
    OBVIOUS
  <2>1. ASSUME NEW p \in Replicas, Load(p) PROVE AppInv'
    BY <2>1, LoadStep
  <2>2. ASSUME NEW p \in Replicas,
               LoadFails(p) \/ StopTimeout(p)
        PROVE  AppInv'
    BY <2>2, ExitStep DEF LoadFails, StopTimeout, Processes
  <2>3. ASSUME NEW p \in Replicas, Start(p) PROVE AppInv'
    BY <2>3, ConstructStep, StartStep DEF Start
  <2>4. ASSUME NEW p \in Replicas, NEW s \in Servers,
               WorkBegins(p, s) \/ WorkEnds(p, s) \/ ServeFails(p, s)
        PROVE  AppInv'
    BY <2>4, WorkStep
  <2>5. ASSUME NEW p \in Replicas, Signal(p) PROVE AppInv'
    BY <2>5, TurnStep DEF Signal
  <2>6. ASSUME NEW p \in Replicas, StopStep(p) PROVE AppInv'
    BY <2>6, StopStepKeeps
  <2>7. ASSUME NEW p \in Replicas, Restart(p) PROVE AppInv'
    BY <2>7, RestartStep
  <2>8. ASSUME NEW p \in Processes, Migrate(p) \/ Kill(p) PROVE AppInv'
    <3>1. CASE LockFails(p) \/ ApplyFails(p) \/ Kill(p)
      BY <3>1, ExitStep DEF LockFails, ApplyFails, Kill
    <3> QED BY <2>8, <3>1, ensureSchemaStep, LockStep, ApplyStep, AppliedStep,
               MigratedStep DEF Migrate
  <2>9. ASSUME NEW dir \in {"up", "down"}, Operate(dir) PROVE AppInv'
    BY <2>9, OperateStep
  <2>10. CASE StepsDone
    BY <2>10, ExitStep DEF StepsDone, Processes
  <2>11. CASE UNCHANGED vars
    <3>1. UNCHANGED <<cfg, proc, schema, lowered>>
      BY <2>11 DEF vars
    <3>2. ProcsInv'
      BY <3>1 DEF AppInv, ProcsInv, RoleOK, HooksOK
    <3> QED BY <3>1, <3>2 DEF AppInv, Shape, LockInv, CurrentInv
  <2> QED BY <2>1, <2>2, <2>3, <2>4, <2>5, <2>6, <2>7, <2>8, <2>9, <2>10, <2>11
             DEF Next
<1> QED BY <1>1, <1>2, PTL DEF Spec

\* The states have their shape: the migration lock is held by exactly the process
\* that migrates, and only constructed processes have work, or more than a logger.
THEOREM AppTypeCorrect == Spec => []AppTypeOK
<1>1. AppInv => AppTypeOK
  <2> SUFFICES ASSUME AppInv PROVE AppTypeOK
    OBVIOUS
  <2>1. ASSUME NEW p \in Processes
        PROVE  /\ proc[p].phase \in Phases
               /\ proc[p].dir \in {"up", "down"}
               /\ proc[p].next \in 0..Len(Hooks)
               /\ proc[p].accepting \subseteq Servers
               /\ proc[p].busy \subseteq Servers
               /\ proc[p].open \subseteq Resources
    BY <2>1 DEF AppInv, Shape, Procs
  <2>2. ASSUME NEW p \in Processes
        PROVE  /\ proc[p].phase \in {"new", "exited"} => proc[p].open \cup proc[p].busy = {}
               /\ proc[p].phase \in {"schema", "lock", "migrate", "applying", "construct"} =>
                    proc[p].open \subseteq {"logger"} /\ proc[p].busy = {}
    BY <2>2 DEF AppInv, ProcsInv, HooksOK, Built
  <2>3. ASSUME NEW p \in Processes
        PROVE  /\ proc[p].phase \in {"migrate", "applying"} <=> schema.holder = p
               /\ proc[p].phase = "applying" => schema.dirty
    BY <2>3 DEF AppInv, LockInv, Migrating
  <2>4. /\ schema.exists \in BOOLEAN /\ schema.dirty \in BOOLEAN /\ lowered \in BOOLEAN
        /\ schema.version \in 0..Latest /\ schema.holder \in Processes \cup {None}
        /\ cfg \in Configs
    BY DEF AppInv, Shape, Schemas
  <2> QED BY <2>1, <2>2, <2>3, <2>4 DEF AppTypeOK
<1> QED BY <1>1, AppInvariant, PTL

\* Work in progress never finds a resource closed: the hook of whatever a server
\* uses comes before the server's own, so it is started earlier and stopped later.
THEOREM WorkFindsResources == Spec => []NothingUsesClosed
<1>1. AppInv => NothingUsesClosed
  <2> SUFFICES ASSUME AppInv, NEW p \in Replicas, NEW s \in proc[p].busy,
                      NEW r \in Uses(s) \cap (New(cfg, "none") \cup {"bus"})
               PROVE  r \in proc[p].open
    BY DEF NothingUsesClosed
  <2>1. PICK x : x = proc[p]
    OBVIOUS
  <2>2. x \in Procs /\ HooksOK(x) /\ x.phase \in Built /\ s \in Servers
    BY <2>1, ActiveIsBuilt DEF AppInv, Shape, ProcsInv, Processes, Procs
  <2>3. CASE r = "bus"
    <3>1. s = "events"
      BY <2>2, <2>3 DEF Uses, Servers
    <3> QED BY <2>1, <2>2, <2>3, <3>1 DEF HooksOK
  <2>4. CASE r # "bus"
    <3>1. Place(r) <= Place(s) /\ Place(r) \in 1..10 /\ Place(s) \in 1..10
      <4>1. CASE s = "events"
        BY <2>4, <4>1, Places DEF Uses
      <4>2. CASE s = "scheduler"
        BY <2>4, <4>2, Places DEF Uses
      <4>3. CASE s \in {"grpc", "http"}
        BY <2>4, <4>3, Places DEF Uses
      <4> QED BY <2>2, <4>1, <4>2, <4>3 DEF Servers
    <3>2. Place(s) <= x.next /\ x.next \in 0..10
      BY <2>1, <2>2, HookList DEF HooksOK, Procs
    <3>3. Place(r) <= x.next
      BY <3>1, <3>2
    <3> QED BY <2>1, <2>2, <2>4, <3>3 DEF HooksOK
  <2> QED BY <2>3, <2>4
<1> QED BY <1>1, AppInvariant, PTL

\* A process that serves has what rate limiter, idempotency, events, migrated tables
\* and the checks of applications, permissions and identity tokens work on, whatever
\* the configuration: what Validate demands of the switches and what constructors
\* and start hooks open fit together.
THEOREM ServesWired == Spec => []RunningIsWired
<1>1. AppInv => RunningIsWired
  <2> SUFFICES ASSUME AppInv, NEW p \in Replicas, proc[p].phase = "running"
               PROVE  /\ {"rate_limit", "idempotency"} \cap cfg.on # {} => "redis" \in proc[p].open
                      /\ "event_bus" \in cfg.on => {"bus", "db"} \subseteq proc[p].open
                      /\ "auto_up" \in cfg.on => "db" \in proc[p].open
                      /\ "database" \in cfg.on => "application" \in cfg.upstreams
                      /\ "authorization" \in cfg.on => "authorization" \in cfg.upstreams
                      /\ cfg.production => /\ "auth" \in proc[p].open
                                           /\ "authorization" \in cfg.on
    BY DEF RunningIsWired
  <2>1. /\ LoadWithProfile(cfg) /\ New(cfg, "none") \subseteq proc[p].open
        /\ "failed" \notin New(cfg, "none")
    BY DEF AppInv, ProcsInv, Processes, RoleOK, HooksOK, Built
  <2>2. ValidStores(cfg) /\ ValidAccess(cfg) /\ ValidDelivery(cfg)
    BY <2>1 DEF LoadWithProfile, Validate
  <2>3. {"rate_limit", "idempotency"} \cap cfg.on # {} => "redis" \in cfg.on
    BY <2>2 DEF ValidStores, ValidDelivery
  <2>4. "redis" \in cfg.on => "redis" \in proc[p].open
    BY <2>1 DEF New, NewRedis
  <2>5. "database" \in cfg.on => "db" \in proc[p].open
    BY <2>1 DEF New, NewDatabase, OpenPool
  <2>6. "jwks" \in cfg.on => "auth" \in proc[p].open
    BY <2>1 DEF New, NewRuntime
  <2>7. "event_bus" \in cfg.on => "bus" \in proc[p].open /\ "database" \in cfg.on
    BY HookList DEF AppInv, ProcsInv, Processes, HooksOK
  <2>8. /\ "auto_up" \in cfg.on => "database" \in cfg.on
        /\ "database" \in cfg.on => "application" \in cfg.upstreams
    BY <2>2 DEF ValidStores
  <2>9. /\ "authorization" \in cfg.on => "authorization" \in cfg.upstreams
        /\ cfg.production => {"jwks", "authorization"} \subseteq cfg.on
    BY <2>2 DEF ValidAccess
  <2> QED BY <2>3, <2>4, <2>5, <2>6, <2>7, <2>8, <2>9
<1> QED BY <1>1, AppInvariant, PTL

\* With auto_up no replica opens more than its logger or takes work in before every
\* pending migration has run, whoever migrates at the same time and whoever fails half way.
THEOREM SchemaIsCurrent == Spec => []SchemaCurrent
<1>1. AppInv => SchemaCurrent
  <2> SUFFICES ASSUME AppInv, NEW p \in Replicas, "auto_up" \in cfg.on,
                      proc[p].accepting \cup (proc[p].open \ {"logger"}) # {}, ~lowered
               PROVE  schema.version = Latest /\ ~schema.dirty
    BY DEF SchemaCurrent
  <2>1. proc[p].phase \in Built
    BY DEF AppInv, ProcsInv, HooksOK, Processes
  <2> QED BY <2>1 DEF AppInv, CurrentInv
<1> QED BY <1>1, AppInvariant, PTL

=============================================================================
