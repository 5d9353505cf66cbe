-------------------------------- MODULE Boot --------------------------------
(***************************************************************************)
(* From "docker compose up" to a server that serves: the containers in the *)
(* order of docker-compose.yaml, and main up to the call of ListenAndServe *)
(* (HttpServer goes on from there).                                        *)
(*                                                                         *)
(* Docker, PostgreSQL, Redis, RabbitMQ and the worker are external.  The   *)
(* pool, the gRPC connection and the Redis client connect when they are    *)
(* first used; RabbitMQ is dialled at once.                                *)
(***************************************************************************)
EXTENDS Naturals

CONSTANTS
  EnvVars,     \* environment variables that are set and not empty
  StorageType, \* storage.type of the configuration
  MaxFaults    \* bound: how often a container may fail

Containers == {"db", "redis", "rabbitmq", "migrations", "server", "worker"}
Clients    == {"grpc", "redis", "amqp"}

ASSUME BootAssumption ==
  /\ EnvVars \subseteq STRING
  /\ StorageType \in STRING
  /\ MaxFaults \in Nat

VARIABLES
  state,    \* of each container
  pc,       \* what main does next, or why it has ended
  conn,     \* of each client that main creates
  tables,   \* the migrations have been applied
  declared, \* RabbitMQ has the queue
  refused,  \* what the configuration names in vain: itself (its file, the log
            \* level), the URL of PostgreSQL, the target of the gRPC client
  faults

vars == <<state, pc, conn, tables, declared, faults, refused>>

Exits == {"no config", "no storage", "no grpc client", "no publisher"}
Steps == {"load", "storage", "grpc", "close grpc", "cache", "close cache", "publisher",
          "close publisher", "service", "serving"}

TypeOK ==
  /\ state \in [Containers -> {"created", "running", "healthy", "completed", "exited"}]
  /\ pc \in Steps \cup Exits
  /\ conn \in [Clients -> {"none", "open", "closed"}]
  /\ tables \in BOOLEAN
  /\ declared \in BOOLEAN
  /\ refused \subseteq {"config", "postgres", "grpc"}
  /\ faults \in 0..MaxFaults

Init ==
  /\ state = [c \in Containers |-> "created"]
  /\ pc = "load"
  /\ conn = [c \in Clients |-> "none"]
  /\ tables = FALSE
  /\ declared = FALSE
  /\ refused \in SUBSET {"config", "postgres", "grpc"}
  /\ faults = 0

-----------------------------------------------------------------------------
(* docker-compose.yaml                                                     *)

\* MUTANT: the server does not wait for the migrations.
NeedsNoMigrations ==
  [c \in Containers |->
     CASE c = "worker"     -> {<<"server", "healthy">>}
       [] c = "server"     -> {<<"redis", "healthy">>, <<"db", "healthy">>}
       [] c = "migrations" -> {<<"db", "healthy">>}
       [] OTHER            -> {}]

\* depends_on
Needs ==
  [c \in Containers |->
     CASE c = "worker"     -> {<<"server", "healthy">>}
       [] c = "server"     -> {<<"redis", "healthy">>, <<"db", "healthy">>,
                               <<"migrations", "completed">>}
       [] c = "migrations" -> {<<"db", "healthy">>}
       [] OTHER            -> {}]

Become(c, s) == state' = [state EXCEPT ![c] = s]

Start(c) ==
  /\ state[c] = "created"
  /\ \A n \in Needs[c] : state[n[1]] = n[2]
  /\ Become(c, "running")
  /\ UNCHANGED <<pc, conn, tables, declared, faults, refused>>

\* The health check succeeds; that of the server is a request to /health.
Ready(c) ==
  /\ c \notin {"migrations", "worker"}
  /\ state[c] = "running"
  /\ c = "server" => pc = "serving"
  /\ Become(c, "healthy")
  /\ UNCHANGED <<pc, conn, tables, declared, faults, refused>>

Migrate ==
  /\ state["migrations"] = "running"
  /\ state["db"] = "healthy"
  /\ Become("migrations", "completed")
  /\ tables' = TRUE
  /\ UNCHANGED <<pc, conn, declared, faults, refused>>

\* A container fails.  Redis and RabbitMQ are started again (restart: unless-stopped),
\* and a durable queue is still there.
Fail(c) ==
  /\ faults < MaxFaults
  /\ c \in {"db", "redis", "rabbitmq", "migrations"}
  /\ state[c] \in {"running", "healthy"}
  /\ faults' = faults + 1
  /\ Become(c, IF c \in {"redis", "rabbitmq"} THEN "running" ELSE "exited")
  /\ UNCHANGED <<pc, conn, tables, declared, refused>>

-----------------------------------------------------------------------------
(* main                                                                    *)

Required  == {"JWT_SECRET", "DB_USER", "DB_PASSWORD", "REDIS_PASSWORD", "RABBITMQ_PASSWORD"}

At(p) == state["server"] = "running" /\ pc = p

\* os.Exit or logger.Fatal
Quit(e) == pc' = e /\ Become("server", "exited")

\* config.Load with loadEnvVars, and logger.Load
Load ==
  /\ At("load")
  /\ IF Required \subseteq EnvVars /\ "config" \notin refused
     THEN pc' = "storage" /\ UNCHANGED state
     ELSE Quit("no config")
  /\ UNCHANGED <<conn, tables, declared, faults, refused>>

\* storage.New; pgxpool.New parses its URL and does not wait for a connection.
NewStorage ==
  /\ At("storage")
  /\ IF StorageType \in {"in_memory", "postgres"} \ refused
     THEN pc' = "grpc" /\ UNCHANGED state
     ELSE Quit("no storage")
  /\ UNCHANGED <<conn, tables, declared, faults, refused>>

\* MUTANT: grpc.WithBlock.
NewClientBlocks(p, c, next) ==
  /\ At(p)
  /\ c = "grpc" => state["worker"] = "running"
  /\ conn' = [conn EXCEPT ![c] = "open"]
  /\ pc' = next
  /\ UNCHANGED <<state, tables, declared, faults, refused>>

\* grpc.NewClient and gen_client.New, or cache.New: they return at once, the first
\* perhaps with an error.
NewClient(p, c, next) ==
  /\ At(p)
  /\ IF c \notin refused
     THEN conn' = [conn EXCEPT ![c] = "open"] /\ pc' = next /\ UNCHANGED state
     ELSE Quit("no grpc client") /\ UNCHANGED conn
  /\ UNCHANGED <<tables, declared, faults, refused>>

\* domain.CloseObj calls Close; it is not deferred.
CloseObj(p, c, next) ==
  /\ At(p)
  /\ conn' = [conn EXCEPT ![c] = "closed"]
  /\ pc' = next
  /\ UNCHANGED <<state, tables, declared, faults, refused>>

\* MUTANT: the queue is declared by whoever needs it.
PublisherDeclaresNothing ==
  /\ At("publisher")
  /\ conn' = [conn EXCEPT !["amqp"] = "open"]
  /\ pc' = "close publisher"
  /\ UNCHANGED <<state, tables, declared, faults, refused>>

\* publisher.New in both execution modes: Dial, Channel, QueueDeclare.  It fails if
\* RabbitMQ is down, may fail while it starts, and may fail even after that.
NewPublisher ==
  /\ At("publisher")
  /\ \/ /\ state["rabbitmq"] \in {"running", "healthy"}
        /\ conn' = [conn EXCEPT !["amqp"] = "open"]
        /\ declared' = TRUE
        /\ pc' = "close publisher"
        /\ UNCHANGED <<state, tables, faults, refused>>
     \/ /\ state["rabbitmq"] # "healthy" \/ faults < MaxFaults
        /\ Quit("no publisher")
        /\ UNCHANGED <<conn, tables, declared, faults, refused>>

\* service.NewGen (an unknown execution_mode is taken for grpc), service.NewAuth, the
\* routes, and the goroutine of ListenAndServe
NewService ==
  /\ At("service")
  /\ pc' = "serving"
  /\ UNCHANGED <<state, conn, tables, declared, faults, refused>>

Main ==
  \/ Load \/ NewStorage
  \/ NewClient("grpc", "grpc", "close grpc")   \/ CloseObj("close grpc", "grpc", "cache")
  \/ NewClient("cache", "redis", "close cache") \/ CloseObj("close cache", "redis", "publisher")
  \/ NewPublisher                               \/ CloseObj("close publisher", "amqp", "service")
  \/ NewService

-----------------------------------------------------------------------------
Compose == \/ \E c \in Containers : Start(c) \/ Ready(c)
           \/ Migrate

Next == Compose \/ Main \/ \E c \in Containers : Fail(c)

Spec == Init /\ [][Next]_vars

\* Containers start and get healthy, and main goes on.
FairSpec ==
  /\ Spec
  /\ \A c \in Containers : WF_vars(Start(c)) /\ WF_vars(Ready(c))
  /\ WF_vars(Migrate)
  /\ WF_vars(Main)

-----------------------------------------------------------------------------
(* Properties                                                              *)

\* When requests are let in, what they rest on is there: the tables, even if
\* containers fail and come back, every secret, and the queue, without which RabbitMQ
\* would drop what is published and say nothing.
ServesOnSolidGround ==
  pc = "serving" =>
    /\ tables
    /\ Required \subseteq EnvVars
    /\ declared

Booting == state["server"] = "running" /\ pc # "serving"

\* main never waits for a system that is down or that waits for main, as the worker
\* does: until it serves or has ended, it can go on.
MainIsNeverStuck == Booting => ENABLED <<Main>>_vars

\* A server that was started serves or ends, whatever becomes of the other containers.
BootEnds == state["server"] = "running" ~> pc \in {"serving"} \cup Exits

\* A worker runs only after the server has opened its port, and so only after
\* the tables it writes to exist.
WorkerComesLast == state["worker"] # "created" => pc = "serving" /\ tables

-----------------------------------------------------------------------------
(* What the repository says and the code does not do                       *)

\* README.md:7-8: the application keeps the state of jobs in PostgreSQL and Redis and
\* supports two ways to reach the worker, gRPC and RabbitMQ.  So when it serves, none
\* of the clients it does this with has been closed.
ClientsAreOpen == pc = "serving" => \A c \in Clients : conn[c] # "closed"
=============================================================================
