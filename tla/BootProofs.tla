----------------------------- MODULE BootProofs -----------------------------
(***************************************************************************)
(* Theorems about Boot, for any environment, any storage type and any      *)
(* number of containers that fail.                                         *)
(***************************************************************************)
EXTENDS Boot, TLAPS

\* What has been done by the time main gets to a step, and containers to a state.
OrderInv ==
  /\ state["migrations"] = "completed" => tables
  /\ state["server"] # "created" => tables
  /\ pc # "load" => state["server"] # "created"
  /\ state["server"] = "healthy" => pc = "serving"
  /\ pc \notin {"load"} \cup Exits => Required \subseteq EnvVars
  /\ pc \in {"close publisher", "service", "serving"} => declared

IInv == TypeOK /\ OrderInv /\ WorkerComesLast

LEMMA Bound == MaxFaults \in Nat
BY BootAssumption

LEMMA InvInit == Init => IInv
<1> SUFFICES ASSUME Init PROVE IInv
  OBVIOUS
<1>1. TypeOK
  <2>1. 0 \in 0..MaxFaults
    BY Bound
  <2>2. state \in [Containers -> {"created", "running", "healthy", "completed", "exited"}]
        /\ conn \in [Clients -> {"none", "open", "closed"}]
    BY DEF Init
  <2> QED BY <2>1, <2>2 DEF Init, TypeOK, Steps
<1>2. OrderInv /\ WorkerComesLast
  BY DEF Init, OrderInv, WorkerComesLast, Containers
<1> QED BY <1>1, <1>2 DEF IInv

LEMMA ComposeStep == IInv /\ (Compose \/ \E c \in Containers : Fail(c)) => IInv'
<1> SUFFICES ASSUME IInv, Compose \/ \E c \in Containers : Fail(c) PROVE IInv'
  OBVIOUS
<1> USE DEF IInv, TypeOK, Become
<1>1. ASSUME NEW c \in Containers, Start(c) PROVE IInv'
  <2>1. state' = [state EXCEPT ![c] = "running"] /\ state[c] = "created"
        /\ UNCHANGED <<pc, conn, tables, declared, faults, refused>>
    BY <1>1 DEF Start
  <2>2. c = "server" => state["migrations"] = "completed"
    BY <1>1 DEF Start, Needs, Containers
  <2>3. c = "worker" => state["server"] = "healthy"
    BY <1>1 DEF Start, Needs, Containers
  <2> QED BY <2>1, <2>2, <2>3 DEF OrderInv, WorkerComesLast, Containers
<1>2. ASSUME NEW c \in Containers, Ready(c) PROVE IInv'
  BY <1>2 DEF Ready, OrderInv, WorkerComesLast, Containers
<1>3. ASSUME Migrate PROVE IInv'
  BY <1>3 DEF Migrate, OrderInv, WorkerComesLast, Containers
<1>4. ASSUME NEW c \in Containers, Fail(c) PROVE IInv'
  <2>1. c \notin {"server", "worker"} /\ UNCHANGED <<pc, conn, tables, declared, refused>>
    BY <1>4 DEF Fail
  <2>2. faults' \in 0..MaxFaults
    BY <1>4, Bound DEF Fail
  <2>3. PICK s \in {"running", "exited"} : state' = [state EXCEPT ![c] = s]
    BY <1>4 DEF Fail
  <2>4. state' \in [Containers -> {"created", "running", "healthy", "completed", "exited"}]
    BY <2>3
  <2>5. /\ state'["server"] = state["server"] /\ state'["worker"] = state["worker"]
        /\ state'["migrations"] = "completed" => state["migrations"] = "completed"
    BY <2>1, <2>3 DEF Containers
  <2> QED BY <2>1, <2>2, <2>4, <2>5 DEF OrderInv, WorkerComesLast
<1> QED BY <1>1, <1>2, <1>3, <1>4 DEF Compose

LEMMA MainStep == IInv /\ Main => IInv'
<1> SUFFICES ASSUME IInv, Main PROVE IInv'
  OBVIOUS
<1> USE DEF IInv, TypeOK, Become, At, Steps, Exits, Clients
\* Wherever main gives up before it serves.
<1>0. ASSUME NEW e \in Exits, Quit(e), UNCHANGED <<conn, tables, declared, faults, refused>>,
             state["server"] = "running", pc # "serving"
      PROVE  IInv'
  <2>1. state' = [state EXCEPT !["server"] = "exited"] /\ pc' = e
    BY <1>0 DEF Quit
  <2>2. /\ state' \in [Containers -> {"created", "running", "healthy", "completed", "exited"}]
        /\ \A c \in Containers : c # "server" => state'[c] = state[c]
        /\ state'["server"] = "exited"
    BY <2>1 DEF Containers
  <2>3. OrderInv' /\ WorkerComesLast'
    BY <1>0, <2>1, <2>2 DEF OrderInv, WorkerComesLast, Containers
  <2> QED BY <1>0, <2>1, <2>2, <2>3
<1>1. CASE Load
  BY <1>0, <1>1 DEF Load, OrderInv, WorkerComesLast
<1>2. CASE NewStorage
  BY <1>0, <1>2 DEF NewStorage, OrderInv, WorkerComesLast
<1>3. ASSUME NEW p \in {"grpc", "cache"}, NEW c \in Clients, NEW next \in {"close grpc", "close cache"},
             NewClient(p, c, next)
      PROVE  IInv'
  <2>1. CASE c \notin refused
    <3>1. /\ state["server"] = "running" /\ pc = p /\ pc' = next
          /\ conn' = [conn EXCEPT ![c] = "open"]
          /\ UNCHANGED <<state, tables, declared, faults, refused>>
      BY <1>3, <2>1 DEF NewClient
    <3>2. TypeOK'
      BY <3>1
    <3> QED BY <3>1, <3>2 DEF OrderInv, WorkerComesLast
  <2>2. CASE c \in refused
    BY <1>0, <1>3, <2>2 DEF NewClient
  <2> QED BY <2>1, <2>2
<1>4. ASSUME NEW p \in {"close grpc", "close cache"}, NEW c \in Clients, NEW next \in {"cache", "publisher"},
             CloseObj(p, c, next)
      PROVE  IInv'
  BY <1>4 DEF CloseObj, OrderInv, WorkerComesLast
<1>5. CASE NewPublisher
  <2>1. CASE /\ pc' = "close publisher" /\ declared'
             /\ conn' = [conn EXCEPT !["amqp"] = "open"] /\ UNCHANGED <<state, tables, faults, refused>>
    <3>1. pc = "publisher"
      BY <1>5 DEF NewPublisher
    <3> QED BY <2>1, <3>1 DEF OrderInv, WorkerComesLast
  <2>2. CASE Quit("no publisher") /\ UNCHANGED <<conn, tables, declared, faults, refused>>
    BY <1>0, <1>5, <2>2 DEF NewPublisher
  <2> QED BY <1>5, <2>1, <2>2 DEF NewPublisher
<1>6. CASE CloseObj("close publisher", "amqp", "service")
  BY <1>6 DEF CloseObj, OrderInv, WorkerComesLast
<1>7. CASE NewService
  BY <1>7 DEF NewService, OrderInv, WorkerComesLast
<1> QED BY <1>1, <1>2, <1>3, <1>4, <1>5, <1>6, <1>7 DEF Main

\* The inductive invariant.
THEOREM Invariance == Spec => []IInv
<1>1. ASSUME IInv, UNCHANGED vars PROVE IInv'
  BY <1>1 DEF vars, IInv, TypeOK, OrderInv, WorkerComesLast
<1>2. IInv /\ [Next]_vars => IInv'
  BY <1>1, ComposeStep, MainStep DEF Next
<1> QED BY <1>2, InvInit, PTL DEF Spec

\* Every variable stays in its type: no container is left in a state that the
\* conditions of depends_on do not know.
THEOREM BootTypes == Spec => []TypeOK
<1>1. IInv => TypeOK
  BY DEF IInv
<1> QED BY <1>1, Invariance, PTL

\* A server that serves has its tables, its secrets and its queue, however often
\* containers failed on the way.
THEOREM SolidGround == Spec => []ServesOnSolidGround
<1>1. IInv => ServesOnSolidGround
  BY DEF IInv, OrderInv, ServesOnSolidGround, Exits
<1> QED BY <1>1, Invariance, PTL

\* The worker is started last.
THEOREM WorkerIsLast == Spec => []WorkerComesLast
<1>1. IInv => WorkerComesLast
  BY DEF IInv
<1> QED BY <1>1, Invariance, PTL

-----------------------------------------------------------------------------
(* What main has done with its clients by the time it gets to a step       *)

ClientInv ==
  /\ pc \in {"cache", "close cache", "publisher", "close publisher", "service", "serving"}
       => conn["grpc"] = "closed"
  /\ pc \in {"publisher", "close publisher", "service", "serving"} => conn["redis"] = "closed"
  /\ pc \in {"service", "serving"} => conn["amqp"] = "closed"

LEMMA ClientStep == IInv /\ ClientInv /\ [Next]_vars => ClientInv'
<1> SUFFICES ASSUME IInv, ClientInv, [Next]_vars PROVE ClientInv'
  OBVIOUS
<1> USE DEF IInv, TypeOK, At, ClientInv, Clients
<1>1. CASE Compose \/ (\E c \in Containers : Fail(c)) \/ UNCHANGED vars
  BY <1>1 DEF Compose, Start, Ready, Migrate, Fail, vars
<1>2. CASE Load
  BY <1>2 DEF Load, Quit
<1>3. CASE NewStorage
  BY <1>3 DEF NewStorage, Quit
<1>4. CASE NewClient("grpc", "grpc", "close grpc") \/ NewClient("cache", "redis", "close cache")
  BY <1>4 DEF NewClient, Quit
<1>5. CASE \/ CloseObj("close grpc", "grpc", "cache") \/ CloseObj("close cache", "redis", "publisher")
           \/ CloseObj("close publisher", "amqp", "service")
  BY <1>5 DEF CloseObj
<1>6. CASE NewPublisher
  BY <1>6 DEF NewPublisher, Quit
<1>7. CASE NewService
  BY <1>7 DEF NewService
<1> QED BY <1>1, <1>2, <1>3, <1>4, <1>5, <1>6, <1>7 DEF Next, Main

\* Not only may a client be closed that the README counts on (ClientsAreOpen): whenever
\* main serves, in every environment, it has closed all three.
EachClientIsClosed == pc = "serving" => \A c \in Clients : conn[c] = "closed"

THEOREM ServesWithoutClients == Spec => []EachClientIsClosed
<1>1. Init => ClientInv
  BY DEF Init, ClientInv
<1>2. ClientInv => EachClientIsClosed
  BY DEF ClientInv, EachClientIsClosed, Clients
<1> QED BY <1>1, <1>2, ClientStep, Invariance, PTL DEF Spec

-----------------------------------------------------------------------------
(* Progress.  The prover does not know ENABLED, so the fairness of main is  *)
(* taken in the form it has wherever MainIsNeverStuck holds: main goes on   *)
(* again and again, or is not booting.                                      *)

Scheduled == []<>~Booting \/ []<><<Main>>_vars

\* The way of main through its steps.
Follows(p, q) ==
  \/ p = "load" /\ q = "storage"
  \/ p = "storage" /\ q = "grpc"
  \/ p = "grpc" /\ q = "close grpc"
  \/ p = "close grpc" /\ q = "cache"
  \/ p = "cache" /\ q = "close cache"
  \/ p = "close cache" /\ q = "publisher"
  \/ p = "publisher" /\ q = "close publisher"
  \/ p = "close publisher" /\ q = "service"
  \/ p = "service" /\ q = "serving"

Done == pc \in {"serving"} \cup Exits

\* No container takes main back from p, and main goes from there to q or to its end.
Moves(p, q) ==
  /\ At(p) /\ [Next]_vars => At(p)' \/ At(q)' \/ Done'
  /\ At(p) /\ <<Main>>_vars => At(q)' \/ Done'
  /\ At(p) => Booting

\* The steps of the containers and of their failures.
LEMMA OtherStep ==
  ASSUME IInv, [Next]_vars, ~Main
  PROVE  pc' = pc /\ (state["server"] = "running" => state'["server"] = "running" \/ pc = "serving")
<1> USE DEF IInv, TypeOK, Become, Containers
<1>1. ASSUME NEW c \in Containers, Start(c)
      PROVE  pc' = pc /\ (state["server"] = "running" => state'["server"] = "running")
  BY <1>1 DEF Start
<1>2. ASSUME NEW c \in Containers, Ready(c)
      PROVE  pc' = pc /\ (state["server"] = "running" => state'["server"] = "running" \/ pc = "serving")
  BY <1>2 DEF Ready
<1>3. CASE Migrate
  BY <1>3 DEF Migrate
<1>4. ASSUME NEW c \in Containers, Fail(c)
      PROVE  pc' = pc /\ (state["server"] = "running" => state'["server"] = "running")
  BY <1>4 DEF Fail
<1>5. CASE UNCHANGED vars
  BY <1>5 DEF vars
<1> QED BY <1>1, <1>2, <1>3, <1>4, <1>5 DEF Next, Compose

\* Where main goes.
LEMMA MainGoes ==
  ASSUME IInv, Main
  PROVE  (state' = state /\ Follows(pc, pc')) \/ Done'
<1> USE DEF Done, Follows
<1>1. CASE Load
  BY <1>1 DEF Load, At, Quit, Exits
<1>2. CASE NewStorage
  BY <1>2 DEF NewStorage, At, Quit, Exits
<1>3. CASE NewClient("grpc", "grpc", "close grpc") \/ NewClient("cache", "redis", "close cache")
  BY <1>3 DEF NewClient, At, Quit, Exits
<1>4. CASE \/ CloseObj("close grpc", "grpc", "cache") \/ CloseObj("close cache", "redis", "publisher")
           \/ CloseObj("close publisher", "amqp", "service")
  BY <1>4 DEF CloseObj, At
<1>5. CASE NewPublisher
  BY <1>5 DEF NewPublisher, At, Quit, Exits
<1>6. CASE NewService
  BY <1>6 DEF NewService, At
<1> QED BY <1>1, <1>2, <1>3, <1>4, <1>5, <1>6 DEF Main

LEMMA OneWay == ASSUME NEW p, NEW q, NEW r, Follows(p, q), Follows(p, r) PROVE q = r /\ p # "serving"
<1>1. CASE p \in {"load", "storage", "grpc"}
  BY <1>1 DEF Follows
<1>2. CASE p \in {"close grpc", "cache", "close cache"}
  BY <1>2 DEF Follows
<1>3. CASE p \in {"publisher", "close publisher", "service"}
  BY <1>3 DEF Follows
<1> QED BY <1>1, <1>2, <1>3 DEF Follows

LEMMA MainMoves == ASSUME IInv, NEW p, NEW q, Follows(p, q) PROVE Moves(p, q)
<1>1. p # "serving"
  BY OneWay
<1>2. ASSUME At(p), Main PROVE At(q)' \/ Done'
  BY <1>2, MainGoes, OneWay DEF At
<1>3. ASSUME At(p), [Next]_vars, ~Main PROVE At(p)'
  BY <1>1, <1>3, OtherStep DEF At
<1>4. At(p) => Booting
  BY <1>1 DEF At, Booting
<1> QED BY <1>2, <1>3, <1>4 DEF Moves

\* The boot ends, even if every other container stays down.
THEOREM BootAlwaysEnds == Spec /\ Scheduled => BootEnds
<1>1. IInv => /\ Moves("load", "storage")
              /\ Moves("storage", "grpc")
              /\ Moves("grpc", "close grpc")
              /\ Moves("close grpc", "cache")
              /\ Moves("cache", "close cache")
              /\ Moves("close cache", "publisher")
              /\ Moves("publisher", "close publisher")
              /\ Moves("close publisher", "service")
              /\ Moves("service", "serving")
  <2>1. ASSUME IInv PROVE \A p, q : Follows(p, q) => Moves(p, q)
    BY <2>1, MainMoves
  <2> QED BY <2>1, Zenon DEF Follows
<1>2. IInv /\ state["server"] = "running" =>
        \/ At("load") \/ At("storage") \/ At("grpc") \/ At("close grpc") \/ At("cache")
        \/ At("close cache") \/ At("publisher") \/ At("close publisher") \/ At("service") \/ Done
  BY DEF IInv, TypeOK, Steps, At, Done
<1>3. At("serving") => Done
  BY DEF At, Done
<1> QED BY <1>1, <1>2, <1>3, Invariance, PTL DEF Spec, Scheduled, Moves, BootEnds, Done
=============================================================================
