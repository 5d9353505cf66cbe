--------------------------- MODULE QueueGenerator ---------------------------
(***************************************************************************)
(* The generator of execution_mode "queue".  A submission (BulkGenerate)   *)
(* stores a job, its status in the cache and its input archive, publishes  *)
(* the id and only then answers.  From there on the job is in the hands of *)
(* RabbitMQ and of the Python worker, which is not part of the repository: *)
(* its actions are the assumptions under which the properties hold.        *)
(***************************************************************************)
EXTENDS StatusService, Naturals

CONSTANTS
  RowOutcomes,    \* what the worker can record: "zip", "empty" or "fatal"
  SendOutcomes,   \* how Send can end: "ok", "fail", "lost" (published, yet an
                  \* error) or "dropped" (no error, yet nothing in the queue:
                  \* there are no publisher confirms)
  MaxCrashes      \* how often the server or a worker may die

ASSUME QueueAssumption ==
  /\ RowOutcomes \subseteq Results
  /\ SendOutcomes \subseteq {"ok", "fail", "lost", "dropped"}
  /\ MaxCrashes \in Nat

VARIABLES
  pc,      \* where the submission of each job stands
  inputs,  \* the jobs with a row in input_archives
  queue,   \* the jobs with a message that is ready in the queue
  worker,  \* where the worker stands with each job, "idle" if nowhere
  verdict, \* the status that the worker is about to record and announce
  dropped, \* the jobs whose message the broker lost
  crashes

jobVars == <<pc, inputs, queue, worker, verdict, dropped>>
vars == <<storeVars, readVars, jobVars, crashes>>

Active == {"stored", "cached", "input"}

TypeOK ==
  /\ StoreTypeOK
  /\ ReadTypeOK
  /\ pc \in [Jobs -> {"new", "sent", "rejected", "dead"} \cup Active]
  /\ inputs \in SUBSET Jobs
  /\ queue \in SUBSET Jobs
  /\ worker \in [Jobs -> {"idle", "taken", "saved", "updated"}]
  /\ verdict \in [Jobs -> Final \cup {NoStatus}]
  /\ dropped \in SUBSET Jobs
  /\ crashes \in Nat

Init ==
  /\ StoreInit
  /\ ReadInit
  /\ pc = [j \in Jobs |-> "new"]
  /\ inputs = {}
  /\ queue = {}
  /\ worker = [j \in Jobs |-> "idle"]
  /\ verdict = [j \in Jobs |-> NoStatus]
  /\ dropped = {}
  /\ crashes = 0

Goto(j, l) == pc' = [pc EXCEPT ![j] = l]

\* INSERT INTO input_archives; the job is new to that table.
SaveRawArchive(j, o) == inputs' = IF Applied(o) THEN inputs \cup {j} ELSE inputs

\* basic.publish of a persistent message to a durable queue.
Publish(j, o) ==
  /\ queue' = IF o \in {"ok", "lost"} THEN queue \cup {j} ELSE queue
  /\ dropped' = IF o = "dropped" THEN dropped \cup {j} ELSE dropped

-----------------------------------------------------------------------------
(* BulkGenerate, on the goroutine of the HTTP request                      *)

\* StoreJob; its error ends the request, even if the row is there.
Submit(j) ==
  /\ pc[j] = "new"
  /\ \E o \in StorageOutcomes :
       /\ StoreJob(j, o)
       /\ Goto(j, IF Failed(o) THEN "rejected" ELSE "stored")
  /\ UNCHANGED <<archives, old, cache, readVars, inputs, queue, worker, verdict, dropped, crashes>>

\* SetJobStatus, whose error is only logged.
Cache(j) ==
  /\ pc[j] = "stored"
  /\ \E o \in CacheOutcomes : SetJobStatus(j, "processing", o)
  /\ Goto(j, "cached")
  /\ UNCHANGED <<jobs, archives, old, readVars, inputs, queue, worker, verdict, dropped, crashes>>

\* SaveRawArchive; without the jobs row the foreign key refuses the INSERT, and
\* the storage in memory is no InputArchiveStorer at all.  Its error ends the
\* request and leaves the job "processing" in both stores.
SaveRaw(j) ==
  /\ pc[j] = "cached"
  /\ \E o \in IF InMemory \/ jobs[j] = NoRow THEN {"fail"} ELSE StorageOutcomes :
       /\ SaveRawArchive(j, o)
       /\ Goto(j, IF Failed(o) THEN "rejected" ELSE "input")
  /\ UNCHANGED <<storeVars, readVars, queue, worker, verdict, dropped, crashes>>

\* MUTANT: an error of Send is only logged.
SendLogsError(j) ==
  /\ pc[j] = "input"
  /\ \E o \in SendOutcomes : Publish(j, o)
  /\ accepted' = accepted \cup {j}
  /\ Goto(j, "sent")
  /\ UNCHANGED <<storeVars, asked, seen, told, inputs, worker, verdict, crashes>>

\* MUTANT: the id is published before the input archive is saved.
SendEarly(j) ==
  /\ pc[j] \in {"cached", "input"} /\ j \notin queue
  /\ \E o \in SendOutcomes : Publish(j, o)
  /\ accepted' = IF pc[j] = "input" THEN accepted \cup {j} ELSE accepted
  /\ Goto(j, IF pc[j] = "input" THEN "sent" ELSE "cached")
  /\ UNCHANGED <<storeVars, asked, seen, told, inputs, worker, verdict, crashes>>

\* Send; the client is given the id unless it returned an error.
Send(j) ==
  /\ pc[j] = "input"
  /\ \E o \in SendOutcomes :
       /\ Publish(j, o)
       /\ accepted' = IF o \in {"ok", "dropped"} THEN accepted \cup {j} ELSE accepted
       /\ Goto(j, IF o \in {"ok", "dropped"} THEN "sent" ELSE "rejected")
  /\ UNCHANGED <<storeVars, asked, seen, told, inputs, worker, verdict, crashes>>

-----------------------------------------------------------------------------
(* The worker (external): it takes a message, reads the input archive,     *)
(* records the result and the status in PostgreSQL, then the status in     *)
(* Redis (README.md, "RabbitMQ"), and acknowledges the message last.       *)

WorkerTake(j) ==
  /\ j \in queue
  /\ worker[j] = "idle"
  /\ queue' = queue \ {j}
  /\ worker' = [worker EXCEPT ![j] = "taken"]
  /\ UNCHANGED <<storeVars, readVars, pc, inputs, verdict, dropped, crashes>>

\* A result that an earlier delivery has recorded is kept.
WorkerSave(j) ==
  /\ worker[j] = "taken"
  /\ IF j \in inputs /\ archives[j] = NoRow
     THEN \E r \in RowOutcomes : archives' = [archives EXCEPT ![j] = r]
     ELSE UNCHANGED archives
  /\ verdict' = [verdict EXCEPT ![j] =
                   IF archives'[j] \in {"zip", "empty"} THEN "completed" ELSE "failed"]
  /\ worker' = [worker EXCEPT ![j] = "saved"]
  /\ UNCHANGED <<jobs, old, cache, readVars, pc, inputs, queue, dropped, crashes>>

WorkerUpdate(j) ==
  /\ worker[j] = "saved"
  /\ UpdateJob(j, verdict[j], "ok")
  /\ worker' = [worker EXCEPT ![j] = "updated"]
  /\ UNCHANGED <<archives, old, cache, readVars, pc, inputs, queue, verdict, dropped, crashes>>

WorkerAnnounce(j) ==
  /\ worker[j] = "updated"
  /\ \E o \in CacheOutcomes : SetJobStatus(j, verdict[j], o)
  /\ worker' = [worker EXCEPT ![j] = "idle"]
  /\ UNCHANGED <<jobs, archives, old, readVars, pc, inputs, queue, verdict, dropped, crashes>>

\* A message that was not acknowledged is delivered again.
WorkerCrash(j) ==
  /\ crashes < MaxCrashes
  /\ worker[j] # "idle"
  /\ crashes' = crashes + 1
  /\ worker' = [worker EXCEPT ![j] = "idle"]
  /\ queue' = queue \cup {j}
  /\ UNCHANGED <<storeVars, readVars, pc, inputs, verdict, dropped>>

-----------------------------------------------------------------------------
(* The rest of the process                                                 *)

Check(r) ==
  /\ \/ \E j \in Jobs : CheckJobStatusHit(r, j) \/ CheckJobStatusMiss(r, j)
     \/ CheckJobStatusLoad(r)
     \/ CheckJobStatusFill(r)
  /\ UNCHANGED <<jobVars, crashes>>

UnderWay(j) == pc[j] \in Active \/ j \in queue \/ worker[j] # "idle"

Age(j) ==
  /\ GrowOld(j)
  /\ UNCHANGED <<readVars, jobVars, crashes>>

\* The clean-up deletes the input archives of the old jobs as well.
Tick ==
  /\ CleanUp
  /\ inputs' = inputs \ old
  /\ UNCHANGED <<readVars, pc, queue, worker, verdict, dropped, crashes>>

Forget(j) == CacheExpire(j) /\ UNCHANGED <<readVars, jobVars, crashes>>

\* The server dies, or stops, in the middle of its requests.
Crash ==
  /\ crashes < MaxCrashes
  /\ crashes' = crashes + 1
  /\ pc' = [j \in Jobs |-> IF pc[j] \in Active THEN "dead" ELSE pc[j]]
  /\ asked' = [r \in Readers |-> NoJob]
  /\ seen' = [r \in Readers |-> NoStatus]
  /\ Restart
  /\ UNCHANGED <<accepted, told, inputs, queue, worker, verdict, dropped>>

Handle(j) == Cache(j) \/ SaveRaw(j) \/ Send(j)

Work(j) == WorkerTake(j) \/ WorkerSave(j) \/ WorkerUpdate(j) \/ WorkerAnnounce(j)

Next ==
  \/ \E j \in Jobs :
       Submit(j) \/ Handle(j) \/ Work(j) \/ WorkerCrash(j) \/ Age(j) \/ Forget(j)
  \/ \E r \in Readers : Check(r)
  \/ Tick
  \/ Crash

Spec == Init /\ [][Next]_vars

Answer(r) ==
  (CheckJobStatusLoad(r) \/ CheckJobStatusFill(r)) /\ UNCHANGED <<jobVars, crashes>>

\* Requests go on, the clock runs, the ticker keeps deleting; nothing is asked of the
\* worker, which may be down for good.
Fairness ==
  /\ \A j \in Jobs : WF_vars(Handle(j)) /\ WF_vars(Age(j)) /\ WF_vars(Forget(j))
  /\ \A r \in Readers : WF_vars(Answer(r))
  /\ WF_vars(Tick)

FairSpec == Spec /\ Fairness

-----------------------------------------------------------------------------
(* Properties                                                              *)

\* A message never gets ahead of the input archive it stands for: whoever takes
\* one finds the archive, or a job that was cleaned up.
InputBeforeMessage ==
  \A j \in Jobs : j \in queue \/ worker[j] = "taken" => j \in inputs \/ jobs[j] = NoRow

\* A client holds no id of a job that nobody will process: while the row says
\* "processing", a message or the worker stands for it, through any number of
\* redeliveries, unless the broker lost the message.
AcceptedIsUnderWay ==
  \A j \in accepted : jobs[j] = "processing" => UnderWay(j) \/ j \in dropped

\* The tables behave as JobLifecycle promises in this mode too, with requests
\* that fail half-way and messages that are delivered more than once.
Lifecycle ==
  INSTANCE JobLifecycle WITH
    status <- jobs,
    result <- archives,
    issued <- {j \in Jobs : pc[j] # "new"},
    Backed <- TRUE

ImplementsLifecycle == Lifecycle!Spec

\* No job stays "processing" for ever, whether it was rejected half-way, its
\* message was lost or its server died; and nobody is told so for ever.
PollingEnds ==
  \A j \in Jobs :
    jobs[j] = "processing" ~> [](cache[j] # "processing" /\ jobs[j] # "processing")

\* A client that was told a final status is not told the other one while the row is
\* there: not by a cache that was filled late, by a read that fails or by a worker
\* that died and whose message came again.  (After the clean-up it can be: the next
\* delivery finds no input archive and announces "failed".)
VerdictNeverReversed ==
  [][\A j \in Jobs :
       told[j] \in Final /\ told'[j] \in Final /\ jobs'[j] # NoRow => told'[j] = told[j]]_vars
=============================================================================
