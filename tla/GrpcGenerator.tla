---------------------------- MODULE GrpcGenerator ----------------------------
(***************************************************************************)
(* The generator of execution_mode "grpc".                                 *)
(*                                                                         *)
(* A submission (BulkGenerate) stores a job and starts the goroutine       *)
(* ProcessJob, which starts a second one, the client's BulkGenerate, that  *)
(* calls the worker and hands over an error and then a response on two     *)
(* unbuffered channels.  ProcessJob then saves the response, updates the   *)
(* row and updates the cache, while requests for the status, the clean-up  *)
(* and the end of the process can come between any two of these calls.     *)
(***************************************************************************)
EXTENDS StatusService, Naturals

CONSTANTS
  RpcOutcomes,     \* how Generate can end: "zip" or "empty", the archive it
                   \* returns, or "fatal", any error (the deadline included)
  TTLOutlivesJob,  \* no row reaches jobTTL while its job is being processed
  SlowBackends,    \* the 5 s finalize deadline may pass between two calls
  MaxCrashes       \* how often the process may end and be started again

ASSUME GrpcAssumption ==
  /\ RpcOutcomes \subseteq Results
  /\ TTLOutlivesJob \in BOOLEAN
  /\ SlowBackends \in BOOLEAN
  /\ MaxCrashes \in Nat

VARIABLES
  pc,      \* where the submission and then ProcessJob of each job stands
  rpc,     \* where the goroutine of gen_client stands, "none" if there is none
  res,     \* what Generate returned, NoRow before that and once it is saved
  verdict, \* the status that ProcessJob is about to record and announce
  expired, \* the jobs whose finalizeCtx is past its deadline
  crashes

procVars == <<pc, rpc, res, verdict, expired>>
vars == <<storeVars, readVars, procVars, crashes>>

Active == {"stored", "recvErr", "recvResp", "save", "update", "announce"}
Ended  == {"rejected", "done", "dead"}

TypeOK ==
  /\ StoreTypeOK
  /\ ReadTypeOK
  /\ pc \in [Jobs -> {"new"} \cup Active \cup Ended]
  /\ rpc \in [Jobs -> {"none", "calling", "sendErr", "sendResp"}]
  /\ res \in [Jobs -> Results \cup {NoRow}]
  /\ verdict \in [Jobs -> Final \cup {NoStatus}]
  /\ expired \in SUBSET Jobs
  /\ crashes \in Nat

Init ==
  /\ StoreInit
  /\ ReadInit
  /\ pc = [j \in Jobs |-> "new"]
  /\ rpc = [j \in Jobs |-> "none"]
  /\ res = [j \in Jobs |-> NoRow]
  /\ verdict = [j \in Jobs |-> NoStatus]
  /\ expired = {}
  /\ crashes = 0

Goto(j, l) == pc' = [pc EXCEPT ![j] = l]

\* A call under finalizeCtx: after the deadline it fails without an effect.
Finalize(j, outcomes) == IF j \in expired THEN {"fail"} ELSE outcomes

\* The storage in memory does not look at its context.
FinalizeStorage(j, outcomes) == IF InMemory THEN outcomes ELSE Finalize(j, outcomes)

-----------------------------------------------------------------------------
(* BulkGenerate of the service, on the goroutine of the HTTP request       *)

\* StoreJob; its error ends the request, even if the row is there.
Submit(j) ==
  /\ pc[j] = "new"
  /\ \E o \in StorageOutcomes :
       /\ StoreJob(j, o)
       /\ Goto(j, IF Failed(o) THEN "rejected" ELSE "stored")
  /\ UNCHANGED <<archives, old, cache, readVars, rpc, res, verdict, expired, crashes>>

\* SetJobStatus, whose error is only logged; the goroutines start and the
\* client gets the id.  (No other actor can tell these three apart.)
Dispatch(j) ==
  /\ pc[j] = "stored"
  /\ \E o \in CacheOutcomes : SetJobStatus(j, "processing", o)
  /\ accepted' = accepted \cup {j}
  /\ rpc' = [rpc EXCEPT ![j] = "calling"]
  /\ Goto(j, "recvErr")
  /\ UNCHANGED <<jobs, archives, old, asked, seen, told, res, verdict, expired, crashes>>

-----------------------------------------------------------------------------
(* BulkGenerate of the gRPC client                                         *)

\* Generate returns; jobCtx makes it return by job_max_duration.
RpcReturn(j) ==
  /\ rpc[j] = "calling"
  /\ \E o \in RpcOutcomes : res' = [res EXCEPT ![j] = o]
  /\ rpc' = [rpc EXCEPT ![j] = "sendErr"]
  /\ UNCHANGED <<storeVars, readVars, pc, verdict, expired, crashes>>

-----------------------------------------------------------------------------
(* ProcessJob                                                              *)

\* MUTANT: an error is taken for the end of the exchange.
RecvErrAlone(j) ==
  /\ pc[j] = "recvErr" /\ rpc[j] = "sendErr"
  /\ rpc' = [rpc EXCEPT ![j] = "sendResp"]
  /\ verdict' = [verdict EXCEPT ![j] = IF res[j] = "fatal" THEN "failed" ELSE "completed"]
  /\ Goto(j, IF res[j] = "fatal" THEN "save" ELSE "recvResp")
  /\ UNCHANGED <<storeVars, readVars, res, expired, crashes>>

\* MUTANT: the client returns after an error without sending a response.
RecvErrNoResponse(j) ==
  /\ pc[j] = "recvErr" /\ rpc[j] = "sendErr"
  /\ rpc' = [rpc EXCEPT ![j] = IF res[j] = "fatal" THEN "none" ELSE "sendResp"]
  /\ verdict' = [verdict EXCEPT ![j] = IF res[j] = "fatal" THEN "failed" ELSE "completed"]
  /\ Goto(j, "recvResp")
  /\ UNCHANGED <<storeVars, readVars, res, expired, crashes>>

\* MUTANT: the error that was received is not looked at.
RecvErrIgnored(j) ==
  /\ pc[j] = "recvErr" /\ rpc[j] = "sendErr"
  /\ rpc' = [rpc EXCEPT ![j] = "sendResp"]
  /\ verdict' = [verdict EXCEPT ![j] = "completed"]
  /\ Goto(j, "recvResp")
  /\ UNCHANGED <<storeVars, readVars, res, expired, crashes>>

\* err := <-ErrChan, a rendezvous; err decides between the two branches.
RecvErr(j) ==
  /\ pc[j] = "recvErr"
  /\ rpc[j] = "sendErr"
  /\ rpc' = [rpc EXCEPT ![j] = "sendResp"]
  /\ verdict' = [verdict EXCEPT ![j] = IF res[j] = "fatal" THEN "failed" ELSE "completed"]
  /\ Goto(j, "recvResp")
  /\ UNCHANGED <<storeVars, readVars, res, expired, crashes>>

\* response := <-ResponseChan, a rendezvous; the client's goroutine returns.
RecvResponse(j) ==
  /\ pc[j] = "recvResp"
  /\ rpc[j] = "sendResp"
  /\ rpc' = [rpc EXCEPT ![j] = "none"]
  /\ Goto(j, "save")
  /\ UNCHANGED <<storeVars, readVars, res, verdict, expired, crashes>>

\* MUTANT: the error branch returns without UpdateJob.
SaveEndsErrorBranch(j) ==
  /\ pc[j] = "save"
  /\ \E o \in FinalizeStorage(j, SaveResults(j)) : SaveResponse(j, res[j], o)
  /\ res' = [res EXCEPT ![j] = NoRow]
  /\ Goto(j, IF res[j] = "fatal" THEN "announce" ELSE "update")
  /\ UNCHANGED <<jobs, old, cache, readVars, rpc, verdict, expired, crashes>>

\* MUTANT: SaveResponse sets jobs.status in the same transaction.
SaveSetsStatus(j) ==
  /\ pc[j] = "save"
  /\ \E o \in FinalizeStorage(j, SaveResults(j)) :
       /\ SaveResponse(j, res[j], o)
       /\ jobs' = IF o = "ok" THEN [jobs EXCEPT ![j] = verdict[j]] ELSE jobs
       /\ verdict' = [verdict EXCEPT ![j] = IF o = "fail" THEN "failed" ELSE @]
  /\ res' = [res EXCEPT ![j] = NoRow]
  /\ Goto(j, "update")
  /\ UNCHANGED <<old, cache, readVars, rpc, expired, crashes>>

\* SaveResponse; its error turns a completed job into a failed one.
Save(j) ==
  /\ pc[j] = "save"
  /\ \E o \in FinalizeStorage(j, SaveResults(j)) :
       /\ SaveResponse(j, res[j], o)
       /\ verdict' = [verdict EXCEPT ![j] = IF o = "fail" THEN "failed" ELSE @]
  /\ res' = [res EXCEPT ![j] = NoRow]
  /\ Goto(j, "update")
  /\ UNCHANGED <<jobs, old, cache, readVars, rpc, expired, crashes>>

\* MUTANT: an error of UpdateJob is only logged.
UpdateLogsError(j) ==
  /\ pc[j] = "update"
  /\ \E o \in FinalizeStorage(j, UpdateResults(j)) : UpdateJob(j, verdict[j], o)
  /\ Goto(j, "announce")
  /\ UNCHANGED <<archives, old, cache, readVars, rpc, res, verdict, expired, crashes>>

\* UpdateJob; its error makes ProcessJob announce a failed job.
Update(j) ==
  /\ pc[j] = "update"
  /\ \E o \in FinalizeStorage(j, UpdateResults(j)) :
       /\ UpdateJob(j, verdict[j], o)
       /\ verdict' = [verdict EXCEPT ![j] = IF Failed(o) THEN "failed" ELSE @]
  /\ Goto(j, "announce")
  /\ UNCHANGED <<archives, old, cache, readVars, rpc, res, expired, crashes>>

\* SetJobStatus, whose error is only logged; then the channels are closed and
\* the duration is counted under "success" if the verdict is "completed".
Announce(j) ==
  /\ pc[j] = "announce"
  /\ \E o \in Finalize(j, CacheOutcomes) : SetJobStatus(j, verdict[j], o)
  /\ Goto(j, "done")
  /\ expired' = expired \ {j}
  /\ UNCHANGED <<jobs, archives, old, readVars, rpc, res, verdict, crashes>>

\* The 5 s that SaveResponse, UpdateJob and SetJobStatus share are over.
FinalizeTimeout(j) ==
  /\ SlowBackends
  /\ pc[j] \in {"save", "update", "announce"}
  /\ j \notin expired
  /\ expired' = expired \cup {j}
  /\ UNCHANGED <<storeVars, readVars, pc, rpc, res, verdict, crashes>>

-----------------------------------------------------------------------------
(* The rest of the process                                                 *)

\* A request for a status, in one of the slots.
Check(r) ==
  /\ \/ \E j \in Jobs : CheckJobStatusHit(r, j) \/ CheckJobStatusMiss(r, j)
     \/ CheckJobStatusLoad(r)
     \/ CheckJobStatusFill(r)
  /\ UNCHANGED <<procVars, crashes>>

Age(j) ==
  /\ TTLOutlivesJob => pc[j] \in Ended
  /\ GrowOld(j)
  /\ UNCHANGED <<readVars, procVars, crashes>>

Tick == CleanUp /\ UNCHANGED <<readVars, procVars, crashes>>

Forget(j) == CacheExpire(j) /\ UNCHANGED <<readVars, procVars, crashes>>

\* The process ends, by a crash or by SIGTERM: main waits for the HTTP server
\* and not for ProcessJob.  Jobs in memory go with it; Redis keeps its keys.
Crash ==
  /\ crashes < MaxCrashes
  /\ crashes' = crashes + 1
  /\ pc' = [j \in Jobs |-> IF pc[j] \in Active THEN "dead" ELSE pc[j]]
  /\ rpc' = [j \in Jobs |-> "none"]
  /\ res' = [j \in Jobs |-> NoRow]
  /\ expired' = {}
  /\ asked' = [r \in Readers |-> NoJob]
  /\ seen' = [r \in Readers |-> NoStatus]
  /\ Restart
  /\ UNCHANGED <<accepted, told, verdict>>

\* One step of the goroutines that work on j.
Process(j) ==
  \/ Dispatch(j) \/ RpcReturn(j) \/ RecvErr(j) \/ RecvResponse(j)
  \/ Save(j) \/ Update(j) \/ Announce(j)

Next ==
  \/ \E j \in Jobs :
       Submit(j) \/ Process(j) \/ FinalizeTimeout(j) \/ Age(j) \/ Forget(j)
  \/ \E r \in Readers : Check(r)
  \/ Tick
  \/ Crash

Spec == Init /\ [][Next]_vars

\* A request that has begun goes on.
Answer(r) ==
  (CheckJobStatusLoad(r) \/ CheckJobStatusFill(r)) /\ UNCHANGED <<procVars, crashes>>

\* Every call of ProcessJob has a deadline, so its goroutines never stay at
\* one; rows and keys age with the clock; the ticker keeps deleting.
Fairness ==
  /\ \A j \in Jobs : WF_vars(Process(j)) /\ WF_vars(Age(j)) /\ WF_vars(Forget(j))
  /\ \A r \in Readers : WF_vars(Answer(r))
  /\ WF_vars(Tick)

FairSpec == Spec /\ Fairness

-----------------------------------------------------------------------------
(* Safety                                                                  *)

Generated == {"zip", "empty"}

\* Whoever says that a job is completed (the cache, an answer to a client, the
\* "success" metric of ProcessJob) says so only of a row that is completed in
\* PostgreSQL, or was cleaned up: ProcessJob announces after UpdateJob, and
\* announces "failed" when UpdateJob gave an error.
CompletedIsReal ==
  \A j \in Jobs :
    \/ "completed" \in {cache[j], told[j]}
    \/ pc[j] = "done" /\ verdict[j] = "completed"
    => jobs[j] \in {"completed", NoRow}

\* The two tables agree: a completed job has its generated row in archives
\* (unless COMMIT may fail unnoticed, postgres.go:133), a failed one has none.
RowMatchesStatus ==
  \A j \in Jobs :
    /\ jobs[j] = "completed" =>
         archives[j] \in Generated \cup
           (IF "uncommitted" \in SaveOutcomes THEN {NoRow} ELSE {})
    /\ jobs[j] = "failed" => archives[j] \in {NoRow, "fatal"}

\* ProcessJob closes the channels it made when it returns; by then the client's
\* goroutine has sent both values, so it can neither panic nor stay blocked.
NoSendOnClosedChannel ==
  \A j \in Jobs : pc[j] \in {"update", "announce", "done"} => rpc[j] = "none"

\* Unless an UPDATE can take effect and still report an error, neither the
\* cache nor a client is told "failed" about a job that PostgreSQL completed.
FailedIsNotContradicted ==
  "lost" \notin StorageOutcomes =>
    \A j \in Jobs : "failed" \in {cache[j], told[j]} => jobs[j] # "completed"

\* What the API answers to one client fits together: once the status of a job
\* was "completed", GetArchiveInfo gives its errors and count for as long as the
\* row lives (if COMMIT cannot fail unnoticed).
CompletedIsServed ==
  "uncommitted" \notin SaveOutcomes =>
    \A j \in Jobs :
      told[j] = "completed" /\ jobs[j] # NoRow => GetArchiveInfo(j) = "info"

\* An answer with a final status does not follow one with the other.
KeepsVerdict(j) ==
  "lost" \notin StorageOutcomes /\ told[j] \in Final /\ told'[j] \in Final
  => told'[j] = told[j]

\* Clients may be told "processing" after a final status (FinalStatusIsFinal,
\* below), but never one final status after the other, not even across a restart, an
\* expired key or the clean-up (again with no UPDATE of unknown outcome).
VerdictNeverReversed == [][\A j \in Jobs : KeepsVerdict(j)]_vars

\* The tables, seen through all the steps of requests, goroutines and restarts,
\* behave as JobLifecycle promises: one verdict, for good, that agrees with the
\* recorded result; and a row that is gone stays gone.
Lifecycle ==
  INSTANCE JobLifecycle WITH
    status <- jobs,
    result <- archives,
    issued <- {j \in Jobs : pc[j] # "new"},
    Backed <- "uncommitted" \notin SaveOutcomes

ImplementsLifecycle == Lifecycle!Spec

-----------------------------------------------------------------------------
(* Liveness                                                                *)

\* As long as ProcessJob runs, one of its two goroutines can go on: none of the
\* receives and sends on its channels is left without a partner.
ProcessJobIsNeverStuck == \A j \in Jobs : pc[j] \in Active => ENABLED <<Process(j)>>_vars

\* Every job that was stored leaves ProcessJob: neither channel blocks it, and
\* each of its calls has a deadline.
ProcessJobEnds == \A j \in Jobs : pc[j] = "stored" ~> pc[j] \in Ended

\* A client that polls an id it was given is not told "processing" for ever,
\* whatever fails and even if the process dies: in the end neither the cache
\* nor the table holds that status, because rows and keys expire.
PollingEnds ==
  \A j \in Jobs :
    j \in accepted ~> [](cache[j] # "processing" /\ jobs[j] # "processing")

\* When no statement fails and rows outlive their jobs, every job whose id was given
\* to a client gets a verdict in the storage, unless the process dies first.
AcceptedIsDecided ==
  \A j \in Jobs : pc[j] = "recvErr" ~> jobs[j] \in Final \/ pc[j] = "dead"

-----------------------------------------------------------------------------
(* What the repository says and the code does not do                       *)

\* README.md:356 and the load tests poll until "the final status of the job":
\* a status that, once given, is the last one.
FinalStatusIsFinal ==
  [][\A j \in Jobs : told[j] \in Final => told'[j] = told[j]]_vars

\* generator_test.go:762-814, "error during saving": a job whose response
\* could not be saved is recorded as failed.
SaveErrorFailsJob ==
  \A j \in Jobs : jobs[j] = "completed" => archives[j] # NoRow

\* generator_test.go:249-262, "job not completed": the archive of a job that is
\* still processing is refused with ErrJobNotFinished.
UnfinishedIsReported ==
  \A j \in accepted : jobs[j] = "processing" => GetArchive(j) = "ErrJobNotFinished"
=============================================================================
