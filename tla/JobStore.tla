------------------------------ MODULE JobStore ------------------------------
(***************************************************************************)
(* What the generator services share: the jobs and their results, kept in  *)
(* PostgreSQL (internal/storage/postgres) or in the memory of the process  *)
(* (internal/storage/storage_in_memory), and the Redis status cache        *)
(* (internal/cache).                                                       *)
(*                                                                         *)
(* Each operator is one call of a storage or cache method.  A call is one  *)
(* atomic statement or command; its last parameter is the call's outcome:  *)
(*   "ok"    it took effect and returned nil,                              *)
(*   "fail"  it returned an error and had no effect,                       *)
(*   "lost"  it took effect, but the answer was lost: it returned an error.*)
(***************************************************************************)
CONSTANTS
  Jobs,            \* job identifiers, one fresh UUID per submission
  StorageType,     \* storage.type of the configuration
  StorageOutcomes, \* outcomes of a single PostgreSQL statement
  SaveOutcomes,    \* outcomes of the SaveResponse transaction
  CacheOutcomes    \* outcomes of a Redis command

ASSUME StoreAssumption ==
  /\ StorageOutcomes \subseteq {"ok", "fail", "lost"}
  /\ SaveOutcomes \subseteq {"ok", "fail", "uncommitted"}
  /\ CacheOutcomes \subseteq {"ok", "fail", "lost"}

\* storage.New refuses any other value, and main ends.  A call on maps under a
\* mutex meets no fault.
ASSUME StorageTypeAssumption ==
  /\ StorageType \in {"postgres", "in_memory"}
  /\ StorageType = "in_memory" => StorageOutcomes = {"ok"}

VARIABLES
  jobs,     \* the status of the row (or JobData) of each id, NoRow if there is none
  archives, \* the result stored for each job, by what a reader can tell
  old,      \* the jobs whose row is older than jobTTL
  cache     \* the value of the key "job:<id>", NoStatus if there is none

storeVars == <<jobs, archives, old, cache>>

NoRow    == "no row"
NoStatus == "no status"

\* domain.JobStatus; the CHECK constraint of jobs.status admits these only.
Statuses == {"processing", "completed", "failed"}
Final    == {"completed", "failed"}

\* A row of archives: a ZIP, a NULL archive, or a NULL archive next to a
\* non-empty fatal_gen_error.
Results == {"zip", "empty", "fatal"}

StoreTypeOK ==
  /\ jobs \in [Jobs -> Statuses \cup {NoRow}]
  /\ archives \in [Jobs -> Results \cup {NoRow}]
  /\ old \in SUBSET Jobs
  /\ cache \in [Jobs -> Statuses \cup {NoStatus}]

StoreInit ==
  /\ jobs = [j \in Jobs |-> NoRow]
  /\ archives = [j \in Jobs |-> NoRow]
  /\ old = {}
  /\ cache = [j \in Jobs |-> NoStatus]

Applied(o) == o # "fail"
Failed(o)  == o # "ok"

InMemory == StorageType = "in_memory"

-----------------------------------------------------------------------------
(* The storage                                                             *)

\* MUTANT: the job is built without its Status.
StoreJobNoStatus(j, o) ==
  jobs' = IF Applied(o) THEN [jobs EXCEPT ![j] = NoStatus] ELSE jobs

\* INSERT INTO jobs; the id is new, so the primary key cannot clash.
StoreJob(j, o) ==
  jobs' = IF Applied(o) THEN [jobs EXCEPT ![j] = "processing"] ELSE jobs

\* MUTANT: an upsert.
UpsertJob(j, s, o) ==
  jobs' = IF Applied(o) THEN [jobs EXCEPT ![j] = s] ELSE jobs

\* UPDATE jobs ... WHERE id: no error when the row is gone.
UpdateJob(j, s, o) ==
  jobs' = IF Applied(o) /\ jobs[j] # NoRow THEN [jobs EXCEPT ![j] = s] ELSE jobs

\* In memory a job that is gone is an error.
MemoryUpdateResults(j) == IF jobs[j] = NoRow THEN {"fail"} ELSE {"ok"}

UpdateResults(j) == IF InMemory THEN MemoryUpdateResults(j) ELSE StorageOutcomes

\* SELECT status: a row, or an error, which is no row (pgx.ErrNoRows) or a fault.
SelectStatusHits(j)  == jobs[j] # NoRow /\ "ok" \in StorageOutcomes
SelectStatusFails(j) == jobs[j] = NoRow \/ StorageOutcomes # {"ok"}

\* The entry of a job holds its result as well, empty until there is one.
MemoryHasArchive(j) == jobs[j] # NoRow

\* SELECT ... FROM archives JOIN jobs: a row only if both tables have one.
HasArchive(j) == IF InMemory THEN MemoryHasArchive(j) ELSE archives[j] # NoRow

\* How the transaction of SaveResponse can end.  Without the jobs row the
\* foreign key refuses the INSERT, with an archives row the UNIQUE job_id does.
\* "uncommitted": COMMIT failed and the row is not there, yet the method only
\* logs and returns nil.  (A COMMIT that failed after taking effect is "ok".)
PostgresSaveResults(j) ==
  IF jobs[j] = NoRow \/ archives[j] # NoRow THEN {"fail"} ELSE SaveOutcomes

\* In memory the result goes into the entry of the job, over one that is there.
\* (Its status is set on a copy of the argument and so stays as it is.)
MemorySaveResults(j) == IF jobs[j] = NoRow THEN {"fail"} ELSE {"ok"}

SaveResults(j) == IF InMemory THEN MemorySaveResults(j) ELSE PostgresSaveResults(j)

SaveResponse(j, row, o) ==
  archives' = IF o = "ok" THEN [archives EXCEPT ![j] = row] ELSE archives

\* The row of j passes the age that the clean-up deletes.
GrowOld(j) ==
  /\ jobs[j] # NoRow
  /\ j \notin old
  /\ old' = old \cup {j}
  /\ UNCHANGED <<jobs, archives, cache>>

\* MUTANT: only jobs with a final status are deleted.
CleanUpFinal ==
  /\ \E j \in old : jobs[j] \in Final
  /\ jobs' = [j \in Jobs |-> IF j \in old /\ jobs[j] \in Final THEN NoRow ELSE jobs[j]]
  /\ archives' = [j \in Jobs |-> IF j \in old /\ jobs[j] \in Final THEN NoRow ELSE archives[j]]
  /\ old' = {j \in old : jobs[j] \notin Final}
  /\ UNCHANGED cache

\* One tick of cleanUpLoop: the old jobs go and, ON DELETE CASCADE, their
\* archives.  The cache is not told.  A tick that fails changes no row.
CleanUp ==
  /\ old # {}
  /\ jobs' = [j \in Jobs |-> IF j \in old THEN NoRow ELSE jobs[j]]
  /\ archives' = [j \in Jobs |-> IF j \in old THEN NoRow ELSE archives[j]]
  /\ old' = {}
  /\ UNCHANGED cache

\* A new process finds the tables as they were, or two empty maps.
Restart ==
  /\ IF InMemory
     THEN /\ jobs' = [j \in Jobs |-> NoRow]
          /\ archives' = [j \in Jobs |-> NoRow]
          /\ old' = {}
     ELSE UNCHANGED <<jobs, archives, old>>
  /\ UNCHANGED cache

-----------------------------------------------------------------------------
(* Redis                                                                   *)

SetJobStatus(j, s, o) ==
  cache' = IF Applied(o) THEN [cache EXCEPT ![j] = s] ELSE cache

\* GetJobStatus returns the value, or an error: no key (redis.Nil) or a fault.
GetJobStatusHits(j)  == cache[j] # NoStatus /\ "ok" \in CacheOutcomes
GetJobStatusFails(j) == cache[j] = NoStatus \/ CacheOutcomes # {"ok"}

\* jobStatusTTL runs out, or Redis loses the key.
CacheExpire(j) ==
  /\ cache[j] # NoStatus
  /\ cache' = [cache EXCEPT ![j] = NoStatus]
  /\ UNCHANGED <<jobs, archives, old>>
=============================================================================
