---------------------------- MODULE StatusService ----------------------------
(***************************************************************************)
(* The half of service.Generator that both implementations have in common, *)
(* line for line: CheckJobStatus (Redis first, PostgreSQL on any cache     *)
(* error, then the cache is filled), GetArchive and GetArchiveInfo.        *)
(*                                                                         *)
(* A Reader is a slot for one HTTP request for a status; between two of    *)
(* its calls any other request or goroutine can run.                       *)
(***************************************************************************)
EXTENDS JobStore

CONSTANTS Readers, NoJob

ASSUME NoJobAssumption == NoJob \notin Jobs

VARIABLES
  accepted, \* ids handed out by BulkGenerate, so the ones clients ask about
  asked,    \* the job a request in flight is about, NoJob if it is idle
  seen,     \* the status that request has read from PostgreSQL so far
  told      \* the last status a client was given for each job

readVars == <<accepted, asked, seen, told>>

ReadTypeOK ==
  /\ accepted \in SUBSET Jobs
  /\ asked \in [Readers -> Jobs \cup {NoJob}]
  /\ seen \in [Readers -> Statuses \cup {NoStatus}]
  /\ told \in [Jobs -> Statuses \cup {NoStatus}]

ReadInit ==
  /\ accepted = {}
  /\ asked = [r \in Readers |-> NoJob]
  /\ seen = [r \in Readers |-> NoStatus]
  /\ told = [j \in Jobs |-> NoStatus]

Reply(j, s) == told' = [told EXCEPT ![j] = s]

Hangup(r) ==
  /\ asked' = [asked EXCEPT ![r] = NoJob]
  /\ seen' = [seen EXCEPT ![r] = NoStatus]

-----------------------------------------------------------------------------
\* The cache answers: its value is the reply.
CheckJobStatusHit(r, j) ==
  /\ asked[r] = NoJob
  /\ j \in accepted
  /\ GetJobStatusHits(j)
  /\ Reply(j, cache[j])
  /\ UNCHANGED <<storeVars, accepted, asked, seen>>

\* The cache gives an error of any kind: the database is asked next.
CheckJobStatusMiss(r, j) ==
  /\ asked[r] = NoJob
  /\ j \in accepted
  /\ GetJobStatusFails(j)
  /\ asked' = [asked EXCEPT ![r] = j]
  /\ UNCHANGED <<storeVars, accepted, seen, told>>

\* MUTANT: the StatusFailed that is returned next to an error is kept.
CheckJobStatusLoadFailed(r) ==
  /\ asked[r] # NoJob
  /\ seen[r] = NoStatus
  /\ \/ /\ SelectStatusHits(asked[r])
        /\ seen' = [seen EXCEPT ![r] = jobs[asked[r]]]
     \/ /\ SelectStatusFails(asked[r])
        /\ seen' = [seen EXCEPT ![r] = "failed"]
  /\ UNCHANGED <<storeVars, accepted, asked, told>>

\* SELECT status FROM jobs; no row, or a fault, ends the request in an error.
CheckJobStatusLoad(r) ==
  /\ asked[r] # NoJob
  /\ seen[r] = NoStatus
  /\ \/ /\ SelectStatusHits(asked[r])
        /\ seen' = [seen EXCEPT ![r] = jobs[asked[r]]]
        /\ UNCHANGED asked
     \/ /\ SelectStatusFails(asked[r])
        /\ Hangup(r)
  /\ UNCHANGED <<storeVars, accepted, told>>

\* The status read a while ago is written to the cache, over whatever is there
\* by now, and returned whether or not the write worked.
CheckJobStatusFill(r) ==
  /\ seen[r] # NoStatus
  /\ \E o \in CacheOutcomes : SetJobStatus(asked[r], seen[r], o)
  /\ Reply(asked[r], seen[r])
  /\ Hangup(r)
  /\ UNCHANGED <<jobs, archives, old, accepted>>

-----------------------------------------------------------------------------
\* What GetArchive answers when the database does.  Status and archive come from
\* one SELECT, so a job without a row in archives is "not found" whatever its
\* status.
GetArchive(j) ==
  IF ~HasArchive(j) THEN "ErrNotFound"
  ELSE IF jobs[j] # "completed"
       THEN IF archives[j] = "fatal" THEN "ErrInternal" ELSE "ErrJobNotFinished"
       ELSE IF archives[j] = "zip" THEN "archive" ELSE "ErrNotFound"

\* GetArchiveInfo has the same tests but the last: a NULL archive is no error.
GetArchiveInfo(j) ==
  IF HasArchive(j) /\ jobs[j] = "completed" THEN "info" ELSE GetArchive(j)
=============================================================================
