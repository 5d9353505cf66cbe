------------------------ MODULE QueueGeneratorProofs ------------------------
(***************************************************************************)
(* Theorems about QueueGenerator, for every set of jobs and of readers,    *)
(* every combination of faults, either storage and any number of deaths.   *)
(***************************************************************************)
EXTENDS QueueGenerator, FiniteSetTheorems, TLAPS

\* What the proofs need of the words for statuses and rows.
LEMMA Words ==
  /\ "processing" \in Statuses /\ Final \subseteq Statuses
  /\ "completed" \in Final /\ "failed" \in Final /\ "processing" \notin Final
  /\ NoStatus \notin Statuses /\ NoRow \notin Statuses /\ NoRow \notin Results
  /\ \A s \in Statuses : s = "processing" \/ s \in Final
  /\ \A s \in Final : s = "completed" \/ s = "failed"
BY DEF Statuses, Final, NoStatus, NoRow, Results

\* A restart leaves the tables alone or finds them empty.
LEMMA RestartCases ==
  ASSUME Restart
  PROVE  /\ cache' = cache
         /\ \/ ~InMemory /\ UNCHANGED <<jobs, archives, old>>
            \/ /\ InMemory
               /\ jobs' = [j \in Jobs |-> NoRow]
               /\ archives' = [j \in Jobs |-> NoRow]
               /\ old' = {}
BY DEF Restart

-----------------------------------------------------------------------------
(* Types.  TypeOK is not inductive: the worker writes its verdict, which   *)
(* must be there by then, and a request writes what it has read.           *)

PCs == {"new", "sent", "rejected", "dead"} \cup Active

SlotInv == \A r \in Readers : seen[r] # NoStatus => asked[r] \in Jobs

HeldInv == \A j \in Jobs : worker[j] \in {"saved", "updated"} => verdict[j] \in Final

TypeInv == TypeOK /\ SlotInv /\ HeldInv

LEMMA TypeInit == Init => TypeInv
<1> SUFFICES ASSUME Init PROVE TypeInv
  OBVIOUS
<1>1. StoreTypeOK
  BY DEF Init, StoreInit, StoreTypeOK
<1>2. ReadTypeOK
  BY DEF Init, ReadInit, ReadTypeOK
<1>3. TypeOK
  BY <1>1, <1>2 DEF Init, TypeOK
<1>4. SlotInv /\ HeldInv
  BY DEF Init, ReadInit, SlotInv, HeldInv
<1> QED BY <1>3, <1>4 DEF TypeInv

LEMMA TypeStep == TypeInv /\ [Next]_vars => TypeInv'
<1> SUFFICES ASSUME TypeInv, [Next]_vars PROVE TypeInv'
  OBVIOUS
<1> USE Words DEF TypeInv, TypeOK, Goto
<1>1. ASSUME NEW j \in Jobs, Submit(j) PROVE TypeInv'
  <2>1. jobs' \in [Jobs -> Statuses \cup {NoRow}]
    BY <1>1 DEF Submit, StoreJob, StoreTypeOK
  <2>2. pc' \in [Jobs -> PCs]
    BY <1>1 DEF Submit, PCs, Active
  <2>3. TypeOK'
    BY <1>1, <2>1, <2>2 DEF Submit, StoreTypeOK, ReadTypeOK, readVars, PCs
  <2> QED BY <1>1, <2>3 DEF Submit, HeldInv, SlotInv, readVars
<1>2. ASSUME NEW j \in Jobs, Cache(j) PROVE TypeInv'
  <2>1. cache' \in [Jobs -> Statuses \cup {NoStatus}]
    BY <1>2 DEF Cache, SetJobStatus, StoreTypeOK
  <2>2. pc' \in [Jobs -> PCs]
    BY <1>2 DEF Cache, PCs, Active
  <2>3. TypeOK'
    BY <1>2, <2>1, <2>2 DEF Cache, StoreTypeOK, ReadTypeOK, readVars, PCs
  <2> QED BY <1>2, <2>3 DEF Cache, HeldInv, SlotInv, readVars
<1>3. ASSUME NEW j \in Jobs, SaveRaw(j) PROVE TypeInv'
  <2>1. inputs' \in SUBSET Jobs
    BY <1>3 DEF SaveRaw, SaveRawArchive
  <2>2. pc' \in [Jobs -> PCs]
    BY <1>3 DEF SaveRaw, PCs, Active
  <2>3. TypeOK'
    BY <1>3, <2>1, <2>2 DEF SaveRaw, StoreTypeOK, ReadTypeOK, storeVars, readVars, PCs
  <2> QED BY <1>3, <2>3 DEF SaveRaw, HeldInv, SlotInv, readVars
<1>4. ASSUME NEW j \in Jobs, Send(j) PROVE TypeInv'
  <2>1. queue' \in SUBSET Jobs /\ dropped' \in SUBSET Jobs /\ accepted' \in SUBSET Jobs
    BY <1>4 DEF Send, Publish, ReadTypeOK
  <2>2. pc' \in [Jobs -> PCs]
    BY <1>4 DEF Send, PCs, Active
  <2>3. TypeOK'
    BY <1>4, <2>1, <2>2 DEF Send, StoreTypeOK, ReadTypeOK, storeVars, PCs
  <2> QED BY <1>4, <2>3 DEF Send, HeldInv, SlotInv
<1>5. ASSUME NEW j \in Jobs, WorkerTake(j) PROVE TypeInv'
  <2>1. TypeOK'
    BY <1>5 DEF WorkerTake, StoreTypeOK, ReadTypeOK, storeVars, readVars
  <2> QED BY <1>5, <2>1 DEF WorkerTake, HeldInv, SlotInv, readVars
<1>6. ASSUME NEW j \in Jobs, WorkerSave(j) PROVE TypeInv'
  <2>1. archives' \in [Jobs -> Results \cup {NoRow}]
    BY <1>6, QueueAssumption DEF WorkerSave, StoreTypeOK
  <2>2. verdict' \in [Jobs -> Final \cup {NoStatus}]
    BY <1>6 DEF WorkerSave
  <2>3. TypeOK'
    BY <1>6, <2>1, <2>2 DEF WorkerSave, StoreTypeOK, ReadTypeOK, readVars
  <2>4. HeldInv'
    BY <1>6 DEF WorkerSave, HeldInv
  <2> QED BY <1>6, <2>3, <2>4 DEF WorkerSave, SlotInv, readVars
<1>7. ASSUME NEW j \in Jobs, WorkerUpdate(j) PROVE TypeInv'
  <2>1. jobs' \in [Jobs -> Statuses \cup {NoRow}]
    BY <1>7 DEF WorkerUpdate, UpdateJob, StoreTypeOK, HeldInv
  <2>2. TypeOK'
    BY <1>7, <2>1 DEF WorkerUpdate, StoreTypeOK, ReadTypeOK, readVars
  <2> QED BY <1>7, <2>2 DEF WorkerUpdate, HeldInv, SlotInv, readVars
<1>8. ASSUME NEW j \in Jobs, WorkerAnnounce(j) PROVE TypeInv'
  <2>1. cache' \in [Jobs -> Statuses \cup {NoStatus}]
    BY <1>8 DEF WorkerAnnounce, SetJobStatus, StoreTypeOK, HeldInv
  <2>2. TypeOK'
    BY <1>8, <2>1 DEF WorkerAnnounce, StoreTypeOK, ReadTypeOK, readVars
  <2> QED BY <1>8, <2>2 DEF WorkerAnnounce, HeldInv, SlotInv, readVars
<1>9. ASSUME NEW j \in Jobs, WorkerCrash(j) PROVE TypeInv'
  <2>1. TypeOK'
    BY <1>9 DEF WorkerCrash, StoreTypeOK, ReadTypeOK, storeVars, readVars
  <2> QED BY <1>9, <2>1 DEF WorkerCrash, HeldInv, SlotInv, readVars
<1>10. ASSUME NEW j \in Jobs, Age(j) \/ Forget(j) PROVE TypeInv'
  BY <1>10 DEF Age, GrowOld, Forget, CacheExpire, StoreTypeOK, ReadTypeOK, HeldInv, SlotInv,
               readVars, jobVars
<1>11. ASSUME NEW r \in Readers, Check(r) PROVE TypeInv'
  <2>1. UNCHANGED <<pc, inputs, queue, worker, verdict, dropped, crashes>> /\ HeldInv'
    BY <1>11 DEF Check, jobVars, HeldInv
  <2>2. ASSUME NEW j \in Jobs, CheckJobStatusHit(r, j) PROVE TypeInv'
    BY <2>1, <2>2 DEF CheckJobStatusHit, GetJobStatusHits, Reply, StoreTypeOK, ReadTypeOK,
                      SlotInv, storeVars
  <2>3. ASSUME NEW j \in Jobs, CheckJobStatusMiss(r, j) PROVE TypeInv'
    BY <2>1, <2>3 DEF CheckJobStatusMiss, StoreTypeOK, ReadTypeOK, SlotInv, storeVars
  <2>4. ASSUME CheckJobStatusLoad(r) PROVE TypeInv'
    <3>1. asked[r] \in Jobs
      BY <2>4 DEF CheckJobStatusLoad, ReadTypeOK
    <3> QED BY <2>1, <2>4, <3>1 DEF CheckJobStatusLoad, SelectStatusHits, Hangup, StoreTypeOK,
                                    ReadTypeOK, SlotInv, storeVars
  <2>5. ASSUME CheckJobStatusFill(r) PROVE TypeInv'
    <3>1. asked[r] \in Jobs /\ seen[r] \in Statuses
      BY <2>5 DEF CheckJobStatusFill, SlotInv, ReadTypeOK
    <3>2. StoreTypeOK'
      BY <2>5, <3>1 DEF CheckJobStatusFill, SetJobStatus, StoreTypeOK
    <3>3. ReadTypeOK' /\ SlotInv'
      BY <2>5, <3>1 DEF CheckJobStatusFill, Reply, Hangup, ReadTypeOK, SlotInv
    <3> QED BY <2>1, <3>2, <3>3
  <2> QED BY <1>11, <2>2, <2>3, <2>4, <2>5 DEF Check
<1>12. ASSUME Tick PROVE TypeInv'
  BY <1>12 DEF Tick, CleanUp, StoreTypeOK, ReadTypeOK, HeldInv, SlotInv, readVars
<1>13. ASSUME Crash PROVE TypeInv'
  <2>1. pc' \in [Jobs -> PCs]
    BY <1>13 DEF Crash, PCs
  <2>2. StoreTypeOK'
    BY <1>13, RestartCases DEF Crash, StoreTypeOK
  <2>3. TypeOK'
    BY <1>13, <2>1, <2>2 DEF Crash, ReadTypeOK, PCs
  <2> QED BY <1>13, <2>3 DEF Crash, HeldInv, SlotInv
<1>14. CASE UNCHANGED vars
  BY <1>14 DEF vars, storeVars, readVars, jobVars, StoreTypeOK, ReadTypeOK, HeldInv, SlotInv
<1> QED
  BY <1>1, <1>2, <1>3, <1>4, <1>5, <1>6, <1>7, <1>8, <1>9, <1>10, <1>11, <1>12, <1>13, <1>14
     DEF Next, Handle, Work

\* Every variable stays in its type; in particular neither the submission nor the worker
\* writes a status that the CHECK constraint of jobs.status would refuse.
THEOREM TypeCorrect == Spec => []TypeOK
<1>1. TypeInv => TypeOK
  BY DEF TypeInv
<1> QED BY <1>1, TypeInit, TypeStep, PTL DEF Spec

-----------------------------------------------------------------------------
(* A job on its way from the request to the worker and back to the tables  *)

\* The message of j is in the queue or with the worker.
Given(j) == j \in queue \/ worker[j] # "idle"

\* s is the status that goes with the result of j.
Fits(j, s) == archives[j] # NoRow /\ (s = "completed" <=> archives[j] \in {"zip", "empty"})

\* Nothing is handed over, and no id given away, before Send.
SubmitInv ==
  \A j \in Jobs :
    /\ pc[j] \in {"new", "stored", "cached", "input"} => ~Given(j)
    /\ pc[j] = "new" => jobs[j] = NoRow
    /\ j \in accepted => pc[j] = "sent"

\* The input archive is there from before Send until the job is deleted.
InputInv ==
  /\ InMemory => inputs = {}
  /\ \A j \in Jobs :
       /\ j \in inputs => jobs[j] # NoRow
       /\ pc[j] = "input" \/ Given(j) => j \in inputs \/ jobs[j] = NoRow

\* Whatever has been delivered before, a verdict goes with the one result.
ResultInv ==
  \A j \in Jobs :
    /\ jobs[j] \in Final => Fits(j, jobs[j])
    /\ worker[j] \in {"saved", "updated"} /\ jobs[j] # NoRow => Fits(j, verdict[j])
    /\ worker[j] = "updated" => jobs[j] # "processing"

IInv == TypeInv /\ SubmitInv /\ InputInv /\ ResultInv /\ AcceptedIsUnderWay

LEMMA InvInit == Init => IInv
<1> SUFFICES ASSUME Init PROVE IInv
  OBVIOUS
<1>1. TypeInv
  BY TypeInit
<1>2. SubmitInv /\ InputInv /\ ResultInv /\ AcceptedIsUnderWay
  BY Words DEF Init, StoreInit, ReadInit, SubmitInv, InputInv, ResultInv, Given, AcceptedIsUnderWay
<1> QED BY <1>1, <1>2 DEF IInv

\* The steps that none of the parts of IInv but TypeInv can see.
LEMMA Bystanders ==
  ASSUME \/ \E j \in Jobs : Age(j) \/ Forget(j)
         \/ \E r \in Readers : Check(r)
         \/ UNCHANGED vars
  PROVE  UNCHANGED <<jobs, archives, accepted, jobVars>>
BY DEF Age, GrowOld, Forget, CacheExpire, Check, CheckJobStatusHit, CheckJobStatusMiss,
       CheckJobStatusLoad, CheckJobStatusFill, vars, storeVars, readVars, jobVars

\* The steps of the process that the tables, the queue and the worker do not depend on.
LEMMA StepCases ==
  ASSUME [Next]_vars
  PROVE  \/ \E j \in Jobs : \/ Submit(j) \/ Cache(j) \/ SaveRaw(j) \/ Send(j)
                            \/ WorkerTake(j) \/ WorkerSave(j) \/ WorkerUpdate(j)
                            \/ WorkerAnnounce(j) \/ WorkerCrash(j)
         \/ Tick \/ Crash
         \/ UNCHANGED <<jobs, archives, accepted, jobVars>>
BY Bystanders DEF Next, Handle, Work

LEMMA SubmitStep == IInv /\ [Next]_vars => SubmitInv'
<1> SUFFICES ASSUME IInv, [Next]_vars PROVE SubmitInv'
  OBVIOUS
<1> USE Words DEF IInv, TypeInv, TypeOK, Goto, SubmitInv, Given
<1>1. ASSUME NEW j \in Jobs, Submit(j) PROVE SubmitInv'
  BY <1>1 DEF Submit, StoreJob, StoreTypeOK, readVars
<1>2. ASSUME NEW j \in Jobs, Cache(j) \/ SaveRaw(j) PROVE SubmitInv'
  BY <1>2 DEF Cache, SaveRaw, storeVars, readVars
<1>3. ASSUME NEW j \in Jobs, Send(j) PROVE SubmitInv'
  BY <1>3 DEF Send, Publish, storeVars
<1>4. ASSUME NEW j \in Jobs, WorkerTake(j) PROVE SubmitInv'
  BY <1>4 DEF WorkerTake, storeVars, readVars
<1>5. ASSUME NEW j \in Jobs, WorkerSave(j) PROVE SubmitInv'
  BY <1>5 DEF WorkerSave, readVars
<1>6. ASSUME NEW j \in Jobs, WorkerUpdate(j) PROVE SubmitInv'
  BY <1>6 DEF WorkerUpdate, UpdateJob, StoreTypeOK, readVars
<1>7. ASSUME NEW j \in Jobs, WorkerAnnounce(j) PROVE SubmitInv'
  BY <1>7 DEF WorkerAnnounce, readVars
<1>8. ASSUME NEW j \in Jobs, WorkerCrash(j) PROVE SubmitInv'
  BY <1>8 DEF WorkerCrash, storeVars, readVars
<1>9. ASSUME Tick PROVE SubmitInv'
  BY <1>9 DEF Tick, CleanUp, readVars
<1>10. ASSUME Crash PROVE SubmitInv'
  BY <1>10, RestartCases DEF Crash, Active
<1>11. ASSUME UNCHANGED <<jobs, archives, accepted, jobVars>> PROVE SubmitInv'
  BY <1>11 DEF jobVars
<1> QED
  BY <1>1, <1>2, <1>3, <1>4, <1>5, <1>6, <1>7, <1>8, <1>9, <1>10, <1>11, StepCases

LEMMA InputStep == IInv /\ [Next]_vars => InputInv'
<1> SUFFICES ASSUME IInv, [Next]_vars PROVE InputInv'
  OBVIOUS
<1> USE Words DEF IInv, TypeInv, TypeOK, Goto, InputInv, Given
<1>1. ASSUME NEW j \in Jobs, Submit(j) PROVE InputInv'
  BY <1>1 DEF Submit, StoreJob, StoreTypeOK, SubmitInv
<1>2. ASSUME NEW j \in Jobs, Cache(j) PROVE InputInv'
  BY <1>2 DEF Cache
<1>3. ASSUME NEW j \in Jobs, SaveRaw(j) PROVE InputInv'
  <2>1. PICK o \in IF InMemory \/ jobs[j] = NoRow THEN {"fail"} ELSE StorageOutcomes :
          SaveRawArchive(j, o) /\ Goto(j, IF Failed(o) THEN "rejected" ELSE "input")
    BY <1>3 DEF SaveRaw
  <2>2. UNCHANGED <<jobs, queue, worker>>
    BY <1>3 DEF SaveRaw, storeVars
  <2>3. CASE InMemory \/ jobs[j] = NoRow
    <3>1. inputs' = inputs /\ pc' = [pc EXCEPT ![j] = "rejected"]
      BY <2>1, <2>3 DEF SaveRawArchive, Applied, Failed
    <3> QED BY <2>2, <3>1
  <2>4. CASE ~InMemory /\ jobs[j] # NoRow
    BY <2>1, <2>2, <2>4 DEF SaveRawArchive, Applied, Failed
  <2> QED BY <2>3, <2>4
<1>4. ASSUME NEW j \in Jobs, Send(j) PROVE InputInv'
  BY <1>4 DEF Send, Publish, storeVars
<1>5. ASSUME NEW j \in Jobs, WorkerTake(j) PROVE InputInv'
  BY <1>5 DEF WorkerTake, storeVars
<1>6. ASSUME NEW j \in Jobs, WorkerSave(j) PROVE InputInv'
  BY <1>6 DEF WorkerSave
<1>7. ASSUME NEW j \in Jobs, WorkerUpdate(j) PROVE InputInv'
  BY <1>7 DEF WorkerUpdate, UpdateJob, StoreTypeOK, HeldInv
<1>8. ASSUME NEW j \in Jobs, WorkerAnnounce(j) PROVE InputInv'
  BY <1>8 DEF WorkerAnnounce
<1>9. ASSUME NEW j \in Jobs, WorkerCrash(j) PROVE InputInv'
  BY <1>9 DEF WorkerCrash, storeVars
<1>10. ASSUME Tick PROVE InputInv'
  BY <1>10 DEF Tick, CleanUp
<1>11. ASSUME Crash PROVE InputInv'
  BY <1>11, RestartCases DEF Crash, Active
<1>12. ASSUME UNCHANGED <<jobs, archives, accepted, jobVars>> PROVE InputInv'
  BY <1>12 DEF jobVars
<1> QED
  BY <1>1, <1>2, <1>3, <1>4, <1>5, <1>6, <1>7, <1>8, <1>9, <1>10, <1>11, <1>12, StepCases

LEMMA ResultStep == IInv /\ [Next]_vars => ResultInv'
<1> SUFFICES ASSUME IInv, [Next]_vars PROVE ResultInv'
  OBVIOUS
<1> USE Words DEF IInv, TypeInv, TypeOK, Goto, ResultInv, Fits
<1>1. ASSUME NEW j \in Jobs, Submit(j) PROVE ResultInv'
  BY <1>1 DEF Submit, StoreJob, StoreTypeOK, SubmitInv, Given
<1>2. ASSUME NEW j \in Jobs, Cache(j) \/ SaveRaw(j) \/ Send(j) \/ WorkerTake(j) PROVE ResultInv'
  BY <1>2 DEF Cache, SaveRaw, Send, WorkerTake, storeVars
<1>3. ASSUME NEW j \in Jobs, WorkerSave(j) PROVE ResultInv'
  <2>1. /\ worker' = [worker EXCEPT ![j] = "saved"] /\ jobs' = jobs
        /\ verdict' = [verdict EXCEPT ![j] =
                         IF archives'[j] \in {"zip", "empty"} THEN "completed" ELSE "failed"]
    BY <1>3 DEF WorkerSave
  <2>2. archives' \in [Jobs -> Results \cup {NoRow}]
    BY <1>3, QueueAssumption DEF WorkerSave, StoreTypeOK
  <2>3. \A k \in Jobs : k # j \/ archives[k] # NoRow => archives'[k] = archives[k]
    BY <1>3 DEF WorkerSave, StoreTypeOK
  <2>4. ASSUME jobs[j] # NoRow PROVE archives'[j] # NoRow
    <3>1. j \in inputs
      BY <1>3, <2>4 DEF WorkerSave, InputInv, Given
    <3> QED BY <1>3, <3>1, QueueAssumption DEF WorkerSave, StoreTypeOK
  <2>5. ASSUME NEW k \in Jobs, k # j
        PROVE  /\ jobs'[k] \in Final => Fits(k, jobs[k])'
               /\ worker'[k] \in {"saved", "updated"} /\ jobs'[k] # NoRow => Fits(k, verdict[k])'
               /\ worker'[k] = "updated" => jobs'[k] # "processing"
    BY <2>1, <2>3, <2>5
  <2>6. /\ jobs'[j] \in Final => Fits(j, jobs[j])'
        /\ worker'[j] \in {"saved", "updated"} /\ jobs'[j] # NoRow => Fits(j, verdict[j])'
        /\ worker'[j] = "updated" => jobs'[j] # "processing"
    BY <2>1, <2>3, <2>4
  <2> QED BY <2>5, <2>6
<1>4. ASSUME NEW j \in Jobs, WorkerUpdate(j) PROVE ResultInv'
  BY <1>4 DEF WorkerUpdate, UpdateJob, StoreTypeOK, HeldInv, Applied
<1>5. ASSUME NEW j \in Jobs, WorkerAnnounce(j) PROVE ResultInv'
  BY <1>5 DEF WorkerAnnounce
<1>6. ASSUME NEW j \in Jobs, WorkerCrash(j) PROVE ResultInv'
  BY <1>6 DEF WorkerCrash, storeVars
<1>7. ASSUME Tick PROVE ResultInv'
  BY <1>7 DEF Tick, CleanUp
<1>8. ASSUME Crash PROVE ResultInv'
  BY <1>8, RestartCases DEF Crash
<1>9. ASSUME UNCHANGED <<jobs, archives, accepted, jobVars>> PROVE ResultInv'
  BY <1>9 DEF jobVars
<1> QED
  BY <1>1, <1>2, <1>3, <1>4, <1>5, <1>6, <1>7, <1>8, <1>9, StepCases

LEMMA UnderWayStep == IInv /\ [Next]_vars => AcceptedIsUnderWay'
<1> SUFFICES ASSUME IInv, [Next]_vars PROVE AcceptedIsUnderWay'
  OBVIOUS
<1> USE Words DEF IInv, TypeInv, TypeOK, ReadTypeOK, Goto, AcceptedIsUnderWay, UnderWay
<1>1. ASSUME NEW j \in Jobs, Submit(j) PROVE AcceptedIsUnderWay'
  BY <1>1 DEF Submit, StoreJob, StoreTypeOK, SubmitInv, readVars
<1>2. ASSUME NEW j \in Jobs, Cache(j) \/ SaveRaw(j) PROVE AcceptedIsUnderWay'
  BY <1>2 DEF Cache, SaveRaw, storeVars, readVars, SubmitInv
<1>3. ASSUME NEW j \in Jobs, Send(j) PROVE AcceptedIsUnderWay'
  BY <1>3 DEF Send, Publish, storeVars, SubmitInv
<1>4. ASSUME NEW j \in Jobs, WorkerTake(j) PROVE AcceptedIsUnderWay'
  BY <1>4 DEF WorkerTake, storeVars, readVars
<1>5. ASSUME NEW j \in Jobs, WorkerSave(j) PROVE AcceptedIsUnderWay'
  BY <1>5 DEF WorkerSave, readVars
<1>6. ASSUME NEW j \in Jobs, WorkerUpdate(j) PROVE AcceptedIsUnderWay'
  BY <1>6 DEF WorkerUpdate, UpdateJob, StoreTypeOK, readVars
<1>7. ASSUME NEW j \in Jobs, WorkerAnnounce(j) PROVE AcceptedIsUnderWay'
  BY <1>7 DEF WorkerAnnounce, readVars, ResultInv
<1>8. ASSUME NEW j \in Jobs, WorkerCrash(j) PROVE AcceptedIsUnderWay'
  BY <1>8 DEF WorkerCrash, storeVars, readVars
<1>9. ASSUME Tick PROVE AcceptedIsUnderWay'
  BY <1>9 DEF Tick, CleanUp, readVars
<1>10. ASSUME Crash PROVE AcceptedIsUnderWay'
  <2>1. \A j \in accepted : pc[j] = "sent" /\ pc[j] \notin Active
    BY DEF SubmitInv, Active
  <2> QED BY <1>10, <2>1, RestartCases DEF Crash
<1>11. ASSUME UNCHANGED <<jobs, archives, accepted, jobVars>> PROVE AcceptedIsUnderWay'
  BY <1>11 DEF jobVars
<1> QED
  BY <1>1, <1>2, <1>3, <1>4, <1>5, <1>6, <1>7, <1>8, <1>9, <1>10, <1>11, StepCases

\* The inductive invariant: how far a submission is, where its input archive and its
\* message are, and which status goes with which result.
THEOREM Invariance == Spec => []IInv
<1>1. IInv /\ [Next]_vars => IInv'
  BY TypeStep, SubmitStep, InputStep, ResultStep, UnderWayStep DEF IInv
<1> QED BY <1>1, InvInit, PTL DEF Spec

\* Whoever takes a message finds the input archive, or a job that was cleaned up.
THEOREM InputIsThere == Spec => []InputBeforeMessage
<1>1. IInv => InputBeforeMessage
  BY DEF IInv, InputInv, Given, InputBeforeMessage
<1> QED BY <1>1, Invariance, PTL

\* While an accepted job is "processing", a message or the worker stands for it, unless
\* the broker lost the message.
THEOREM NobodyIsForgotten == Spec => []AcceptedIsUnderWay
<1>1. IInv => AcceptedIsUnderWay
  BY DEF IInv
<1> QED BY <1>1, Invariance, PTL

-----------------------------------------------------------------------------
(* As main wires it (BootProofs, ServesWithoutClients), the channel to      *)
(* RabbitMQ is closed and every Publish returns an error.                   *)

\* With a channel that is closed before the first request nobody gets an id, no message is
\* sent, and a job that was stored stays "processing" until its row expires.
NothingSent ==
  /\ accepted = {} /\ queue = {}
  /\ \A j \in Jobs : worker[j] = "idle" /\ jobs[j] \in {"processing", NoRow}

THEOREM ClosedChannelAcceptsNobody ==
  ASSUME SendOutcomes \subseteq {"fail"}
  PROVE  Spec => []NothingSent
<1>1. Init => NothingSent
  BY DEF Init, StoreInit, ReadInit, NothingSent
<1>2. TypeInv /\ NothingSent /\ [Next]_vars => NothingSent'
  <2> SUFFICES ASSUME TypeInv, NothingSent, [Next]_vars PROVE NothingSent'
    OBVIOUS
  <2> USE DEF TypeInv, TypeOK, NothingSent
  <2>1. ASSUME NEW j \in Jobs, Submit(j) PROVE NothingSent'
    BY <2>1 DEF Submit, StoreJob, StoreTypeOK, readVars
  <2>2. ASSUME NEW j \in Jobs, Cache(j) \/ SaveRaw(j) PROVE NothingSent'
    BY <2>2 DEF Cache, SaveRaw, storeVars, readVars
  <2>3. ASSUME NEW j \in Jobs, Send(j) PROVE NothingSent'
    BY <2>3 DEF Send, Publish, storeVars
  <2>4. ASSUME NEW j \in Jobs PROVE ~Work(j) /\ ~WorkerCrash(j)
    BY DEF Work, WorkerTake, WorkerSave, WorkerUpdate, WorkerAnnounce, WorkerCrash
  <2>5. CASE Tick
    BY <2>5 DEF Tick, CleanUp, readVars
  <2>6. CASE Crash
    BY <2>6, RestartCases DEF Crash
  <2>7. CASE UNCHANGED <<jobs, archives, accepted, jobVars>>
    BY <2>7 DEF jobVars
  <2> QED BY <2>1, <2>2, <2>3, <2>4, <2>5, <2>6, <2>7, StepCases DEF Work
<1> QED BY <1>1, <1>2, TypeInit, TypeStep, PTL DEF Spec

-----------------------------------------------------------------------------
(* Refinement                                                              *)

\* The steps after which a reader of the tables cannot tell a difference.
LEMMA Stutter ==
  ASSUME UNCHANGED <<jobs, archives>>, \A k \in Jobs : pc'[k] # "new" <=> pc[k] # "new"
  PROVE  UNCHANGED Lifecycle!vars
BY DEF Lifecycle!vars

LEMMA LifecycleInit == Init => Lifecycle!Init
BY DEF Init, StoreInit, Lifecycle!Init, Lifecycle!NoRow, NoRow

LEMMA LifecycleStep == IInv /\ [Next]_vars => [Lifecycle!Next]_Lifecycle!vars
<1> SUFFICES ASSUME IInv, [Next]_vars PROVE Lifecycle!Next \/ UNCHANGED Lifecycle!vars
  OBVIOUS
<1> USE Words DEF IInv, TypeInv, TypeOK, Goto
<1>1. ASSUME NEW j \in Jobs, Submit(j) PROVE Lifecycle!Issue(j)
  <2>1. pc[j] = "new" /\ archives' = archives /\ \A k \in Jobs : pc'[k] # "new" <=> k = j \/ pc[k] # "new"
    BY <1>1 DEF Submit
  <2>2. jobs' \in {jobs, [jobs EXCEPT ![j] = "processing"]}
    BY <1>1 DEF Submit, StoreJob
  <2> QED BY <2>1, <2>2 DEF Lifecycle!Issue
<1>2. ASSUME NEW j \in Jobs, Cache(j) \/ SaveRaw(j) \/ Send(j) PROVE UNCHANGED Lifecycle!vars
  <2>1. UNCHANGED <<jobs, archives>> /\ \A k \in Jobs : pc'[k] # "new" <=> pc[k] # "new"
    BY <1>2 DEF Cache, SaveRaw, Send, storeVars
  <2> QED BY <2>1, Stutter
<1>3. ASSUME NEW j \in Jobs, WorkerTake(j) \/ WorkerAnnounce(j) \/ WorkerCrash(j)
      PROVE  UNCHANGED Lifecycle!vars
  BY <1>3, Stutter DEF WorkerTake, WorkerAnnounce, WorkerCrash, storeVars
<1>4. ASSUME NEW j \in Jobs, WorkerSave(j) PROVE Lifecycle!Record(j) \/ UNCHANGED Lifecycle!vars
  <2>1. jobs' = jobs /\ pc' = pc /\ worker[j] = "taken"
    BY <1>4 DEF WorkerSave
  <2>2. CASE j \in inputs /\ archives[j] = NoRow
    <3>1. jobs[j] = "processing"
      BY <2>2 DEF InputInv, ResultInv, Fits, StoreTypeOK
    <3>2. PICK r \in RowOutcomes : archives' = [archives EXCEPT ![j] = r]
      BY <1>4, <2>2 DEF WorkerSave
    <3>3. r \in Lifecycle!Generated \cup {Lifecycle!Fatal}
      BY QueueAssumption DEF Results, Lifecycle!Generated, Lifecycle!Fatal
    <3> QED BY <2>1, <2>2, <3>1, <3>2, <3>3 DEF Lifecycle!Record, Lifecycle!NoRow, NoRow
  <2>3. CASE ~(j \in inputs /\ archives[j] = NoRow)
    BY <1>4, <2>1, <2>3, Stutter DEF WorkerSave
  <2> QED BY <2>2, <2>3
<1>5. ASSUME NEW j \in Jobs, WorkerUpdate(j)
      PROVE  Lifecycle!Complete(j) \/ Lifecycle!Fail(j) \/ UNCHANGED Lifecycle!vars
  <2>1. archives' = archives /\ pc' = pc /\ worker[j] = "saved" /\ verdict[j] \in Final
    BY <1>5 DEF WorkerUpdate, HeldInv
  <2>2. CASE jobs[j] = NoRow
    BY <1>5, <2>1, <2>2, Stutter DEF WorkerUpdate, UpdateJob
  <2>3. CASE jobs[j] # NoRow
    <3>1. jobs' = [jobs EXCEPT ![j] = verdict[j]] /\ Fits(j, verdict[j])
      BY <1>5, <2>1, <2>3 DEF WorkerUpdate, UpdateJob, Applied, ResultInv
    <3>2. CASE jobs[j] \in Final
      <4>1. jobs[j] = verdict[j]
        BY <2>1, <3>1, <3>2 DEF ResultInv, Fits
      <4>2. jobs' = jobs
        BY <3>1, <4>1 DEF StoreTypeOK
      <4> QED BY <2>1, <4>2, Stutter
    <3>3. CASE jobs[j] = "processing" /\ verdict[j] = "completed"
      BY <2>1, <3>1, <3>3 DEF Fits, Lifecycle!Complete, Lifecycle!Generated
    <3>4. CASE jobs[j] = "processing" /\ verdict[j] = "failed"
      BY <2>1, <3>1, <3>4 DEF Fits, Lifecycle!Fail, Lifecycle!Generated
    <3>5. jobs[j] \in Final \/ jobs[j] = "processing"
      BY <2>3 DEF StoreTypeOK
    <3> QED BY <2>1, <3>2, <3>3, <3>4, <3>5
  <2> QED BY <2>2, <2>3
<1>6. ASSUME Tick PROVE Lifecycle!Expire(old)
  BY <1>6 DEF Tick, CleanUp, Lifecycle!Expire, Lifecycle!NoRow, NoRow
<1>7. ASSUME Crash PROVE Lifecycle!Expire(Jobs) \/ UNCHANGED Lifecycle!vars
  <2>1. \A k \in Jobs : pc'[k] # "new" <=> pc[k] # "new"
    BY <1>7 DEF Crash, Active
  <2>2. CASE UNCHANGED <<jobs, archives>>
    BY <2>1, <2>2, Stutter
  <2>3. CASE jobs' = [k \in Jobs |-> NoRow] /\ archives' = [k \in Jobs |-> NoRow]
    BY <2>1, <2>3 DEF Lifecycle!Expire, Lifecycle!NoRow, NoRow
  <2> QED BY <1>7, <2>2, <2>3, RestartCases DEF Crash
<1>8. ASSUME UNCHANGED <<jobs, archives, accepted, jobVars>> PROVE UNCHANGED Lifecycle!vars
  BY <1>8, Stutter DEF jobVars
<1>9. old \in SUBSET Jobs
  BY DEF StoreTypeOK
<1> QED
  BY <1>1, <1>2, <1>3, <1>4, <1>5, <1>6, <1>7, <1>8, <1>9, StepCases DEF Lifecycle!Next

\* Seen through the two tables, submissions that fail half-way, redeliveries and restarts
\* only ever take the steps of JobLifecycle.
THEOREM Refinement == Spec => ImplementsLifecycle
BY LifecycleInit, LifecycleStep, Invariance, PTL DEF Spec, ImplementsLifecycle, Lifecycle!Spec

\* The same abstraction, with the theorems about it.
Promise ==
  INSTANCE JobLifecycleProofs WITH
    status <- jobs,
    result <- archives,
    issued <- {j \in Jobs : pc[j] # "new"},
    Backed <- TRUE

LEMMA PromiseIsKept == ImplementsLifecycle => Promise!Spec
<1>1. Lifecycle!Init => Promise!Init
  BY DEF Lifecycle!Init, Promise!Init, Lifecycle!NoRow, Promise!NoRow
<1>2. [Lifecycle!Next]_(Lifecycle!vars) => [Promise!Next]_(Promise!vars)
  BY DEF Lifecycle!Next, Lifecycle!Issue, Lifecycle!Record, Lifecycle!Complete, Lifecycle!Fail,
         Lifecycle!Expire, Lifecycle!vars, Lifecycle!NoRow, Lifecycle!Generated, Lifecycle!Fatal,
         Promise!Next, Promise!Issue, Promise!Record, Promise!Complete, Promise!Fail,
         Promise!Expire, Promise!vars, Promise!NoRow, Promise!Generated, Promise!Fatal
<1> QED BY <1>1, <1>2, PTL DEF ImplementsLifecycle, Lifecycle!Spec, Promise!Spec

\* An UPDATE, whatever is answered to it, an INSERT and a restart leave a verdict that
\* was given as it is: its row keeps it until it expires.
TableKeepsVerdict(j) == jobs[j] \in Final => jobs'[j] \in {jobs[j], NoRow}

THEOREM VerdictIsForGood == Spec => [][\A j \in Jobs : TableKeepsVerdict(j)]_vars
<1>1. [Promise!Lasting]_(Promise!vars) => \A j \in Jobs : TableKeepsVerdict(j)
  BY DEF Promise!Lasting, Promise!Lasts, Promise!Verdicts, Promise!vars, Promise!NoRow,
         TableKeepsVerdict, Final, NoRow
<1> QED BY <1>1, Refinement, PromiseIsKept, Promise!VerdictsLast, PTL

\* A row that has expired, or that was lost, stays away, however late the goroutine or
\* the message that still works on the job.
Vanished(j) == pc[j] # "new" /\ jobs[j] = NoRow

THEOREM GoneIsGone == Spec => \A j \in Jobs : [](Vanished(j) => []Vanished(j))
<1>1. ASSUME NEW j \in Jobs PROVE Promise!Gone(j) <=> Vanished(j)
  BY DEF Promise!Gone, Promise!NoRow, Vanished, NoRow
<1>2. ASSUME NEW j \in Jobs PROVE Spec => [](Vanished(j) => []Vanished(j))
  <2>1. Spec => [](Promise!Gone(j) => []Promise!Gone(j))
    <3>1. Promise!Spec => [](Promise!Gone(j) => []Promise!Gone(j))
      BY Promise!GoneForGood
    <3> QED BY <3>1, Refinement, PromiseIsKept, PTL
  <2>2. Promise!Gone(j) <=> Vanished(j)
    BY <1>1
  <2> QED BY <2>1, <2>2, PTL
<1> QED BY <1>2, Zenon

-----------------------------------------------------------------------------
(* Answers.  A final status is copied from the tables or the worker to the  *)
(* cache, to a request that is on its way and to a client, and can be late  *)
(* everywhere: what matters is that it was true when it was first copied    *)
(* and that the row can only vanish since.                                  *)

\* The cache, a request or a client has the status s for j.
Known(j, s) ==
  \/ cache[j] = s
  \/ told[j] = s
  \/ \E r \in Readers : asked[r] = j /\ seen[r] = s

TruthInv ==
  \A j \in Jobs : \A s \in Final : Known(j, s) => pc[j] # "new" /\ jobs[j] \in {s, NoRow}

\* A row that has a verdict keeps it or vanishes, and an id that is gone stays gone.
LEMMA RowStep ==
  ASSUME IInv, [Next]_vars, NEW j \in Jobs, pc[j] # "new"
  PROVE  pc'[j] # "new" /\ (jobs[j] = "processing" \/ jobs'[j] \in {jobs[j], NoRow})
<1>1. [Lifecycle!Next]_Lifecycle!vars
  BY LifecycleStep
<1>2. jobs[j] = "processing" \/ jobs'[j] \in {jobs[j], NoRow}
  BY <1>1 DEF Lifecycle!Next, Lifecycle!Issue, Lifecycle!Record, Lifecycle!Complete,
              Lifecycle!Fail, Lifecycle!Expire, Lifecycle!vars, Lifecycle!NoRow, NoRow,
              IInv, TypeInv, TypeOK, StoreTypeOK
<1>3. pc'[j] # "new"
  BY <1>1 DEF Lifecycle!Next, Lifecycle!Issue, Lifecycle!Record, Lifecycle!Complete,
              Lifecycle!Fail, Lifecycle!Expire, Lifecycle!vars
<1> QED BY <1>2, <1>3

\* Where a final status comes from: it was known, or is read from the row, or is the
\* verdict that the worker has just recorded.
LEMMA KnownStep ==
  ASSUME TypeInv, [Next]_vars, NEW j \in Jobs, NEW s \in Final, Known(j, s)'
  PROVE  Known(j, s) \/ jobs[j] = s \/ (worker[j] = "updated" /\ verdict[j] = s)
<1> USE Words DEF TypeInv, TypeOK, StoreTypeOK, ReadTypeOK, Known
<1>1. CASE UNCHANGED <<cache, told, asked, seen>>
  BY <1>1
<1>2. ASSUME NEW k \in Jobs, Submit(k) \/ SaveRaw(k) \/ Send(k) \/ Age(k) \/ WorkerCrash(k)
                             \/ WorkerTake(k) \/ WorkerSave(k) \/ WorkerUpdate(k)
      PROVE  UNCHANGED <<cache, told, asked, seen>>
  BY <1>2 DEF Submit, SaveRaw, Send, Age, GrowOld, WorkerCrash, WorkerTake, WorkerSave, WorkerUpdate,
              storeVars, readVars
<1>3. ASSUME NEW k \in Jobs, Cache(k) PROVE Known(j, s)
  BY <1>3 DEF Cache, SetJobStatus, readVars
<1>4. ASSUME NEW k \in Jobs, WorkerAnnounce(k)
      PROVE  Known(j, s) \/ (worker[j] = "updated" /\ verdict[j] = s)
  BY <1>4 DEF WorkerAnnounce, SetJobStatus, readVars
<1>5. ASSUME NEW k \in Jobs, Forget(k) PROVE Known(j, s)
  BY <1>5 DEF Forget, CacheExpire, readVars
<1>6. ASSUME NEW r \in Readers, NEW k \in Jobs, CheckJobStatusHit(r, k) PROVE Known(j, s)
  BY <1>6 DEF CheckJobStatusHit, Reply, storeVars
<1>7. ASSUME NEW r \in Readers, NEW k \in Jobs, CheckJobStatusMiss(r, k) PROVE Known(j, s)
  <2>1. seen[r] = NoStatus
    BY <1>7, NoJobAssumption DEF CheckJobStatusMiss, SlotInv
  <2> QED BY <1>7, <2>1 DEF CheckJobStatusMiss, storeVars
<1>8. ASSUME NEW r \in Readers, CheckJobStatusLoad(r) PROVE Known(j, s) \/ jobs[j] = s
  BY <1>8 DEF CheckJobStatusLoad, SelectStatusHits, Hangup, storeVars
<1>9. ASSUME NEW r \in Readers, CheckJobStatusFill(r) PROVE Known(j, s)
  <2>1. asked[r] \in Jobs
    BY <1>9 DEF CheckJobStatusFill, SlotInv
  <2> QED BY <1>9, <2>1 DEF CheckJobStatusFill, SetJobStatus, Reply, Hangup
<1>10. CASE Tick \/ UNCHANGED vars
  BY <1>10 DEF Tick, CleanUp, vars, storeVars, readVars
<1>11. CASE Crash
  BY <1>11, RestartCases DEF Crash
<1> QED
  BY <1>1, <1>2, <1>3, <1>4, <1>5, <1>6, <1>7, <1>8, <1>9, <1>10, <1>11
     DEF Next, Handle, Work, Check

LEMMA TruthStep == IInv /\ TruthInv /\ [Next]_vars => TruthInv'
<1> SUFFICES ASSUME IInv, TruthInv, [Next]_vars, NEW j \in Jobs, NEW s \in Final, Known(j, s)'
             PROVE  pc'[j] # "new" /\ jobs'[j] \in {s, NoRow}
  BY DEF TruthInv
<1>1. pc[j] # "new" /\ jobs[j] \in {s, NoRow}
  <2>1. CASE Known(j, s)
    BY <2>1 DEF TruthInv
  <2>2. CASE jobs[j] = s
    BY <2>2, Words DEF IInv, SubmitInv
  <2>3. CASE worker[j] = "updated" /\ verdict[j] = s
    <3>1. pc[j] # "new"
      BY <2>3 DEF IInv, SubmitInv, Given
    <3>2. ASSUME jobs[j] # NoRow PROVE jobs[j] = s
      <4>1. jobs[j] \in Final
        BY <2>3, <3>2, Words DEF IInv, ResultInv, TypeInv, TypeOK, StoreTypeOK
      <4> QED BY <2>3, <3>2, <4>1, Words DEF IInv, ResultInv, Fits
    <3> QED BY <3>1, <3>2
  <2> QED BY <2>1, <2>2, <2>3, KnownStep DEF IInv
<1> QED BY <1>1, RowStep, Words

\* Whatever final status is in the cache, in a request or with a client is the one in
\* the row, if there still is one: through caches that are filled late, results that are
\* delivered twice, answers that are lost and restarts.
THEOREM FinalIsTrue == Spec => []TruthInv
<1>1. Init => TruthInv
  BY Words DEF Init, StoreInit, ReadInit, TruthInv, Known
<1> QED BY <1>1, TruthStep, Invariance, PTL DEF Spec

\* Whoever has been told "completed" gets the archive, or the news that its list of
\* agreements was empty, and its info, as long as the row is there.
Promised ==
  \A j \in Jobs :
    told[j] = "completed" /\ jobs[j] # NoRow =>
      GetArchive(j) \in {"archive", "ErrNotFound"} /\ GetArchiveInfo(j) = "info"

THEOREM CompletedIsServed == Spec => []Promised
<1>1. IInv /\ TruthInv => Promised
  <2> SUFFICES ASSUME IInv, TruthInv, NEW j \in Jobs, told[j] = "completed", jobs[j] # NoRow
               PROVE  GetArchive(j) \in {"archive", "ErrNotFound"} /\ GetArchiveInfo(j) = "info"
    BY DEF Promised
  <2>1. jobs[j] = "completed"
    BY Words DEF TruthInv, Known
  <2>2. archives[j] \in {"zip", "empty"} /\ archives[j] # NoRow
    BY <2>1, Words DEF IInv, ResultInv, Fits
  <2> QED BY <2>1, <2>2 DEF GetArchive, GetArchiveInfo, HasArchive, MemoryHasArchive
<1> QED BY <1>1, FinalIsTrue, Invariance, PTL

\* A client is not told two different final statuses while the row is there, for any set of
\* jobs and of requests, any faults and either storage.
ToldStays(j) ==
  told[j] \in Final /\ told'[j] \in Final /\ jobs'[j] # NoRow => told'[j] = told[j]

THEOREM VerdictNotReversed == Spec => VerdictNeverReversed
<1>1. IInv /\ TruthInv /\ TruthInv' /\ [Next]_vars => [\A j \in Jobs : ToldStays(j)]_vars
  <2> SUFFICES ASSUME IInv, TruthInv, TruthInv', [Next]_vars, NEW j \in Jobs,
                      told[j] \in Final, told'[j] \in Final, jobs'[j] # NoRow
               PROVE  told'[j] = told[j]
    BY DEF ToldStays
  <2>1. pc[j] # "new" /\ jobs[j] \in {told[j], NoRow}
    BY DEF TruthInv, Known
  <2>2. jobs'[j] = told'[j]
    BY DEF TruthInv, Known
  <2> QED BY <2>1, <2>2, RowStep, Words
<1> QED BY <1>1, FinalIsTrue, Invariance, PTL DEF Spec, VerdictNeverReversed, ToldStays

-----------------------------------------------------------------------------
(* Polling.  Rows age, the ticker deletes them, requests go on and keys     *)
(* expire: the fairness of each with the guard that alone can hold it up.   *)

Handled(j) == []<>~(pc[j] \in Active) \/ []<><<Handle(j)>>_vars
Clock(j)   == []<>~(jobs[j] # NoRow /\ j \notin old) \/ []<><<Age(j)>>_vars
Ticker     == []<>(old = {}) \/ []<><<Tick>>_vars
Replies(r) == []<>(asked[r] = NoJob) \/ []<><<Answer(r)>>_vars
Expires(j) == []<>(cache[j] = NoStatus) \/ []<><<Forget(j)>>_vars

Stored(j)   == pc[j] = "stored"
Begun(j)    == pc[j] # "new"
NoRowOf(j)  == jobs[j] = NoRow
Old(j)      == j \in old
Stale(r, j) == asked[r] = j /\ seen[r] = "processing"
Cached(j)   == cache[j] = "processing"

\* The steps that read or write neither a row, the age of rows nor the queue.
LEMMA ReaderSteps ==
  ASSUME NEW r \in Readers, Check(r)
  PROVE  UNCHANGED <<jobs, old, pc>>
BY DEF Check, CheckJobStatusHit, CheckJobStatusMiss, CheckJobStatusLoad, CheckJobStatusFill, storeVars,
       jobVars

LEMMA WorkerSteps ==
  ASSUME NEW k \in Jobs, Work(k) \/ WorkerCrash(k)
  PROVE  UNCHANGED <<old, pc, asked, seen>>
BY DEF Work, WorkerTake, WorkerSave, WorkerUpdate, WorkerAnnounce, WorkerCrash, storeVars, readVars

\* A row goes once it is old, and does not come back.
RowGoes(j) ==
  /\ Begun(j) /\ [Next]_vars => Begun(j)' /\ (NoRowOf(j) => NoRowOf(j)')
  /\ Old(j) /\ [Next]_vars => Old(j)' \/ NoRowOf(j)'
  /\ <<Age(j)>>_vars => Old(j)'
  /\ Old(j) /\ <<Tick>>_vars => NoRowOf(j)'
  /\ Old(j) => ~(old = {})

LEMMA RowsGo == ASSUME TypeInv, NEW j \in Jobs PROVE RowGoes(j)
<1> USE DEF TypeInv, TypeOK, StoreTypeOK, Begun, NoRowOf, Old
<1>1. ASSUME Begun(j), [Next]_vars
      PROVE  Begun(j)' /\ (NoRowOf(j) => NoRowOf(j)') /\ (Old(j) => Old(j)' \/ NoRowOf(j)')
  <2>1. ASSUME NEW k \in Jobs, Submit(k) PROVE pc'[j] # "new" /\ jobs'[j] = jobs[j] /\ old' = old
    BY <1>1, <2>1 DEF Submit, StoreJob, Goto
  <2>2. ASSUME NEW k \in Jobs, Handle(k) PROVE pc'[j] # "new" /\ jobs' = jobs /\ old' = old
    BY <1>1, <2>2 DEF Handle, Cache, SaveRaw, Send, Goto, storeVars
  <2>3. ASSUME NEW k \in Jobs, Work(k) \/ WorkerCrash(k)
        PROVE  pc' = pc /\ (NoRowOf(j) => NoRowOf(j)') /\ old' = old
    BY <2>3, WorkerSteps
       DEF Work, WorkerTake, WorkerSave, WorkerUpdate, WorkerAnnounce, WorkerCrash, UpdateJob, storeVars
  <2>4. ASSUME NEW k \in Jobs, Age(k) \/ Forget(k)
        PROVE  pc' = pc /\ jobs' = jobs /\ old \subseteq old'
    BY <2>4 DEF Age, GrowOld, Forget, CacheExpire, jobVars
  <2>5. CASE Tick
    BY <1>1, <2>5 DEF Tick, CleanUp
  <2>6. CASE Crash
    BY <1>1, <2>6, RestartCases DEF Crash
  <2>7. CASE UNCHANGED vars
    BY <1>1, <2>7 DEF vars, storeVars, jobVars
  <2> QED BY <1>1, <2>1, <2>2, <2>3, <2>4, <2>5, <2>6, <2>7, ReaderSteps DEF Next
<1>2. Old(j) /\ ~Begun(j) /\ [Next]_vars => Old(j)' \/ NoRowOf(j)'
  <2> SUFFICES ASSUME Old(j), ~Begun(j), [Next]_vars PROVE Old(j)' \/ NoRowOf(j)'
    OBVIOUS
  <2>1. ASSUME NEW k \in Jobs, Submit(k) \/ Handle(k) \/ Work(k) \/ WorkerCrash(k) PROVE old' = old
    BY <2>1, WorkerSteps DEF Submit, Handle, Cache, SaveRaw, Send, storeVars
  <2>2. ASSUME NEW k \in Jobs, Age(k) \/ Forget(k) PROVE old \subseteq old'
    BY <2>2 DEF Age, GrowOld, Forget, CacheExpire
  <2>3. CASE Tick
    BY <2>3 DEF Tick, CleanUp
  <2>4. CASE Crash
    BY <2>4, RestartCases DEF Crash
  <2>5. CASE UNCHANGED vars
    BY <2>5 DEF vars, storeVars
  <2> QED BY <2>1, <2>2, <2>3, <2>4, <2>5, ReaderSteps DEF Next
<1>3. <<Age(j)>>_vars => Old(j)'
  BY DEF Age, GrowOld
<1>4. Old(j) /\ <<Tick>>_vars => NoRowOf(j)'
  BY DEF Tick, CleanUp
<1> QED BY <1>1, <1>2, <1>3, <1>4 DEF RowGoes

\* A request that has stored its job writes "processing" to the cache once.
Leaves(j) ==
  /\ Begun(j) /\ ~Stored(j) /\ [Next]_vars => ~Stored(j)'
  /\ Stored(j) /\ <<Handle(j)>>_vars => ~Stored(j)'
  /\ Stored(j) => pc[j] \in Active

LEMMA RequestLeaves == ASSUME TypeInv, NEW j \in Jobs PROVE Leaves(j)
<1> USE DEF TypeInv, TypeOK, Begun, Stored, Goto
<1>1. ASSUME Begun(j), ~Stored(j), [Next]_vars PROVE ~Stored(j)'
  <2>1. ASSUME NEW k \in Jobs, Submit(k) \/ Handle(k) PROVE ~Stored(j)'
    BY <1>1, <2>1 DEF Submit, Handle, Cache, SaveRaw, Send
  <2>2. ASSUME NEW k \in Jobs, Age(k) \/ Forget(k) PROVE pc' = pc
    BY <2>2 DEF Age, Forget, jobVars
  <2>3. CASE Crash
    BY <1>1, <2>3 DEF Crash
  <2>4. Tick \/ UNCHANGED vars => pc' = pc
    BY DEF Tick, vars, jobVars
  <2> QED BY <1>1, <2>1, <2>2, <2>3, <2>4, ReaderSteps, WorkerSteps DEF Next
<1>2. ASSUME Stored(j), Handle(j) PROVE ~Stored(j)'
  BY <1>2 DEF Handle, Cache, SaveRaw, Send
<1> QED BY <1>1, <1>2 DEF Leaves, Active

\* So does a request that has read "processing"; it finds no row to read it from again.
Fades(r, j) ==
  /\ NoRowOf(j) /\ ~Stale(r, j) /\ [Next]_vars => ~Stale(r, j)'
  /\ Stale(r, j) /\ <<Answer(r)>>_vars => ~Stale(r, j)'
  /\ Stale(r, j) => ~(asked[r] = NoJob)

LEMMA RequestFades == ASSUME TypeInv, NEW r \in Readers, NEW j \in Jobs PROVE Fades(r, j)
<1> USE DEF TypeInv, TypeOK, StoreTypeOK, ReadTypeOK, Stale, NoRowOf
<1>1. ASSUME NoRowOf(j), ~Stale(r, j), [Next]_vars PROVE ~Stale(r, j)'
  <2>1. CASE UNCHANGED <<asked, seen>>
    BY <1>1, <2>1
  <2>2. CASE Crash
    BY <2>2 DEF Crash, NoStatus
  <2>3. ASSUME NEW q \in Readers, NEW k \in Jobs, CheckJobStatusHit(q, k) PROVE ~Stale(r, j)'
    BY <1>1, <2>3 DEF CheckJobStatusHit
  <2>4. ASSUME NEW q \in Readers, NEW k \in Jobs, CheckJobStatusMiss(q, k) PROVE ~Stale(r, j)'
    <3>1. seen[q] = NoStatus
      BY <2>4, NoJobAssumption DEF CheckJobStatusMiss, SlotInv
    <3> QED BY <1>1, <2>4, <3>1 DEF CheckJobStatusMiss, NoStatus
  <2>5. ASSUME NEW q \in Readers, CheckJobStatusLoad(q) PROVE ~Stale(r, j)'
    BY <1>1, <2>5 DEF CheckJobStatusLoad, SelectStatusHits, Hangup, NoStatus
  <2>6. ASSUME NEW q \in Readers, CheckJobStatusFill(q) PROVE ~Stale(r, j)'
    BY <1>1, <2>6 DEF CheckJobStatusFill, Hangup, NoStatus
  <2>7. ASSUME NEW k \in Jobs, Submit(k) \/ Handle(k) \/ Age(k) \/ Forget(k)
        PROVE  UNCHANGED <<asked, seen>>
    BY <2>7 DEF Submit, Handle, Cache, SaveRaw, Send, Age, Forget, readVars
  <2>8. Tick \/ UNCHANGED vars => UNCHANGED <<asked, seen>>
    BY DEF Tick, vars, readVars
  <2> QED
    BY <1>1, <2>1, <2>2, <2>3, <2>4, <2>5, <2>6, <2>7, <2>8, WorkerSteps DEF Next, Check
<1>2. ASSUME Stale(r, j), Answer(r) PROVE ~Stale(r, j)'
  BY <1>2 DEF Answer, CheckJobStatusLoad, CheckJobStatusFill, Hangup, NoStatus
<1>3. Stale(r, j) => ~(asked[r] = NoJob)
  BY NoJobAssumption
<1> QED BY <1>1, <1>2, <1>3 DEF Fades

\* Without such requests nobody writes "processing" under the key of the job.
LEMMA CacheFades ==
  ASSUME TypeInv, NEW j \in Jobs
  PROVE  /\ (\A r \in Readers : ~Stale(r, j)) /\ ~Stored(j) /\ ~Cached(j) /\ [Next]_vars
            => ~Cached(j)'
         /\ <<Forget(j)>>_vars => ~Cached(j)'
         /\ Cached(j) => ~(cache[j] = NoStatus)
<1> USE DEF TypeInv, TypeOK, StoreTypeOK, ReadTypeOK, Cached
<1>1. ASSUME \A r \in Readers : ~Stale(r, j), ~Stored(j), ~Cached(j), [Next]_vars PROVE ~Cached(j)'
  <2>1. CASE cache' = cache
    BY <1>1, <2>1
  <2>2. ASSUME NEW k \in Jobs, Cache(k) PROVE ~Cached(j)'
    BY <1>1, <2>2 DEF Stored, Cache, SetJobStatus
  <2>3. ASSUME NEW k \in Jobs, WorkerAnnounce(k) PROVE ~Cached(j)'
    <3>1. verdict[k] # "processing"
      BY <2>3, Words DEF WorkerAnnounce, HeldInv
    <3> QED BY <1>1, <2>3, <3>1 DEF WorkerAnnounce, SetJobStatus
  <2>4. ASSUME NEW q \in Readers, CheckJobStatusFill(q) PROVE ~Cached(j)'
    <3>1. asked[q] \in Jobs /\ (asked[q] = j => seen[q] # "processing")
      BY <1>1, <2>4 DEF CheckJobStatusFill, SlotInv, Stale
    <3> QED BY <1>1, <2>4, <3>1 DEF CheckJobStatusFill, SetJobStatus
  <2>5. ASSUME NEW k \in Jobs, Forget(k) PROVE ~Cached(j)'
    BY <1>1, <2>5 DEF Forget, CacheExpire, NoStatus
  <2>6. ASSUME NEW k \in Jobs,
               \/ Submit(k) \/ SaveRaw(k) \/ Send(k) \/ Age(k) \/ WorkerCrash(k)
               \/ WorkerTake(k) \/ WorkerSave(k) \/ WorkerUpdate(k)
        PROVE  cache' = cache
    BY <2>6 DEF Submit, SaveRaw, Send, Age, GrowOld, WorkerCrash, WorkerTake, WorkerSave, WorkerUpdate,
                storeVars
  <2>7. ASSUME NEW q \in Readers, NEW k \in Jobs,
               CheckJobStatusHit(q, k) \/ CheckJobStatusMiss(q, k) \/ CheckJobStatusLoad(q)
        PROVE  cache' = cache
    BY <2>7 DEF CheckJobStatusHit, CheckJobStatusMiss, CheckJobStatusLoad, storeVars
  <2>8. Tick \/ Crash \/ UNCHANGED vars => cache' = cache
    BY RestartCases DEF Tick, CleanUp, Crash, vars, storeVars
  <2>9. ASSUME NEW q \in Readers, Check(q) PROVE ~Cached(j)'
    BY <2>1, <2>4, <2>7, <2>9 DEF Check
  <2> QED BY <1>1, <2>1, <2>2, <2>3, <2>5, <2>6, <2>8, <2>9 DEF Next, Handle, Work
<1>2. <<Forget(j)>>_vars => ~Cached(j)'
  BY DEF Forget, CacheExpire, NoStatus
<1>3. Cached(j) => ~(cache[j] = NoStatus)
  BY DEF NoStatus
<1> QED BY <1>1, <1>2, <1>3

\* Every request stops: the slots are f[1], f[2], ..., and those after place m up to place
\* n are considered together.
EachReplies == \A r \in Readers : Replies(r)

Calm(f, j, m, n) == \A i \in Nat : i > m /\ i <= n /\ f[i] \in Readers => ~Stale(f[i], j)

Calms(f, j, m, n) == []([]NoRowOf(j) => <>[]Calm(f, j, m, n))

CalmsBy(f, j, k) == \A m \in Nat : \A n \in Nat : n = m + k => Calms(f, j, m, n)

LEMMA OneSlot ==
  ASSUME NEW f, NEW j \in Jobs
  PROVE  Spec /\ EachReplies => CalmsBy(f, j, 1)
<1>1. ASSUME NEW m \in Nat, NEW n \in Nat, n = m + 1
      PROVE  Spec /\ EachReplies => Calms(f, j, m, n)
  <2>1. \A i \in Nat : i > m /\ i <= n => i = n
    BY <1>1
  <2>2. CASE f[n] \notin Readers
    <3>1. Calm(f, j, m, n)
      BY <2>1, <2>2, Zenon DEF Calm
    <3> QED BY <3>1, PTL DEF Calms
  <2>3. CASE f[n] \in Readers
    <3> DEFINE r == f[n]
    <3>1. ~Stale(r, j) => Calm(f, j, m, n)
      BY <2>1, Zenon DEF Calm
    <3>2. TypeInv => Fades(r, j)
      BY <2>3, RequestFades
    <3>3. EachReplies => Replies(r)
      BY <2>3, Zenon DEF EachReplies
    <3>4. IInv => TypeInv
      BY DEF IInv
    <3> HIDE DEF r
    <3> QED BY <3>1, <3>2, <3>3, <3>4, Invariance, PTL DEF Spec, Replies, Fades, Calms
  <2> QED BY <2>2, <2>3
<1> QED BY <1>1, Zenon DEF CalmsBy

\* Two parts of the slots at once: this is how far the proof system gets without an
\* induction over the slots.
LEMMA TwoParts ==
  ASSUME NEW f, NEW j \in Jobs, NEW k \in Nat, NEW d, d = k + k
  PROVE  CalmsBy(f, j, k) => CalmsBy(f, j, d)
<1>1. ASSUME NEW m \in Nat, NEW n \in Nat, n = m + d
      PROVE  CalmsBy(f, j, k) => Calms(f, j, m, n)
  <2>1. PICK p \in Nat : p = m + k
    OBVIOUS
  <2>2. n = p + k
    BY <1>1, <2>1
  <2>3. CalmsBy(f, j, k) => Calms(f, j, m, p) /\ Calms(f, j, p, n)
    BY <2>1, <2>2, Zenon DEF CalmsBy
  <2>4. Calm(f, j, m, p) /\ Calm(f, j, p, n) => Calm(f, j, m, n)
    BY <2>1 DEF Calm
  <2>5. Calms(f, j, m, p) /\ Calms(f, j, p, n) => Calms(f, j, m, n)
    BY <2>4, PTL DEF Calms
  <2> QED BY <2>3, <2>5
<1> QED BY <1>1, Zenon DEF CalmsBy

LEMMA AllParts ==
  ASSUME NEW f, NEW j \in Jobs, NEW n \in Nat
  PROVE  CalmsBy(f, j, n) => Calms(f, j, 0, n)
<1>1. n = 0 + n /\ 0 \in Nat
  OBVIOUS
<1> QED BY <1>1, Zenon DEF CalmsBy

MaxSlots == 1024

LEMMA RequestsCalm ==
  ASSUME NEW f, NEW j \in Jobs
  PROVE  Spec /\ EachReplies => Calms(f, j, 0, 1024)
<1>1. CalmsBy(f, j, 1) => CalmsBy(f, j, 2)
  BY TwoParts
<1>2. CalmsBy(f, j, 2) => CalmsBy(f, j, 4)
  BY TwoParts
<1>3. CalmsBy(f, j, 4) => CalmsBy(f, j, 8)
  BY TwoParts
<1>4. CalmsBy(f, j, 8) => CalmsBy(f, j, 16)
  BY TwoParts
<1>5. CalmsBy(f, j, 16) => CalmsBy(f, j, 32)
  BY TwoParts
<1>6. CalmsBy(f, j, 32) => CalmsBy(f, j, 64)
  BY TwoParts
<1>7. CalmsBy(f, j, 64) => CalmsBy(f, j, 128)
  BY TwoParts
<1>8. CalmsBy(f, j, 128) => CalmsBy(f, j, 256)
  BY TwoParts
<1>9. CalmsBy(f, j, 256) => CalmsBy(f, j, 512)
  BY TwoParts
<1>10. CalmsBy(f, j, 512) => CalmsBy(f, j, 1024)
  BY TwoParts
<1>11. CalmsBy(f, j, 1024) => Calms(f, j, 0, 1024)
  BY AllParts
<1>12. Spec /\ EachReplies => CalmsBy(f, j, 1)
  BY OneSlot
<1> QED BY <1>1, <1>2, <1>3, <1>4, <1>5, <1>6, <1>7, <1>8, <1>9, <1>10, <1>11, <1>12, PTL

\* The slots can be numbered.
Numbers(f) == \A r \in Readers : \E i \in Nat : i > 0 /\ i <= 1024 /\ f[i] = r

LEMMA Numbering ==
  ASSUME IsFiniteSet(Readers), Cardinality(Readers) <= MaxSlots
  PROVE  \E f : Numbers(f)
<1>1. Cardinality(Readers) \in Nat /\ ExistsBijection(1..Cardinality(Readers), Readers)
  BY FS_CardinalityType
<1>2. PICK f : /\ f \in [1..Cardinality(Readers) -> Readers]
               /\ \A r \in Readers : \E i \in 1..Cardinality(Readers) : f[i] = r
  BY <1>1 DEF ExistsBijection, Bijection, Surjection
<1>3. \A i \in 1..Cardinality(Readers) : i \in Nat /\ i > 0 /\ i <= 1024
  BY <1>1 DEF MaxSlots
<1>4. Numbers(f)
  BY <1>2, <1>3 DEF Numbers
<1> QED BY <1>4

\* No job is "processing" for ever, whether it was rejected half-way, its message was lost
\* or its server died: any jobs, any faults, and up to MaxSlots requests for a status at a
\* time.
THEOREM PollingAlwaysEnds ==
  ASSUME IsFiniteSet(Readers), Cardinality(Readers) <= MaxSlots
  PROVE  /\ Spec /\ Ticker /\ EachReplies
         /\ \A j \in Jobs : Handled(j) /\ Clock(j) /\ Expires(j)
         => PollingEnds
<1>1. PICK f : Numbers(f)
  BY Numbering
<1>2. ASSUME NEW j \in Jobs
      PROVE  Spec /\ Ticker /\ EachReplies /\ (Handled(j) /\ Clock(j) /\ Expires(j))
             => (jobs[j] = "processing" ~> [](cache[j] # "processing" /\ jobs[j] # "processing"))
  <2>1. IInv => RowGoes(j) /\ Leaves(j)
    BY RowsGo, RequestLeaves DEF IInv
  <2>2. Calm(f, j, 0, 1024) => \A r \in Readers : ~Stale(r, j)
    BY <1>1 DEF Calm, Numbers
  <2>3. IInv => /\ Calm(f, j, 0, 1024) /\ ~Stored(j) /\ ~Cached(j) /\ [Next]_vars => ~Cached(j)'
                /\ <<Forget(j)>>_vars => ~Cached(j)'
                /\ Cached(j) => ~(cache[j] = NoStatus)
    BY <2>2, CacheFades DEF IInv
  <2>4. IInv /\ jobs[j] = "processing" => Begun(j)
    BY DEF IInv, SubmitInv, Begun, NoRow
  <2>5. ~NoRowOf(j) /\ ~Old(j) => jobs[j] # NoRow /\ j \notin old
    BY DEF NoRowOf, Old
  <2>6. ~Cached(j) /\ NoRowOf(j) => cache[j] # "processing" /\ jobs[j] # "processing"
    BY DEF Cached, NoRowOf, NoRow
  <2>7. Spec /\ EachReplies => Calms(f, j, 0, 1024)
    BY RequestsCalm
  <2>8. Spec /\ Ticker /\ Clock(j) => [](Begun(j) => <>[]NoRowOf(j))
    BY <2>1, <2>5, Invariance, PTL DEF Spec, Ticker, Clock, RowGoes
  <2>9. Spec /\ Handled(j) => [](Begun(j) => <>[]~Stored(j))
    BY <2>1, Invariance, PTL DEF Spec, Handled, Leaves, RowGoes
  <2>10. Spec /\ Expires(j) => []([]Calm(f, j, 0, 1024) /\ []~Stored(j) => <>[]~Cached(j))
    BY <2>3, Invariance, PTL DEF Spec, Expires
  <2> QED BY <2>4, <2>6, <2>7, <2>8, <2>9, <2>10, Invariance, PTL DEF Calms
<1> QED BY <1>2, Zenon DEF PollingEnds
=============================================================================
