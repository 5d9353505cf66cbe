------------------------- MODULE GrpcGeneratorProofs -------------------------
(***************************************************************************)
(* Theorems about GrpcGenerator, for every set of jobs and of readers,     *)
(* every combination of faults and every number of restarts.               *)
(***************************************************************************)
EXTENDS GrpcGenerator, FiniteSetTheorems, TLAPS

\* What the proofs need of the words for statuses and rows.
LEMMA Words ==
  /\ "processing" \in Statuses /\ Final \subseteq Statuses
  /\ "completed" \in Final /\ "failed" \in Final /\ "processing" \notin Final
  /\ NoStatus \notin Statuses /\ NoRow \notin Statuses /\ NoRow \notin Results
  /\ \A s \in Final : s = "completed" \/ s = "failed"
BY DEF Statuses, Final, NoStatus, NoRow, Results

\* How the two calls of ProcessJob on the storage can end, of either kind.
LEMMA SaveEnds ==
  ASSUME NEW j \in Jobs, NEW o \in FinalizeStorage(j, SaveResults(j))
  PROVE  /\ o = "ok" => jobs[j] # NoRow
         /\ o \in {"ok", "fail"} \/ (o = "uncommitted" /\ "uncommitted" \in SaveOutcomes)
BY StoreAssumption
   DEF FinalizeStorage, Finalize, SaveResults, PostgresSaveResults, MemorySaveResults

LEMMA UpdateEnds ==
  ASSUME NEW j \in Jobs, NEW o \in FinalizeStorage(j, UpdateResults(j))
  PROVE  o \in {"ok", "fail", "lost"} /\ (o = "lost" => "lost" \in StorageOutcomes)
BY StoreAssumption
   DEF FinalizeStorage, Finalize, UpdateResults, MemoryUpdateResults

\* A restart leaves the tables alone or finds them empty.
LEMMA RestartCases ==
  ASSUME Restart
  PROVE  /\ cache' = cache
         /\ \/ UNCHANGED <<jobs, archives, old>>
            \/ /\ jobs' = [j \in Jobs |-> NoRow]
               /\ archives' = [j \in Jobs |-> NoRow]
               /\ old' = {}
BY DEF Restart

-----------------------------------------------------------------------------
(* Types.  TypeOK is not inductive: Update writes the verdict and Save the  *)
(* response, so both must be there by then.  That they are follows from how *)
(* far the two goroutines of a job can be apart.                            *)

PCs == {"new"} \cup Active \cup Ended

HeldInv ==
  \A j \in Jobs :
    /\ rpc[j] \in {"calling", "sendErr"} => pc[j] = "recvErr"
    /\ rpc[j] = "sendResp" => pc[j] = "recvResp"
    /\ rpc[j] = "sendErr" \/ pc[j] \in {"recvResp", "save"} => res[j] \in Results
    /\ pc[j] \in {"recvResp", "save", "update", "announce", "done"} => verdict[j] \in Final

SlotInv == \A r \in Readers : seen[r] # NoStatus => asked[r] \in Jobs

TypeInv == TypeOK /\ HeldInv /\ SlotInv

LEMMA TypeInit == Init => TypeInv
<1> SUFFICES ASSUME Init PROVE TypeInv
  OBVIOUS
<1>1. StoreTypeOK
  BY DEF Init, StoreInit, StoreTypeOK
<1>2. ReadTypeOK
  BY DEF Init, ReadInit, ReadTypeOK
<1>3. TypeOK
  BY <1>1, <1>2 DEF Init, TypeOK
<1>4. HeldInv /\ SlotInv
  BY DEF Init, ReadInit, HeldInv, SlotInv
<1> QED BY <1>3, <1>4 DEF TypeInv

LEMMA TypeStep == TypeInv /\ [Next]_vars => TypeInv'
<1> SUFFICES ASSUME TypeInv, [Next]_vars PROVE TypeInv'
  OBVIOUS
<1> USE Words DEF TypeInv, TypeOK, Goto
<1>1. ASSUME NEW j \in Jobs, Submit(j) PROVE TypeInv'
  <2>1. jobs' \in [Jobs -> Statuses \cup {NoRow}]
    BY <1>1 DEF Submit, StoreJob, StoreTypeOK
  <2>2. pc' \in [Jobs -> PCs]
    BY <1>1 DEF Submit, PCs, Active, Ended
  <2>3. TypeOK'
    BY <1>1, <2>1, <2>2 DEF Submit, StoreTypeOK, ReadTypeOK, readVars, PCs
  <2>4. HeldInv' /\ SlotInv'
    BY <1>1 DEF Submit, HeldInv, SlotInv, readVars
  <2> QED BY <2>3, <2>4
<1>2. ASSUME NEW j \in Jobs, Dispatch(j) PROVE TypeInv'
  <2>1. cache' \in [Jobs -> Statuses \cup {NoStatus}]
    BY <1>2 DEF Dispatch, SetJobStatus, StoreTypeOK
  <2>2. pc' \in [Jobs -> PCs]
    BY <1>2 DEF Dispatch, PCs, Active
  <2>3. TypeOK'
    BY <1>2, <2>1, <2>2 DEF Dispatch, StoreTypeOK, ReadTypeOK, PCs
  <2>4. HeldInv' /\ SlotInv'
    BY <1>2 DEF Dispatch, HeldInv, SlotInv
  <2> QED BY <2>3, <2>4
<1>3. ASSUME NEW j \in Jobs, RpcReturn(j) PROVE TypeInv'
  <2>1. PICK o \in RpcOutcomes : res' = [res EXCEPT ![j] = o]
    BY <1>3 DEF RpcReturn
  <2>2. o \in Results
    BY GrpcAssumption
  <2>3. TypeOK'
    BY <1>3, <2>1, <2>2 DEF RpcReturn, StoreTypeOK, ReadTypeOK, storeVars, readVars
  <2>4. HeldInv' /\ SlotInv'
    BY <1>3, <2>1, <2>2 DEF RpcReturn, HeldInv, SlotInv, readVars
  <2> QED BY <2>3, <2>4
<1>4. ASSUME NEW j \in Jobs, RecvErr(j) PROVE TypeInv'
  <2>1. pc' \in [Jobs -> PCs]
    BY <1>4 DEF RecvErr, PCs, Active
  <2>2. TypeOK'
    BY <1>4, <2>1 DEF RecvErr, StoreTypeOK, ReadTypeOK, storeVars, readVars, PCs
  <2>3. HeldInv' /\ SlotInv'
    BY <1>4 DEF RecvErr, HeldInv, SlotInv, readVars
  <2> QED BY <2>2, <2>3
<1>5. ASSUME NEW j \in Jobs, RecvResponse(j) PROVE TypeInv'
  <2>1. pc' \in [Jobs -> PCs]
    BY <1>5 DEF RecvResponse, PCs, Active
  <2>2. TypeOK'
    BY <1>5, <2>1 DEF RecvResponse, StoreTypeOK, ReadTypeOK, storeVars, readVars, PCs
  <2>3. HeldInv' /\ SlotInv'
    BY <1>5 DEF RecvResponse, HeldInv, SlotInv, readVars
  <2> QED BY <2>2, <2>3
<1>6. ASSUME NEW j \in Jobs, Save(j) PROVE TypeInv'
  <2>1. res[j] \in Results /\ verdict[j] \in Final
    BY <1>6 DEF Save, HeldInv
  <2>2. archives' \in [Jobs -> Results \cup {NoRow}]
    BY <1>6, <2>1 DEF Save, SaveResponse, StoreTypeOK
  <2>3. pc' \in [Jobs -> PCs]
    BY <1>6 DEF Save, PCs, Active
  <2>4. TypeOK'
    <3>1. verdict' \in [Jobs -> Final \cup {NoStatus}]
      BY <1>6 DEF Save
    <3>2. res' \in [Jobs -> Results \cup {NoRow}]
      BY <1>6 DEF Save
    <3>3. StoreTypeOK' /\ ReadTypeOK'
      BY <1>6, <2>2 DEF Save, StoreTypeOK, ReadTypeOK, readVars
    <3> QED BY <1>6, <2>3, <3>1, <3>2, <3>3 DEF Save, PCs
  <2>5. HeldInv' /\ SlotInv'
    BY <1>6, <2>1 DEF Save, HeldInv, SlotInv, readVars
  <2> QED BY <2>4, <2>5
<1>7. ASSUME NEW j \in Jobs, Update(j) PROVE TypeInv'
  <2>1. verdict[j] \in Final
    BY <1>7 DEF Update, HeldInv
  <2>2. jobs' \in [Jobs -> Statuses \cup {NoRow}]
    BY <1>7, <2>1 DEF Update, UpdateJob, StoreTypeOK
  <2>3. pc' \in [Jobs -> PCs]
    BY <1>7 DEF Update, PCs, Active
  <2>4. TypeOK'
    BY <1>7, <2>2, <2>3 DEF Update, StoreTypeOK, ReadTypeOK, readVars, PCs
  <2>5. HeldInv' /\ SlotInv'
    BY <1>7, <2>1 DEF Update, HeldInv, SlotInv, readVars
  <2> QED BY <2>4, <2>5
<1>8. ASSUME NEW j \in Jobs, Announce(j) PROVE TypeInv'
  <2>1. verdict[j] \in Final
    BY <1>8 DEF Announce, HeldInv
  <2>2. cache' \in [Jobs -> Statuses \cup {NoStatus}]
    BY <1>8, <2>1 DEF Announce, SetJobStatus, StoreTypeOK
  <2>3. pc' \in [Jobs -> PCs]
    BY <1>8 DEF Announce, PCs, Ended
  <2>4. TypeOK'
    BY <1>8, <2>2, <2>3 DEF Announce, StoreTypeOK, ReadTypeOK, readVars, PCs
  <2>5. HeldInv' /\ SlotInv'
    BY <1>8, <2>1 DEF Announce, HeldInv, SlotInv, readVars
  <2> QED BY <2>4, <2>5
<1>9. ASSUME NEW j \in Jobs, FinalizeTimeout(j) PROVE TypeInv'
  BY <1>9 DEF FinalizeTimeout, StoreTypeOK, ReadTypeOK, HeldInv, SlotInv, storeVars, readVars
<1>10. ASSUME NEW j \in Jobs, Age(j) PROVE TypeInv'
  BY <1>10 DEF Age, GrowOld, StoreTypeOK, ReadTypeOK, HeldInv, SlotInv, readVars, procVars
<1>11. ASSUME NEW j \in Jobs, Forget(j) PROVE TypeInv'
  BY <1>11 DEF Forget, CacheExpire, StoreTypeOK, ReadTypeOK, HeldInv, SlotInv, readVars, procVars
<1>12. ASSUME NEW r \in Readers, Check(r) PROVE TypeInv'
  <2>1. UNCHANGED <<pc, rpc, res, verdict, expired, crashes>> /\ HeldInv'
    BY <1>12 DEF Check, procVars, HeldInv
  <2>2. ASSUME NEW j \in Jobs, CheckJobStatusHit(r, j) PROVE TypeInv'
    BY <2>1, <2>2 DEF CheckJobStatusHit, GetJobStatusHits, Reply, StoreTypeOK, ReadTypeOK,
                      SlotInv, storeVars
  <2>3. ASSUME NEW j \in Jobs, CheckJobStatusMiss(r, j) PROVE TypeInv'
    BY <2>1, <2>3 DEF CheckJobStatusMiss, StoreTypeOK, ReadTypeOK, SlotInv, storeVars
  <2>4. ASSUME CheckJobStatusLoad(r) PROVE TypeInv'
    <3>1. asked[r] \in Jobs
      BY <2>4 DEF CheckJobStatusLoad, ReadTypeOK
    <3> QED BY <2>1, <2>4, <3>1 DEF CheckJobStatusLoad, SelectStatusHits, Hangup, StoreTypeOK, ReadTypeOK,
                                    SlotInv, storeVars
  <2>5. ASSUME CheckJobStatusFill(r) PROVE TypeInv'
    <3>1. asked[r] \in Jobs /\ seen[r] \in Statuses
      BY <2>5 DEF CheckJobStatusFill, SlotInv, ReadTypeOK
    <3>2. StoreTypeOK'
      BY <2>5, <3>1 DEF CheckJobStatusFill, SetJobStatus, StoreTypeOK
    <3>3. ReadTypeOK' /\ SlotInv'
      BY <2>5, <3>1 DEF CheckJobStatusFill, Reply, Hangup, ReadTypeOK, SlotInv
    <3> QED BY <2>1, <3>2, <3>3
  <2> QED BY <1>12, <2>2, <2>3, <2>4, <2>5 DEF Check
<1>13. ASSUME Tick PROVE TypeInv'
  BY <1>13 DEF Tick, CleanUp, StoreTypeOK, ReadTypeOK, HeldInv, SlotInv, readVars, procVars
<1>14. ASSUME Crash PROVE TypeInv'
  <2>1. pc' \in [Jobs -> PCs]
    BY <1>14 DEF Crash, PCs, Ended
  <2>2. TypeOK'
    <3>1. StoreTypeOK'
      BY <1>14, RestartCases DEF Crash, StoreTypeOK
    <3> QED BY <1>14, <2>1, <3>1 DEF Crash, ReadTypeOK, PCs
  <2>3. HeldInv' /\ SlotInv'
    BY <1>14 DEF Crash, HeldInv, SlotInv, Active
  <2> QED BY <2>2, <2>3
<1>15. CASE UNCHANGED vars
  BY <1>15 DEF vars, storeVars, readVars, procVars, StoreTypeOK, ReadTypeOK, HeldInv, SlotInv
<1> QED
  BY <1>1, <1>2, <1>3, <1>4, <1>5, <1>6, <1>7, <1>8, <1>9, <1>10, <1>11, <1>12, <1>13, <1>14,
     <1>15 DEF Next, Process

\* The channels are closed, and their reader gone, only when the client's
\* goroutine has returned.
THEOREM ChannelsAreUsedUp == Spec => []NoSendOnClosedChannel
<1>1. TypeInv => NoSendOnClosedChannel
  BY DEF TypeInv, TypeOK, HeldInv, NoSendOnClosedChannel
<1> QED BY <1>1, TypeInit, TypeStep, PTL DEF Spec

\* Who waits at a channel has, at its other end, a goroutine that is on its way there.
HasPartner(j) ==
  /\ pc[j] = "recvErr" => rpc[j] \in {"calling", "sendErr"}
  /\ pc[j] = "recvResp" => rpc[j] = "sendResp"

PartnersInv == \A j \in Jobs : HasPartner(j)

\* ProcessJob and the client's goroutine never wait for each other, nor does one of them
\* wait at a channel that the other has left: the two receives and the two sends meet in
\* pairs, whatever SubmitJob returned.
THEOREM ReceivesHaveSenders == Spec => []PartnersInv
<1>1. Init => PartnersInv
  BY DEF Init, PartnersInv, HasPartner
<1>2. TypeInv /\ PartnersInv /\ [Next]_vars => PartnersInv'
  <2> SUFFICES ASSUME TypeInv, PartnersInv, [Next]_vars PROVE PartnersInv'
    OBVIOUS
  <2> USE DEF TypeInv, TypeOK, PartnersInv, HasPartner, Goto
  <2>1. ASSUME NEW j \in Jobs, Submit(j) PROVE PartnersInv'
    BY <2>1 DEF Submit
  <2>2. ASSUME NEW j \in Jobs, Dispatch(j) PROVE PartnersInv'
    BY <2>2 DEF Dispatch
  <2>3. ASSUME NEW j \in Jobs, RpcReturn(j) PROVE PartnersInv'
    BY <2>3 DEF RpcReturn, HeldInv
  <2>4. ASSUME NEW j \in Jobs, RecvErr(j) PROVE PartnersInv'
    BY <2>4 DEF RecvErr
  <2>5. ASSUME NEW j \in Jobs, RecvResponse(j) PROVE PartnersInv'
    BY <2>5 DEF RecvResponse
  <2>6. ASSUME NEW j \in Jobs, Save(j) \/ Update(j) \/ Announce(j) PROVE PartnersInv'
    BY <2>6 DEF Save, Update, Announce
  <2>7. ASSUME NEW j \in Jobs, FinalizeTimeout(j) \/ Age(j) \/ Forget(j) PROVE PartnersInv'
    BY <2>7 DEF FinalizeTimeout, Age, Forget, procVars
  <2>8. ASSUME NEW r \in Readers, Check(r) PROVE PartnersInv'
    BY <2>8 DEF Check, procVars
  <2>9. CASE Tick \/ UNCHANGED vars
    BY <2>9 DEF Tick, procVars, vars
  <2>10. CASE Crash
    BY <2>10 DEF Crash, Active
  <2> QED BY <2>1, <2>2, <2>3, <2>4, <2>5, <2>6, <2>7, <2>8, <2>9, <2>10 DEF Next, Process
<1>3. TypeInv /\ [Next]_vars => TypeInv'
  BY TypeStep
<1> QED BY <1>1, <1>2, <1>3, TypeInit, PTL DEF Spec

\* Every variable stays in its type; in particular ProcessJob never writes a
\* status that the CHECK constraint of jobs.status would refuse.
THEOREM TypeCorrect == Spec => []TypeOK
<1>1. TypeInv => TypeOK
  BY DEF TypeInv
<1> QED BY <1>1, TypeInit, TypeStep, PTL DEF Spec

-----------------------------------------------------------------------------
(* Statuses.  One final status is decided for a job, in PostgreSQL first;   *)
(* whatever holds a final status afterwards got it from there or from       *)
(* ProcessJob.                                                              *)

Published == {"announce", "done", "dead"}
Unsaved   == {"new", "rejected", "stored", "recvErr", "recvResp", "save"}

\* s, a status that somebody holds for j, can be believed: a final status is
\* only held once ProcessJob is past UpdateJob, "completed" only of a row that
\* is completed or gone, and, if no UPDATE has an unknown outcome, only the
\* status that ProcessJob decided on.
Sound(j, s) ==
  s \in Final =>
    /\ pc[j] \in Published
    /\ s = "completed" => jobs[j] \in {"completed", NoRow}
    /\ "lost" \notin StorageOutcomes => s = verdict[j]

\* The row of j in archives is one that a job of status s may have.
Agrees(j, s) ==
  /\ s = "completed" /\ jobs[j] # NoRow =>
       archives[j] \in Generated \cup
         (IF "uncommitted" \in SaveOutcomes THEN {NoRow} ELSE {})
  /\ s = "failed" => archives[j] \in {NoRow, "fatal"}

TableInv ==
  \A j \in Jobs :
    /\ archives[j] # NoRow => jobs[j] # NoRow
    /\ pc[j] \in Unsaved => archives[j] = NoRow
    /\ pc[j] = "new" => jobs[j] = NoRow
    /\ Sound(j, jobs[j])
    /\ Agrees(j, jobs[j])

VerdictInv ==
  \A j \in Jobs :
    /\ pc[j] \in {"recvResp", "save"} =>
         verdict[j] = IF res[j] = "fatal" THEN "failed" ELSE "completed"
    /\ pc[j] = "update" => Agrees(j, verdict[j])
    /\ pc[j] \in {"announce", "done"} /\ verdict[j] = "completed" =>
         jobs[j] \in {"completed", NoRow}

HolderInv ==
  /\ \A j \in Jobs : Sound(j, cache[j]) /\ Sound(j, told[j])
  /\ \A r \in Readers : seen[r] # NoStatus => Sound(asked[r], seen[r])

IInv == TypeInv /\ TableInv /\ VerdictInv /\ HolderInv

LEMMA StatusInit == Init => IInv
<1> SUFFICES ASSUME Init PROVE IInv
  OBVIOUS
<1>1. TypeInv
  BY TypeInit
<1>2. TableInv
  BY Words DEF Init, StoreInit, TableInv, Sound, Agrees, Statuses, NoRow, Final
<1>3. VerdictInv
  BY DEF Init, VerdictInv
<1>4. HolderInv
  BY Words DEF Init, StoreInit, ReadInit, HolderInv, Sound
<1> QED BY <1>1, <1>2, <1>3, <1>4 DEF IInv

\* The steps that touch neither the tables nor ProcessJob.
LEMMA Bystanders ==
  ASSUME \/ \E j \in Jobs : FinalizeTimeout(j) \/ Age(j) \/ Forget(j)
         \/ \E r \in Readers : Check(r)
         \/ UNCHANGED vars
  PROVE  UNCHANGED <<jobs, archives, pc, res, verdict>>
BY DEF FinalizeTimeout, Age, GrowOld, Forget, CacheExpire, Check, CheckJobStatusHit,
       CheckJobStatusMiss, CheckJobStatusLoad, CheckJobStatusFill, vars, storeVars, procVars

\* What was sound to believe before a step is sound after it.
LEMMA SoundStep ==
  IInv /\ [Next]_vars => \A k \in Jobs : \A s \in Statuses : Sound(k, s) => Sound(k, s)'
<1> SUFFICES ASSUME IInv, [Next]_vars, NEW k \in Jobs, NEW s \in Final, Sound(k, s)
             PROVE  Sound(k, s)'
  BY DEF Sound
<1>1. pc[k] \in Published /\ (s = "completed" => jobs[k] \in {"completed", NoRow})
      /\ ("lost" \notin StorageOutcomes => s = verdict[k])
  BY DEF Sound
<1> USE <1>1 DEF IInv, TypeInv, TypeOK, Goto, Published
<1>2. ASSUME NEW j \in Jobs, Submit(j) PROVE Sound(k, s)'
  BY <1>2 DEF Submit, StoreJob, Sound, StoreTypeOK
<1>3. ASSUME NEW j \in Jobs, Dispatch(j) \/ RecvErr(j) \/ RecvResponse(j) PROVE Sound(k, s)'
  BY <1>3 DEF Dispatch, RecvErr, RecvResponse, Sound, storeVars
<1>4. ASSUME NEW j \in Jobs, RpcReturn(j) PROVE Sound(k, s)'
  BY <1>4 DEF RpcReturn, Sound, storeVars
<1>5. ASSUME NEW j \in Jobs, Save(j) PROVE Sound(k, s)'
  BY <1>5 DEF Save, Sound
<1>6. ASSUME NEW j \in Jobs, Update(j) PROVE Sound(k, s)'
  <2>1. k # j
    BY <1>6 DEF Update
  <2>2. pc'[k] = pc[k] /\ jobs'[k] = jobs[k] /\ verdict'[k] = verdict[k]
    BY <1>6, <2>1 DEF Update, UpdateJob, StoreTypeOK
  <2> QED BY <2>2 DEF Sound
<1>7. ASSUME NEW j \in Jobs, Announce(j) PROVE Sound(k, s)'
  BY <1>7 DEF Announce, Sound
<1>8. ASSUME Tick PROVE Sound(k, s)'
  BY <1>8 DEF Tick, CleanUp, Sound, procVars
<1>9. ASSUME Crash PROVE Sound(k, s)'
  BY <1>9, RestartCases DEF Crash, Sound
<1>10. ASSUME UNCHANGED <<jobs, archives, pc, res, verdict>> PROVE Sound(k, s)'
  BY <1>10 DEF Sound
<1> QED
  BY <1>2, <1>3, <1>4, <1>5, <1>6, <1>7, <1>8, <1>9, <1>10, Bystanders DEF Next, Process

LEMMA TableStep == IInv /\ [Next]_vars => TableInv'
<1> SUFFICES ASSUME IInv, [Next]_vars PROVE TableInv'
  OBVIOUS
<1> USE Words DEF IInv, TypeInv, TypeOK, Goto, TableInv
<1> DEFINE Row(k) ==
      /\ archives[k] # NoRow => jobs[k] # NoRow
      /\ pc[k] \in Unsaved => archives[k] = NoRow
      /\ pc[k] = "new" => jobs[k] = NoRow
      /\ Sound(k, jobs[k])
      /\ Agrees(k, jobs[k])
\* A job none of whose variables here changes keeps its part of TableInv.
<1>1. \A k \in Jobs :
        /\ jobs'[k] = jobs[k] /\ archives'[k] = archives[k]
        /\ pc'[k] = pc[k] /\ verdict'[k] = verdict[k]
        => Row(k)'
  BY DEF Sound, Agrees
<1>2. ASSUME NEW j \in Jobs, Submit(j) PROVE TableInv'
  <2>1. Row(j)'
    BY <1>2 DEF Submit, StoreJob, StoreTypeOK, Sound, Agrees, Unsaved
  <2>2. ASSUME NEW k \in Jobs, k # j PROVE Row(k)'
    BY <1>1, <1>2, <2>2 DEF Submit, StoreJob, StoreTypeOK
  <2> QED BY <2>1, <2>2
<1>3. ASSUME NEW j \in Jobs, Dispatch(j) \/ RecvErr(j) \/ RecvResponse(j) PROVE TableInv'
  <2>1. Row(j)'
    BY <1>3 DEF Dispatch, RecvErr, RecvResponse, Sound, Agrees, Unsaved, Published, storeVars
  <2>2. ASSUME NEW k \in Jobs, k # j PROVE Row(k)'
    BY <1>1, <1>3, <2>2 DEF Dispatch, RecvErr, RecvResponse, storeVars
  <2> QED BY <2>1, <2>2
<1>4. ASSUME NEW j \in Jobs, RpcReturn(j) PROVE TableInv'
  BY <1>1, <1>4 DEF RpcReturn, storeVars
<1>5. ASSUME NEW j \in Jobs, Save(j) PROVE TableInv'
  <2>1. PICK o \in FinalizeStorage(j, SaveResults(j)) : SaveResponse(j, res[j], o)
    BY <1>5 DEF Save
  <2>2. o = "ok" => jobs[j] # NoRow
    BY <2>1, SaveEnds
  <2>3. jobs[j] \notin Final
    BY <1>5 DEF Save, Sound, Published
  <2>4. Row(j)'
    BY <1>5, <2>1, <2>2, <2>3 DEF Save, SaveResponse, StoreTypeOK, Sound, Agrees, Unsaved
  <2>5. ASSUME NEW k \in Jobs, k # j PROVE Row(k)'
    BY <1>1, <1>5, <2>1, <2>5 DEF Save, SaveResponse, StoreTypeOK
  <2> QED BY <2>4, <2>5
<1>6. ASSUME NEW j \in Jobs, Update(j) PROVE TableInv'
  <2>1. PICK o \in FinalizeStorage(j, UpdateResults(j)) :
          /\ UpdateJob(j, verdict[j], o)
          /\ verdict' = [verdict EXCEPT ![j] = IF Failed(o) THEN "failed" ELSE @]
    BY <1>6 DEF Update
  <2>2. /\ pc[j] = "update" /\ pc'[j] = "announce" /\ archives' = archives
        /\ verdict[j] \in Final /\ Agrees(j, verdict[j]) /\ jobs[j] \notin Final
    BY <1>6 DEF Update, HeldInv, VerdictInv, Sound, Published
  <2>3. \/ jobs'[j] = jobs[j]
        \/ /\ jobs[j] # NoRow /\ jobs'[j] = verdict[j]
           /\ o = "ok" \/ "lost" \in StorageOutcomes
    <3>1. o \in {"ok", "fail", "lost"} /\ (o = "lost" => "lost" \in StorageOutcomes)
      BY UpdateEnds
    <3> QED BY <2>1, <3>1 DEF UpdateJob, Applied, StoreTypeOK
  <2>4. o = "ok" => verdict'[j] = verdict[j]
    BY <2>1 DEF Failed
  <2>5. Row(j)'
    <3>1. Sound(j, jobs[j])'
      BY <2>2, <2>3, <2>4 DEF Sound, Published
    <3>2. Agrees(j, jobs[j])'
      BY <2>2, <2>3 DEF Agrees
    <3> QED BY <2>2, <2>3, <3>1, <3>2 DEF Unsaved
  <2>6. ASSUME NEW k \in Jobs, k # j PROVE Row(k)'
    BY <1>1, <1>6, <2>6 DEF Update, UpdateJob, StoreTypeOK
  <2> QED BY <2>5, <2>6
<1>7. ASSUME NEW j \in Jobs, Announce(j) PROVE TableInv'
  <2>1. Row(j)'
    BY <1>7 DEF Announce, Sound, Agrees, Unsaved, Published
  <2>2. ASSUME NEW k \in Jobs, k # j PROVE Row(k)'
    BY <1>1, <1>7, <2>2 DEF Announce
  <2> QED BY <2>1, <2>2
<1>8. ASSUME Tick PROVE TableInv'
  BY <1>8 DEF Tick, CleanUp, procVars, Sound, Agrees
<1>9. ASSUME Crash PROVE TableInv'
  <2>1. CASE UNCHANGED <<jobs, archives>>
    BY <1>9, <2>1 DEF Crash, Sound, Agrees, Unsaved, Published, Active
  <2>2. CASE \A k \in Jobs : jobs'[k] = NoRow /\ archives'[k] = NoRow
    BY <2>2 DEF Sound, Agrees, NoRow, Final
  <2> QED BY <1>9, <2>1, <2>2, RestartCases DEF Crash
<1>10. ASSUME UNCHANGED <<jobs, archives, pc, res, verdict>> PROVE TableInv'
  BY <1>1, <1>10
<1> QED
  BY <1>2, <1>3, <1>4, <1>5, <1>6, <1>7, <1>8, <1>9, <1>10, Bystanders DEF Next, Process

LEMMA VerdictStep == IInv /\ [Next]_vars => VerdictInv'
<1> SUFFICES ASSUME IInv, [Next]_vars PROVE VerdictInv'
  OBVIOUS
<1> USE Words DEF IInv, TypeInv, TypeOK, Goto, VerdictInv
<1>1. ASSUME NEW j \in Jobs, Submit(j) PROVE VerdictInv'
  BY <1>1 DEF Submit, StoreJob, StoreTypeOK, Agrees
<1>2. ASSUME NEW j \in Jobs, Dispatch(j) \/ RecvErr(j) \/ RecvResponse(j) PROVE VerdictInv'
  BY <1>2 DEF Dispatch, RecvErr, RecvResponse, Agrees, storeVars
<1>3. ASSUME NEW j \in Jobs, RpcReturn(j) PROVE VerdictInv'
  BY <1>3 DEF RpcReturn, HeldInv, Agrees, storeVars
<1>4. ASSUME NEW j \in Jobs, Save(j) PROVE VerdictInv'
  <2>1. PICK o \in FinalizeStorage(j, SaveResults(j)) :
          /\ SaveResponse(j, res[j], o)
          /\ verdict' = [verdict EXCEPT ![j] = IF o = "fail" THEN "failed" ELSE @]
    BY <1>4 DEF Save
  <2>2. /\ pc[j] = "save" /\ pc'[j] = "update" /\ jobs' = jobs
        /\ res[j] \in Results /\ archives[j] = NoRow
    BY <1>4 DEF Save, HeldInv, TableInv, Unsaved
  <2>3. o \in {"ok", "fail"} \/ (o = "uncommitted" /\ "uncommitted" \in SaveOutcomes)
    BY SaveEnds
  <2>4. Agrees(j, verdict[j])'
    <3>1. CASE o = "ok"
      <4>1. archives'[j] = res[j] /\ verdict'[j] = verdict[j]
        BY <2>1, <3>1 DEF SaveResponse, StoreTypeOK
      <4>2. res[j] # "fatal" => res[j] \in Generated
        BY <2>2 DEF Results, Generated
      <4> QED BY <2>2, <4>1, <4>2 DEF Agrees
    <3>2. CASE o # "ok"
      BY <2>1, <2>2, <2>3, <3>2 DEF SaveResponse, Agrees
    <3> QED BY <3>1, <3>2
  <2>5. ASSUME NEW k \in Jobs, k # j
        PROVE  /\ pc'[k] = pc[k] /\ verdict'[k] = verdict[k] /\ res'[k] = res[k]
               /\ archives'[k] = archives[k]
    BY <1>4, <2>1, <2>5 DEF Save, SaveResponse, StoreTypeOK
  <2> QED BY <2>2, <2>4, <2>5 DEF Agrees
<1>5. ASSUME NEW j \in Jobs, Update(j) PROVE VerdictInv'
  <2>1. PICK o \in FinalizeStorage(j, UpdateResults(j)) :
          /\ UpdateJob(j, verdict[j], o)
          /\ verdict' = [verdict EXCEPT ![j] = IF Failed(o) THEN "failed" ELSE @]
    BY <1>5 DEF Update
  <2>2. pc'[j] = "announce" /\ archives' = archives /\ res' = res
    BY <1>5 DEF Update
  <2>3. verdict'[j] = "completed" => jobs'[j] \in {"completed", NoRow}
    BY <2>1 DEF UpdateJob, Failed, Applied, StoreTypeOK
  <2>4. ASSUME NEW k \in Jobs, k # j
        PROVE  pc'[k] = pc[k] /\ verdict'[k] = verdict[k] /\ jobs'[k] = jobs[k]
    BY <1>5, <2>1, <2>4 DEF Update, UpdateJob, StoreTypeOK
  <2> QED BY <2>2, <2>3, <2>4 DEF Agrees
<1>6. ASSUME NEW j \in Jobs, Announce(j) PROVE VerdictInv'
  BY <1>6 DEF Announce, Agrees
<1>7. ASSUME Tick PROVE VerdictInv'
  BY <1>7 DEF Tick, CleanUp, procVars, Agrees
<1>8. ASSUME Crash PROVE VerdictInv'
  BY <1>8, RestartCases DEF Crash, Agrees, Active
<1>9. ASSUME UNCHANGED <<jobs, archives, pc, res, verdict>> PROVE VerdictInv'
  BY <1>9 DEF Agrees
<1> QED
  BY <1>1, <1>2, <1>3, <1>4, <1>5, <1>6, <1>7, <1>8, <1>9, Bystanders DEF Next, Process

LEMMA HolderStep == IInv /\ [Next]_vars => HolderInv'
<1> SUFFICES ASSUME IInv, [Next]_vars PROVE HolderInv'
  OBVIOUS
<1> USE Words DEF IInv, TypeInv, TypeOK, Goto, HolderInv
<1>1. \A k \in Jobs : \A s \in Statuses : Sound(k, s) => Sound(k, s)'
  BY SoundStep DEF IInv
\* Who holds what: every status held after the step is one that was held or in
\* the table before it, is not final, or is the verdict that Announce announces.
<1>2. ASSUME NEW k \in Jobs, cache'[k] \in {cache[k], told[k], "processing", NoStatus}
      PROVE  Sound(k, cache[k])'
  BY <1>1, <1>2 DEF Sound, StoreTypeOK, ReadTypeOK
<1>3. ASSUME NEW k \in Jobs, told'[k] \in {told[k], cache[k]}
      PROVE  Sound(k, told[k])'
  BY <1>1, <1>3 DEF Sound, StoreTypeOK, ReadTypeOK
<1>4. ASSUME NEW r \in Readers,
             seen'[r] = NoStatus \/ (seen'[r] = seen[r] /\ asked'[r] = asked[r])
      PROVE  seen'[r] # NoStatus => Sound(asked[r], seen[r])'
  BY <1>1, <1>4 DEF Sound, ReadTypeOK, SlotInv
<1>5. ASSUME UNCHANGED <<cache, told, seen, asked>> PROVE HolderInv'
  BY <1>2, <1>3, <1>4, <1>5
<1>6. ASSUME NEW j \in Jobs, Submit(j) \/ RpcReturn(j) \/ RecvErr(j) \/ RecvResponse(j)
                             \/ Save(j) \/ Update(j) \/ FinalizeTimeout(j) \/ Age(j)
      PROVE  HolderInv'
  BY <1>5, <1>6 DEF Submit, RpcReturn, RecvErr, RecvResponse, Save, Update, FinalizeTimeout,
                    Age, GrowOld, storeVars, readVars
<1>7. ASSUME NEW j \in Jobs, Dispatch(j) PROVE HolderInv'
  <2>1. UNCHANGED <<told, seen, asked>>
        /\ \A k \in Jobs : cache'[k] \in {cache[k], "processing"}
    BY <1>7 DEF Dispatch, SetJobStatus, StoreTypeOK
  <2> QED BY <1>2, <1>3, <1>4, <2>1
<1>8. ASSUME NEW j \in Jobs, Announce(j) PROVE HolderInv'
  <2>1. UNCHANGED <<told, seen, asked, jobs, verdict>> /\ pc'[j] = "done"
        /\ \A k \in Jobs : cache'[k] = cache[k] \/ (k = j /\ cache'[k] = verdict[k])
    BY <1>8 DEF Announce, SetJobStatus, StoreTypeOK, readVars
  <2>2. verdict[j] = "completed" => jobs[j] \in {"completed", NoRow}
    BY <1>8 DEF Announce, VerdictInv
  <2>3. cache'[j] = verdict[j] => Sound(j, cache[j])'
    BY <2>1, <2>2 DEF Sound, Published
  <2> QED BY <1>2, <1>3, <1>4, <2>1, <2>3
<1>9. ASSUME NEW j \in Jobs, Forget(j) PROVE HolderInv'
  <2>1. UNCHANGED <<told, seen, asked>>
        /\ \A k \in Jobs : cache'[k] \in {cache[k], NoStatus}
    BY <1>9 DEF Forget, CacheExpire, StoreTypeOK, readVars
  <2> QED BY <1>2, <1>3, <1>4, <2>1
<1>10. ASSUME NEW r \in Readers, Check(r) PROVE HolderInv'
  <2>1. ASSUME NEW j \in Jobs, CheckJobStatusHit(r, j) PROVE HolderInv'
    <3>1. UNCHANGED <<cache, seen, asked>>
          /\ \A k \in Jobs : told'[k] \in {told[k], cache[k]}
      BY <2>1 DEF CheckJobStatusHit, Reply, storeVars, ReadTypeOK
    <3> QED BY <1>2, <1>3, <1>4, <3>1
  <2>2. ASSUME NEW j \in Jobs, CheckJobStatusMiss(r, j) PROVE HolderInv'
    <3>1. UNCHANGED <<cache, told>>
          /\ \A q \in Readers : seen'[q] = seen[q] /\ (seen[q] # NoStatus => asked'[q] = asked[q])
      BY <2>2, NoJobAssumption DEF CheckJobStatusMiss, storeVars, ReadTypeOK, SlotInv
    <3> QED BY <1>2, <1>3, <1>4, <3>1
  <2>3. ASSUME CheckJobStatusLoad(r) PROVE HolderInv'
    <3>1. UNCHANGED <<cache, told>> /\ asked[r] \in Jobs
          /\ \A q \in Readers \ {r} : seen'[q] = seen[q] /\ asked'[q] = asked[q]
      BY <2>3 DEF CheckJobStatusLoad, Hangup, storeVars, ReadTypeOK
    <3>2. \/ seen'[r] = NoStatus
          \/ asked'[r] = asked[r] /\ seen'[r] = jobs[asked[r]] /\ jobs[asked[r]] # NoRow
      BY <2>3 DEF CheckJobStatusLoad, SelectStatusHits, Hangup, ReadTypeOK
    <3>3. Sound(asked[r], jobs[asked[r]]) /\ jobs[asked[r]] \in Statuses \cup {NoRow}
      BY <3>1 DEF TableInv, StoreTypeOK
    <3>4. seen'[r] # NoStatus => Sound(asked[r], seen[r])'
      BY <1>1, <3>1, <3>2, <3>3 DEF Sound
    <3> QED BY <1>2, <1>3, <1>4, <3>1, <3>4
  <2>4. ASSUME CheckJobStatusFill(r) PROVE HolderInv'
    <3>1. asked[r] \in Jobs /\ seen[r] \in Statuses /\ Sound(asked[r], seen[r])
      BY <2>4 DEF CheckJobStatusFill, SlotInv, ReadTypeOK
    <3>2. Sound(asked[r], seen[r]) => \A k \in Jobs :
            k = asked[r] => (cache'[k] = seen[r] => Sound(k, cache[k])')
                            /\ (told'[k] = seen[r] => Sound(k, told[k])')
      BY <1>1, <3>1 DEF Sound
    <3>3. \A k \in Jobs : /\ cache'[k] = cache[k] \/ (k = asked[r] /\ cache'[k] = seen[r])
                          /\ told'[k] = told[k] \/ (k = asked[r] /\ told'[k] = seen[r])
      BY <2>4, <3>1 DEF CheckJobStatusFill, SetJobStatus, Reply, StoreTypeOK, ReadTypeOK
    <3>4. \A q \in Readers :
            seen'[q] = NoStatus \/ (seen'[q] = seen[q] /\ asked'[q] = asked[q])
      BY <2>4 DEF CheckJobStatusFill, Hangup, ReadTypeOK
    <3> QED BY <1>2, <1>3, <1>4, <3>1, <3>2, <3>3, <3>4
  <2> QED BY <1>10, <2>1, <2>2, <2>3, <2>4 DEF Check
<1>11. ASSUME Tick PROVE HolderInv'
  BY <1>5, <1>11 DEF Tick, CleanUp, readVars
<1>12. ASSUME Crash PROVE HolderInv'
  BY <1>2, <1>3, <1>4, <1>12, RestartCases DEF Crash
<1>13. CASE UNCHANGED vars
  BY <1>5, <1>13 DEF vars, storeVars, readVars
<1> QED
  BY <1>6, <1>7, <1>8, <1>9, <1>10, <1>11, <1>12, <1>13 DEF Next, Process

LEMMA StatusStep == IInv /\ [Next]_vars => IInv'
<1>1. IInv /\ [Next]_vars => TypeInv'
  BY TypeStep DEF IInv
<1> QED BY <1>1, TableStep, VerdictStep, HolderStep DEF IInv

THEOREM Invariance == Spec => []IInv
BY StatusInit, StatusStep, PTL DEF Spec

-----------------------------------------------------------------------------
(* What follows for clients                                                *)

\* Nobody, in the cache, an answer or the metric, calls a job completed that
\* PostgreSQL does not hold as completed, whatever calls fail.
THEOREM CompletedIsTrue == Spec => []CompletedIsReal
<1>1. IInv => CompletedIsReal
  <2> SUFFICES ASSUME IInv, NEW j \in Jobs,
                      \/ "completed" \in {cache[j], told[j]}
                      \/ pc[j] = "done" /\ verdict[j] = "completed"
               PROVE  jobs[j] \in {"completed", NoRow}
    BY DEF CompletedIsReal
  <2>1. CASE "completed" \in {cache[j], told[j]}
    BY <2>1, Words DEF IInv, HolderInv, Sound
  <2>2. CASE pc[j] = "done" /\ verdict[j] = "completed"
    BY <2>2 DEF IInv, VerdictInv
  <2> QED BY <2>1, <2>2
<1> QED BY <1>1, Invariance, PTL

\* The status of a row and its result agree.
THEOREM TablesAgree == Spec => []RowMatchesStatus
<1>1. IInv => RowMatchesStatus
  BY Words DEF IInv, TableInv, Agrees, RowMatchesStatus, NoRow
<1> QED BY <1>1, Invariance, PTL

\* A client that was told "completed" can fetch the information about the
\* archive until the clean-up, if COMMIT does not fail unnoticed.
THEOREM CompletedCanBeFetched == Spec => []CompletedIsServed
<1>1. IInv => CompletedIsServed
  <2> SUFFICES ASSUME IInv, "uncommitted" \notin SaveOutcomes, NEW j \in Jobs,
                      told[j] = "completed", jobs[j] # NoRow
               PROVE  GetArchiveInfo(j) = "info"
    BY DEF CompletedIsServed
  <2>1. jobs[j] = "completed"
    BY Words DEF IInv, HolderInv, Sound
  <2>2. archives[j] \in Generated
    BY <2>1 DEF IInv, TableInv, Agrees
  <2> QED BY <2>1, <2>2 
         DEF GetArchiveInfo, HasArchive, MemoryHasArchive, GetArchive, Generated, NoRow
<1> QED BY <1>1, Invariance, PTL

\* What is answered about the archive of a job on which the worker is still at work: in
\* memory what generator_test.go:249-262 expects, in PostgreSQL, where the row in archives
\* is missing, that there is no such thing (so UnfinishedIsReported is violated at every
\* such question, not only at a few).
UnfinishedAnswers ==
  \A j \in Jobs :
    jobs[j] = "processing" /\ pc[j] \in Unsaved =>
      GetArchive(j) = IF InMemory THEN "ErrJobNotFinished" ELSE "ErrNotFound"

THEOREM UnfinishedIsNotFound == Spec => []UnfinishedAnswers
<1>1. IInv => UnfinishedAnswers
  BY DEF IInv, TableInv, UnfinishedAnswers, GetArchive, HasArchive, MemoryHasArchive, NoRow
<1> QED BY <1>1, Invariance, PTL

\* "failed" is not said of a job that is completed, if every UPDATE that takes
\* effect reports so.
THEOREM FailedIsTrue == Spec => []FailedIsNotContradicted
<1>1. IInv => FailedIsNotContradicted
  BY Words DEF IInv, TableInv, HolderInv, Sound, FailedIsNotContradicted
<1> QED BY <1>1, Invariance, PTL

\* Under the same condition a client never gets both final statuses of a job.
THEOREM OneVerdict == Spec => VerdictNeverReversed
<1>1. IInv /\ IInv' /\ [Next]_vars => [\A j \in Jobs : KeepsVerdict(j)]_vars
  <2> SUFFICES ASSUME IInv, IInv', [Next]_vars, NEW j \in Jobs,
                      "lost" \notin StorageOutcomes, told[j] \in Final, told'[j] \in Final
               PROVE  told'[j] = told[j]
    BY DEF KeepsVerdict
  <2>1. told[j] = verdict[j] /\ told'[j] = verdict'[j]
    BY DEF IInv, HolderInv, Sound
  <2>2. \A s \in Statuses : Sound(j, s) => Sound(j, s)'
    BY SoundStep
  <2>3. Sound(j, told[j]) /\ told[j] \in Statuses
    BY Words DEF IInv, HolderInv
  <2>4. told[j] = verdict'[j]
    BY <2>2, <2>3 DEF Sound
  <2> QED BY <2>1, <2>4
<1> QED BY <1>1, Invariance, PTL DEF Spec, VerdictNeverReversed

-----------------------------------------------------------------------------
(* As main wires it (BootProofs, ServesWithoutClients), every call on the   *)
(* gRPC connection and on the Redis client returns an error.                *)

ClosedInv ==
  /\ \A j \in Jobs :
       /\ rpc[j] = "sendErr" \/ pc[j] \in {"recvResp", "save"} => res[j] = "fatal"
       /\ verdict[j] # "completed" /\ jobs[j] # "completed"
       /\ cache[j] # "completed" /\ told[j] # "completed"
  /\ \A r \in Readers : seen[r] # "completed"

LEMMA ClosedStep ==
  ASSUME RpcOutcomes \subseteq {"fatal"}
  PROVE  TypeInv /\ ClosedInv /\ [Next]_vars => ClosedInv'
<1> SUFFICES ASSUME TypeInv, ClosedInv, [Next]_vars PROVE ClosedInv'
  OBVIOUS
<1> USE DEF TypeInv, TypeOK, StoreTypeOK, ReadTypeOK, Goto, ClosedInv
<1>1. ASSUME NEW j \in Jobs, Submit(j) PROVE ClosedInv'
  BY <1>1 DEF Submit, StoreJob, readVars
<1>2. ASSUME NEW j \in Jobs, Dispatch(j) PROVE ClosedInv'
  BY <1>2 DEF Dispatch, SetJobStatus
<1>3. ASSUME NEW j \in Jobs, RpcReturn(j) PROVE ClosedInv'
  BY <1>3 DEF RpcReturn, storeVars, readVars
<1>4. ASSUME NEW j \in Jobs, RecvErr(j) PROVE ClosedInv'
  <2>1. res[j] = "fatal"
    BY <1>4 DEF RecvErr
  <2> QED BY <1>4, <2>1 DEF RecvErr, storeVars, readVars
<1>5. ASSUME NEW j \in Jobs, RecvResponse(j) PROVE ClosedInv'
  BY <1>5 DEF RecvResponse, storeVars, readVars
<1>6. ASSUME NEW j \in Jobs, Save(j) PROVE ClosedInv'
  <2>1. rpc[j] # "sendErr"
    BY <1>6 DEF Save, HeldInv
  <2> QED BY <1>6, <2>1 DEF Save, readVars
<1>7. ASSUME NEW j \in Jobs, Update(j) PROVE ClosedInv'
  BY <1>7 DEF Update, UpdateJob, readVars
<1>8. ASSUME NEW j \in Jobs, Announce(j) PROVE ClosedInv'
  BY <1>8 DEF Announce, SetJobStatus, readVars
<1>9. ASSUME NEW j \in Jobs, FinalizeTimeout(j) PROVE ClosedInv'
  BY <1>9 DEF FinalizeTimeout, storeVars, readVars
<1>10. ASSUME NEW j \in Jobs, Age(j) \/ Forget(j) PROVE ClosedInv'
  BY <1>10 DEF Age, GrowOld, Forget, CacheExpire, procVars, readVars, NoStatus
<1>11. ASSUME NEW r \in Readers, NEW j \in Jobs, UNCHANGED procVars,
              CheckJobStatusHit(r, j) \/ CheckJobStatusMiss(r, j)
       PROVE  ClosedInv'
  BY <1>11 DEF CheckJobStatusHit, CheckJobStatusMiss, Reply, storeVars, procVars
<1>12. ASSUME NEW r \in Readers, UNCHANGED procVars, CheckJobStatusLoad(r) PROVE ClosedInv'
  <2>1. asked[r] \in Jobs
    BY <1>12 DEF CheckJobStatusLoad
  <2>2. seen' = [seen EXCEPT ![r] = jobs[asked[r]]] \/ seen' = [seen EXCEPT ![r] = NoStatus]
    BY <1>12 DEF CheckJobStatusLoad, Hangup
  <2>3. \A q \in Readers : seen'[q] # "completed"
    <3>1. jobs[asked[r]] # "completed" /\ NoStatus # "completed"
      BY <2>1 DEF NoStatus
    <3>2. \A q \in Readers : seen'[q] \in {seen[q], jobs[asked[r]], NoStatus}
      BY <2>2
    <3>3. \A q \in Readers : seen[q] # "completed"
      OBVIOUS
    <3> QED BY <3>1, <3>2, <3>3, Zenon
  <2>4. UNCHANGED <<rpc, pc, res, verdict, jobs, cache, told>>
    BY <1>12 DEF CheckJobStatusLoad, storeVars, procVars
  <2> QED BY <2>3, <2>4
<1>13. ASSUME NEW r \in Readers, UNCHANGED procVars, CheckJobStatusFill(r) PROVE ClosedInv'
  <2>1. asked[r] \in Jobs
    BY <1>13 DEF CheckJobStatusFill, SlotInv
  <2>2. seen[r] # "completed"
    OBVIOUS
  <2>3. \/ cache' = [cache EXCEPT ![asked[r]] = seen[r]]
        \/ cache' = cache
    BY <1>13 DEF CheckJobStatusFill, SetJobStatus
  <2>4. /\ told' = [told EXCEPT ![asked[r]] = seen[r]]
        /\ seen' = [seen EXCEPT ![r] = NoStatus]
    BY <1>13 DEF CheckJobStatusFill, Reply, Hangup
  <2>5. UNCHANGED <<rpc, pc, res, verdict, jobs>>
    BY <1>13 DEF CheckJobStatusFill, procVars
  <2>6. \A q \in Readers : seen'[q] # "completed"
    BY <2>4 DEF NoStatus
  <2>7. \A j \in Jobs : cache'[j] # "completed" /\ told'[j] # "completed"
    BY <2>1, <2>2, <2>3, <2>4
  <2> QED BY <2>5, <2>6, <2>7
<1>14. CASE Tick
  BY <1>14 DEF Tick, CleanUp, procVars, readVars, NoRow
<1>15. CASE Crash
  BY <1>15, RestartCases DEF Crash, NoRow, NoStatus, Active
<1>16. CASE UNCHANGED vars
  BY <1>16 DEF vars, storeVars, procVars, readVars
<1> QED
  BY <1>1, <1>2, <1>3, <1>4, <1>5, <1>6, <1>7, <1>8, <1>9, <1>10, <1>11, <1>12, <1>13, <1>14, <1>15,
     <1>16 DEF Next, Process, Check

\* With a connection that is closed before the first request no job is ever completed,
\* in the storage, in the cache or to a client, whatever else works.
NothingCompleted ==
  \A j \in Jobs : "completed" \notin {jobs[j], verdict[j], cache[j], told[j]}

THEOREM ClosedConnectionCompletesNothing ==
  ASSUME RpcOutcomes \subseteq {"fatal"}
  PROVE  Spec => []NothingCompleted
<1>1. Init => ClosedInv
  BY DEF Init, StoreInit, ReadInit, ClosedInv, NoRow, NoStatus
<1>2. TypeInv /\ ClosedInv /\ [Next]_vars => ClosedInv'
  BY ClosedStep
<1>3. ClosedInv => NothingCompleted
  BY DEF ClosedInv, NothingCompleted
<1> QED BY <1>1, <1>2, <1>3, TypeInit, TypeStep, PTL DEF Spec

-----------------------------------------------------------------------------
(* Refinement                                                              *)

\* The steps after which a reader of the tables cannot tell a difference.
LEMMA Stutter ==
  ASSUME UNCHANGED <<jobs, archives>>, \A k \in Jobs : pc'[k] # "new" <=> pc[k] # "new"
  PROVE  UNCHANGED Lifecycle!vars
BY DEF Lifecycle!vars

LEMMA LifecycleInit == Init => Lifecycle!Init
BY DEF Init, StoreInit, Lifecycle!Init, Lifecycle!NoRow, NoRow

LEMMA LifecycleStep == IInv /\ [Next]_vars => [Lifecycle!Next]_Lifecycle!vars
<1> SUFFICES ASSUME IInv, [Next]_vars PROVE Lifecycle!Next \/ UNCHANGED Lifecycle!vars
  OBVIOUS
<1> USE Words DEF IInv, TypeInv, TypeOK, Goto
<1>1. ASSUME NEW j \in Jobs, Submit(j) PROVE Lifecycle!Issue(j)
  <2>1. pc[j] = "new" /\ archives' = archives /\ \A k \in Jobs : pc'[k] # "new" <=> k = j \/ pc[k] # "new"
    BY <1>1 DEF Submit
  <2>2. jobs' \in {jobs, [jobs EXCEPT ![j] = "processing"]}
    BY <1>1 DEF Submit, StoreJob
  <2> QED BY <2>1, <2>2 DEF Lifecycle!Issue
<1>2. ASSUME NEW j \in Jobs, Dispatch(j) \/ RecvErr(j) \/ RecvResponse(j) \/ Announce(j)
      PROVE  UNCHANGED Lifecycle!vars
  <2>1. UNCHANGED <<jobs, archives>> /\ \A k \in Jobs : pc'[k] # "new" <=> pc[k] # "new"
    BY <1>2 DEF Dispatch, RecvErr, RecvResponse, Announce, storeVars
  <2> QED BY <2>1, Stutter
<1>3. ASSUME NEW j \in Jobs, RpcReturn(j) PROVE UNCHANGED Lifecycle!vars
  BY <1>3, Stutter DEF RpcReturn, storeVars
<1>4. ASSUME NEW j \in Jobs, Save(j) PROVE Lifecycle!Record(j) \/ UNCHANGED Lifecycle!vars
  <2>1. PICK o \in FinalizeStorage(j, SaveResults(j)) : SaveResponse(j, res[j], o)
    BY <1>4 DEF Save
  <2>2. /\ pc[j] = "save" /\ jobs' = jobs /\ \A k \in Jobs : pc'[k] # "new" <=> pc[k] # "new"
    BY <1>4 DEF Save
  <2>3. CASE o = "ok"
    <3>1. jobs[j] # NoRow
      BY <2>1, <2>3, SaveEnds
    <3>2. jobs[j] = "processing" /\ archives[j] = NoRow
      BY <2>2, <3>1 DEF TableInv, Unsaved, Sound, Published, StoreTypeOK, Statuses, Final
    <3>3. res[j] \in Lifecycle!Generated \cup {Lifecycle!Fatal}
      BY <2>2 DEF HeldInv, Results, Lifecycle!Generated, Lifecycle!Fatal
    <3>4. archives' = [archives EXCEPT ![j] = res[j]]
      BY <2>1, <2>3 DEF SaveResponse
    <3> QED BY <2>2, <3>2, <3>3, <3>4 DEF Lifecycle!Record, Lifecycle!NoRow, NoRow
  <2>4. CASE o # "ok"
    BY <2>1, <2>2, <2>4, Stutter DEF SaveResponse
  <2> QED BY <2>3, <2>4
<1>5. ASSUME NEW j \in Jobs, Update(j)
      PROVE  Lifecycle!Complete(j) \/ Lifecycle!Fail(j) \/ UNCHANGED Lifecycle!vars
  <2>1. PICK o \in FinalizeStorage(j, UpdateResults(j)) : UpdateJob(j, verdict[j], o)
    BY <1>5 DEF Update
  <2>2. /\ pc[j] = "update" /\ archives' = archives
        /\ \A k \in Jobs : pc'[k] # "new" <=> pc[k] # "new"
    BY <1>5 DEF Update
  <2>3. verdict[j] \in Final /\ Agrees(j, verdict[j]) /\ jobs[j] \notin Final
    BY <2>2 DEF HeldInv, VerdictInv, TableInv, Sound, Published
  <2>4. CASE Applied(o) /\ jobs[j] # NoRow
    <3>1. jobs[j] = "processing" /\ jobs' = [jobs EXCEPT ![j] = verdict[j]]
      BY <2>1, <2>3, <2>4 DEF UpdateJob, StoreTypeOK, Statuses, Final
    <3>2. CASE verdict[j] = "completed"
      BY <2>2, <2>3, <2>4, <3>1, <3>2
         DEF Agrees, Lifecycle!Complete, Lifecycle!Generated, Lifecycle!NoRow, Generated, NoRow
    <3>3. CASE verdict[j] = "failed"
      BY <2>2, <2>3, <3>1, <3>3
         DEF Agrees, Lifecycle!Fail, Lifecycle!Generated, NoRow
    <3> QED BY <2>3, <3>2, <3>3
  <2>5. CASE ~(Applied(o) /\ jobs[j] # NoRow)
    BY <2>1, <2>2, <2>5, Stutter DEF UpdateJob
  <2> QED BY <2>4, <2>5
<1>6. ASSUME Tick PROVE Lifecycle!Expire(old)
  BY <1>6 DEF Tick, CleanUp, procVars, Lifecycle!Expire, Lifecycle!NoRow, NoRow
<1>7. ASSUME Crash PROVE Lifecycle!Expire(Jobs) \/ UNCHANGED Lifecycle!vars
  <2>1. \A k \in Jobs : pc'[k] # "new" <=> pc[k] # "new"
    BY <1>7 DEF Crash, Active
  <2>2. CASE UNCHANGED <<jobs, archives>>
    BY <2>1, <2>2, Stutter
  <2>3. CASE jobs' = [k \in Jobs |-> NoRow] /\ archives' = [k \in Jobs |-> NoRow]
    BY <2>1, <2>3 DEF Lifecycle!Expire, Lifecycle!NoRow, NoRow
  <2> QED BY <1>7, <2>2, <2>3, RestartCases DEF Crash
<1>8. ASSUME UNCHANGED <<jobs, archives, pc, res, verdict>> PROVE UNCHANGED Lifecycle!vars
  BY <1>8, Stutter
<1>9. old \in SUBSET Jobs
  BY DEF StoreTypeOK
<1> QED
  BY <1>1, <1>2, <1>3, <1>4, <1>5, <1>6, <1>7, <1>8, <1>9, Bystanders
     DEF Next, Process, Lifecycle!Next

\* Seen through the two tables, requests, goroutines, faults and restarts only
\* ever take the steps of JobLifecycle.
THEOREM Refinement == Spec => ImplementsLifecycle
BY LifecycleInit, LifecycleStep, Invariance, PTL DEF Spec, ImplementsLifecycle, Lifecycle!Spec

\* The same abstraction, with the theorems about it.
Promise ==
  INSTANCE JobLifecycleProofs WITH
    status <- jobs,
    result <- archives,
    issued <- {j \in Jobs : pc[j] # "new"},
    Backed <- "uncommitted" \notin SaveOutcomes

LEMMA PromiseIsKept == ImplementsLifecycle => Promise!Spec
<1>1. Lifecycle!Init => Promise!Init
  BY DEF Lifecycle!Init, Promise!Init, Lifecycle!NoRow, Promise!NoRow
<1>2. [Lifecycle!Next]_(Lifecycle!vars) => [Promise!Next]_(Promise!vars)
  BY DEF Lifecycle!Next, Lifecycle!Issue, Lifecycle!Record, Lifecycle!Complete, Lifecycle!Fail,
         Lifecycle!Expire, Lifecycle!vars, Lifecycle!NoRow, Lifecycle!Generated, Lifecycle!Fatal,
         Promise!Next, Promise!Issue, Promise!Record, Promise!Complete, Promise!Fail,
         Promise!Expire, Promise!vars, Promise!NoRow, Promise!Generated, Promise!Fatal
<1> QED BY <1>1, <1>2, PTL DEF ImplementsLifecycle, Lifecycle!Spec, Promise!Spec

\* An UPDATE, whatever is answered to it, an INSERT and a restart leave a verdict that
\* was given as it is: its row keeps it until it expires.
TableKeepsVerdict(j) == jobs[j] \in Final => jobs'[j] \in {jobs[j], NoRow}

THEOREM VerdictIsForGood == Spec => [][\A j \in Jobs : TableKeepsVerdict(j)]_vars
<1>1. [Promise!Lasting]_(Promise!vars) => \A j \in Jobs : TableKeepsVerdict(j)
  BY DEF Promise!Lasting, Promise!Lasts, Promise!Verdicts, Promise!vars, Promise!NoRow,
         TableKeepsVerdict, Final, NoRow
<1> QED BY <1>1, Refinement, PromiseIsKept, Promise!VerdictsLast, PTL

\* A row that has expired, or that was lost, stays away, however late the goroutine or
\* the message that still works on the job.
Vanished(j) == pc[j] # "new" /\ jobs[j] = NoRow

THEOREM GoneIsGone == Spec => \A j \in Jobs : [](Vanished(j) => []Vanished(j))
<1>1. ASSUME NEW j \in Jobs PROVE Promise!Gone(j) <=> Vanished(j)
  BY DEF Promise!Gone, Promise!NoRow, Vanished, NoRow
<1>2. ASSUME NEW j \in Jobs PROVE Spec => [](Vanished(j) => []Vanished(j))
  <2>1. Spec => [](Promise!Gone(j) => []Promise!Gone(j))
    <3>1. Promise!Spec => [](Promise!Gone(j) => []Promise!Gone(j))
      BY Promise!GoneForGood
    <3> QED BY <3>1, Refinement, PromiseIsKept, PTL
  <2>2. Promise!Gone(j) <=> Vanished(j)
    BY <1>1
  <2> QED BY <2>1, <2>2, PTL
<1> QED BY <1>2, Zenon

-----------------------------------------------------------------------------
(* Progress.  The prover does not know ENABLED, so the fairness of a job's *)
(* goroutines is taken in the form it has wherever ProcessJobIsNeverStuck  *)
(* holds: they go on again and again, or again and again are at an end.    *)

Working(j) == pc[j] \in Active

Scheduled(j) == []<>~Working(j) \/ []<><<Process(j)>>_vars

\* The steps that the two goroutines of a job have left.
StepsLeft(j) ==
  IF pc[j] = "stored" THEN 7
  ELSE IF pc[j] = "recvErr" THEN (IF rpc[j] = "calling" THEN 6 ELSE 5)
  ELSE IF pc[j] = "recvResp" THEN 4
  ELSE IF pc[j] = "save" THEN 3
  ELSE IF pc[j] = "update" THEN 2
  ELSE IF pc[j] = "announce" THEN 1 ELSE 0

\* A job that was stored and has fewer than n steps left.
Within(j, n) == pc[j] \in Active \cup Ended /\ StepsLeft(j) < n

\* No actor gives a job more steps, and each step of its own goroutines takes one.
Descends(j, m, n) ==
  /\ Within(j, m) /\ [Next]_vars => Within(j, m)'
  /\ Within(j, m) /\ <<Process(j)>>_vars => Within(j, n)'
  /\ Within(j, m) /\ ~Within(j, n) => Working(j)

LEMMA StepsType == \A j \in Jobs : StepsLeft(j) \in 0..7
BY DEF StepsLeft

\* A step of the goroutines of k: each of them has its own place in ProcessJob.
LEMMA ProcessStep ==
  ASSUME TypeInv, NEW k \in Jobs, Process(k)
  PROVE  /\ StepsLeft(k)' < StepsLeft(k)
         /\ pc'[k] \in Active \cup Ended
         /\ \A j \in Jobs \ {k} : pc'[j] = pc[j] /\ rpc'[j] = rpc[j]
<1> USE DEF TypeInv, TypeOK, StepsLeft, Goto, Active, Ended
<1>1. CASE Dispatch(k)
  BY <1>1 DEF Dispatch
<1>2. CASE RpcReturn(k)
  <2>1. pc[k] = "recvErr" /\ pc' = pc /\ rpc[k] = "calling" /\ rpc'[k] = "sendErr"
    BY <1>2 DEF RpcReturn, HeldInv
  <2> QED BY <1>2, <2>1 DEF RpcReturn
<1>3. CASE RecvErr(k)
  BY <1>3 DEF RecvErr
<1>4. CASE RecvResponse(k)
  BY <1>4 DEF RecvResponse
<1>5. CASE Save(k)
  BY <1>5 DEF Save
<1>6. CASE Update(k)
  BY <1>6 DEF Update
<1>7. CASE Announce(k)
  BY <1>7 DEF Announce
<1> QED BY <1>1, <1>2, <1>3, <1>4, <1>5, <1>6, <1>7 DEF Process

\* A step of anybody else leaves a job where it is, or ends it with the process.
LEMMA OtherStep ==
  ASSUME TypeInv, [Next]_vars, NEW j \in Jobs, pc[j] # "new"
  PROVE  \/ Process(j)
         \/ pc'[j] = pc[j] /\ rpc'[j] = rpc[j]
         \/ pc'[j] = (IF pc[j] \in Active THEN "dead" ELSE pc[j])
<1> USE DEF TypeInv, TypeOK
<1>1. ASSUME NEW k \in Jobs, Submit(k) PROVE pc'[j] = pc[j] /\ rpc'[j] = rpc[j]
  BY <1>1 DEF Submit, Goto
<1>2. ASSUME NEW k \in Jobs, Process(k), k # j PROVE pc'[j] = pc[j] /\ rpc'[j] = rpc[j]
  BY <1>2, ProcessStep
<1>3. ASSUME NEW k \in Jobs, FinalizeTimeout(k) \/ Age(k) \/ Forget(k)
      PROVE  pc'[j] = pc[j] /\ rpc'[j] = rpc[j]
  BY <1>3 DEF FinalizeTimeout, Age, Forget, procVars
<1>4. ASSUME NEW r \in Readers, Check(r) PROVE pc'[j] = pc[j] /\ rpc'[j] = rpc[j]
  BY <1>4 DEF Check, procVars
<1>5. CASE Tick \/ UNCHANGED vars
  BY <1>5 DEF Tick, procVars, vars
<1>6. CASE Crash
  BY <1>6 DEF Crash
<1> QED BY <1>1, <1>2, <1>3, <1>4, <1>5, <1>6 DEF Next

LEMMA StepsDescend ==
  ASSUME TypeInv, NEW j \in Jobs, NEW m \in Nat, NEW n \in Nat \ {0}, m = n + 1
  PROVE  Descends(j, m, n)
<1>1. StepsLeft(j) \in Nat /\ StepsLeft(j)' \in Nat
  BY DEF StepsLeft
<1>2. ASSUME Within(j, m), [Next]_vars PROVE Within(j, m)'
  <2>1. CASE Process(j)
    BY <1>1, <1>2, <2>1, ProcessStep DEF Within
  <2>2. CASE pc'[j] = pc[j] /\ rpc'[j] = rpc[j]
    BY <1>2, <2>2 DEF Within, StepsLeft
  <2>3. CASE pc'[j] = IF pc[j] \in Active THEN "dead" ELSE pc[j]
    <3>1. CASE pc[j] \in Active
      BY <1>1, <1>2, <2>3, <3>1 DEF Within, StepsLeft, Ended
    <3>2. CASE pc[j] \in Ended
      BY <1>1, <1>2, <2>3, <3>2 DEF Within, StepsLeft, Active, Ended
    <3> QED BY <1>2, <3>1, <3>2 DEF Within
  <2>4. pc[j] # "new"
    BY <1>2 DEF Within, Active, Ended
  <2> QED BY <1>2, <2>1, <2>2, <2>3, <2>4, OtherStep
<1>3. ASSUME Within(j, m), <<Process(j)>>_vars PROVE Within(j, n)'
  BY <1>1, <1>3, ProcessStep DEF Within
<1>4. ASSUME Within(j, m), ~Within(j, n) PROVE Working(j)
  BY <1>1, <1>4 DEF Within, StepsLeft, Working, Ended
<1> QED BY <1>2, <1>3, <1>4 DEF Descends

\* Every job that was stored leaves ProcessJob, whatever the other jobs, the requests,
\* the clean-up and the faults do, and even if the process dies under it.
THEOREM JobsEnd == Spec /\ (\A j \in Jobs : Scheduled(j)) => ProcessJobEnds
<1>1. ASSUME NEW j \in Jobs
      PROVE  Spec /\ Scheduled(j) => (pc[j] = "stored" ~> pc[j] \in Ended)
  <2>1. TypeInv => /\ Descends(j, 8, 7) /\ Descends(j, 7, 6) /\ Descends(j, 6, 5)
                   /\ Descends(j, 5, 4) /\ Descends(j, 4, 3) /\ Descends(j, 3, 2)
                   /\ Descends(j, 2, 1)
    BY StepsDescend
  <2>2. pc[j] = "stored" => Within(j, 8)
    BY DEF Within, StepsLeft, Active
  <2>3. Within(j, 1) => pc[j] \in Ended
    BY DEF Within, StepsLeft, Active, Ended
  <2> QED BY <2>1, <2>2, <2>3, TypeInit, TypeStep, PTL DEF Spec, Scheduled, Descends
<1> QED BY <1>1, Zenon DEF ProcessJobEnds

-----------------------------------------------------------------------------
(* Verdicts.  Without a fault of the storage the UPDATE finds its row, since *)
(* no row ages away under its job, and is not cut off by the deadline.       *)

NoStorageFault ==
  /\ StorageOutcomes = {"ok"}
  /\ TTLOutlivesJob
  /\ InMemory \/ ~SlowBackends

KeptInv ==
  /\ \A j \in Jobs :
       /\ j \in old => pc[j] \in Ended
       /\ pc[j] \in Active => jobs[j] # NoRow
  /\ ~SlowBackends => expired = {}

LEMMA KeptStep == NoStorageFault /\ TypeInv /\ KeptInv /\ [Next]_vars => KeptInv'
<1> SUFFICES ASSUME NoStorageFault, TypeInv, KeptInv, [Next]_vars PROVE KeptInv'
  OBVIOUS
<1> USE Words DEF TypeInv, TypeOK, StoreTypeOK, Goto, KeptInv, Active, Ended
<1>1. ASSUME NEW j \in Jobs, Submit(j) PROVE KeptInv'
  BY <1>1 DEF Submit, StoreJob, NoStorageFault, Applied, Failed
<1>2. ASSUME NEW j \in Jobs, Dispatch(j) PROVE KeptInv'
  BY <1>2 DEF Dispatch
<1>3. ASSUME NEW j \in Jobs, RpcReturn(j) \/ RecvErr(j) \/ RecvResponse(j) PROVE KeptInv'
  BY <1>3 DEF RpcReturn, RecvErr, RecvResponse, storeVars
<1>4. ASSUME NEW j \in Jobs, Save(j) PROVE KeptInv'
  BY <1>4 DEF Save
<1>5. ASSUME NEW j \in Jobs, Update(j) PROVE KeptInv'
  <2>1. verdict[j] # NoRow
    BY <1>5 DEF Update, HeldInv
  <2> QED BY <1>5, <2>1 DEF Update, UpdateJob
<1>6. ASSUME NEW j \in Jobs, Announce(j) PROVE KeptInv'
  BY <1>6 DEF Announce
<1>7. ASSUME NEW j \in Jobs, FinalizeTimeout(j) \/ Age(j) \/ Forget(j) PROVE KeptInv'
  BY <1>7 DEF FinalizeTimeout, Age, GrowOld, Forget, CacheExpire, NoStorageFault, storeVars, procVars
<1>8. ASSUME NEW r \in Readers, Check(r) PROVE KeptInv'
  BY <1>8 DEF Check, CheckJobStatusHit, CheckJobStatusMiss, CheckJobStatusLoad, CheckJobStatusFill,
              procVars, storeVars
<1>9. CASE Tick
  BY <1>9 DEF Tick, CleanUp, procVars
<1>10. CASE Crash
  BY <1>10, RestartCases DEF Crash
<1>11. CASE UNCHANGED vars
  BY <1>11 DEF vars, storeVars, procVars
<1> QED BY <1>1, <1>2, <1>3, <1>4, <1>5, <1>6, <1>7, <1>8, <1>9, <1>10, <1>11 DEF Next, Process

\* The job has its verdict, or none because the process died.
Decided(j) == jobs[j] \in Final \/ pc[j] = "dead"

\* ProcessJob has fewer than n steps to take, its UPDATE among them.
Undecided(j, n) ==
  pc[j] \in {"recvErr", "recvResp", "save", "update"} /\ StepsLeft(j) < n

Decides(j, m, n) ==
  /\ Undecided(j, m) /\ [Next]_vars => Undecided(j, m)' \/ Decided(j)'
  /\ Undecided(j, m) /\ <<Process(j)>>_vars => Undecided(j, n)' \/ Decided(j)'
  /\ Undecided(j, m) => Working(j)

LEMMA UpdateDecides ==
  ASSUME NoStorageFault, TypeInv, KeptInv, NEW j \in Jobs, Update(j)
  PROVE  Decided(j)'
<1>1. jobs[j] # NoRow /\ verdict[j] \in Final
  BY DEF Update, KeptInv, TypeInv, HeldInv, Active
<1>2. PICK o \in FinalizeStorage(j, UpdateResults(j)) : UpdateJob(j, verdict[j], o)
  BY DEF Update
<1>3. o = "ok"
  BY <1>1, <1>2 DEF FinalizeStorage, Finalize, UpdateResults, MemoryUpdateResults, NoStorageFault, KeptInv
<1> QED BY <1>1, <1>2, <1>3 DEF UpdateJob, Applied, Decided, TypeInv, TypeOK, StoreTypeOK

LEMMA StepsDecide ==
  ASSUME NoStorageFault, TypeInv, KeptInv, NEW j \in Jobs, NEW m \in Nat, NEW n \in Nat, m = n + 1
  PROVE  Decides(j, m, n)
<1>1. StepsLeft(j) \in Nat /\ StepsLeft(j)' \in Nat
  BY DEF StepsLeft
<1>2. ASSUME Undecided(j, m), Process(j) PROVE Undecided(j, n)' \/ Decided(j)'
  <2>1. CASE Update(j)
    BY <2>1, UpdateDecides
  <2>2. CASE RpcReturn(j) \/ RecvErr(j) \/ RecvResponse(j) \/ Save(j)
    <3>1. pc'[j] \in {"recvErr", "recvResp", "save", "update"}
      BY <1>2, <2>2 DEF RpcReturn, RecvErr, RecvResponse, Save, Goto, Undecided, TypeInv, TypeOK
    <3> QED BY <1>1, <1>2, <3>1, ProcessStep DEF Undecided
  <2>3. ~Dispatch(j) /\ ~Announce(j)
    BY <1>2 DEF Dispatch, Announce, Undecided
  <2> QED BY <1>2, <2>1, <2>2, <2>3 DEF Process
<1>3. Undecided(j, n)' => Undecided(j, m)'
  BY <1>1 DEF Undecided
<1>4. ASSUME Undecided(j, m), [Next]_vars PROVE Undecided(j, m)' \/ Decided(j)'
  <2>1. CASE pc'[j] = pc[j] /\ rpc'[j] = rpc[j]
    BY <1>4, <2>1 DEF Undecided, StepsLeft
  <2>2. CASE pc'[j] = IF pc[j] \in Active THEN "dead" ELSE pc[j]
    BY <1>4, <2>2 DEF Undecided, Decided, Active
  <2>3. pc[j] # "new"
    BY <1>4 DEF Undecided
  <2> QED BY <1>2, <1>3, <1>4, <2>1, <2>2, <2>3, OtherStep
<1>5. Undecided(j, m) => Working(j)
  BY DEF Undecided, Working, Active
<1> QED BY <1>2, <1>4, <1>5 DEF Decides

\* When no statement fails and rows outlive their jobs, every job whose id was given to a
\* client gets a verdict, unless the process dies first.
THEOREM VerdictsCome ==
  ASSUME NoStorageFault
  PROVE  Spec /\ (\A j \in Jobs : Scheduled(j)) => AcceptedIsDecided
<1>1. Init => KeptInv
  BY DEF Init, StoreInit, KeptInv, Active
<1>2. TypeInv /\ KeptInv /\ [Next]_vars => KeptInv'
  BY KeptStep
<1>3. ASSUME NEW j \in Jobs
      PROVE  Spec /\ Scheduled(j) => (pc[j] = "recvErr" ~> jobs[j] \in Final \/ pc[j] = "dead")
  <2>1. TypeInv /\ KeptInv => /\ Decides(j, 7, 6) /\ Decides(j, 6, 5) /\ Decides(j, 5, 4)
                              /\ Decides(j, 4, 3) /\ Decides(j, 3, 2)
    BY StepsDecide
  <2>2. pc[j] = "recvErr" => Undecided(j, 7)
    BY DEF Undecided, StepsLeft
  <2>3. ~Undecided(j, 2)
    BY DEF Undecided, StepsLeft
  <2> QED BY <1>1, <1>2, <2>1, <2>2, <2>3, TypeInit, TypeStep, PTL
          DEF Spec, Scheduled, Decides, Decided
<1> QED BY <1>3, Zenon DEF AcceptedIsDecided

-----------------------------------------------------------------------------
(* Rows.  The fairness of the clock and of the ticker in the same form: the *)
(* guards of Age and Tick are all that can keep them from being taken.      *)

MayAge(j) == pc[j] \in Ended /\ jobs[j] # NoRow /\ ~(j \in old)

Clock(j) == []<>~MayAge(j) \/ []<><<Age(j)>>_vars

Ticker == []<>(old = {}) \/ []<><<Tick>>_vars

\* No row outlives its job for ever, so none is "processing" for ever, not even that of a
\* job that died with the process.
RowsEnd == \A j \in Jobs : pc[j] = "stored" ~> [](jobs[j] = NoRow)

\* A job at its end stays there, and so does the absence of its row.
EndIsStable(j) ==
  (pc[j] \in Ended) /\ [Next]_vars => (pc[j] \in Ended)' /\ (jobs[j] = NoRow => (jobs[j] = NoRow)')

\* An old row stays old until the ticker takes it.
OldGoes(j) ==
  /\ (pc[j] \in Ended) /\ (j \in old) /\ [Next]_vars => (j \in old)' \/ (jobs[j] = NoRow)'
  /\ (j \in old) /\ <<Tick>>_vars => (jobs[j] = NoRow)'
  /\ (j \in old) => ~(old = {})

LEMMA StableEnd == ASSUME TypeInv, NEW j \in Jobs PROVE EndIsStable(j)
<1> SUFFICES ASSUME pc[j] \in Ended, [Next]_vars
             PROVE  pc'[j] \in Ended /\ (jobs[j] = NoRow => jobs'[j] = NoRow)
  BY DEF EndIsStable
<1> USE DEF TypeInv, TypeOK, StoreTypeOK
<1>1. pc'[j] \in Ended
  <2>1. ~Process(j) /\ pc[j] # "new"
    BY DEF Process, Dispatch, RpcReturn, RecvErr, RecvResponse, Save, Update, Announce, HeldInv, Ended
  <2> QED BY <2>1, OtherStep DEF Active, Ended
<1>2. ASSUME jobs[j] = NoRow PROVE jobs'[j] = NoRow
  <2>1. ASSUME NEW k \in Jobs, Submit(k) PROVE jobs'[j] = NoRow
    BY <1>2, <2>1 DEF Submit, StoreJob, Ended
  <2>2. ASSUME NEW k \in Jobs, Update(k) PROVE jobs'[j] = NoRow
    BY <1>2, <2>2 DEF Update, UpdateJob, Ended
  <2>3. ASSUME NEW k \in Jobs,
               Dispatch(k) \/ RpcReturn(k) \/ RecvErr(k) \/ RecvResponse(k) \/ Save(k) \/ Announce(k)
        PROVE  jobs'[j] = NoRow
    BY <1>2, <2>3 DEF Dispatch, RpcReturn, RecvErr, RecvResponse, Save, Announce, storeVars
  <2>4. CASE Tick
    BY <1>2, <2>4 DEF Tick, CleanUp
  <2>5. CASE Crash
    BY <1>2, <2>5, RestartCases DEF Crash
  <2> QED BY <1>2, <2>1, <2>2, <2>3, <2>4, <2>5, Bystanders DEF Next, Process
<1> QED BY <1>1, <1>2

LEMMA OldRowGoes == ASSUME TypeInv, NEW j \in Jobs PROVE OldGoes(j)
<1> USE DEF TypeInv, TypeOK, StoreTypeOK
<1>1. ASSUME j \in old, [Next]_vars PROVE j \in old' \/ jobs'[j] = NoRow
  <2>1. ASSUME NEW k \in Jobs, Submit(k) \/ Process(k) PROVE j \in old'
    BY <1>1, <2>1 DEF Submit, Process, Dispatch, RpcReturn, RecvErr, RecvResponse, Save, Update,
                      Announce, storeVars
  <2>2. ASSUME NEW k \in Jobs, FinalizeTimeout(k) \/ Age(k) \/ Forget(k) PROVE j \in old'
    BY <1>1, <2>2 DEF FinalizeTimeout, Age, GrowOld, Forget, CacheExpire, storeVars
  <2>3. ASSUME NEW r \in Readers, Check(r) PROVE j \in old'
    BY <1>1, <2>3 DEF Check, CheckJobStatusHit, CheckJobStatusMiss, CheckJobStatusLoad,
                      CheckJobStatusFill, storeVars
  <2>4. CASE Tick
    BY <1>1, <2>4 DEF Tick, CleanUp
  <2>5. CASE Crash
    BY <1>1, <2>5, RestartCases DEF Crash
  <2>6. CASE UNCHANGED vars
    BY <1>1, <2>6 DEF vars, storeVars
  <2> QED BY <1>1, <2>1, <2>2, <2>3, <2>4, <2>5, <2>6 DEF Next
<1>2. ASSUME j \in old, <<Tick>>_vars PROVE jobs'[j] = NoRow
  BY <1>2 DEF Tick, CleanUp
<1> QED BY <1>1, <1>2 DEF OldGoes

\* What a client polls is bounded by the row: it goes, and stays away.
THEOREM NoRowForEver ==
  Spec /\ Ticker /\ (\A j \in Jobs : Scheduled(j) /\ Clock(j)) => RowsEnd
<1>1. ASSUME NEW j \in Jobs
      PROVE  Spec /\ Ticker /\ (Scheduled(j) /\ Clock(j)) => (pc[j] = "stored" ~> [](jobs[j] = NoRow))
  <2>1. TypeInv => EndIsStable(j) /\ OldGoes(j)
    BY StableEnd, OldRowGoes
  <2>2. <<Age(j)>>_vars => (j \in old)'
    BY DEF Age, GrowOld
  <2>3. (pc[j] \in Ended) /\ ~(jobs[j] = NoRow) /\ ~(j \in old) => MayAge(j)
    BY DEF MayAge
  <2>4. TypeInv => /\ Descends(j, 8, 7) /\ Descends(j, 7, 6) /\ Descends(j, 6, 5)
                   /\ Descends(j, 5, 4) /\ Descends(j, 4, 3) /\ Descends(j, 3, 2)
                   /\ Descends(j, 2, 1)
    BY StepsDescend
  <2>5. pc[j] = "stored" => Within(j, 8)
    BY DEF Within, StepsLeft, Active
  <2>6. Within(j, 1) => pc[j] \in Ended
    BY DEF Within, StepsLeft, Active, Ended
  <2> QED BY <2>1, <2>2, <2>3, <2>4, <2>5, <2>6, TypeInit, TypeStep, PTL
          DEF Spec, Scheduled, Descends, Clock, Ticker, EndIsStable, OldGoes
<1> QED BY <1>1, Zenon DEF RowsEnd

-----------------------------------------------------------------------------
(* Polling.  Once the row of a job has gone, what is left of "processing"   *)
(* are a key and the requests that have read the row before.  Their         *)
(* fairness in the same form: a request that has begun can always go on.    *)

Replies(r) == []<>(asked[r] = NoJob) \/ []<><<Answer(r)>>_vars
Expires(j) == []<>(cache[j] = NoStatus) \/ []<><<Forget(j)>>_vars

Gone(j)     == pc[j] \in Ended /\ jobs[j] = NoRow
Stale(r, j) == asked[r] = j /\ seen[r] = "processing"
Cached(j)   == cache[j] = "processing"

KnownInv == \A j \in accepted : pc[j] # "new"

LEMMA KnownStep == TypeInv /\ KnownInv /\ [Next]_vars => KnownInv'
<1> SUFFICES ASSUME TypeInv, KnownInv, [Next]_vars, NEW j \in accepted' PROVE pc'[j] # "new"
  BY DEF KnownInv
<1> USE DEF TypeInv, TypeOK, ReadTypeOK, KnownInv
<1>1. accepted \subseteq Jobs /\ accepted' \subseteq Jobs
  BY TypeStep
<1>2. CASE j \in accepted
  <2>1. pc[j] # "new" /\ j \in Jobs
    BY <1>1, <1>2
  <2>2. Process(j) => pc'[j] \in Active \cup Ended
    BY <2>1, ProcessStep
  <2> QED BY <2>1, <2>2, OtherStep DEF Active, Ended
<1>3. CASE j \notin accepted
  <2>1. \E k \in Jobs : Dispatch(k)
    BY <1>3 DEF Next, Process, Submit, RpcReturn, RecvErr, RecvResponse, Save, Update, Announce,
                FinalizeTimeout, Age, Forget, Check, CheckJobStatusHit, CheckJobStatusMiss,
                CheckJobStatusLoad, CheckJobStatusFill, Tick, Crash, vars, readVars
  <2> QED BY <1>1, <1>3, <2>1 DEF Dispatch, Goto
<1> QED BY <1>2, <1>3

\* A request takes "processing" to the cache once, and finds no row to read it from again.
Fades(r, j) ==
  /\ Gone(j) /\ ~Stale(r, j) /\ [Next]_vars => ~Stale(r, j)'
  /\ Stale(r, j) /\ <<Answer(r)>>_vars => ~Stale(r, j)'
  /\ Stale(r, j) => ~(asked[r] = NoJob)

LEMMA RequestFades ==
  ASSUME TypeInv, NEW r \in Readers, NEW j \in Jobs
  PROVE  Fades(r, j)
<1> USE DEF TypeInv, TypeOK, StoreTypeOK, ReadTypeOK, Stale, Gone
<1>1. ASSUME Gone(j), ~Stale(r, j), [Next]_vars PROVE ~Stale(r, j)'
  <2>1. CASE UNCHANGED <<asked, seen>>
    BY <1>1, <2>1
  <2>2. CASE Crash
    BY <2>2 DEF Crash, NoStatus
  <2>3. ASSUME NEW q \in Readers, NEW k \in Jobs, CheckJobStatusHit(q, k) PROVE ~Stale(r, j)'
    BY <1>1, <2>3 DEF CheckJobStatusHit
  <2>4. ASSUME NEW q \in Readers, NEW k \in Jobs, CheckJobStatusMiss(q, k) PROVE ~Stale(r, j)'
    <3>1. seen[q] = NoStatus
      BY <2>4, NoJobAssumption DEF CheckJobStatusMiss, SlotInv
    <3> QED BY <1>1, <2>4, <3>1 DEF CheckJobStatusMiss, NoStatus
  <2>5. ASSUME NEW q \in Readers, CheckJobStatusLoad(q) PROVE ~Stale(r, j)'
    BY <1>1, <2>5 DEF CheckJobStatusLoad, SelectStatusHits, Hangup, NoStatus
  <2>6. ASSUME NEW q \in Readers, CheckJobStatusFill(q) PROVE ~Stale(r, j)'
    BY <1>1, <2>6 DEF CheckJobStatusFill, Hangup, NoStatus
  <2>7. ASSUME NEW k \in Jobs, Submit(k) \/ Process(k) \/ FinalizeTimeout(k) \/ Age(k) \/ Forget(k)
        PROVE  UNCHANGED <<asked, seen>>
    BY <2>7 DEF Submit, Process, Dispatch, RpcReturn, RecvErr, RecvResponse, Save, Update, Announce,
                FinalizeTimeout, Age, Forget, readVars
  <2>8. Tick \/ UNCHANGED vars => UNCHANGED <<asked, seen>>
    BY DEF Tick, vars, readVars
  <2> QED BY <1>1, <2>1, <2>2, <2>3, <2>4, <2>5, <2>6, <2>7, <2>8 DEF Next, Check
<1>2. ASSUME Stale(r, j), Answer(r) PROVE ~Stale(r, j)'
  BY <1>2 DEF Answer, CheckJobStatusLoad, CheckJobStatusFill, Hangup, NoStatus
<1>3. Stale(r, j) => ~(asked[r] = NoJob)
  BY NoJobAssumption
<1> QED BY <1>1, <1>2, <1>3 DEF Fades

\* Without such a request nobody writes "processing" under the key of the job.
LEMMA CacheFades ==
  ASSUME TypeInv, NEW j \in Jobs
  PROVE  /\ /\ Gone(j) /\ (\A r \in Readers : ~Stale(r, j)) /\ ~Cached(j) /\ [Next]_vars
            => ~Cached(j)'
         /\ Cached(j) => ~(cache[j] = NoStatus)
<1> USE DEF TypeInv, TypeOK, StoreTypeOK, ReadTypeOK, Cached
<1>1. ASSUME Gone(j), \A r \in Readers : ~Stale(r, j), ~Cached(j), [Next]_vars PROVE ~Cached(j)'
  <2>1. CASE cache' = cache
    BY <1>1, <2>1
  <2>2. ASSUME NEW k \in Jobs, Dispatch(k) \/ Announce(k) PROVE ~Cached(j)'
    <3>1. k # j
      BY <1>1, <2>2 DEF Gone, Dispatch, Announce, Ended
    <3> QED BY <1>1, <2>2, <3>1 DEF Dispatch, Announce, SetJobStatus
  <2>3. ASSUME NEW q \in Readers, CheckJobStatusFill(q) PROVE ~Cached(j)'
    <3>1. asked[q] \in Jobs /\ (asked[q] = j => seen[q] # "processing")
      BY <1>1, <2>3 DEF CheckJobStatusFill, SlotInv, Stale
    <3> QED BY <1>1, <2>3, <3>1 DEF CheckJobStatusFill, SetJobStatus
  <2>4. ASSUME NEW k \in Jobs, Forget(k) PROVE ~Cached(j)'
    BY <1>1, <2>4 DEF Forget, CacheExpire, NoStatus
  <2>5. ASSUME NEW k \in Jobs,
               \/ Submit(k) \/ RpcReturn(k) \/ RecvErr(k) \/ RecvResponse(k) \/ Save(k) \/ Update(k)
               \/ FinalizeTimeout(k) \/ Age(k)
        PROVE  cache' = cache
    BY <2>5 DEF Submit, RpcReturn, RecvErr, RecvResponse, Save, Update, FinalizeTimeout, Age, GrowOld,
                storeVars
  <2>6. ASSUME NEW q \in Readers, NEW k \in Jobs,
               CheckJobStatusHit(q, k) \/ CheckJobStatusMiss(q, k) \/ CheckJobStatusLoad(q)
        PROVE  cache' = cache
    BY <2>6 DEF CheckJobStatusHit, CheckJobStatusMiss, CheckJobStatusLoad, storeVars
  <2>7. Tick \/ Crash \/ UNCHANGED vars => cache' = cache
    BY RestartCases DEF Tick, CleanUp, Crash, vars, storeVars
  <2>8. ASSUME NEW q \in Readers, Check(q) PROVE ~Cached(j)'
    BY <2>1, <2>3, <2>6, <2>8 DEF Check
  <2> QED BY <1>1, <2>1, <2>2, <2>4, <2>5, <2>7, <2>8 DEF Next, Process
<1>2. Cached(j) => ~(cache[j] = NoStatus)
  BY DEF NoStatus
<1> QED BY <1>1, <1>2

\* Every request stops: the slots are f[1], f[2], ..., and those after place m up to place
\* n are considered together.
EachReplies == \A r \in Readers : Replies(r)

Calm(f, j, m, n) == \A i \in Nat : i > m /\ i <= n /\ f[i] \in Readers => ~Stale(f[i], j)

Calms(f, j, m, n) == []([]Gone(j) => <>[]Calm(f, j, m, n))

CalmsBy(f, j, k) == \A m \in Nat : \A n \in Nat : n = m + k => Calms(f, j, m, n)

LEMMA OneSlot ==
  ASSUME NEW f, NEW j \in Jobs
  PROVE  Spec /\ EachReplies => CalmsBy(f, j, 1)
<1>1. ASSUME NEW m \in Nat, NEW n \in Nat, n = m + 1
      PROVE  Spec /\ EachReplies => Calms(f, j, m, n)
  <2>1. \A i \in Nat : i > m /\ i <= n => i = n
    BY <1>1
  <2>2. CASE f[n] \notin Readers
    <3>1. Calm(f, j, m, n)
      BY <2>1, <2>2, Zenon DEF Calm
    <3> QED BY <3>1, PTL DEF Calms
  <2>3. CASE f[n] \in Readers
    <3> DEFINE r == f[n]
    <3>1. ~Stale(r, j) => Calm(f, j, m, n)
      BY <2>1, Zenon DEF Calm
    <3>2. TypeInv => Fades(r, j)
      BY <2>3, RequestFades
    <3>3. EachReplies => Replies(r)
      BY <2>3, Zenon DEF EachReplies
    <3> HIDE DEF r
    <3> QED BY <3>1, <3>2, <3>3, TypeInit, TypeStep, PTL DEF Spec, Replies, Fades, Calms
  <2> QED BY <2>2, <2>3
<1> QED BY <1>1, Zenon DEF CalmsBy

\* Two parts of the slots at once: this is how far the proof system gets without an
\* induction over the slots.
LEMMA TwoParts ==
  ASSUME NEW f, NEW j \in Jobs, NEW k \in Nat, NEW d, d = k + k
  PROVE  CalmsBy(f, j, k) => CalmsBy(f, j, d)
<1>1. ASSUME NEW m \in Nat, NEW n \in Nat, n = m + d
      PROVE  CalmsBy(f, j, k) => Calms(f, j, m, n)
  <2>1. PICK p \in Nat : p = m + k
    OBVIOUS
  <2>2. n = p + k
    BY <1>1, <2>1
  <2>3. CalmsBy(f, j, k) => Calms(f, j, m, p) /\ Calms(f, j, p, n)
    BY <2>1, <2>2, Zenon DEF CalmsBy
  <2>4. Calm(f, j, m, p) /\ Calm(f, j, p, n) => Calm(f, j, m, n)
    BY <2>1 DEF Calm
  <2>5. Calms(f, j, m, p) /\ Calms(f, j, p, n) => Calms(f, j, m, n)
    BY <2>4, PTL DEF Calms
  <2> QED BY <2>3, <2>5
<1> QED BY <1>1, Zenon DEF CalmsBy

LEMMA AllParts ==
  ASSUME NEW f, NEW j \in Jobs, NEW n \in Nat
  PROVE  CalmsBy(f, j, n) => Calms(f, j, 0, n)
<1>1. n = 0 + n /\ 0 \in Nat
  OBVIOUS
<1> QED BY <1>1, Zenon DEF CalmsBy

MaxSlots == 1024

LEMMA RequestsCalm ==
  ASSUME NEW f, NEW j \in Jobs
  PROVE  Spec /\ EachReplies => Calms(f, j, 0, 1024)
<1>1. CalmsBy(f, j, 1) => CalmsBy(f, j, 2)
  BY TwoParts
<1>2. CalmsBy(f, j, 2) => CalmsBy(f, j, 4)
  BY TwoParts
<1>3. CalmsBy(f, j, 4) => CalmsBy(f, j, 8)
  BY TwoParts
<1>4. CalmsBy(f, j, 8) => CalmsBy(f, j, 16)
  BY TwoParts
<1>5. CalmsBy(f, j, 16) => CalmsBy(f, j, 32)
  BY TwoParts
<1>6. CalmsBy(f, j, 32) => CalmsBy(f, j, 64)
  BY TwoParts
<1>7. CalmsBy(f, j, 64) => CalmsBy(f, j, 128)
  BY TwoParts
<1>8. CalmsBy(f, j, 128) => CalmsBy(f, j, 256)
  BY TwoParts
<1>9. CalmsBy(f, j, 256) => CalmsBy(f, j, 512)
  BY TwoParts
<1>10. CalmsBy(f, j, 512) => CalmsBy(f, j, 1024)
  BY TwoParts
<1>11. CalmsBy(f, j, 1024) => Calms(f, j, 0, 1024)
  BY AllParts
<1>12. Spec /\ EachReplies => CalmsBy(f, j, 1)
  BY OneSlot
<1> QED BY <1>1, <1>2, <1>3, <1>4, <1>5, <1>6, <1>7, <1>8, <1>9, <1>10, <1>11, <1>12, PTL

\* The slots can be numbered.
Numbers(f) == \A r \in Readers : \E i \in Nat : i > 0 /\ i <= 1024 /\ f[i] = r

LEMMA Numbering ==
  ASSUME IsFiniteSet(Readers), Cardinality(Readers) <= MaxSlots
  PROVE  \E f : Numbers(f)
<1>1. Cardinality(Readers) \in Nat /\ ExistsBijection(1..Cardinality(Readers), Readers)
  BY FS_CardinalityType
<1>2. PICK f : /\ f \in [1..Cardinality(Readers) -> Readers]
               /\ \A r \in Readers : \E i \in 1..Cardinality(Readers) : f[i] = r
  BY <1>1 DEF ExistsBijection, Bijection, Surjection
<1>3. \A i \in 1..Cardinality(Readers) : i \in Nat /\ i > 0 /\ i <= 1024
  BY <1>1 DEF MaxSlots
<1>4. Numbers(f)
  BY <1>2, <1>3 DEF Numbers
<1> QED BY <1>4

\* A client that polls is not told "processing" for ever: any jobs, any faults, any number
\* of crashes, and up to MaxSlots requests for a status at a time.
THEOREM PollingAlwaysEnds ==
  ASSUME IsFiniteSet(Readers), Cardinality(Readers) <= MaxSlots
  PROVE  /\ Spec /\ Ticker /\ EachReplies
         /\ \A j \in Jobs : Scheduled(j) /\ Clock(j) /\ Expires(j)
         => PollingEnds
<1>1. PICK f : Numbers(f)
  BY Numbering
<1>2. ASSUME NEW j \in Jobs
      PROVE  Spec /\ Ticker /\ EachReplies /\ (Scheduled(j) /\ Clock(j) /\ Expires(j))
             => (j \in accepted ~> [](cache[j] # "processing" /\ jobs[j] # "processing"))
  <2>1. TypeInv => EndIsStable(j) /\ OldGoes(j)
    BY StableEnd, OldRowGoes
  <2>2. <<Age(j)>>_vars => (j \in old)'
    BY DEF Age, GrowOld
  <2>3. (pc[j] \in Ended) /\ ~(jobs[j] = NoRow) /\ ~(j \in old) => MayAge(j)
    BY DEF MayAge
  <2>4. TypeInv => /\ Descends(j, 8, 7) /\ Descends(j, 7, 6) /\ Descends(j, 6, 5)
                   /\ Descends(j, 5, 4) /\ Descends(j, 4, 3) /\ Descends(j, 3, 2)
                   /\ Descends(j, 2, 1)
    BY StepsDescend
  <2>5. Init => KnownInv
    BY DEF Init, ReadInit, KnownInv
  <2>6. TypeInv /\ KnownInv /\ j \in accepted => Within(j, 8)
    BY StepsType DEF Within, KnownInv, TypeInv, TypeOK
  <2>7. Within(j, 1) => pc[j] \in Ended
    BY DEF Within, StepsLeft, Active, Ended
  <2>8. Calm(f, j, 0, 1024) => \A r \in Readers : ~Stale(r, j)
    BY <1>1 DEF Calm, Numbers
  <2>9. TypeInv => /\ Gone(j) /\ Calm(f, j, 0, 1024) /\ ~Cached(j) /\ [Next]_vars => ~Cached(j)'
                   /\ Cached(j) => ~(cache[j] = NoStatus)
    BY <2>8, CacheFades
  <2>10. TypeInv /\ <<Forget(j)>>_vars => ~Cached(j)'
    BY DEF Forget, CacheExpire, Cached, NoStatus, TypeInv, TypeOK, StoreTypeOK
  <2>11. (pc[j] \in Ended) /\ (jobs[j] = NoRow) <=> Gone(j)
    BY DEF Gone
  <2>12. ~Cached(j) /\ Gone(j) => cache[j] # "processing" /\ jobs[j] # "processing"
    BY DEF Cached, Gone, NoRow
  <2>13. Spec => [](TypeInv /\ KnownInv)
    BY <2>5, KnownStep, TypeInit, TypeStep, PTL DEF Spec
  <2>14. Spec /\ Ticker /\ Scheduled(j) /\ Clock(j) => [](j \in accepted => <>[]Gone(j))
    BY <2>1, <2>2, <2>3, <2>4, <2>6, <2>7, <2>11, <2>13, PTL
       DEF Spec, Scheduled, Descends, Clock, Ticker, EndIsStable, OldGoes
  <2>15. Spec /\ EachReplies => Calms(f, j, 0, 1024)
    BY RequestsCalm
  <2>16. Spec /\ Expires(j) => []([]Gone(j) /\ []Calm(f, j, 0, 1024) => <>[]~Cached(j))
    BY <2>9, <2>10, <2>13, PTL DEF Spec, Expires
  <2> QED BY <2>12, <2>14, <2>15, <2>16, PTL DEF Calms
<1> QED BY <1>2, Zenon DEF PollingEnds
=============================================================================
