---------------------------- MODULE JobLifecycle ----------------------------
(***************************************************************************)
(* What PostgreSQL promises about a job, whoever processes it: an id is    *)
(* issued once, its row is "processing" until one result, if any, has been *)
(* recorded and one verdict given that agrees with it, and a row that has  *)
(* expired never comes back.  Caches, requests, goroutines, messages and   *)
(* crashes do not exist at this level.                                     *)
(***************************************************************************)
CONSTANTS
  Jobs,
  Backed  \* TRUE: a completed job always has its generated row in archives

VARIABLES status, result, issued

vars == <<status, result, issued>>

NoRow     == "no row"
Generated == {"zip", "empty"}
Fatal     == "fatal"

Init ==
  /\ status = [j \in Jobs |-> NoRow]
  /\ result = [j \in Jobs |-> NoRow]
  /\ issued = {}

\* An id is used up by a submission, whether or not its row is stored.
Issue(j) ==
  /\ j \notin issued
  /\ issued' = issued \cup {j}
  /\ status' \in {status, [status EXCEPT ![j] = "processing"]}
  /\ UNCHANGED result

Record(j) ==
  /\ status[j] = "processing"
  /\ result[j] = NoRow
  /\ \E r \in Generated \cup {Fatal} : result' = [result EXCEPT ![j] = r]
  /\ UNCHANGED <<status, issued>>

Complete(j) ==
  /\ status[j] = "processing"
  /\ result[j] \in Generated \cup (IF Backed THEN {} ELSE {NoRow})
  /\ status' = [status EXCEPT ![j] = "completed"]
  /\ UNCHANGED <<result, issued>>

Fail(j) ==
  /\ status[j] = "processing"
  /\ result[j] \notin Generated
  /\ status' = [status EXCEPT ![j] = "failed"]
  /\ UNCHANGED <<result, issued>>

Expire(S) ==
  /\ status' = [j \in Jobs |-> IF j \in S THEN NoRow ELSE status[j]]
  /\ result' = [j \in Jobs |-> IF j \in S THEN NoRow ELSE result[j]]
  /\ UNCHANGED issued

Next ==
  \/ \E j \in Jobs : Issue(j) \/ Record(j) \/ Complete(j) \/ Fail(j)
  \/ \E S \in SUBSET Jobs : Expire(S)

Spec == Init /\ [][Next]_vars
=============================================================================
