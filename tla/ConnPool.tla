------------------------------ MODULE ConnPool ------------------------------
(***************************************************************************)
(* Who holds a connection of the pgxpool.Pool in internal/storage/postgres *)
(* and who waits for one: the requests (one statement each), ProcessJob    *)
(* (SaveResponse, a transaction, then UpdateJob, a statement) and          *)
(* cleanUpLoop (a transaction per tick).                                   *)
(*                                                                         *)
(* The pool is external.  It hands out at most MaxConns connections, first *)
(* come, first served; Exec and QueryRow(...).Scan give theirs back, and   *)
(* so do Commit and Rollback of a transaction that is still open, whatever *)
(* they return.                                                            *)
(***************************************************************************)
EXTENDS Naturals, Sequences, FiniteSets

CONSTANTS
  Requests,    \* goroutines of HTTP requests; their context ends with the client
  Finalizers,  \* goroutines of ProcessJob; finalizeCtx ends after 5 s
  Sweeper,     \* the goroutine of cleanUpLoop; its context never ends
  MaxConns,    \* pgxpool's default: max(4, number of CPUs)
  MaxFailures  \* bound: how often a DELETE of the clean-up may fail

Callers == Requests \cup Finalizers
Actors  == Callers \cup {Sweeper}

ASSUME PoolAssumption ==
  /\ Sweeper \notin Callers
  /\ Requests \cap Finalizers = {}
  /\ IsFiniteSet(Actors)
  /\ MaxConns \in Nat \ {0}
  /\ MaxFailures \in Nat

VARIABLES
  pc,      \* where each actor stands
  waiting, \* the actors that wait for a connection, in order
  out,     \* connections that the pool has handed out and not got back
  failed   \* DELETEs that have failed

vars == <<pc, waiting, out, failed>>

\* "idle": not in the storage; the other labels name what an actor waits for or
\* what it has just been granted or done with its connection.
Wanting == {"wantStmt", "wantTx"}
Holding == {"stmt", "tx", "inserted", "deleted"}

Holders == {a \in Actors : pc[a] \in Holding}

TypeOK ==
  /\ pc \in [Actors -> {"idle"} \cup Wanting \cup Holding]
  /\ waiting \in Seq(Actors)
  /\ out \in Nat
  /\ failed \in Nat

Init ==
  /\ pc = [a \in Actors |-> "idle"]
  /\ waiting = <<>>
  /\ out = 0
  /\ failed = 0

Goto(a, l) == pc' = [pc EXCEPT ![a] = l]

\* The context of a has not ended and the pool has a connection for it.
Turn(a, l) ==
  /\ waiting # <<>>
  /\ Head(waiting) = a
  /\ pc[a] = l
  /\ out < MaxConns

\* What an actor does when its transaction is over: cleanUpLoop waits for the
\* next tick, ProcessJob goes on to UpdateJob.  q are those still waiting.
AfterTx(a, q) ==
  IF a = Sweeper
  THEN Goto(a, "idle") /\ waiting' = q
  ELSE Goto(a, "wantStmt") /\ waiting' = Append(q, a)

-----------------------------------------------------------------------------
(* One statement: StoreJob, UpdateJob, CheckJobStatus, GetArchive,          *)
(* GetArchiveInfo, Register, LogIn, SaveRawArchive                          *)

Query(r) ==
  /\ pc[r] = "idle"
  /\ Goto(r, "wantStmt")
  /\ waiting' = Append(waiting, r)
  /\ UNCHANGED <<out, failed>>

AcquireStmt(c) ==
  /\ Turn(c, "wantStmt")
  /\ Goto(c, "stmt")
  /\ waiting' = Tail(waiting)
  /\ out' = out + 1
  /\ UNCHANGED failed

\* The statement ends, well or not; a row that was asked for is scanned.
StmtReturns(c) ==
  /\ pc[c] = "stmt"
  /\ Goto(c, "idle")
  /\ out' = out - 1
  /\ UNCHANGED <<waiting, failed>>

-----------------------------------------------------------------------------
(* SaveResponse and the ticks of cleanUpLoop                               *)

\* SaveResponse of ProcessJob.
Finalize(f) ==
  /\ pc[f] = "idle"
  /\ Goto(f, "wantTx")
  /\ waiting' = Append(waiting, f)
  /\ UNCHANGED <<out, failed>>

\* The ticker fires; a tick that finds the loop busy is dropped.
Tick ==
  /\ pc[Sweeper] = "idle"
  /\ Goto(Sweeper, "wantTx")
  /\ waiting' = Append(waiting, Sweeper)
  /\ UNCHANGED <<out, failed>>

\* pool.Begin
Begin(a) ==
  /\ Turn(a, "wantTx")
  /\ Goto(a, "tx")
  /\ waiting' = Tail(waiting)
  /\ out' = out + 1
  /\ UNCHANGED failed

\* pool.Begin that cannot connect, or whose BEGIN fails, keeps no connection.
BeginFails(a) ==
  /\ Turn(a, "wantTx")
  /\ AfterTx(a, Tail(waiting))
  /\ UNCHANGED <<out, failed>>

Insert(f) ==
  /\ pc[f] = "tx"
  /\ Goto(f, "inserted")
  /\ UNCHANGED <<waiting, out, failed>>

\* MUTANT: there is no deferred Rollback.
InsertKeepsTx(f) ==
  /\ pc[f] = "tx"
  /\ AfterTx(f, waiting)
  /\ UNCHANGED <<out, failed>>

\* The INSERT fails, and the deferred Rollback ends the transaction.
InsertFails(f) ==
  /\ pc[f] = "tx"
  /\ AfterTx(f, waiting)
  /\ out' = out - 1
  /\ UNCHANGED failed

\* Commit ends the transaction; the deferred Rollback finds it closed.
Commit(f) ==
  /\ pc[f] = "inserted"
  /\ AfterTx(f, waiting)
  /\ out' = out - 1
  /\ UNCHANGED failed

Delete ==
  /\ pc[Sweeper] = "tx"
  /\ Goto(Sweeper, "deleted")
  /\ UNCHANGED <<waiting, out, failed>>

\* The DELETE fails, and continue starts the next round of the loop: nobody
\* will roll back or commit this transaction.
DeleteFails ==
  /\ pc[Sweeper] = "tx"
  /\ failed < MaxFailures
  /\ AfterTx(Sweeper, waiting)
  /\ failed' = failed + 1
  /\ UNCHANGED out

\* MUTANT: a tick ends without Commit.
DeleteWithoutCommit ==
  /\ pc[Sweeper] = "deleted"
  /\ AfterTx(Sweeper, waiting)
  /\ UNCHANGED <<out, failed>>

CommitDelete ==
  /\ pc[Sweeper] = "deleted"
  /\ AfterTx(Sweeper, waiting)
  /\ out' = out - 1
  /\ UNCHANGED failed

-----------------------------------------------------------------------------
\* The i-th of those who wait leaves.
Without(i) == SubSeq(waiting, 1, i - 1) \o SubSeq(waiting, i + 1, Len(waiting))

\* MUTANT: SaveResponse and UpdateJob run under a context without a deadline.
RequestGivesUp(c) ==
  /\ c \in Requests
  /\ \E i \in DOMAIN waiting : waiting[i] = c /\ waiting' = Without(i)
  /\ Goto(c, "idle")
  /\ UNCHANGED <<out, failed>>

\* The context of c ends while c waits: the call returns its error.
GiveUp(c) ==
  /\ pc[c] \in Wanting
  /\ \E i \in DOMAIN waiting :
       /\ waiting[i] = c
       /\ IF pc[c] = "wantTx"
          THEN AfterTx(c, Without(i))
          ELSE Goto(c, "idle") /\ waiting' = Without(i)
  /\ UNCHANGED <<out, failed>>

\* What an actor does once the pool, PostgreSQL or its context lets it.
Proceed(a) ==
  \/ AcquireStmt(a) \/ StmtReturns(a) \/ Begin(a) \/ BeginFails(a)
  \/ a \in Finalizers /\ (Insert(a) \/ InsertFails(a) \/ Commit(a))
  \/ a = Sweeper /\ (Delete \/ DeleteFails \/ CommitDelete)

Next ==
  \/ \E a \in Actors : Proceed(a)
  \/ \E r \in Requests : Query(r)
  \/ \E f \in Finalizers : Finalize(f)
  \/ \E c \in Callers : GiveUp(c)
  \/ Tick

Spec == Init /\ [][Next]_vars

\* PostgreSQL answers, the ticker ticks, and finalizeCtx ends.  A client need
\* not hang up.
Fairness ==
  /\ \A a \in Actors : WF_vars(Proceed(a))
  /\ \A f \in Finalizers : WF_vars(GiveUp(f))
  /\ WF_vars(Tick)

FairSpec == Spec /\ Fairness

-----------------------------------------------------------------------------
(* Properties                                                              *)

\* Every path through the storage, the error paths included, gives back the one
\* connection it took, except a tick whose DELETE fails, which never does: after
\* MaxConns of those nobody can hold a connection.
Conservation == out = Cardinality(Holders) + failed /\ out <= MaxConns

\* Whoever wants a connection can give up wanting it, and whoever has one can go on:
\* nobody is left waiting outside the queue, and no holder waits for another.
NobodyIsStranded ==
  /\ \A c \in Callers : pc[c] \in Wanting => ENABLED <<GiveUp(c)>>_vars
  /\ \A a \in Actors : pc[a] \in Holding => ENABLED <<Proceed(a)>>_vars

\* A request gets its answer, even if its client waits for ever, until as many ticks
\* have failed as there are connections.
RequestsAreAnswered ==
  \A r \in Requests : pc[r] = "wantStmt" ~> pc[r] = "idle" \/ failed >= MaxConns

\* Up to then cleanUpLoop comes back to its ticker again and again.
SweeperGoesOn == pc[Sweeper] = "wantTx" ~> pc[Sweeper] = "idle" \/ failed >= MaxConns

\* ProcessJob gets through SaveResponse and UpdateJob even when the pool is used
\* up: finalizeCtx bounds its waiting.
FinalizersEnd == \A f \in Finalizers : pc[f] = "wantTx" ~> pc[f] = "idle"
=============================================================================
