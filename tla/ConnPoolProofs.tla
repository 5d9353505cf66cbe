--------------------------- MODULE ConnPoolProofs ---------------------------
(***************************************************************************)
(* Theorems about ConnPool, for every number of callers, of connections    *)
(* and of DELETEs that fail.                                               *)
(***************************************************************************)
EXTENDS ConnPool, FiniteSetTheorems, TLAPS

\* The books balance and nothing is handed out that is not there.
IInv == TypeOK /\ Conservation

LEMMA HoldersFinite ==
  IsFiniteSet(Holders) /\ Cardinality(Holders) \in Nat
BY PoolAssumption, FS_Subset, FS_CardinalityType DEF Holders

\* The three ways in which a step can change who holds a connection.
LEMMA Takes ==
  ASSUME NEW a \in Actors, NEW l \in Holding, TypeOK, pc[a] \notin Holding, Goto(a, l)
  PROVE  Cardinality(Holders') = Cardinality(Holders) + 1
<1>1. Holders' = Holders \cup {a} /\ a \notin Holders
  BY DEF Holders, Goto, TypeOK
<1> QED BY <1>1, HoldersFinite, FS_AddElement

LEMMA Gives ==
  ASSUME NEW a \in Actors, NEW l, l \notin Holding, TypeOK, pc[a] \in Holding, Goto(a, l)
  PROVE  /\ Cardinality(Holders') = Cardinality(Holders) - 1
         /\ Cardinality(Holders') \in Nat
<1>1. Holders' = Holders \ {a} /\ a \in Holders
  BY DEF Holders, Goto, TypeOK
<1>2. IsFiniteSet(Holders') /\ Cardinality(Holders') = Cardinality(Holders) - 1
  BY <1>1, HoldersFinite, FS_RemoveElement
<1> QED BY <1>2, FS_CardinalityType

LEMMA Keeps ==
  ASSUME NEW a \in Actors, NEW l, TypeOK, pc[a] \in Holding <=> l \in Holding, Goto(a, l)
  PROVE  Cardinality(Holders') = Cardinality(Holders)
<1>1. Holders' = Holders
  BY DEF Holders, Goto, TypeOK
<1> QED BY <1>1

LEMMA Words ==
  /\ {"stmt", "tx", "inserted", "deleted"} \subseteq Holding
  /\ {"idle", "wantStmt", "wantTx"} \cap Holding = {}
  /\ {"wantStmt", "wantTx"} \subseteq Wanting
BY DEF Holding, Wanting

\* The queue stays a queue of actors.
LEMMA QueueSteps ==
  ASSUME TypeOK
  PROVE  /\ waiting # <<>> => Tail(waiting) \in Seq(Actors)
         /\ \A q \in Seq(Actors), a \in Actors : Append(q, a) \in Seq(Actors)
         /\ \A i \in DOMAIN waiting : Without(i) \in Seq(Actors)
<1> USE DEF TypeOK
<1>1. waiting # <<>> => Tail(waiting) \in Seq(Actors)
  OBVIOUS
<1>2. \A q \in Seq(Actors), a \in Actors : Append(q, a) \in Seq(Actors)
  OBVIOUS
<1>3. ASSUME NEW i \in DOMAIN waiting PROVE Without(i) \in Seq(Actors)
  <2>1. i \in 1..Len(waiting)
    OBVIOUS
  <2>2. SubSeq(waiting, 1, i - 1) \in Seq(Actors) /\ SubSeq(waiting, i + 1, Len(waiting)) \in Seq(Actors)
    BY <2>1
  <2> QED BY <2>2 DEF Without
<1> QED BY <1>1, <1>2, <1>3

\* AfterTx ends the transaction of a, whatever a does next.
LEMMA AfterTxStep ==
  ASSUME NEW a \in Actors, NEW q \in Seq(Actors), TypeOK, AfterTx(a, q)
  PROVE  /\ waiting' \in Seq(Actors)
         /\ Goto(a, "idle") \/ Goto(a, "wantStmt")
BY QueueSteps DEF AfterTx

LEMMA PoolInit == Init => IInv
<1> SUFFICES ASSUME Init PROVE IInv
  OBVIOUS
<1>1. TypeOK
  BY DEF Init, TypeOK
<1>2. Holders = {}
  BY Words DEF Init, Holders
<1> QED
  BY <1>1, <1>2, FS_EmptySet, PoolAssumption DEF Init, IInv, Conservation

LEMMA PoolStep == IInv /\ [Next]_vars => IInv'
<1> SUFFICES ASSUME IInv, [Next]_vars PROVE IInv'
  OBVIOUS
<1> USE DEF IInv, Conservation
<1>c. Cardinality(Holders) \in Nat /\ out \in Nat /\ failed \in Nat /\ MaxConns \in Nat
  BY HoldersFinite, PoolAssumption DEF TypeOK
\* The type of pc after any step of one actor.
<1>p. ASSUME NEW a \in Actors, NEW l \in {"idle"} \cup Wanting \cup Holding, Goto(a, l)
      PROVE  pc' \in [Actors -> {"idle"} \cup Wanting \cup Holding]
  BY <1>p DEF Goto, TypeOK
\* A connection is taken, given back, or neither.
<1>t. ASSUME NEW a \in Actors, NEW l \in Holding, NEW k \in Wanting, Turn(a, k), Goto(a, l),
             waiting' \in Seq(Actors), out' = out + 1, failed' = failed
      PROVE  IInv'
  <2>1. pc[a] \notin Holding /\ out < MaxConns
    BY <1>t DEF Turn, Wanting, Holding
  <2>2. Cardinality(Holders') = Cardinality(Holders) + 1
    BY <1>t, <2>1, Takes
  <2>3. out' \in Nat /\ Conservation'
    BY <1>c, <1>t, <2>1, <2>2
  <2>4. pc' \in [Actors -> {"idle"} \cup Wanting \cup Holding]
    BY <1>p, <1>t
  <2> QED BY <1>c, <1>t, <2>3, <2>4 DEF TypeOK
<1>g. ASSUME NEW a \in Actors, pc[a] \in Holding, NEW l \in {"idle"} \cup Wanting, Goto(a, l),
             waiting' \in Seq(Actors), out' = out - 1, failed' = failed
      PROVE  IInv'
  <2>1. /\ Cardinality(Holders') = Cardinality(Holders) - 1
        /\ Cardinality(Holders') \in Nat
    BY <1>g, Gives DEF Wanting, Holding
  <2>2. out' \in Nat /\ Conservation'
    BY <1>c, <1>g, <2>1
  <2>3. pc' \in [Actors -> {"idle"} \cup Wanting \cup Holding]
    BY <1>p, <1>g
  <2> QED BY <1>c, <1>g, <2>2, <2>3 DEF TypeOK
<1>k. ASSUME NEW a \in Actors, NEW l \in {"idle"} \cup Wanting \cup Holding, Goto(a, l),
             pc[a] \in Holding <=> l \in Holding,
             waiting' \in Seq(Actors), out' = out, failed' = failed
      PROVE  IInv'
  <2>1. Cardinality(Holders') = Cardinality(Holders)
    BY <1>k, Keeps
  <2> QED BY <1>c, <1>p, <1>k, <2>1 DEF TypeOK
<1>w. waiting \in Seq(Actors)
  BY DEF TypeOK
<1>1. ASSUME NEW a \in Actors, AcquireStmt(a) \/ Begin(a) PROVE IInv'
  <2>1. waiting' \in Seq(Actors)
    BY <1>1, QueueSteps DEF AcquireStmt, Begin, Turn
  <2> QED BY <1>t, <1>1, <2>1, Words DEF AcquireStmt, Begin
<1>2. ASSUME NEW a \in Actors, StmtReturns(a) PROVE IInv'
  BY <1>g, <1>w, <1>2, Words DEF StmtReturns
<1>3. ASSUME NEW a \in Actors, BeginFails(a) PROVE IInv'
  <2>1. Tail(waiting) \in Seq(Actors) /\ pc[a] \notin Holding
    BY <1>3, QueueSteps, Words DEF BeginFails, Turn
  <2>2. waiting' \in Seq(Actors) /\ (Goto(a, "idle") \/ Goto(a, "wantStmt"))
    BY <1>3, <2>1, AfterTxStep DEF BeginFails
  <2> QED BY <1>k, <1>3, <2>1, <2>2, Words DEF BeginFails
<1>4. ASSUME NEW a \in Actors, Insert(a) PROVE IInv'
  BY <1>k, <1>w, <1>4, Words DEF Insert
<1>5. ASSUME NEW a \in Actors, InsertFails(a) \/ Commit(a) PROVE IInv'
  <2>1. waiting' \in Seq(Actors) /\ (Goto(a, "idle") \/ Goto(a, "wantStmt"))
    BY <1>w, <1>5, AfterTxStep DEF InsertFails, Commit
  <2> QED BY <1>g, <1>5, <2>1, Words DEF InsertFails, Commit
<1>6. Sweeper \in Actors
  BY DEF Actors
<1>7. ASSUME Delete PROVE IInv'
  BY <1>k, <1>w, <1>6, <1>7, Words DEF Delete
\* The one step that breaks the balance of holders and connections.
<1>8. ASSUME DeleteFails PROVE IInv'
  <2>1. /\ waiting' \in Seq(Actors) /\ Goto(Sweeper, "idle")
        /\ pc[Sweeper] \in Holding /\ out' = out /\ failed' = failed + 1
    BY <1>w, <1>8, Words DEF DeleteFails, AfterTx
  <2>2. Cardinality(Holders') = Cardinality(Holders) - 1
    BY <1>6, <2>1, Gives, Words
  <2> QED BY <1>c, <1>p, <1>6, <2>1, <2>2 DEF TypeOK
<1>9. ASSUME CommitDelete PROVE IInv'
  <2>1. waiting' = waiting /\ Goto(Sweeper, "idle")
    BY <1>9 DEF CommitDelete, AfterTx
  <2> QED BY <1>g, <1>w, <1>6, <1>9, <2>1, Words DEF CommitDelete
<1>10. ASSUME NEW a \in Actors, Proceed(a) PROVE IInv'
  BY <1>1, <1>2, <1>3, <1>4, <1>5, <1>7, <1>8, <1>9, <1>10 DEF Proceed
<1>11. ASSUME NEW a \in Actors, Query(a) PROVE IInv'
  BY <1>k, <1>w, <1>11, QueueSteps, Words DEF Query
<1>12. ASSUME NEW a \in Actors, Finalize(a) PROVE IInv'
  BY <1>k, <1>w, <1>12, QueueSteps, Words DEF Finalize
<1>13. ASSUME Tick PROVE IInv'
  BY <1>k, <1>w, <1>6, <1>13, QueueSteps, Words DEF Tick
<1>14. ASSUME NEW a \in Callers, GiveUp(a) PROVE IInv'
  <2>1. PICK i \in DOMAIN waiting :
          IF pc[a] = "wantTx" THEN AfterTx(a, Without(i))
                              ELSE Goto(a, "idle") /\ waiting' = Without(i)
    BY <1>14 DEF GiveUp
  <2>2. Without(i) \in Seq(Actors) /\ a \in Actors
    BY QueueSteps DEF Actors
  <2>3. waiting' \in Seq(Actors) /\ (Goto(a, "idle") \/ Goto(a, "wantStmt"))
    BY <2>1, <2>2, AfterTxStep
  <2>4. pc[a] \notin Holding /\ out' = out /\ failed' = failed
    BY <1>14 DEF GiveUp, Wanting, Holding
  <2> QED BY <1>k, <2>2, <2>3, <2>4, Words
<1>15. CASE UNCHANGED vars
  <2>1. Holders' = Holders
    BY <1>15 DEF vars, Holders
  <2> QED BY <1>15, <2>1 DEF vars, TypeOK
<1> QED
  BY <1>10, <1>11, <1>12, <1>13, <1>14, <1>15 DEF Next, Actors, Callers

THEOREM Invariance == Spec => []IInv
BY PoolInit, PoolStep, PTL DEF Spec

-----------------------------------------------------------------------------
\* Every path through internal/storage/postgres gives its connection back but
\* the failed DELETE, for any number of goroutines and connections.
THEOREM PoolBalances == Spec => []Conservation
<1>1. IInv => Conservation
  BY DEF IInv
<1> QED BY <1>1, Invariance, PTL

\* The pool's bookkeeping stays in its types.
THEOREM PoolTypes == Spec => []TypeOK
<1>1. IInv => TypeOK
  BY DEF IInv
<1> QED BY <1>1, Invariance, PTL

\* As many failed DELETEs as there are connections, and nobody, be it a request,
\* ProcessJob or the clean-up itself, has a connection from then on.
THEOREM FailedTicksUseUpThePool == Spec => [](failed >= MaxConns => [](Holders = {}))
<1>1. IInv /\ failed >= MaxConns => Holders = {}
  <2> SUFFICES ASSUME IInv, failed >= MaxConns PROVE Holders = {}
    OBVIOUS
  <2>1. Cardinality(Holders) = 0
    BY HoldersFinite, PoolAssumption DEF IInv, TypeOK, Conservation
  <2> QED BY <2>1, HoldersFinite, FS_EmptySet DEF IInv
<1>2. IInv /\ failed >= MaxConns /\ [Next]_vars => (failed >= MaxConns)'
  BY PoolAssumption
     DEF IInv, TypeOK, Next, Proceed, AcquireStmt, StmtReturns, Begin, BeginFails, Insert,
         InsertFails, Commit, Delete, DeleteFails, CommitDelete, Query, Finalize, GiveUp, Tick,
         vars
<1> QED BY <1>1, <1>2, Invariance, PTL DEF Spec

-----------------------------------------------------------------------------
(* The queue                                                               *)

IsIn(q, a) == \E i \in 1..Len(q) : q[i] = a
Once(q) == \A i, k \in 1..Len(q) : q[i] = q[k] => i = k

\* a stands before b.
Before(q, a, b) == \E i, k \in 1..Len(q) : i < k /\ q[i] = a /\ q[k] = b

\* Whoever wants a connection stands in the queue, in one place, and nobody else does.
QueueInv == Once(waiting) /\ \A a \in Actors : pc[a] \in Wanting <=> IsIn(waiting, a)

\* The others who wait go on waiting, in the same order.
InOrder(p, q, a) == \A b, c \in Actors \ {a} : Before(p, b, c) => Before(q, b, c)

LEMMA Joins ==
  ASSUME NEW q \in Seq(Actors), Once(q), NEW a \in Actors, ~IsIn(q, a)
  PROVE  /\ Once(Append(q, a))
         /\ \A b \in Actors : IsIn(Append(q, a), b) <=> IsIn(q, b) \/ b = a
         /\ \A b, c \in Actors : Before(q, b, c) => Before(Append(q, a), b, c)
<1> DEFINE r == Append(q, a)
           n == Len(q)
<1>1. n \in Nat /\ Len(r) = n + 1 /\ r[n + 1] = a /\ \A i \in 1..n : r[i] = q[i]
  OBVIOUS
<1> HIDE DEF r, n
<1>2. \A i \in 1..Len(r) : i \in 1..n \/ i = n + 1
  BY <1>1
<1>3. \A i \in 1..n : i \in 1..Len(r) /\ n + 1 \in 1..Len(r)
  BY <1>1
<1>4. n + 1 \in 1..Len(r)
  BY <1>1
<1>5. Once(r)
  BY <1>1, <1>2 DEF Once, IsIn, n
<1>6. \A b \in Actors : IsIn(r, b) <=> IsIn(q, b) \/ b = a
  BY <1>1, <1>2, <1>3, <1>4 DEF IsIn, n
<1>7. \A b, c \in Actors : Before(q, b, c) => Before(r, b, c)
  BY <1>1, <1>3 DEF Before, n
<1> QED BY <1>5, <1>6, <1>7 DEF r

\* r is q without its i-th element.
Lacks(r, q, i) ==
  /\ Len(r) = Len(q) - 1
  /\ \A k \in 1..Len(r) : r[k] = IF k < i THEN q[k] ELSE q[k + 1]

LEMMA Leaves ==
  ASSUME NEW q \in Seq(Actors), Once(q), NEW i \in 1..Len(q), NEW r \in Seq(Actors), Lacks(r, q, i)
  PROVE  /\ Once(r)
         /\ \A b \in Actors : IsIn(r, b) <=> IsIn(q, b) /\ b # q[i]
         /\ InOrder(q, r, q[i])
<1> DEFINE n == Len(q)
           up(k) == IF k < i THEN k ELSE k + 1
           down(k) == IF k < i THEN k ELSE k - 1
<1>1. n \in Nat /\ i \in Nat /\ Len(r) = n - 1 /\ 1 <= i /\ i <= n
  BY DEF Lacks
<1>2. ASSUME NEW k \in 1..Len(r) PROVE up(k) \in 1..n /\ up(k) # i /\ r[k] = q[up(k)]
  BY <1>1, <1>2 DEF Lacks
<1>3. ASSUME NEW k \in 1..n, k # i PROVE down(k) \in 1..Len(r) /\ r[down(k)] = q[k]
  BY <1>1, <1>3 DEF Lacks
<1>4. \A k, m \in 1..Len(r) : up(k) = up(m) => k = m
  BY <1>1
<1>5. \A k, m \in 1..n : k # i /\ m # i /\ k < m => down(k) < down(m)
  BY <1>1
<1> HIDE DEF up, down, n
<1>6. Once(r)
  BY <1>2, <1>4 DEF Once, n
<1>7. ASSUME NEW b \in Actors, IsIn(r, b) PROVE IsIn(q, b) /\ b # q[i]
  BY <1>1, <1>2, <1>7 DEF IsIn, Once, n
<1>8. ASSUME NEW b \in Actors, IsIn(q, b), b # q[i] PROVE IsIn(r, b)
  BY <1>3, <1>8 DEF IsIn, n
<1>9. InOrder(q, r, q[i])
  <2> SUFFICES ASSUME NEW b \in Actors \ {q[i]}, NEW c \in Actors \ {q[i]}, Before(q, b, c)
               PROVE  Before(r, b, c)
    BY DEF InOrder
  <2>1. PICK k \in 1..n, m \in 1..n : k < m /\ q[k] = b /\ q[m] = c
    BY DEF Before, n
  <2> QED BY <1>3, <1>5, <2>1 DEF Before
<1> QED BY <1>6, <1>7, <1>8, <1>9

LEMMA QueueShrinks ==
  ASSUME TypeOK
  PROVE  /\ waiting # <<>> =>
              Lacks(Tail(waiting), waiting, 1) /\ 1 \in 1..Len(waiting) /\ Head(waiting) = waiting[1]
         /\ \A i \in DOMAIN waiting : Lacks(Without(i), waiting, i) /\ i \in 1..Len(waiting)
<1> USE DEF TypeOK
<1>1. waiting # <<>> =>
        Lacks(Tail(waiting), waiting, 1) /\ 1 \in 1..Len(waiting) /\ Head(waiting) = waiting[1]
  BY DEF Lacks
<1>2. ASSUME NEW i \in DOMAIN waiting PROVE Lacks(Without(i), waiting, i) /\ i \in 1..Len(waiting)
  <2> DEFINE p == SubSeq(waiting, 1, i - 1)
             s == SubSeq(waiting, i + 1, Len(waiting))
  <2>1. i \in 1..Len(waiting) /\ Len(waiting) \in Nat
    OBVIOUS
  <2>2. p \in Seq(Actors) /\ Len(p) = i - 1 /\ \A k \in 1..(i - 1) : p[k] = waiting[k]
    BY <2>1
  <2>3. s \in Seq(Actors) /\ Len(s) = Len(waiting) - i /\ \A k \in 1..(Len(waiting) - i) : s[k] = waiting[k + i]
    BY <2>1
  <2>4. Without(i) = p \o s
    BY DEF Without
  <2> HIDE DEF p, s
  <2>5. Len(p \o s) = Len(waiting) - 1
    BY <2>1, <2>2, <2>3
  <2>6. ASSUME NEW k \in 1..(Len(waiting) - 1)
        PROVE  (p \o s)[k] = IF k < i THEN waiting[k] ELSE waiting[k + 1]
    <3>1. CASE k < i
      BY <2>1, <2>2, <2>3, <3>1
    <3>2. CASE ~(k < i)
      <4>1. k - (i - 1) \in 1..(Len(waiting) - i) /\ k - (i - 1) + i = k + 1
        BY <2>1, <3>2
      <4>2. p \in Seq(Actors) /\ s \in Seq(Actors) /\ Len(p) = i - 1
        BY <2>2, <2>3
      <4>3. k \in (Len(p) + 1)..(Len(p) + Len(s))
        BY <2>1, <2>3, <3>2, <4>2
      <4>4. (p \o s)[k] = s[k - Len(p)]
        BY <4>2, <4>3
      <4>5. (p \o s)[k] = s[k - (i - 1)]
        BY <4>2, <4>4
      <4> QED BY <2>3, <3>2, <4>1, <4>5
    <3> QED BY <3>1, <3>2
  <2> QED BY <2>1, <2>4, <2>5, <2>6 DEF Lacks
<1> QED BY <1>1, <1>2

\* What a step does to the queue: a joins it, leaves it, goes back to its end to wait for
\* something else, or does not touch it.
Enters(a) ==
  /\ pc[a] \notin Wanting /\ waiting' = Append(waiting, a)
  /\ \E l \in Wanting : Goto(a, l)

Exits(a) ==
  /\ \E r \in Seq(Actors), i \in 1..Len(waiting) :
       waiting[i] = a /\ Lacks(r, waiting, i) /\ waiting' = r
  /\ \E l : l \notin Wanting /\ Goto(a, l)

Requeues(a) ==
  /\ \E r \in Seq(Actors), i \in 1..Len(waiting) :
       waiting[i] = a /\ Lacks(r, waiting, i) /\ waiting' = Append(r, a)
  /\ pc[a] = "wantTx" /\ Goto(a, "wantStmt")

Stays(a) ==
  /\ pc[a] \notin Wanting /\ waiting' = waiting
  /\ \E l : l \notin Wanting /\ Goto(a, l)

\* The end of a transaction, for one who waited for it at place i or who had it.
LEMMA AfterTxShape ==
  ASSUME TypeOK, NEW a \in Actors
  PROVE  /\ \A r \in Seq(Actors), i \in 1..Len(waiting) :
              waiting[i] = a /\ Lacks(r, waiting, i) /\ pc[a] = "wantTx" /\ AfterTx(a, r)
              => Exits(a) \/ Requeues(a)
         /\ pc[a] \notin Wanting /\ AfterTx(a, waiting) => Stays(a) \/ Enters(a)
<1>1. "idle" \notin Wanting /\ "wantStmt" \in Wanting
  BY DEF Wanting
<1>2. ASSUME NEW r \in Seq(Actors), NEW i \in 1..Len(waiting), waiting[i] = a,
             Lacks(r, waiting, i), pc[a] = "wantTx", AfterTx(a, r)
      PROVE  Exits(a) \/ Requeues(a)
  <2>1. CASE a = Sweeper
    <3>1. Goto(a, "idle") /\ waiting' = r
      BY <1>2, <2>1 DEF AfterTx
    <3> QED BY <1>1, <1>2, <3>1 DEF Exits
  <2>2. CASE a # Sweeper
    <3>1. Goto(a, "wantStmt") /\ waiting' = Append(r, a)
      BY <1>2, <2>2 DEF AfterTx
    <3> QED BY <1>2, <3>1 DEF Requeues
  <2> QED BY <2>1, <2>2
<1>3. ASSUME pc[a] \notin Wanting, AfterTx(a, waiting) PROVE Stays(a) \/ Enters(a)
  <2>1. CASE a = Sweeper
    BY <1>1, <1>3, <2>1 DEF AfterTx, Stays
  <2>2. CASE a # Sweeper
    BY <1>1, <1>3, <2>2 DEF AfterTx, Enters
  <2> QED BY <2>1, <2>2
<1> QED BY <1>2, <1>3

LEMMA StepShape ==
  ASSUME TypeOK, Next
  PROVE  \E a \in Actors : Enters(a) \/ Exits(a) \/ Requeues(a) \/ Stays(a)
<1>w. /\ \A l \in {"idle", "stmt", "tx", "inserted", "deleted"} : l \notin Wanting
      /\ \A l \in {"wantStmt", "wantTx"} : l \in Wanting
  BY DEF Wanting
<1>s. Sweeper \in Actors
  BY DEF Actors
<1>h. ASSUME NEW a, NEW l, Turn(a, l)
      PROVE  /\ Tail(waiting) \in Seq(Actors) /\ 1 \in 1..Len(waiting) /\ waiting[1] = a
             /\ Lacks(Tail(waiting), waiting, 1) /\ pc[a] = l
  BY <1>h, QueueSteps, QueueShrinks DEF Turn
<1>1. ASSUME NEW a \in Actors, AcquireStmt(a) \/ Begin(a) PROVE Exits(a)
  <2>1. waiting' = Tail(waiting) /\ \E l : l \notin Wanting /\ Goto(a, l)
    BY <1>w, <1>1 DEF AcquireStmt, Begin
  <2> QED BY <1>h, <1>1, <2>1 DEF Exits, AcquireStmt, Begin
<1>2. ASSUME NEW a \in Actors, BeginFails(a) PROVE Exits(a) \/ Requeues(a)
  BY <1>h, <1>2, AfterTxShape DEF BeginFails
<1>3. ASSUME NEW a \in Actors, StmtReturns(a) \/ Insert(a) PROVE Stays(a)
  BY <1>w, <1>3 DEF StmtReturns, Insert, Stays
<1>4. ASSUME NEW a \in Actors, InsertFails(a) \/ Commit(a) PROVE Stays(a) \/ Enters(a)
  BY <1>w, <1>4, AfterTxShape DEF InsertFails, Commit
<1>5. CASE Delete
  BY <1>w, <1>s, <1>5 DEF Delete, Stays
<1>6. CASE DeleteFails \/ CommitDelete
  BY <1>w, <1>s, <1>6, AfterTxShape DEF DeleteFails, CommitDelete
<1>7. ASSUME NEW a \in Actors, Query(a) \/ Finalize(a) PROVE Enters(a)
  BY <1>w, <1>7 DEF Query, Finalize, Enters
<1>8. CASE Tick
  BY <1>w, <1>s, <1>8 DEF Tick, Enters
<1>9. ASSUME NEW c \in Callers, GiveUp(c) PROVE Exits(c) \/ Requeues(c)
  <2>1. c \in Actors
    BY DEF Actors
  <2>2. PICK i \in DOMAIN waiting :
          /\ waiting[i] = c
          /\ IF pc[c] = "wantTx" THEN AfterTx(c, Without(i))
                                 ELSE Goto(c, "idle") /\ waiting' = Without(i)
    BY <1>9 DEF GiveUp
  <2>3. Without(i) \in Seq(Actors) /\ Lacks(Without(i), waiting, i) /\ i \in 1..Len(waiting)
    BY QueueSteps, QueueShrinks
  <2>4. CASE pc[c] = "wantTx"
    BY <2>1, <2>2, <2>3, <2>4, AfterTxShape
  <2>5. CASE pc[c] # "wantTx"
    BY <1>w, <2>2, <2>3, <2>5 DEF Exits
  <2> QED BY <2>4, <2>5
<1>10. ASSUME NEW a \in Actors, Proceed(a)
       PROVE  \E b \in Actors : Enters(b) \/ Exits(b) \/ Requeues(b) \/ Stays(b)
  BY <1>1, <1>2, <1>3, <1>4, <1>5, <1>6, <1>10 DEF Proceed
<1> QED BY <1>7, <1>8, <1>9, <1>10 DEF Next, Actors, Callers

\* Such a step leaves the order of the others alone.
LEMMA QueueStep ==
  ASSUME TypeOK, QueueInv, NEW a \in Actors, Enters(a) \/ Exits(a) \/ Requeues(a) \/ Stays(a)
  PROVE  /\ QueueInv'
         /\ pc'[a] # pc[a] \/ waiting' = waiting
         /\ InOrder(waiting, waiting', a)
<1>1. waiting \in Seq(Actors) /\ Once(waiting) /\ (pc[a] \in Wanting <=> IsIn(waiting, a))
  BY DEF TypeOK, QueueInv
<1>2. \A l : Goto(a, l) => \A b \in Actors : pc'[b] = IF b = a THEN l ELSE pc[b]
  BY DEF Goto, TypeOK
<1>3. CASE Enters(a)
  <2>1. PICK l \in Wanting : Goto(a, l)
    BY <1>3 DEF Enters
  <2>2. ~IsIn(waiting, a) /\ waiting' = Append(waiting, a) /\ pc'[a] = l /\ pc'[a] # pc[a]
    BY <1>1, <1>2, <1>3, <2>1 DEF Enters
  <2>3. /\ Once(waiting')
        /\ \A b \in Actors : IsIn(waiting', b) <=> IsIn(waiting, b) \/ b = a
        /\ \A b, c \in Actors : Before(waiting, b, c) => Before(waiting', b, c)
    BY <1>1, <2>2, Joins
  <2> QED BY <1>2, <2>1, <2>2, <2>3 DEF QueueInv, InOrder
<1>4. ASSUME NEW r \in Seq(Actors), NEW i \in 1..Len(waiting), waiting[i] = a, Lacks(r, waiting, i)
      PROVE  /\ Once(r)
             /\ \A b \in Actors : IsIn(r, b) <=> IsIn(waiting, b) /\ b # a
             /\ InOrder(waiting, r, a)
  BY <1>1, <1>4, Leaves
<1>5. CASE Exits(a)
  <2>1. PICK r \in Seq(Actors), i \in 1..Len(waiting) :
          waiting[i] = a /\ Lacks(r, waiting, i) /\ waiting' = r
    BY <1>5 DEF Exits
  <2>2. PICK l : l \notin Wanting /\ Goto(a, l)
    BY <1>5 DEF Exits
  <2>3. pc[a] \in Wanting
    BY <1>1, <2>1 DEF IsIn
  <2> QED BY <1>2, <1>4, <2>1, <2>2, <2>3 DEF QueueInv
<1>6. CASE Requeues(a)
  <2>1. PICK r \in Seq(Actors), i \in 1..Len(waiting) :
          waiting[i] = a /\ Lacks(r, waiting, i) /\ waiting' = Append(r, a)
    BY <1>6 DEF Requeues
  <2>2. pc[a] = "wantTx" /\ Goto(a, "wantStmt") /\ pc[a] \in Wanting /\ "wantStmt" \in Wanting
    BY <1>6 DEF Requeues, Wanting
  <2>3. Once(r) /\ ~IsIn(r, a) /\ InOrder(waiting, r, a)
        /\ \A b \in Actors : IsIn(r, b) <=> IsIn(waiting, b) /\ b # a
    BY <1>4, <2>1
  <2>4. /\ Once(waiting')
        /\ \A b \in Actors : IsIn(waiting', b) <=> IsIn(r, b) \/ b = a
        /\ \A b, c \in Actors : Before(r, b, c) => Before(waiting', b, c)
    BY <2>1, <2>3, Joins
  <2>5. QueueInv' /\ pc'[a] # pc[a]
    BY <1>2, <2>2, <2>3, <2>4 DEF QueueInv
  <2>6. InOrder(waiting, waiting', a)
    BY <2>3, <2>4 DEF InOrder
  <2> QED BY <2>5, <2>6
<1>7. CASE Stays(a)
  <2>1. PICK l : l \notin Wanting /\ Goto(a, l)
    BY <1>7 DEF Stays
  <2> QED BY <1>2, <1>7, <2>1 DEF Stays, QueueInv, InOrder
<1> QED BY <1>3, <1>5, <1>6, <1>7

\* Whoever wants a connection stands in pgxpool's queue, once, until it is granted or
\* given up; nobody who holds one, or wants none, does.
THEOREM WaitersAreQueued == Spec => []QueueInv
<1>1. Init => QueueInv
  BY DEF Init, QueueInv, Once, IsIn, Wanting
<1>2. TypeOK /\ QueueInv /\ [Next]_vars => QueueInv'
  <2> SUFFICES ASSUME TypeOK, QueueInv, [Next]_vars PROVE QueueInv'
    OBVIOUS
  <2>1. CASE Next
    BY <2>1, StepShape, QueueStep
  <2>2. CASE UNCHANGED vars
    BY <2>2 DEF vars, QueueInv
  <2> QED BY <2>1, <2>2
<1> QED BY <1>1, <1>2, PoolTypes, PTL DEF Spec

\* Of two who wait, and go on waiting for the same, the one who came first stays first.
NobodyOvertakes ==
  \A b, c \in Actors :
    Before(waiting, b, c) /\ pc'[b] = pc[b] /\ pc'[c] = pc[c] => Before(waiting', b, c)

\* Neither a client that hangs up, nor a finalizer whose context ends, nor a BEGIN that
\* fails puts anybody back behind one who came later.
THEOREM FirstComeFirstServed == Spec => [][NobodyOvertakes]_vars
<1>1. TypeOK /\ QueueInv /\ [Next]_vars => NobodyOvertakes
  <2> SUFFICES ASSUME TypeOK, QueueInv, [Next]_vars PROVE NobodyOvertakes
    OBVIOUS
  <2>1. CASE Next
    <3>1. PICK a \in Actors : /\ pc'[a] # pc[a] \/ waiting' = waiting
                              /\ InOrder(waiting, waiting', a)
      BY <2>1, StepShape, QueueStep
    <3> QED BY <3>1 DEF NobodyOvertakes, InOrder
  <2>2. CASE UNCHANGED vars
    BY <2>2 DEF vars, NobodyOvertakes
  <2> QED BY <2>1, <2>2
<1> QED BY <1>1, WaitersAreQueued, PoolTypes, PTL DEF Spec

\* While some connection is still alive, a queue never waits for itself: its head can
\* have a connection, or there is a holder who will give one back.
QueueMoves ==
  waiting # <<>> /\ failed < MaxConns =>
    Holders # {} \/ \E l \in Wanting : Turn(Head(waiting), l)

THEOREM PoolNeverLocksUp == Spec => []QueueMoves
<1>1. IInv /\ QueueInv => QueueMoves
  <2> SUFFICES ASSUME IInv, QueueInv, waiting # <<>>, failed < MaxConns, Holders = {}
               PROVE  \E l \in Wanting : Turn(Head(waiting), l)
    BY DEF QueueMoves
  <2>1. out = failed
    BY FS_EmptySet DEF IInv, TypeOK, Conservation
  <2>2. Head(waiting) \in Actors /\ Head(waiting) = waiting[1] /\ 1 \in 1..Len(waiting)
    BY DEF IInv, TypeOK
  <2>3. pc[Head(waiting)] \in Wanting
    BY <2>2 DEF QueueInv, IsIn
  <2> QED BY <2>1, <2>3 DEF Turn
<1> QED BY <1>1, Invariance, WaitersAreQueued, PTL

-----------------------------------------------------------------------------
(* Progress.  The prover does not know ENABLED, so the fairness of ProcessJob *)
(* is taken in the form it has wherever NobodyIsStranded holds: finalizeCtx   *)
(* ends one wait after the other, and PostgreSQL answers one call after the   *)
(* other.                                                                     *)

At(f, p) == pc[f] = p

Patient(f) == At(f, "wantTx") \/ At(f, "wantStmt")
Working(f) == At(f, "tx") \/ At(f, "inserted") \/ At(f, "stmt")

Impatience(f) == []<>~Patient(f) \/ []<><<GiveUp(f)>>_vars
Service(f)    == []<>~Working(f) \/ []<><<Proceed(f)>>_vars

\* The way of ProcessJob through the storage.
Follows(p, q) ==
  \/ p = "wantTx" /\ q \in {"tx", "wantStmt"}
  \/ p = "tx" /\ q \in {"inserted", "wantStmt"}
  \/ p = "inserted" /\ q = "wantStmt"
  \/ p = "wantStmt" /\ q \in {"stmt", "idle"}
  \/ p = "stmt" /\ q = "idle"

LEMMA OwnStep ==
  ASSUME TypeOK, NEW f \in Finalizers, Proceed(f) \/ GiveUp(f)
  PROVE  Follows(pc[f], pc'[f])
<1>1. f \in Actors /\ f # Sweeper
  BY PoolAssumption DEF Actors, Callers
<1>2. \A l : Goto(f, l) => pc'[f] = l
  BY <1>1 DEF Goto, TypeOK
<1>3. \A q : AfterTx(f, q) => pc'[f] = "wantStmt"
  BY <1>1, <1>2 DEF AfterTx
<1>4. CASE AcquireStmt(f) \/ Begin(f) \/ BeginFails(f)
  BY <1>2, <1>3, <1>4 DEF AcquireStmt, Begin, BeginFails, Turn, Follows
<1>5. CASE StmtReturns(f)
  BY <1>2, <1>5 DEF StmtReturns, Follows
<1>6. CASE Insert(f) \/ InsertFails(f) \/ Commit(f)
  BY <1>2, <1>3, <1>6 DEF Insert, InsertFails, Commit, Follows
<1>7. CASE GiveUp(f)
  BY <1>2, <1>3, <1>7 DEF GiveUp, Wanting, Follows
<1> QED BY <1>1, <1>4, <1>5, <1>6, <1>7 DEF Proceed

LEMMA OthersStep ==
  ASSUME TypeOK, NEW f \in Actors, pc[f] # "idle", [Next]_vars, ~Proceed(f),
         f \in Callers => ~GiveUp(f)
  PROVE  pc'[f] = pc[f]
<1>1. Sweeper \in Actors
  BY DEF Actors
<1>2. \A a, l : Goto(a, l) /\ a # f => pc'[f] = pc[f]
  BY DEF Goto, TypeOK
<1>3. \A a, q : AfterTx(a, q) /\ a # f => pc'[f] = pc[f]
  BY <1>2 DEF AfterTx
<1>4. ASSUME NEW a \in Actors, a # f, Proceed(a) PROVE pc'[f] = pc[f]
  <2>1. CASE AcquireStmt(a) \/ Begin(a) \/ StmtReturns(a) \/ Insert(a)
    BY <1>2, <1>4, <2>1 DEF AcquireStmt, Begin, StmtReturns, Insert
  <2>2. CASE BeginFails(a) \/ InsertFails(a) \/ Commit(a)
    BY <1>3, <1>4, <2>2 DEF BeginFails, InsertFails, Commit
  <2>3. CASE a = Sweeper /\ (Delete \/ DeleteFails \/ CommitDelete)
    BY <1>2, <1>3, <1>4, <2>3 DEF Delete, DeleteFails, CommitDelete
  <2> QED BY <1>4, <2>1, <2>2, <2>3 DEF Proceed
<1>5. ASSUME NEW c \in Callers, c # f, GiveUp(c) PROVE pc'[f] = pc[f]
  BY <1>2, <1>3, <1>5 DEF GiveUp
<1>6. ASSUME NEW r \in Requests, Query(r) PROVE pc'[f] = pc[f]
  BY <1>2, <1>6 DEF Query
<1>7. ASSUME NEW g \in Finalizers, Finalize(g) PROVE pc'[f] = pc[f]
  BY <1>2, <1>7 DEF Finalize
<1>8. CASE Tick
  BY <1>2, <1>8 DEF Tick
<1>9. CASE UNCHANGED vars
  BY <1>9 DEF vars
<1> QED BY <1>4, <1>5, <1>6, <1>7, <1>8, <1>9 DEF Next

\* From p, wherever f waits or is served, it goes to q or to r, and by itself alone.
Moves(f, p, q, r) ==
  /\ At(f, p) /\ [Next]_vars => At(f, p)' \/ At(f, q)' \/ At(f, r)'
  /\ At(f, p) /\ <<GiveUp(f)>>_vars => At(f, q)' \/ At(f, r)'
  /\ At(f, p) /\ <<Proceed(f)>>_vars => At(f, q)' \/ At(f, r)'

LEMMA FinalizerMoves ==
  ASSUME TypeOK, NEW f \in Finalizers, NEW p, NEW q, NEW r, p # "idle",
         \A l : Follows(p, l) => l = q \/ l = r
  PROVE  Moves(f, p, q, r)
<1>1. f \in Actors
  BY DEF Actors, Callers
<1> QED BY <1>1, OwnStep, OthersStep DEF Moves, At

\* ProcessJob gets through the storage, whoever else has or wants connections.
THEOREM FinalizersAlwaysEnd ==
  Spec /\ (\A f \in Finalizers : Impatience(f) /\ Service(f)) => FinalizersEnd
<1>1. ASSUME NEW f \in Finalizers
      PROVE  Spec /\ (Impatience(f) /\ Service(f)) => (pc[f] = "wantTx" ~> pc[f] = "idle")
  <2>1. TypeOK => Moves(f, "wantTx", "tx", "wantStmt")
    BY FinalizerMoves DEF Follows
  <2>2. TypeOK => Moves(f, "tx", "inserted", "wantStmt")
    BY FinalizerMoves DEF Follows
  <2>3. TypeOK => Moves(f, "inserted", "wantStmt", "wantStmt")
    BY FinalizerMoves DEF Follows
  <2>4. TypeOK => Moves(f, "wantStmt", "stmt", "idle")
    BY FinalizerMoves DEF Follows
  <2>5. TypeOK => Moves(f, "stmt", "idle", "idle")
    BY FinalizerMoves DEF Follows
  <2>6. pc[f] = "wantTx" => At(f, "wantTx")
    BY DEF At
  <2>7. At(f, "idle") => pc[f] = "idle"
    BY DEF At
  <2> QED BY <2>1, <2>2, <2>3, <2>4, <2>5, <2>6, <2>7, PoolTypes, PTL
          DEF Spec, Impatience, Service, Patient, Working, Moves
<1> QED BY <1>1, Zenon DEF FinalizersEnd

-----------------------------------------------------------------------------
(* Whoever stands in the queue moves up.                                   *)

\* PostgreSQL answers whoever has a connection, and the head of the queue is given one
\* when there is one.  (This, too, follows from the weak fairness of Proceed.)
CanGoOn(a) == pc[a] \in Holding \/ \E l \in Wanting : Turn(a, l)

GoesOn(a) == []<>~CanGoOn(a) \/ []<><<Proceed(a)>>_vars
EachGoesOn == \A a \in Actors : GoesOn(a)

\* The guards that NobodyIsStranded asks for: a caller that wants a connection is in
\* the queue, which GiveUp searches, and an action of its own starts from where a
\* holder stands.
HasAWay ==
  /\ \A c \in Callers : pc[c] \in Wanting => \E i \in DOMAIN waiting : waiting[i] = c
  /\ \A a \in Actors : pc[a] \in Holding =>
       \/ pc[a] = "stmt"
       \/ a \in Finalizers /\ pc[a] \in {"tx", "inserted"}
       \/ a = Sweeper /\ pc[a] \in {"tx", "deleted"}

\* Which labels an actor of each kind can stand at.
KindsFit ==
  /\ \A r \in Requests : pc[r] \in {"idle", "wantStmt", "stmt"}
  /\ \A f \in Finalizers : pc[f] # "deleted"
  /\ pc[Sweeper] \in {"idle", "wantTx", "tx", "deleted"}

LEMMA KindsStep == TypeOK /\ KindsFit /\ [Next]_vars => KindsFit'
<1> SUFFICES ASSUME TypeOK, KindsFit, [Next]_vars PROVE KindsFit'
  OBVIOUS
<1>1. Sweeper \in Actors /\ Sweeper \notin Requests /\ Sweeper \notin Finalizers
  BY PoolAssumption DEF Actors, Callers
<1>2. Requests \cap Finalizers = {} /\ Callers \subseteq Actors
  BY PoolAssumption DEF Actors, Callers
\* The goroutine that moves is the only one whose label changes.
<1>g. ASSUME NEW a \in Actors, NEW l, Goto(a, l),
             a \in Requests => l \in {"idle", "wantStmt", "stmt"},
             a \in Finalizers => l # "deleted",
             a = Sweeper => l \in {"idle", "wantTx", "tx", "deleted"}
      PROVE  KindsFit'
  BY <1>1, <1>2, <1>g DEF KindsFit, Goto, TypeOK, Actors, Callers
<1>a. ASSUME NEW a \in Actors, NEW q, AfterTx(a, q) PROVE KindsFit'
  BY <1>1, <1>g, <1>a DEF AfterTx
<1>3. ASSUME NEW a \in Actors, Proceed(a) PROVE KindsFit'
  <2>1. CASE AcquireStmt(a)
    BY <1>1, <1>g, <2>1 DEF AcquireStmt, Turn, KindsFit
  <2>2. CASE StmtReturns(a)
    BY <1>1, <1>g, <2>2 DEF StmtReturns
  <2>3. CASE Begin(a)
    BY <1>1, <1>g, <2>3 DEF Begin, Turn, KindsFit
  <2>4. CASE BeginFails(a)
    BY <1>a, <2>4 DEF BeginFails
  <2>5. CASE a \in Finalizers /\ (Insert(a) \/ InsertFails(a) \/ Commit(a))
    BY <1>1, <1>2, <1>a, <1>g, <2>5 DEF Insert, InsertFails, Commit
  <2>6. CASE a = Sweeper /\ (Delete \/ DeleteFails \/ CommitDelete)
    BY <1>1, <1>a, <1>g, <2>6 DEF Delete, DeleteFails, CommitDelete
  <2> QED BY <1>3, <2>1, <2>2, <2>3, <2>4, <2>5, <2>6 DEF Proceed
<1>4. ASSUME NEW c \in Callers, GiveUp(c) PROVE KindsFit'
  BY <1>1, <1>2, <1>a, <1>g, <1>4, PoolAssumption DEF GiveUp
<1>5. ASSUME NEW r \in Requests, Query(r) PROVE KindsFit'
  BY <1>1, <1>2, <1>g, <1>5 DEF Query, Actors, Callers
<1>6. ASSUME NEW f \in Finalizers, Finalize(f) PROVE KindsFit'
  BY <1>1, <1>2, <1>g, <1>6 DEF Finalize, Actors, Callers
<1>7. CASE Tick
  BY <1>1, <1>g, <1>7 DEF Tick
<1>8. CASE UNCHANGED vars
  BY <1>8 DEF vars, KindsFit
<1> QED BY <1>3, <1>4, <1>5, <1>6, <1>7, <1>8 DEF Next

\* Nobody is stranded, with any number of callers and connections.  It is also what
\* makes CanGoOn a sound guard for the fairness of Proceed.
THEOREM EverybodyHasAWay == Spec => []HasAWay
<1>1. Init => KindsFit
  BY PoolAssumption DEF Init, KindsFit, Actors, Callers
<1>2. TypeOK /\ QueueInv /\ KindsFit => HasAWay
  <2> SUFFICES ASSUME TypeOK, QueueInv, KindsFit PROVE HasAWay
    OBVIOUS
  <2>1. \A c \in Callers : pc[c] \in Wanting => \E i \in DOMAIN waiting : waiting[i] = c
    BY DEF QueueInv, IsIn, Actors, TypeOK
  <2> QED BY <2>1 DEF HasAWay, KindsFit, Holding, Actors, Callers
<1> QED BY <1>1, <1>2, KindsStep, PoolTypes, WaitersAreQueued, PTL DEF Spec

\* a waits for l at place i, and the pool is not used up.
Stands(a, l, i) ==
  /\ l \in Wanting /\ pc[a] = l
  /\ i \in 1..Len(waiting) /\ waiting[i] = a
  /\ failed < MaxConns

\* The same, with b at the head of the queue.
Behind(a, l, i, b) == Stands(a, l, i) /\ waiting[1] = b

\* a waits no longer for l, or at a better place, or the pool is used up.
GotOn(a, l, i) ==
  \/ pc[a] # l
  \/ \E k \in 1..Len(waiting) : k < i /\ waiting[k] = a
  \/ failed >= MaxConns

Full == out >= MaxConns

\* Whoever leaves from place j lets those behind move up and leaves the others alone.
LEMMA MovingUp ==
  ASSUME TypeOK, NEW a \in Actors, NEW b \in Actors, NEW c \in Actors, NEW l, NEW i, NEW j \in 1..Len(waiting),
         Behind(a, l, i, b), NEW r \in Seq(Actors), waiting[j] = c, Lacks(r, waiting, j),
         waiting' = r \/ waiting' = Append(r, c),
         NEW m, m # pc[c], Goto(c, m), failed' \in Nat
  PROVE  /\ Behind(a, l, i, b)' \/ GotOn(a, l, i)'
         /\ j = 1 => GotOn(a, l, i)'
<1> USE DEF Behind, Stands
<1>1. \A d \in Actors : pc'[d] = IF d = c THEN m ELSE pc[d]
  BY DEF Goto, TypeOK
<1>2. Len(waiting) \in Nat /\ i \in Nat /\ j \in Nat /\ 1 <= i /\ 1 <= j /\ i <= Len(waiting) /\ j <= Len(waiting)
  BY DEF TypeOK
<1>3. /\ Len(r) = Len(waiting) - 1
      /\ \A k \in 1..Len(r) : r[k] = IF k < j THEN waiting[k] ELSE waiting[k + 1]
  BY DEF Lacks
<1>4. Len(r) <= Len(waiting') /\ Len(waiting') \in Nat /\ \A k \in 1..Len(r) : waiting'[k] = r[k]
  <2>1. CASE waiting' = r
    BY <2>1
  <2>2. CASE waiting' = Append(r, c)
    <3>1. /\ Len(Append(r, c)) = Len(r) + 1 /\ Len(r) \in Nat
          /\ \A k \in 1..Len(r) : Append(r, c)[k] = r[k]
      OBVIOUS
    <3> QED BY <2>2, <3>1
  <2> QED BY <2>1, <2>2
<1>5. CASE c = a
  BY <1>1, <1>5 DEF GotOn
<1>6. CASE c # a /\ j < i
  <2>1. i - 1 \in 1..Len(r) /\ r[i - 1] = waiting[i]
    BY <1>2, <1>3, <1>6
  <2>2. i - 1 \in 1..Len(waiting') /\ waiting'[i - 1] = a /\ i - 1 < i
    BY <1>2, <1>4, <2>1
  <2> QED BY <2>2 DEF GotOn
<1>7. CASE c # a /\ i < j
  <2>1. i \in 1..Len(r) /\ r[i] = a /\ 1 \in 1..Len(r) /\ r[1] = b
    BY <1>2, <1>3, <1>7
  <2>2. i \in 1..Len(waiting') /\ waiting'[i] = a /\ waiting'[1] = b
    BY <1>2, <1>4, <2>1
  <2>3. pc'[a] = l /\ j # 1
    BY <1>1, <1>2, <1>7
  <2>4. failed' < MaxConns \/ failed' >= MaxConns
    BY PoolAssumption
  <2> QED BY <2>2, <2>3, <2>4 DEF GotOn
<1>8. c # a => i # j
  OBVIOUS
<1> QED BY <1>2, <1>5, <1>6, <1>7, <1>8

\* a keeps its place, behind the same head, until it gets on.
LEMMA PlaceStep ==
  ASSUME IInv, QueueInv, [Next]_vars,
         NEW a \in Actors, NEW b \in Actors, NEW l, NEW i, Behind(a, l, i, b)
  PROVE  Behind(a, l, i, b)' \/ GotOn(a, l, i)'
<1>1. TypeOK /\ failed' \in Nat
  BY PoolStep DEF IInv, TypeOK
<1>2. failed' < MaxConns \/ failed' >= MaxConns
  BY <1>1, PoolAssumption
<1>3. \A d \in Actors : \A m : Goto(d, m) => \A c \in Actors : pc'[c] = IF c = d THEN m ELSE pc[c]
  BY <1>1 DEF Goto, TypeOK
<1>4. /\ pc[a] = l /\ pc[a] \in Wanting /\ Len(waiting) \in Nat
      /\ i \in 1..Len(waiting) /\ waiting[i] = a /\ waiting[1] = b
  BY <1>1 DEF Behind, Stands, TypeOK
<1>5. ASSUME NEW c \in Actors, Enters(c) PROVE Behind(a, l, i, b)' \/ GotOn(a, l, i)'
  <2>1. pc'[a] = pc[a]
    BY <1>3, <1>4, <1>5 DEF Enters
  <2>2. i \in 1..Len(waiting') /\ waiting'[i] = waiting[i] /\ waiting'[1] = waiting[1]
    BY <1>1, <1>4, <1>5 DEF Enters, TypeOK
  <2> QED BY <1>2, <1>4, <2>1, <2>2 DEF Behind, Stands, GotOn
<1>6. ASSUME NEW c \in Actors, Exits(c) PROVE Behind(a, l, i, b)' \/ GotOn(a, l, i)'
  <2>1. PICK r \in Seq(Actors), j \in 1..Len(waiting) :
          waiting[j] = c /\ Lacks(r, waiting, j) /\ waiting' = r
    BY <1>6 DEF Exits
  <2>2. PICK m : m \notin Wanting /\ Goto(c, m)
    BY <1>6 DEF Exits
  <2>3. pc[c] \in Wanting
    BY <2>1 DEF QueueInv, IsIn
  <2> QED BY <1>1, <2>1, <2>2, <2>3, MovingUp
<1>7. ASSUME NEW c \in Actors, Requeues(c) PROVE Behind(a, l, i, b)' \/ GotOn(a, l, i)'
  <2>1. PICK r \in Seq(Actors), j \in 1..Len(waiting) :
          waiting[j] = c /\ Lacks(r, waiting, j) /\ waiting' = Append(r, c)
    BY <1>7 DEF Requeues
  <2>2. Goto(c, "wantStmt") /\ pc[c] = "wantTx"
    BY <1>7 DEF Requeues
  <2> QED BY <1>1, <2>1, <2>2, MovingUp
<1>8. ASSUME NEW c \in Actors, Stays(c) PROVE Behind(a, l, i, b)' \/ GotOn(a, l, i)'
  <2>1. pc'[a] = pc[a] /\ waiting' = waiting
    BY <1>3, <1>4, <1>8 DEF Stays
  <2> QED BY <1>2, <1>4, <2>1 DEF Behind, Stands, GotOn
<1>9. CASE UNCHANGED vars
  BY <1>9 DEF vars, Behind, Stands
<1>10. CASE Next
  BY <1>1, <1>5, <1>6, <1>7, <1>8, <1>10, StepShape
<1> QED BY <1>9, <1>10

\* The head of the queue, given a connection or none, leaves it.
LEMMA HeadStep ==
  ASSUME IInv, QueueInv, [Next]_vars,
         NEW a \in Actors, NEW b \in Actors, NEW l, NEW i, Behind(a, l, i, b),
         NEW c \in Actors, AcquireStmt(c) \/ Begin(c) \/ BeginFails(c)
  PROVE  c = b /\ GotOn(a, l, i)'
<1>1. TypeOK /\ failed' \in Nat
  BY PoolStep DEF IInv, TypeOK
<1>2. /\ waiting # <<>> /\ Head(waiting) = c /\ pc[c] \in {"wantStmt", "wantTx"}
      /\ (AcquireStmt(c) => pc[c] = "wantStmt") /\ (Begin(c) \/ BeginFails(c) => pc[c] = "wantTx")
  BY DEF AcquireStmt, Begin, BeginFails, Turn
<1>3. /\ Lacks(Tail(waiting), waiting, 1) /\ 1 \in 1..Len(waiting) /\ Head(waiting) = waiting[1]
      /\ Tail(waiting) \in Seq(Actors)
  BY <1>1, <1>2, QueueShrinks, QueueSteps
<1>4. c = b
  BY <1>2, <1>3 DEF Behind
<1>5. \E m : /\ m # pc[c] /\ Goto(c, m)
             /\ waiting' = Tail(waiting) \/ waiting' = Append(Tail(waiting), c)
  <2>1. CASE AcquireStmt(c)
    <3>1. Goto(c, "stmt") /\ waiting' = Tail(waiting) /\ pc[c] = "wantStmt"
      BY <1>2, <2>1 DEF AcquireStmt
    <3> QED BY <3>1
  <2>2. CASE Begin(c)
    <3>1. Goto(c, "tx") /\ waiting' = Tail(waiting) /\ pc[c] = "wantTx"
      BY <1>2, <2>2 DEF Begin
    <3> QED BY <3>1
  <2>3. CASE BeginFails(c)
    <3>1. pc[c] = "wantTx" /\ \/ Goto(c, "idle") /\ waiting' = Tail(waiting)
                              \/ Goto(c, "wantStmt") /\ waiting' = Append(Tail(waiting), c)
      BY <1>2, <2>3 DEF BeginFails, AfterTx
    <3> QED BY <3>1
  <2> QED BY <2>1, <2>2, <2>3
<1> QED BY <1>1, <1>2, <1>3, <1>4, <1>5, MovingUp

-----------------------------------------------------------------------------
(* When every connection is out, one of the holders brings one back: any   *)
(* but the sweeper, or the sweeper if it is the only one, for if its       *)
(* DELETE fails then, the pool is used up.                                 *)

Helps(h) == pc[h] \in Holding /\ (h = Sweeper => Holders = {Sweeper})

LEMMA SomebodyHelps ==
  ASSUME IInv, Full, failed < MaxConns
  PROVE  \E h \in Actors : Helps(h)
<1>1. Cardinality(Holders) # 0
  BY HoldersFinite, PoolAssumption DEF IInv, TypeOK, Conservation, Full
<1>2. Holders # {}
  BY <1>1, FS_EmptySet
<1>3. CASE \E h \in Holders : h # Sweeper
  BY <1>3 DEF Holders, Helps
<1>4. CASE \A h \in Holders : h = Sweeper
  <2>1. Holders = {Sweeper}
    BY <1>2, <1>4
  <2> QED BY <2>1 DEF Holders, Helps
<1> QED BY <1>3, <1>4

LEMMA NoNewHolder ==
  ASSUME TypeOK, Full, [Next]_vars
  PROVE  Holders' \subseteq Holders
<1>1. ASSUME NEW c \in Actors, NEW m, Goto(c, m), m \in Holding => pc[c] \in Holding
      PROVE  Holders' \subseteq Holders
  BY <1>1 DEF Goto, TypeOK, Holders
<1>2. \A a, l : ~Turn(a, l)
  BY PoolAssumption DEF Full, Turn, TypeOK
<1>3. Sweeper \in Actors /\ Callers \subseteq Actors /\ Requests \subseteq Actors /\ Finalizers \subseteq Actors
  BY DEF Actors, Callers
<1>4. ASSUME NEW a \in Actors, NEW q, AfterTx(a, q) PROVE Holders' \subseteq Holders
  <2>1. Goto(a, "idle") \/ Goto(a, "wantStmt")
    BY <1>4 DEF AfterTx
  <2> QED BY <1>1, <2>1, Words
<1>5. ASSUME NEW a \in Actors, StmtReturns(a) \/ Insert(a) PROVE Holders' \subseteq Holders
  BY <1>1, <1>5, Words DEF StmtReturns, Insert
<1>6. ASSUME NEW a \in Actors, InsertFails(a) \/ Commit(a) PROVE Holders' \subseteq Holders
  BY <1>4, <1>6 DEF InsertFails, Commit
<1>7. CASE Delete
  BY <1>1, <1>3, <1>7, Words DEF Delete
<1>8. CASE DeleteFails \/ CommitDelete
  BY <1>3, <1>4, <1>8 DEF DeleteFails, CommitDelete
<1>9. ASSUME NEW a \in Actors, Query(a) \/ Finalize(a) PROVE Holders' \subseteq Holders
  BY <1>1, <1>9, Words DEF Query, Finalize
<1>10. CASE Tick
  BY <1>1, <1>3, <1>10, Words DEF Tick
<1>11. ASSUME NEW c \in Callers, GiveUp(c) PROVE Holders' \subseteq Holders
  <2>1. (\E q : AfterTx(c, q)) \/ Goto(c, "idle")
    BY <1>11 DEF GiveUp
  <2> QED BY <1>1, <1>3, <1>4, <2>1, Words
<1>12. CASE UNCHANGED vars
  BY <1>12 DEF vars, Holders
<1> QED BY <1>2, <1>3, <1>5, <1>6, <1>7, <1>8, <1>9, <1>10, <1>11, <1>12
        DEF Next, Proceed, AcquireStmt, Begin, BeginFails

\* While the others step, a helper keeps its connection and its place.
LEMMA HelperStays ==
  ASSUME IInv, Full, [Next]_vars, NEW h \in Actors, Helps(h), ~Proceed(h)
  PROVE  pc'[h] = pc[h] /\ Helps(h)'
<1>1. pc[h] # "idle" /\ (h \in Callers => ~GiveUp(h)) /\ TypeOK
  BY Words DEF Helps, GiveUp, Wanting, Holding, IInv
<1>2. pc'[h] = pc[h]
  BY <1>1, OthersStep
<1>3. h = Sweeper => Holders' = {Sweeper}
  BY <1>1, <1>2, NoNewHolder DEF Helps, Holders
<1> QED BY <1>2, <1>3 DEF Helps

\* Its own step brings a connection back, or uses the pool up, or is one of the two
\* that come before those.
LEMMA HelperSteps ==
  ASSUME IInv, Full, failed < MaxConns, NEW h \in Actors, Helps(h), Proceed(h)
  PROVE  \/ ~Full' \/ failed' >= MaxConns
         \/ At(h, "tx") /\ Helps(h)' /\ ~At(h, "tx")'
<1>1. TypeOK /\ out = MaxConns /\ MaxConns \in Nat /\ failed \in Nat
  BY PoolAssumption DEF IInv, TypeOK, Conservation, Full
<1>2. ~(\E l \in Wanting : Turn(h, l)) /\ Sweeper \in Actors
  BY <1>1 DEF Turn, Actors
<1>3. CASE StmtReturns(h) \/ InsertFails(h) \/ Commit(h) \/ CommitDelete
  BY <1>1, <1>3 DEF StmtReturns, InsertFails, Commit, CommitDelete, Full
<1>4. CASE h # Sweeper /\ Insert(h)
  BY <1>1, <1>4, Words DEF Insert, Goto, TypeOK, Helps, At
<1>5. CASE h = Sweeper /\ Delete
  <2>1. pc' = [pc EXCEPT ![h] = "deleted"] /\ pc[h] = "tx"
    BY <1>5 DEF Delete, Goto
  <2>2. Holders' = Holders
    BY <1>1, <2>1, Words DEF TypeOK, Holders
  <2> QED BY <1>1, <1>5, <2>1, <2>2, Words DEF TypeOK, Helps, At
<1>6. CASE h = Sweeper /\ DeleteFails
  <2>1. Cardinality(Holders) = 1
    BY <1>6, FS_Singleton DEF Helps
  <2>2. failed' = MaxConns
    BY <1>1, <1>6, <2>1 DEF DeleteFails, IInv, Conservation
  <2> QED BY <1>1, <2>2
<1>7. h = Sweeper => h \notin Finalizers
  BY PoolAssumption DEF Callers
<1>8. ~AcquireStmt(h) /\ ~Begin(h) /\ ~BeginFails(h)
  BY <1>2, Words DEF AcquireStmt, Begin, BeginFails, Wanting
<1> QED BY <1>3, <1>4, <1>5, <1>6, <1>7, <1>8 DEF Proceed

\* A connection that is free is for the head of the queue.
LEMMA FreeStep ==
  ASSUME IInv, QueueInv, [Next]_vars, ~Full,
         NEW a \in Actors, NEW b \in Actors, NEW l, NEW i, Behind(a, l, i, b)
  PROVE  ~Full' \/ GotOn(a, l, i)'
<1>1. CASE \E c \in Actors : AcquireStmt(c) \/ Begin(c)
  BY <1>1, HeadStep
<1>2. CASE ~(\E c \in Actors : AcquireStmt(c) \/ Begin(c))
  <2>1. out' \in Nat /\ out' <= out
    BY <1>2 , PoolStep
       DEF IInv, TypeOK, Next, Proceed, StmtReturns, BeginFails, Insert, InsertFails, Commit, Delete,
           DeleteFails, CommitDelete, Query, Finalize, GiveUp, Tick, vars
  <2> QED BY <2>1, PoolAssumption DEF Full, IInv, TypeOK
<1> QED BY <1>1, <1>2

-----------------------------------------------------------------------------
(* From one place to the next.                                             *)

\* h, one of the holders of a used-up pool, opened or done with its transaction, can
\* help a, which stands behind b.
Opened(a, l, i, b, h) == Behind(a, l, i, b) /\ Full /\ Helps(h) /\ At(h, "tx")
Closing(a, l, i, b, h) == Behind(a, l, i, b) /\ Full /\ Helps(h) /\ ~At(h, "tx")

\* Nobody has to: there is a connection for b.
Easy(a, l, i, b) == Behind(a, l, i, b) /\ ~Full

LEMMA OneHelp ==
  ASSUME NEW a \in Actors, NEW b \in Actors, NEW h \in Actors, NEW l, NEW i
  PROVE  []IInv /\ []QueueInv /\ [][Next]_vars /\ GoesOn(b) /\ GoesOn(h)
         /\ (Opened(a, l, i, b, h) \/ Closing(a, l, i, b, h) \/ Easy(a, l, i, b))
         => <>GotOn(a, l, i)
<1> USE DEF Opened, Closing, Easy
<1>1. IInv /\ QueueInv /\ Opened(a, l, i, b, h) /\ [Next]_vars
      => \/ Opened(a, l, i, b, h)' \/ Closing(a, l, i, b, h)' \/ Easy(a, l, i, b)'
         \/ GotOn(a, l, i)'
  <2> SUFFICES ASSUME IInv, QueueInv, Opened(a, l, i, b, h), [Next]_vars
               PROVE  \/ Opened(a, l, i, b, h)' \/ Closing(a, l, i, b, h)' \/ Easy(a, l, i, b)'
                      \/ GotOn(a, l, i)'
    OBVIOUS
  <2>1. Behind(a, l, i, b)' \/ GotOn(a, l, i)'
    BY PlaceStep
  <2>2. failed < MaxConns
    BY DEF Behind, Stands
  <2>3. Helps(h)' \/ ~Full' \/ GotOn(a, l, i)'
    BY <2>2, HelperStays, HelperSteps DEF GotOn
  <2> QED BY <2>1, <2>3
<1>2. IInv /\ QueueInv /\ Opened(a, l, i, b, h) /\ <<Proceed(h) /\ Next>>_vars
      => Closing(a, l, i, b, h)' \/ Easy(a, l, i, b)' \/ GotOn(a, l, i)'
  <2> SUFFICES ASSUME IInv, QueueInv, Opened(a, l, i, b, h), Proceed(h), Next
               PROVE  Closing(a, l, i, b, h)' \/ Easy(a, l, i, b)' \/ GotOn(a, l, i)'
    OBVIOUS
  <2>1. Behind(a, l, i, b)' \/ GotOn(a, l, i)'
    BY PlaceStep
  <2>2. failed < MaxConns
    BY DEF Behind, Stands
  <2> QED BY <2>1, <2>2, HelperSteps DEF GotOn
<1>3. IInv /\ QueueInv /\ Closing(a, l, i, b, h) /\ [Next]_vars
      => Closing(a, l, i, b, h)' \/ Easy(a, l, i, b)' \/ GotOn(a, l, i)'
  <2> SUFFICES ASSUME IInv, QueueInv, Closing(a, l, i, b, h), [Next]_vars
               PROVE  Closing(a, l, i, b, h)' \/ Easy(a, l, i, b)' \/ GotOn(a, l, i)'
    OBVIOUS
  <2>1. Behind(a, l, i, b)' \/ GotOn(a, l, i)'
    BY PlaceStep
  <2>2. failed < MaxConns
    BY DEF Behind, Stands
  <2>3. CASE Proceed(h)
    BY <2>1, <2>2, <2>3, HelperSteps DEF GotOn
  <2>4. CASE ~Proceed(h)
    BY <2>1, <2>4, HelperStays DEF At
  <2> QED BY <2>3, <2>4
<1>4. IInv /\ QueueInv /\ Closing(a, l, i, b, h) /\ <<Proceed(h) /\ Next>>_vars
      => Easy(a, l, i, b)' \/ GotOn(a, l, i)'
  <2> SUFFICES ASSUME IInv, QueueInv, Closing(a, l, i, b, h), Proceed(h), Next
               PROVE  Easy(a, l, i, b)' \/ GotOn(a, l, i)'
    OBVIOUS
  <2>1. Behind(a, l, i, b)' \/ GotOn(a, l, i)'
    BY PlaceStep
  <2>2. failed < MaxConns
    BY DEF Behind, Stands
  <2> QED BY <2>1, <2>2, HelperSteps DEF GotOn
<1>5. IInv /\ QueueInv /\ Easy(a, l, i, b) /\ [Next]_vars => Easy(a, l, i, b)' \/ GotOn(a, l, i)'
  BY PlaceStep, FreeStep
<1>6. /\ IInv /\ QueueInv /\ Easy(a, l, i, b)
      => /\ CanGoOn(b)
         /\ Proceed(b) /\ Next => GotOn(a, l, i)'
  <2> SUFFICES ASSUME IInv, QueueInv, Easy(a, l, i, b)
               PROVE  CanGoOn(b) /\ (Proceed(b) /\ Next => GotOn(a, l, i)')
    OBVIOUS
  <2>1. /\ 1 \in 1..Len(waiting) /\ waiting # <<>> /\ Head(waiting) = b /\ waiting[1] = b
        /\ out < MaxConns
    BY PoolAssumption DEF IInv, TypeOK, Behind, Stands, Full
  <2>2. pc[b] \in Wanting
    BY <2>1 DEF QueueInv, IsIn
  <2>3. CanGoOn(b)
    BY <2>1, <2>2 DEF CanGoOn, Turn
  <2>4. Proceed(b) => AcquireStmt(b) \/ Begin(b) \/ BeginFails(b)
    BY <2>2 DEF Wanting, Proceed, StmtReturns, Insert, InsertFails, Commit, Delete, DeleteFails,
                CommitDelete
  <2> QED BY <2>3, <2>4, HeadStep
<1>7. Opened(a, l, i, b, h) \/ Closing(a, l, i, b, h) => CanGoOn(h)
  BY DEF Helps, CanGoOn
<1> HIDE DEF Opened, Closing, Easy
<1>8. []IInv /\ []QueueInv /\ [][Next]_vars /\ GoesOn(b) => [](Easy(a, l, i, b) => <>GotOn(a, l, i))
  BY <1>5, <1>6, PTL DEF GoesOn
<1>9. []IInv /\ []QueueInv /\ [][Next]_vars /\ GoesOn(h)
      => [](Closing(a, l, i, b, h) => <>(Easy(a, l, i, b) \/ GotOn(a, l, i)))
  BY <1>3, <1>4, <1>7, PTL DEF GoesOn
<1>10. []IInv /\ []QueueInv /\ [][Next]_vars /\ GoesOn(h)
       => [](Opened(a, l, i, b, h) => <>(Closing(a, l, i, b, h) \/ Easy(a, l, i, b) \/ GotOn(a, l, i)))
  BY <1>1, <1>2, <1>7, PTL DEF GoesOn
<1> QED BY <1>8, <1>9, <1>10, PTL

\* Whoever waits, at whatever place, gets a better one or gets on, until as many ticks
\* have failed as there are connections.
PlacesAreLeft(a, l, i) == Stands(a, l, i) ~> GotOn(a, l, i)

THEOREM EveryPlaceIsLeft ==
  ASSUME NEW a \in Actors, NEW l, NEW i
  PROVE  []IInv /\ []QueueInv /\ [][Next]_vars /\ []EachGoesOn => PlacesAreLeft(a, l, i)
<1> DEFINE Someone(b, h) == Opened(a, l, i, b, h) \/ Closing(a, l, i, b, h) \/ Easy(a, l, i, b)
<1>1. ASSUME NEW b \in Actors, NEW h \in Actors
      PROVE  []IInv /\ []QueueInv /\ [][Next]_vars /\ []EachGoesOn /\ Someone(b, h)
             => <>GotOn(a, l, i)
  <2>1. EachGoesOn => GoesOn(b) /\ GoesOn(h)
    BY Zenon DEF EachGoesOn
  <2> QED BY <2>1, OneHelp, PTL
<1>2. IInv /\ Stands(a, l, i) => \E b, h \in Actors : Someone(b, h)
  <2> SUFFICES ASSUME IInv, Stands(a, l, i) PROVE \E b, h \in Actors : Someone(b, h)
    OBVIOUS
  <2>1. waiting[1] \in Actors /\ failed < MaxConns
    BY DEF IInv, TypeOK, Stands
  <2>2. Behind(a, l, i, waiting[1])
    BY DEF Behind
  <2>3. CASE ~Full
    BY <2>1, <2>2, <2>3 DEF Easy
  <2>4. CASE Full
    <3>1. PICK h \in Actors : Helps(h)
      BY <2>1, <2>4, SomebodyHelps
    <3> QED BY <2>1, <2>2, <2>4, <3>1 DEF Opened, Closing
  <2> QED BY <2>3, <2>4
<1> HIDE DEF Someone
<1>3. []IInv /\ []QueueInv /\ [][Next]_vars /\ []EachGoesOn /\ (\E b, h \in Actors : Someone(b, h))
      => <>GotOn(a, l, i)
  BY <1>1, Zenon
<1> QED BY <1>2, <1>3, PTL DEF PlacesAreLeft

\* a waits for l among the first n.
Among(a, l, n) == l \in Wanting /\ pc[a] = l /\ failed < MaxConns /\ \E i \in 1..Len(waiting) : i <= n /\ waiting[i] = a

Served(a, l) == pc[a] # l \/ failed >= MaxConns

\* From among the first n to among the first m.
Climbs(a, l, m, n) == [](Among(a, l, n) => <>(Among(a, l, m) \/ Served(a, l)))
ClimbsBy(a, l, k)  == \A m, n \in Nat : n = m + k => Climbs(a, l, m, n)

LEMMA OnePlace ==
  ASSUME NEW a \in Actors, NEW l
  PROVE  []IInv /\ []QueueInv /\ [][Next]_vars /\ []EachGoesOn => ClimbsBy(a, l, 1)
<1>1. ASSUME NEW m \in Nat, NEW n \in Nat, n = m + 1
      PROVE  []IInv /\ []QueueInv /\ [][Next]_vars /\ []EachGoesOn => Climbs(a, l, m, n)
  <2>1. IInv /\ Among(a, l, n) => Among(a, l, m) \/ Stands(a, l, n)
    <3> SUFFICES ASSUME IInv, Among(a, l, n) PROVE Among(a, l, m) \/ Stands(a, l, n)
      OBVIOUS
    <3>1. PICK i \in 1..Len(waiting) : i <= n /\ waiting[i] = a
      BY DEF Among
    <3>2. i <= m \/ i = n
      BY <1>1, <3>1 DEF IInv, TypeOK
    <3> QED BY <3>1, <3>2 DEF Among, Stands
  <2>2. IInv /\ GotOn(a, l, n) => l \notin Wanting \/ Among(a, l, m) \/ Served(a, l)
    <3> SUFFICES ASSUME IInv, GotOn(a, l, n), l \in Wanting, ~Served(a, l) PROVE Among(a, l, m)
      OBVIOUS
    <3>1. PICK k \in 1..Len(waiting) : k < n /\ waiting[k] = a
      BY DEF GotOn, Served
    <3>2. k <= m /\ failed < MaxConns
      BY <1>1, <3>1, PoolAssumption DEF IInv, TypeOK, Served
    <3> QED BY <3>1, <3>2 DEF Among, Served
  <2>3. Among(a, l, n) => l \in Wanting
    BY DEF Among
  <2>4. CASE l \in Wanting
    <3>1. IInv /\ GotOn(a, l, n) => Among(a, l, m) \/ Served(a, l)
      BY <2>2, <2>4
    <3>2. []IInv /\ []QueueInv /\ [][Next]_vars /\ []EachGoesOn => PlacesAreLeft(a, l, n)
      BY EveryPlaceIsLeft
    <3> QED BY <2>1, <3>1, <3>2, PTL DEF Climbs, PlacesAreLeft
  <2>5. CASE l \notin Wanting
    <3>1. ~Among(a, l, n)
      BY <2>3, <2>5
    <3> QED BY <3>1, PTL DEF Climbs
  <2> QED BY <2>4, <2>5
<1> QED BY <1>1, Zenon DEF ClimbsBy

\* Twice the way is no harder: this is how far the proof system gets without an
\* induction over the place.
LEMMA Twice ==
  ASSUME NEW a \in Actors, NEW l, NEW k \in Nat, NEW d, d = k + k
  PROVE  ClimbsBy(a, l, k) => ClimbsBy(a, l, d)
<1>1. ASSUME NEW m \in Nat, NEW n \in Nat, n = m + d
      PROVE  ClimbsBy(a, l, k) => Climbs(a, l, m, n)
  <2>1. PICK p \in Nat : p = m + k
    OBVIOUS
  <2>2. n = p + k
    BY <1>1, <2>1
  <2>3. ClimbsBy(a, l, k) => Climbs(a, l, m, p) /\ Climbs(a, l, p, n)
    BY <2>1, <2>2, Zenon DEF ClimbsBy
  <2>4. Climbs(a, l, m, p) /\ Climbs(a, l, p, n) => Climbs(a, l, m, n)
    BY PTL DEF Climbs
  <2> QED BY <2>3, <2>4
<1> QED BY <1>1, Zenon DEF ClimbsBy

LEMMA AllTheWay ==
  ASSUME NEW a \in Actors, NEW l, NEW n \in Nat
  PROVE  ClimbsBy(a, l, n) => Climbs(a, l, 0, n)
<1>1. n = 0 + n /\ 0 \in Nat
  OBVIOUS
<1> QED BY <1>1, Zenon DEF ClimbsBy

MaxWaiting == 1024
IsServed(a, l) == [](pc[a] = l => <>Served(a, l))

\* Whoever waits is served, or hangs up, in the end.
LEMMA WaitersAreServed ==
  ASSUME NEW a \in Actors, NEW l \in Wanting
  PROVE  []IInv /\ []QueueInv /\ [][Next]_vars /\ []EachGoesOn /\ [](Len(waiting) <= MaxWaiting)
         => IsServed(a, l)
<1>1. ClimbsBy(a, l, 1) => ClimbsBy(a, l, 2)
  BY Twice
<1>2. ClimbsBy(a, l, 2) => ClimbsBy(a, l, 4)
  BY Twice
<1>3. ClimbsBy(a, l, 4) => ClimbsBy(a, l, 8)
  BY Twice
<1>4. ClimbsBy(a, l, 8) => ClimbsBy(a, l, 16)
  BY Twice
<1>5. ClimbsBy(a, l, 16) => ClimbsBy(a, l, 32)
  BY Twice
<1>6. ClimbsBy(a, l, 32) => ClimbsBy(a, l, 64)
  BY Twice
<1>7. ClimbsBy(a, l, 64) => ClimbsBy(a, l, 128)
  BY Twice
<1>8. ClimbsBy(a, l, 128) => ClimbsBy(a, l, 256)
  BY Twice
<1>9. ClimbsBy(a, l, 256) => ClimbsBy(a, l, 512)
  BY Twice
<1>10. ClimbsBy(a, l, 512) => ClimbsBy(a, l, 1024)
  BY Twice
<1>11. ClimbsBy(a, l, 1024) => Climbs(a, l, 0, 1024)
  BY AllTheWay
<1>12. []IInv /\ []QueueInv /\ [][Next]_vars /\ []EachGoesOn => ClimbsBy(a, l, 1)
  BY OnePlace
<1>13. IInv => ~Among(a, l, 0)
  BY DEF IInv, TypeOK, Among
<1>14. IInv /\ QueueInv /\ Len(waiting) <= MaxWaiting /\ pc[a] = l => Among(a, l, 1024) \/ Served(a, l)
  <2> SUFFICES ASSUME IInv, QueueInv, Len(waiting) <= MaxWaiting, pc[a] = l, ~Served(a, l)
               PROVE  Among(a, l, 1024)
    OBVIOUS
  <2>1. PICK i \in 1..Len(waiting) : waiting[i] = a
    BY DEF QueueInv, IsIn
  <2>2. failed < MaxConns /\ i <= 1024
    BY PoolAssumption DEF IInv, TypeOK, Served, MaxWaiting
  <2> QED BY <2>1, <2>2 DEF Among
<1>15. []IInv /\ []QueueInv /\ [][Next]_vars /\ []EachGoesOn => Climbs(a, l, 0, 1024)
  BY <1>1, <1>2, <1>3, <1>4, <1>5, <1>6, <1>7, <1>8, <1>9, <1>10, <1>11, <1>12, PTL
<1> QED BY <1>13, <1>14, <1>15, PTL DEF Climbs, IsServed

\* The ways of a request and of cleanUpLoop through the storage.
LEMMA RequestStep ==
  ASSUME TypeOK, NEW r \in Requests, [Next]_vars
  PROVE  /\ pc[r] = "wantStmt" => pc'[r] \in {"wantStmt", "stmt", "idle"}
         /\ pc[r] = "stmt" => pc'[r] \in {"stmt", "idle"} /\ (Proceed(r) => pc'[r] = "idle")
<1>1. r \in Actors /\ r \in Callers /\ r # Sweeper /\ r \notin Finalizers
  BY PoolAssumption DEF Actors, Callers
<1>2. \A l : Goto(r, l) => pc'[r] = l
  BY <1>1 DEF Goto, TypeOK
<1>3. CASE Proceed(r)
  BY <1>1, <1>2, <1>3 DEF Proceed, AcquireStmt, StmtReturns, Begin, BeginFails, Turn
<1>4. CASE GiveUp(r)
  BY <1>1, <1>2, <1>4 DEF GiveUp, Wanting
<1>5. CASE pc[r] # "idle" /\ ~Proceed(r) /\ ~GiveUp(r)
  BY <1>1, <1>5, OthersStep
<1> QED BY <1>3, <1>4, <1>5

LEMMA SweeperStep ==
  ASSUME TypeOK, [Next]_vars
  PROVE  /\ pc[Sweeper] = "wantTx" => pc'[Sweeper] \in {"wantTx", "tx", "idle"}
         /\ pc[Sweeper] = "tx" => /\ pc'[Sweeper] \in {"tx", "deleted", "idle"}
                                  /\ Proceed(Sweeper) => pc'[Sweeper] \in {"deleted", "idle"}
         /\ pc[Sweeper] = "deleted" => /\ pc'[Sweeper] \in {"deleted", "idle"}
                                       /\ Proceed(Sweeper) => pc'[Sweeper] = "idle"
<1>1. Sweeper \in Actors /\ Sweeper \notin Callers /\ Sweeper \notin Finalizers
  BY PoolAssumption DEF Actors, Callers
<1>2. \A l : Goto(Sweeper, l) => pc'[Sweeper] = l
  BY <1>1 DEF Goto, TypeOK
<1>3. \A q : AfterTx(Sweeper, q) => pc'[Sweeper] = "idle"
  BY <1>2 DEF AfterTx
<1>4. CASE Proceed(Sweeper)
  BY <1>1, <1>2, <1>3, <1>4 DEF Proceed, AcquireStmt, StmtReturns, Begin, BeginFails, Turn,
                                Delete, DeleteFails, CommitDelete
<1>5. CASE pc[Sweeper] # "idle" /\ ~Proceed(Sweeper)
  BY <1>1, <1>5, OthersStep
<1> QED BY <1>4, <1>5

\* A request is answered, with any number of callers and connections, unless the ticks
\* that failed have used the pool up; its client need not hang up.
THEOREM RequestsAlwaysAnswered ==
  Spec /\ []EachGoesOn /\ [](Len(waiting) <= MaxWaiting) => RequestsAreAnswered
<1>1. ASSUME NEW r \in Requests
      PROVE  Spec /\ []EachGoesOn /\ [](Len(waiting) <= MaxWaiting)
             => (pc[r] = "wantStmt" ~> pc[r] = "idle" \/ failed >= MaxConns)
  <2> DEFINE UsedUp == failed >= MaxConns
  <2>1. r \in Actors /\ "wantStmt" \in Wanting
    BY DEF Actors, Callers, Wanting
  <2>2. []IInv /\ []QueueInv /\ [][Next]_vars /\ []EachGoesOn /\ [](Len(waiting) <= MaxWaiting)
        => IsServed(r, "wantStmt")
    BY <2>1, WaitersAreServed
  <2>3. IInv /\ At(r, "wantStmt") /\ [Next]_vars
        => At(r, "wantStmt")' \/ At(r, "stmt")' \/ At(r, "idle")'
    BY RequestStep DEF IInv, At
  <2>4. IInv /\ At(r, "stmt") /\ [Next]_vars => At(r, "stmt")' \/ At(r, "idle")'
    BY RequestStep DEF IInv, At
  <2>5. IInv /\ At(r, "stmt") /\ <<Proceed(r) /\ Next>>_vars => At(r, "idle")'
    BY RequestStep DEF IInv, At
  <2>6. At(r, "stmt") => CanGoOn(r)
    BY Words DEF At, CanGoOn
  <2>7. EachGoesOn => GoesOn(r)
    BY <2>1, Zenon DEF EachGoesOn
  <2>8. /\ pc[r] = "wantStmt" <=> At(r, "wantStmt")
        /\ pc[r] = "idle" <=> At(r, "idle")
        /\ Served(r, "wantStmt") => ~At(r, "wantStmt") \/ UsedUp
        /\ UsedUp => failed >= MaxConns
    BY DEF At, Served
  <2> HIDE DEF UsedUp
  <2>9. []IInv /\ [][Next]_vars /\ []EachGoesOn => [](At(r, "stmt") => <>At(r, "idle"))
    BY <2>4, <2>5, <2>6, <2>7, PTL DEF GoesOn
  <2>10. []IInv /\ [][Next]_vars
         => [](At(r, "wantStmt") /\ <>(~At(r, "wantStmt") \/ UsedUp)
               => <>(At(r, "stmt") \/ At(r, "idle") \/ UsedUp))
    BY <2>3, PTL
  <2> QED BY <2>2, <2>8, <2>9, <2>10, Invariance, WaitersAreQueued, PTL DEF Spec, IsServed
<1> QED BY <1>1, Zenon DEF RequestsAreAnswered

\* So is cleanUpLoop, which comes back to its ticker, and so to the next clean-up.
THEOREM SweeperAlwaysGoesOn ==
  Spec /\ []EachGoesOn /\ [](Len(waiting) <= MaxWaiting) => SweeperGoesOn
<1> DEFINE UsedUp == failed >= MaxConns
           S == Sweeper
<1>1. S \in Actors /\ "wantTx" \in Wanting
  BY DEF Actors, Wanting
<1>2. []IInv /\ []QueueInv /\ [][Next]_vars /\ []EachGoesOn /\ [](Len(waiting) <= MaxWaiting)
      => IsServed(S, "wantTx")
  BY <1>1, WaitersAreServed
<1>3. IInv /\ At(S, "wantTx") /\ [Next]_vars => At(S, "wantTx")' \/ At(S, "tx")' \/ At(S, "idle")'
  BY SweeperStep DEF IInv, At
<1>4. IInv /\ At(S, "tx") /\ [Next]_vars => At(S, "tx")' \/ At(S, "deleted")' \/ At(S, "idle")'
  BY SweeperStep DEF IInv, At
<1>5. IInv /\ At(S, "tx") /\ <<Proceed(S) /\ Next>>_vars => At(S, "deleted")' \/ At(S, "idle")'
  BY SweeperStep DEF IInv, At
<1>6. IInv /\ At(S, "deleted") /\ [Next]_vars => At(S, "deleted")' \/ At(S, "idle")'
  BY SweeperStep DEF IInv, At
<1>7. IInv /\ At(S, "deleted") /\ <<Proceed(S) /\ Next>>_vars => At(S, "idle")'
  BY SweeperStep DEF IInv, At
<1>8. At(S, "tx") \/ At(S, "deleted") => CanGoOn(S)
  BY Words DEF At, CanGoOn
<1>9. EachGoesOn => GoesOn(S)
  BY <1>1, Zenon DEF EachGoesOn
<1>10. /\ pc[S] = "wantTx" <=> At(S, "wantTx")
       /\ pc[S] = "idle" <=> At(S, "idle")
       /\ Served(S, "wantTx") => ~At(S, "wantTx") \/ UsedUp
       /\ UsedUp <=> failed >= MaxConns
  BY DEF At, Served
<1>11. SweeperGoesOn <=> (pc[S] = "wantTx" ~> pc[S] = "idle" \/ failed >= MaxConns)
  BY PTL DEF SweeperGoesOn
<1> HIDE DEF UsedUp, S
<1>12. []IInv /\ [][Next]_vars /\ []EachGoesOn => [](At(S, "deleted") => <>At(S, "idle"))
  BY <1>6, <1>7, <1>8, <1>9, PTL DEF GoesOn
<1>13. []IInv /\ [][Next]_vars /\ []EachGoesOn
       => [](At(S, "tx") => <>(At(S, "deleted") \/ At(S, "idle")))
  BY <1>4, <1>5, <1>8, <1>9, PTL DEF GoesOn
<1>14. []IInv /\ [][Next]_vars
       => [](At(S, "wantTx") /\ <>(~At(S, "wantTx") \/ UsedUp)
             => <>(At(S, "tx") \/ At(S, "idle") \/ UsedUp))
  BY <1>3, PTL
<1> QED BY <1>2, <1>10, <1>11, <1>12, <1>13, <1>14, Invariance, WaitersAreQueued, PTL DEF Spec, IsServed
=============================================================================
