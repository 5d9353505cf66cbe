-------------------------- MODULE JobLifecycleProofs --------------------------
(***************************************************************************)
(* What JobLifecycle guarantees, for every set of jobs.  The refinement    *)
(* theorems of both generators carry it over to the code.                  *)
(***************************************************************************)
EXTENDS JobLifecycle, TLAPS

Verdicts == {"completed", "failed"}
Results  == Generated \cup {Fatal}

TypeInv ==
  /\ issued \subseteq Jobs
  /\ status \in [Jobs -> {NoRow, "processing"} \cup Verdicts]
  /\ result \in [Jobs -> {NoRow} \cup Results]

\* A verdict agrees with the result that was recorded, and both belong to an id that
\* was issued and is still there.
Agrees(j) ==
  /\ status[j] # NoRow => j \in issued
  /\ status[j] = NoRow => result[j] = NoRow
  /\ status[j] = "completed" => result[j] \in Generated \cup (IF Backed THEN {} ELSE {NoRow})
  /\ status[j] = "failed" => result[j] \notin Generated

IInv == TypeInv /\ \A j \in Jobs : Agrees(j)

\* The row of an id that was issued is gone.
Gone(j) == j \in issued /\ status[j] = NoRow

\* A result or a verdict, once there, is there for good or until its row expires.
Lasts(j) ==
  /\ Gone(j) => Gone(j)'
  /\ j \in issued => j \in issued'
  /\ status[j] \in Verdicts => status'[j] \in {status[j], NoRow}
  /\ result[j] \in Results => result'[j] = result[j] \/ status'[j] = NoRow

LEMMA Words ==
  /\ NoRow \notin Verdicts /\ NoRow # "processing" /\ "processing" \notin Verdicts
  /\ "completed" \in Verdicts /\ "failed" \in Verdicts /\ "completed" # "failed"
  /\ NoRow \notin Results /\ Generated \subseteq Results /\ Fatal \in Results
BY DEF NoRow, Verdicts, Results, Generated, Fatal

LEMMA OneStep == IInv /\ [Next]_vars => IInv' /\ \A j \in Jobs : Lasts(j)
<1> SUFFICES ASSUME IInv, [Next]_vars PROVE IInv' /\ \A j \in Jobs : Lasts(j)
  OBVIOUS
<1> USE Words DEF IInv, TypeInv, Agrees, Lasts, Gone
<1>1. ASSUME NEW j \in Jobs, Issue(j) PROVE IInv' /\ \A k \in Jobs : Lasts(k)
  BY <1>1 DEF Issue
<1>2. ASSUME NEW j \in Jobs, Record(j) PROVE IInv' /\ \A k \in Jobs : Lasts(k)
  BY <1>2 DEF Record, Results
<1>3. ASSUME NEW j \in Jobs, Complete(j) PROVE IInv' /\ \A k \in Jobs : Lasts(k)
  BY <1>3 DEF Complete
<1>4. ASSUME NEW j \in Jobs, Fail(j) PROVE IInv' /\ \A k \in Jobs : Lasts(k)
  BY <1>4 DEF Fail
<1>5. ASSUME NEW S \in SUBSET Jobs, Expire(S) PROVE IInv' /\ \A k \in Jobs : Lasts(k)
  BY <1>5 DEF Expire
<1>6. CASE UNCHANGED vars
  BY <1>6 DEF vars
<1> QED BY <1>1, <1>2, <1>3, <1>4, <1>5, <1>6 DEF Next

THEOREM Invariance == Spec => []IInv
<1>1. Init => IInv
  BY Words DEF Init, IInv, TypeInv, Agrees
<1> QED BY <1>1, OneStep, PTL DEF Spec

Lasting == \A j \in Jobs : Lasts(j)

\* A result is recorded once and a verdict given once: neither is replaced by another,
\* nor taken back, until the row expires.
THEOREM VerdictsLast == Spec => [][Lasting]_vars
<1>1. IInv /\ [Next]_vars => Lasting
  BY OneStep DEF Lasting
<1> QED BY <1>1, Invariance, PTL DEF Spec

\* No id comes back to life: what has expired stays away, whatever is still to be
\* recorded or decided about it.
THEOREM GoneForGood == Spec => \A j \in Jobs : [](Gone(j) => []Gone(j))
<1>1. ASSUME NEW j \in Jobs PROVE Spec => [](Gone(j) => []Gone(j))
  <2>1. Gone(j) /\ [Lasting]_vars => Gone(j)'
    BY DEF Lasting, Lasts, Gone, vars
  <2> QED BY <2>1, VerdictsLast, PTL
<1> QED BY <1>1, Zenon
=============================================================================
