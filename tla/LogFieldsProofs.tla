---------------------------- MODULE LogFieldsProofs ----------------------------
(***************************************************************************)
(* Theorems about the loop of toZapFields, for lists of any length.  Two   *)
(* inductions from the end of the list to its start: one shows that the    *)
(* recursive function Rounds is what its definition says, the other what   *)
(* it returns.                                                             *)
(***************************************************************************)
EXTENDS LogFields, FiniteSetTheorems, SequenceTheorems, TLAPS

\* A set that holds each number up to n with which it holds all that follow, up to n,
\* holds them all.
LEMMA DownwardInduction ==
  ASSUME NEW n \in Nat, NEW S, \A i \in 1..n : (i + 1)..n \subseteq S => i \in S
  PROVE  1..n \subseteq S
<1> DEFINE T == {k \in Nat : k < n /\ n - k \notin S}
<1>1. CASE T = {}
  <2> SUFFICES ASSUME NEW i \in 1..n PROVE i \in S
    OBVIOUS
  <2>1. n - i \in Nat /\ n - i < n /\ n - (n - i) = i
    OBVIOUS
  <2> QED BY <1>1, <2>1
<1>2. CASE T # {}
  <2>1. PICK k \in T : \A l \in T : ~(<<l, k>> \in OpToRel(<, Nat))
    <3> HIDE DEF T
    <3>1. T \subseteq Nat
      BY DEF T
    <3> QED BY <1>2, <3>1, WFMin, NatLessThanWellFounded
  <2>2. \A l \in T : ~(l < k)
    BY <2>1 DEF OpToRel
  <2>3. n - k \in 1..n /\ n - k \notin S
    OBVIOUS
  <2>4. ASSUME NEW i \in (n - k + 1)..n PROVE i \in S
    <3>1. n - i \in Nat /\ n - i < k /\ n - i < n /\ n - (n - i) = i
      BY <2>4
    <3> QED BY <2>2, <3>1
  <2> QED BY <2>3, <2>4
<1> QED BY <1>1, <1>2

-----------------------------------------------------------------------------
(* The recursive function                                                  *)

\* A round looks at what comes two places after its own.
LEMMA RoundLooksAhead ==
  ASSUME NEW args, NEW f, NEW g, NEW i, f[i + 2] = g[i + 2] \/ i > Len(args)
  PROVE  Round(args, f, i) = Round(args, g, i)
BY DEF Round

\* A function that makes its rounds from m to the end exists, for any m.
LEMMA RoundsExist ==
  ASSUME NEW A, NEW args \in Seq(A)
  PROVE  \E f : f = [i \in 1..(Len(args) + 2) |-> Round(args, f, i)]
<1> DEFINE n == Len(args) + 2
           S == {m \in 1..n : \E f : f = [i \in m..n |-> Round(args, f, i)]}
<1>1. n \in Nat /\ Len(args) \in Nat
  OBVIOUS
<1>2. ASSUME NEW m \in 1..n, (m + 1)..n \subseteq S PROVE m \in S
  <2>1. CASE m = n
    <3> DEFINE f == [i \in m..n |-> Returns(<<>>)]
    <3>1. ASSUME NEW i \in m..n PROVE f[i] = Round(args, f, i)
      <4>1. i > Len(args)
        BY <1>1, <2>1
      <4> QED BY <4>1 DEF Round
    <3>2. f = [i \in m..n |-> Round(args, f, i)]
      BY <3>1
    <3> QED BY <3>2
  <2>2. CASE m # n
    <3>1. m + 1 \in S
      BY <1>1, <1>2, <2>2
    <3>2. PICK g : g = [i \in (m + 1)..n |-> Round(args, g, i)]
      BY <3>1
    <3> DEFINE f == [i \in m..n |-> IF i = m THEN Round(args, g, m) ELSE g[i]]
    <3>3. ASSUME NEW i \in m..n PROVE f[i] = Round(args, f, i)
      <4>1. f[i + 2] = g[i + 2] \/ i > Len(args)
        BY <1>1
      <4>2. Round(args, f, i) = Round(args, g, i)
        BY <4>1, RoundLooksAhead
      <4>3. CASE i = m
        BY <4>2, <4>3
      <4>4. CASE i # m
        <5>1. i \in (m + 1)..n
          BY <1>1, <4>4
        <5> QED BY <3>2, <4>2, <4>4, <5>1
      <4> QED BY <4>3, <4>4
    <3>4. f = [i \in m..n |-> Round(args, f, i)]
      BY <3>3
    <3> QED BY <3>4
  <2> QED BY <2>1, <2>2
<1>3. 1..n \subseteq S
  <2> HIDE DEF S, n
  <2> QED BY <1>1, <1>2, DownwardInduction
<1>4. 1 \in S
  BY <1>1, <1>3
<1> QED BY <1>4

LEMMA RoundsAreMade ==
  ASSUME NEW A, NEW args \in Seq(A)
  PROVE  Rounds(args) = [i \in 1..(Len(args) + 2) |-> Round(args, Rounds(args), i)]
<1> DEFINE Recurs(f) == f = [i \in 1..(Len(args) + 2) |-> Round(args, f, i)]
<1>1. Rounds(args) = CHOOSE f : Recurs(f)
  BY DEF Rounds
<1>2. \E f : Recurs(f)
  BY RoundsExist
<1>3. Recurs(CHOOSE f : Recurs(f))
  <2> HIDE DEF Recurs
  <2> QED BY <1>2
<1> QED BY <1>1, <1>3

-----------------------------------------------------------------------------
(* What the loop returns                                                   *)

Fields(args) == {Field(args[k], args[k + 1]) : k \in 1..Len(args)}

Results(args) == [panics : BOOLEAN, fields : Seq(Fields(args))]

\* The keys with a value that the rounds from i on come upon.
PairsFrom(args, i) == {n \in i..(Len(args) - 1) : n % 2 = i % 2 /\ IsKey(args[n])}

Rank(S, n) == Cardinality({m \in S : m <= n})

LEMMA RankInSet ==
  ASSUME NEW S, IsFiniteSet(S), S \subseteq Int, NEW n \in S
  PROVE  Rank(S, n) \in 1..Cardinality(S)
<1> DEFINE T == {m \in S : m <= n}
<1>1. n \in T /\ T \subseteq S
  OBVIOUS
<1>2. IsFiniteSet(T) /\ Cardinality(T) \in Nat /\ Cardinality(S) \in Nat
      /\ Cardinality(T) <= Cardinality(S)
  BY <1>1, FS_Subset, FS_CardinalityType
<1>3. Cardinality(T) # 0
  BY <1>1, <1>2, FS_EmptySet
<1> QED BY <1>2, <1>3 DEF Rank

\* An element below all the others is the first and moves each of them up by one.
LEMMA RankAboveFirst ==
  ASSUME NEW S, IsFiniteSet(S), S \subseteq Int, NEW i \in Int, \A n \in S : n > i
  PROVE  /\ Cardinality(S \cup {i}) = Cardinality(S) + 1
         /\ Rank(S \cup {i}, i) = 1
         /\ \A n \in S : Rank(S \cup {i}, n) = Rank(S, n) + 1
<1>1. i \notin S
  OBVIOUS
<1>2. Cardinality(S \cup {i}) = Cardinality(S) + 1
  BY <1>1, FS_AddElement
<1>3. Rank(S \cup {i}, i) = 1
  <2>1. i <= i /\ \A m \in S : ~(m <= i)
    OBVIOUS
  <2>2. {m \in S \cup {i} : m <= i} = {i}
    BY <2>1
  <2> QED BY <2>2, FS_Singleton DEF Rank
<1>4. ASSUME NEW n \in S PROVE Rank(S \cup {i}, n) = Rank(S, n) + 1
  <2> DEFINE T == {m \in S : m <= n}
  <2>1. {m \in S \cup {i} : m <= n} = T \cup {i}
    OBVIOUS
  <2>2. i \notin T /\ IsFiniteSet(T)
    BY <1>1, FS_Subset
  <2> QED BY <2>1, <2>2, FS_AddElement DEF Rank
<1> QED BY <1>2, <1>3, <1>4

\* What the rounds from i on return.
LoggedFrom(args, i) ==
  LET result == Rounds(args)[i]
      pairs  == PairsFrom(args, i)
  IN  /\ result \in Results(args)
      /\ result.panics <=> i <= Len(args) /\ Len(args) % 2 = i % 2 /\ IsKey(args[Len(args)])
      /\ ~result.panics =>
           /\ Len(result.fields) = Cardinality(pairs)
           /\ \A n \in pairs : result.fields[Rank(pairs, n)] = Field(args[n], args[n + 1])

LEMMA PairsAreFinite ==
  ASSUME NEW A, NEW args \in Seq(A), NEW i \in 1..(Len(args) + 2)
  PROVE  PairsFrom(args, i) \subseteq Int /\ IsFiniteSet(PairsFrom(args, i))
<1>1. i \in Int /\ Len(args) - 1 \in Int
  OBVIOUS
<1>2. IsFiniteSet(i..(Len(args) - 1))
  BY <1>1, FS_Interval
<1>3. PairsFrom(args, i) \subseteq i..(Len(args) - 1)
  BY DEF PairsFrom
<1> QED BY <1>1, <1>2, <1>3, FS_Subset

\* A round that adds no field leaves the pairs to those that follow.
LEMMA PairsSkipped ==
  ASSUME NEW A, NEW args \in Seq(A), NEW i \in 1..Len(args), ~IsKey(args[i])
  PROVE  PairsFrom(args, i) = PairsFrom(args, i + 2)
<1>1. ASSUME NEW n \in i..(Len(args) - 1), n % 2 = i % 2, IsKey(args[n])
      PROVE  n \in (i + 2)..(Len(args) - 1)
  BY <1>1
<1>2. i % 2 = (i + 2) % 2
  OBVIOUS
<1> QED BY <1>1, <1>2 DEF PairsFrom

LEMMA PairsAdded ==
  ASSUME NEW A, NEW args \in Seq(A), NEW i \in 1..(Len(args) - 1), IsKey(args[i])
  PROVE  /\ PairsFrom(args, i) = PairsFrom(args, i + 2) \cup {i}
         /\ \A n \in PairsFrom(args, i + 2) : n > i
<1>1. ASSUME NEW n \in i..(Len(args) - 1), n % 2 = i % 2
      PROVE  n = i \/ n \in (i + 2)..(Len(args) - 1)
  BY <1>1
<1>2. i % 2 = (i + 2) % 2 /\ i \in i..(Len(args) - 1)
  OBVIOUS
<1> QED BY <1>1, <1>2 DEF PairsFrom

LEMMA ResultWithFields ==
  ASSUME NEW args, NEW r \in Results(args), NEW s \in Seq(Fields(args))
  PROVE  LET q == [r EXCEPT !.fields = s]
         IN  q \in Results(args) /\ q.panics = r.panics /\ q.fields = s
BY DEF Results

\* One round, when those that follow return what they should.
LEMMA RoundIsRight ==
  ASSUME NEW A, NEW args \in Seq(A), NEW i \in 1..(Len(args) + 2),
         i <= Len(args) => LoggedFrom(args, i + 2)
  PROVE  LoggedFrom(args, i)
<1> DEFINE R == Rounds(args)[i]
           rest == Rounds(args)[i + 2]
<1>1. R = Round(args, Rounds(args), i)
  BY RoundsAreMade
<1>2. CASE i > Len(args)
  <2>1. R = Returns(<<>>)
    BY <1>1, <1>2 DEF Round
  <2>2. R \in Results(args) /\ ~R.panics /\ Len(R.fields) = 0
    BY <2>1 DEF Returns, Results
  <2>3. PairsFrom(args, i) = {}
    BY <1>2 DEF PairsFrom
  <2> QED BY <1>2, <2>2, <2>3, FS_EmptySet DEF LoggedFrom
<1>3. CASE i <= Len(args) /\ ~IsKey(args[i])
  <2>1. R = rest
    BY <1>1, <1>3 DEF Round
  <2>2. PairsFrom(args, i) = PairsFrom(args, i + 2)
    BY <1>3, PairsSkipped
  <2>3. \/ i <= Len(args) /\ Len(args) % 2 = i % 2 /\ IsKey(args[Len(args)])
        <=> i + 2 <= Len(args) /\ Len(args) % 2 = (i + 2) % 2 /\ IsKey(args[Len(args)])
    BY <1>3
  <2> QED BY <1>3, <2>1, <2>2, <2>3 DEF LoggedFrom
<1>4. CASE i = Len(args) /\ IsKey(args[i])
  <2>1. R = Panics
    BY <1>1, <1>4 DEF Round
  <2>2. R \in Results(args) /\ R.panics
    BY <2>1 DEF Panics, Results
  <2> QED BY <1>4, <2>2 DEF LoggedFrom
<1>5. CASE i < Len(args) /\ IsKey(args[i])
  <2> DEFINE f == Field(args[i], args[i + 1])
             P == PairsFrom(args, i)
             Q == PairsFrom(args, i + 2)
  <2>1. R = [rest EXCEPT !.fields = <<f>> \o rest.fields]
    BY <1>1, <1>5 DEF Round, Adds
  <2>2. LoggedFrom(args, i + 2) /\ i + 2 \in 1..(Len(args) + 2)
    BY <1>5
  <2>3. rest \in Results(args) /\ rest.fields \in Seq(Fields(args))
    BY <2>2 DEF LoggedFrom, Results
  <2>4. f \in Fields(args)
    BY <1>5 DEF Fields
  <2>5. /\ <<f>> \o rest.fields \in Seq(Fields(args))
        /\ Len(<<f>> \o rest.fields) = Len(rest.fields) + 1
        /\ (<<f>> \o rest.fields)[1] = f
        /\ \A k \in 1..Len(rest.fields) : (<<f>> \o rest.fields)[k + 1] = rest.fields[k]
    BY <2>3, <2>4
  <2>6. R \in Results(args) /\ R.panics = rest.panics /\ R.fields = <<f>> \o rest.fields
    <3> DEFINE s == <<f>> \o rest.fields
    <3>1. R = [rest EXCEPT !.fields = s]
      BY <2>1
    <3>2. s \in Seq(Fields(args))
      BY <2>5
    <3>3. R \in Results(args) /\ R.panics = rest.panics /\ R.fields = s
      <4> HIDE DEF R, rest, s
      <4> QED BY <2>3, <3>1, <3>2, ResultWithFields
    <3> QED BY <3>3
  <2>7. Q \subseteq Int /\ IsFiniteSet(Q)
    BY <2>2, PairsAreFinite
  <2>8. P = Q \cup {i} /\ \A n \in Q : n > i
    BY <1>5, PairsAdded
  <2>9. /\ Cardinality(P) = Cardinality(Q) + 1 /\ Rank(P, i) = 1
        /\ \A n \in Q : Rank(P, n) = Rank(Q, n) + 1
    <3>1. i \in Int
      OBVIOUS
    <3> HIDE DEF P, Q
    <3> QED BY <2>7, <2>8, <3>1, RankAboveFirst
  <2>10. ~rest.panics => /\ Len(rest.fields) = Cardinality(Q)
                         /\ \A n \in Q : rest.fields[Rank(Q, n)] = Field(args[n], args[n + 1])
    BY <2>2 DEF LoggedFrom
  <2>11. ~R.panics => /\ Len(R.fields) = Cardinality(P)
                      /\ \A n \in P : R.fields[Rank(P, n)] = Field(args[n], args[n + 1])
    <3> HIDE DEF R, rest, P, Q
    <3> SUFFICES ASSUME ~R.panics, NEW n \in P
                 PROVE  /\ Len(R.fields) = Cardinality(P)
                        /\ R.fields[Rank(P, n)] = Field(args[n], args[n + 1])
      BY <2>5, <2>6, <2>8, <2>9, <2>10
    <3>1. Len(R.fields) = Cardinality(P)
      BY <2>5, <2>6, <2>9, <2>10
    <3>2. CASE n = i
      BY <2>5, <2>6, <2>9, <3>1, <3>2
    <3>3. CASE n \in Q
      <4>1. Rank(Q, n) \in 1..Len(rest.fields)
        BY <2>6, <2>7, <2>10, <3>3, RankInSet
      <4> QED BY <2>5, <2>6, <2>9, <2>10, <3>1, <3>3, <4>1
    <3> QED BY <2>8, <3>2, <3>3
  <2>12. R.panics <=> i <= Len(args) /\ Len(args) % 2 = i % 2 /\ IsKey(args[Len(args)])
    <3>1. rest.panics <=>
            i + 2 <= Len(args) /\ Len(args) % 2 = (i + 2) % 2 /\ IsKey(args[Len(args)])
      BY <2>2 DEF LoggedFrom
    <3>2. i + 2 <= Len(args) /\ Len(args) % 2 = (i + 2) % 2
          <=> i <= Len(args) /\ Len(args) % 2 = i % 2
      BY <1>5
    <3> QED BY <2>6, <3>1, <3>2
  <2> QED BY <2>6, <2>11, <2>12 DEF LoggedFrom
<1> QED BY <1>2, <1>3, <1>4, <1>5

LEMMA LoopIsRight ==
  ASSUME NEW A, NEW args \in Seq(A)
  PROVE  LoggedFrom(args, 1)
<1> DEFINE n == Len(args) + 2
           S == {i \in 1..n : LoggedFrom(args, i)}
<1>1. n \in Nat
  OBVIOUS
<1>2. ASSUME NEW i \in 1..n, (i + 1)..n \subseteq S PROVE i \in S
  <2>1. i <= Len(args) => i + 2 \in S
    BY <1>2
  <2> QED BY <2>1, RoundIsRight
<1>3. 1..n \subseteq S
  <2> HIDE DEF S, n
  <2> QED BY <1>1, <1>2, DownwardInduction
<1> QED BY <1>1, <1>3

\* What a log call is given is logged, values of any type and keys that are no strings
\* included, unless its last argument is a key alone: every call of the repository returns,
\* as none ends in such a key.
THEOREM FieldsAreLogged == \A A : \A args \in Seq(A) : ~LoneKey(args) => Logged(args)
<1> SUFFICES ASSUME NEW A, NEW args \in Seq(A), ~LoneKey(args) PROVE Logged(args)
  OBVIOUS
<1>1. LoggedFrom(args, 1)
  BY LoopIsRight
<1>2. PairsFrom(args, 1) = Pairs(args)
  BY DEF PairsFrom, Pairs
<1>3. \A k : {m \in Pairs(args) : m <= k} = {m \in PairsFrom(args, 1) : m <= k}
  BY <1>2
<1> QED BY <1>1, <1>2 DEF LoggedFrom, LoneKey, Logged, toZapFields, Rank

\* logger.go:92-94 has a field "MISSING_VALUE" for a key alone.  It never gets into a line:
\* the same round reads the value behind the end, and the call panics.
THEOREM LoneKeyPanics == \A A : \A args \in Seq(A) : LoneKey(args) => toZapFields(args).panics
<1> SUFFICES ASSUME NEW A, NEW args \in Seq(A), LoneKey(args) PROVE toZapFields(args).panics
  OBVIOUS
<1>1. Len(args) % 2 = 1 => 1 <= Len(args)
  OBVIOUS
<1> QED BY <1>1, LoopIsRight DEF LoggedFrom, LoneKey, toZapFields
=============================================================================
