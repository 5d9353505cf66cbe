------------------------------ MODULE LogFields ------------------------------
(***************************************************************************)
(* logger.toZapFields, which turns the arguments of a log call, meant as   *)
(* keys and values in turn, into fields.  An argument is a record of its   *)
(* dynamic type, one of the cases of the type switch, and its value.       *)
(***************************************************************************)
EXTENDS Naturals, Sequences, FiniteSets

IsKey(arg) == arg.type = "string"

\* zap.Error brings a key of its own, and a zap.Field is taken as it is.
Field(arg, val) ==
  [key |-> CASE val.type = "error" -> "error"
             [] val.type = "Field" -> "its own"
             [] OTHER -> arg.value,
   value |-> val.value]

Returns(fields) == [panics |-> FALSE, fields |-> fields]
Panics == [panics |-> TRUE, fields |-> <<>>]

\* The field that round i adds goes before those of the rounds that follow.
Adds(args, i, rest) == [rest EXCEPT !.fields = <<Field(args[i], args[i + 1])>> \o @]

\* What the loop does from i on, loop being what it does from the later places on.  A
\* key that is no string is skipped with its value.  A key without a value gets the
\* placeholder "MISSING_VALUE", and then args[i+1] is read beyond the end.
Round(args, loop, i) ==
  IF i > Len(args) THEN Returns(<<>>)
  ELSE IF ~IsKey(args[i]) THEN loop[i + 2]
  ELSE IF i = Len(args) THEN Panics
  ELSE Adds(args, i, loop[i + 2])

Rounds(args) == LET loop[i \in 1..(Len(args) + 2)] == Round(args, loop, i) IN loop

toZapFields(args) == Rounds(args)[1]

-----------------------------------------------------------------------------
(* Properties                                                              *)

\* The places of keys that have a value.
Pairs(args) == {n \in DOMAIN args : n % 2 = 1 /\ n < Len(args) /\ IsKey(args[n])}

\* The last argument is a key without a value.
LoneKey(args) == Len(args) % 2 = 1 /\ IsKey(args[Len(args)])

\* A log call returns, and the line has a field for every value that stands behind a
\* key, in order and nothing else, whatever the loop skipped.
Logged(args) ==
  LET result == toZapFields(args)
      pairs  == Pairs(args)
      rank(n) == Cardinality({m \in pairs : m <= n})
  IN  /\ ~result.panics
      /\ Len(result.fields) = Cardinality(pairs)
      /\ \A n \in pairs : result.fields[rank(n)] = Field(args[n], args[n + 1])
=============================================================================
