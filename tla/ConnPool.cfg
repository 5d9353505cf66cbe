SPECIFICATION FairSpec
CONSTANTS
  Requests = {q1, q2}
  Finalizers = {f1, f2}
  Sweeper = sweeper
  MaxConns = 2
  MaxFailures = 2
INVARIANTS Conservation NobodyIsStranded
PROPERTIES RequestsAreAnswered SweeperGoesOn FinalizersEnd
