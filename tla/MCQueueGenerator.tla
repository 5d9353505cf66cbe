-------------------------- MODULE MCQueueGenerator --------------------------
(* Values for the constants of QueueGenerator, and the symmetry TLC may use. *)
EXTENDS QueueGenerator, TLC

AllOutcomes  == {"ok", "fail", "lost"}
PlainFaults  == {"ok", "fail"}
SendFaults   == {"ok", "fail", "lost", "dropped"}
SendErrors   == {"ok", "fail", "lost"}
NoFault      == {"ok"}

\* Sound for runs without liveness: no definition tells two jobs or two slots
\* apart.
Symmetry == Permutations(Jobs) \cup Permutations(Readers)
=============================================================================
