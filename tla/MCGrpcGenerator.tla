-------------------------- MODULE MCGrpcGenerator --------------------------
(* Values for the constants of GrpcGenerator, and the symmetry TLC may use. *)
EXTENDS GrpcGenerator, TLC

AllOutcomes  == {"ok", "fail", "lost"}
PlainFaults  == {"ok", "fail"}
SaveFaults   == {"ok", "fail", "uncommitted"}
NoFault      == {"ok"}

\* Sound for runs without liveness: no definition tells two jobs or two slots
\* apart.
Symmetry == Permutations(Jobs) \cup Permutations(Readers)
=============================================================================
