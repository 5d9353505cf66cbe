------------------------------- MODULE MCAuth -------------------------------
(* Values for the constants of Auth. *)
EXTENDS Auth

AllOutcomes == {"ok", "fail", "lost"}

\* "long" is "good", which has 72 bytes, and one byte more.
Keys == [p \in Passwords |-> IF p = "long" THEN "good" ELSE p]
=============================================================================
