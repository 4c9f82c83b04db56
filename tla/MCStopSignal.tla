---------------------------- MODULE MCStopSignal ----------------------------
(* Two calling threads beside main: a SIGTERM callback and one more.        *)
EXTENDS StopSignal, TLC

CONSTANTS c1, c2

MCCallers == {c1, c2}

\* The callers are interchangeable (safety runs only).
CallerSymmetry == Permutations(MCCallers)
=============================================================================
