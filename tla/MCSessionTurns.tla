--------------------------- MODULE MCSessionTurns ---------------------------
(***************************************************************************)
(* Instances of SessionTurns for TLC.                                      *)
(***************************************************************************)
EXTENDS SessionTurns, TLC

\* Host threads and interrupters run the same code; sessions and inputs other
\* than the default key are interchangeable too.
ThreadSymmetry == Permutations(Threads)
TurnSymmetry == Permutations(Threads) \cup Permutations(Inputs)
=============================================================================
