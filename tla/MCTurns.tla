------------------------------- MODULE MCTurns -------------------------------
(* Model checking of Turns.                                                 *)
EXTENDS Turns, TLC

CONSTANTS q1, q2, q3
MCPair == {q1, q2}
MCSymmetry == Permutations(Prompts)
=============================================================================
