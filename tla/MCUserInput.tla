----------------------------- MODULE MCUserInput -----------------------------
(* Two user inputs, one of them with two questions to walk through.          *)
EXTENDS UserInput

CONSTANTS p1, p2

MCPrompts == {p1, p2}
MCQuestions == [p \in MCPrompts |-> IF p = p1 THEN 2 ELSE 1]
==============================================================================
