------------------------------- MODULE MCTasks -------------------------------
(* Two tasks, of every pair of kinds: a run and the one that resumes it, or  *)
(* a task that a restart restores beside one that it does not.               *)
EXTENDS Tasks, TLC

CONSTANTS t1, t2

MCTasks_Tasks == {t1, t2}
Symm == Permutations({t1, t2})
==============================================================================
