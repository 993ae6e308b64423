----------------------------- MODULE MCTasksChain -----------------------------
(* Three workflow runs, so that one that replaced another can be replaced.    *)
EXTENDS Tasks, TLC

CONSTANTS t1, t2, t3

MCTasksChain_Tasks == {t1, t2, t3}
Symm == Permutations({t1, t2, t3})

ChainSpec == TasksInit /\ (\A t \in Tasks : kind[t] = "workflow") /\ [][TasksNext]_tasksVars
===============================================================================
