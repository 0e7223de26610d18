----------------------------- MODULE MCService ------------------------------
(***************************************************************************)
(* A small instance of Service: a maintenance call of two tasks and one of  *)
(* a single task (the code schedules three), one database, two recoveries.  *)
(***************************************************************************)
EXTENDS Service

CONSTANTS t1, t2, t3, r1, r2

MCTasks == {t1, t2, t3, r1, r2}
MCRecoveryTasks == {r1, r2}
MCBatches == {<<t1, t2>>, <<t3>>}
=============================================================================
