CONSTANTS
  t1 = t1
  t2 = t2
  t3 = t3
  r1 = r1
  r2 = r2
  Tasks <- MCTasks
  RecoveryTasks <- MCRecoveryTasks
  Batches <- MCBatches
  Sessions = {s1}
  Dbs = {d1}
  NoDb = NoDb
  MaxFaults = 1
SPECIFICATION Spec
INVARIANT NothingLeftToDo
