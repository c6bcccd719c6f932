\* Captures one after the other, whose stops may time out.
CONSTANTS
  t1 = t1
  t2 = t2
  t3 = t3
  Null = null
  Tasks <- MCTasks
SPECIFICATION ImuFairSpec
INVARIANTS
  OneTaskPerRun
