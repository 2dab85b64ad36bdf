CONSTANTS
  t1 = t1
  t2 = t2
  t3 = t3
  c1 = c1
  c2 = c2
  c3 = c3
  NoCall = NoCall
  Task <- MCTask
  Call <- MCCall
  Threshold = 2
CHECK_DEADLOCK FALSE
SPECIFICATION FairSpec
INVARIANTS TaskInOnePlace OneRunScheduled
PROPERTIES PutOffByTrigger TaskEventuallySettles
