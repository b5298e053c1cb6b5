SPECIFICATION FairSpec
CONSTANTS
  t1 = t1
  t2 = t2
  f1 = f1
  Task = {t1, t2}
  CallLaterTask = CallLaterTask
  Consumer = Consumer
  None = None
  Thread = {f1}
  Ops <- TwoTasks
  MaxBegins = 1
INVARIANTS
  OnePlace
  Answered
  Exclusion
  WorkIsScheduled
PROPERTIES
  CallsHappen
\* Tasks may all have ended, and the scheduler may have quit.
CHECK_DEADLOCK FALSE
