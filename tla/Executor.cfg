SPECIFICATION FairSpec
CONSTANTS
  Tasks = {t1, t2, t3}
  Threads = {queue, c1, c2}
  Queue = queue
  None = None
CHECK_DEADLOCK FALSE
INVARIANTS RefCountIsOwners NoUseAfterFree QuietAfterDispose
PROPERTIES CancelWaits TasksFreed
