CONSTANTS
  r1 = r1
  r2 = r2
  None = None
  Registrations = {r1, r2}
  MaxPendingWrites = 2
  MaxSignIns = 1
  MaxFaults = 1
SPECIFICATION Spec
INVARIANTS
  PipelineIsQueuePrefix
  AnswersCorrelate
  IdleOnlyWhenDone
  OneLiveRequest
  TokenOfQueueUser
  CallbacksHaveBatches
  OwnDocumentInOwnQueue
PROPERTIES
  ImplementsDurableWrite
CHECK_DEADLOCK FALSE
SYMMETRY Symmetry
