SPECIFICATION Spec
CONSTANTS
  MaxId = 4
  InteractivePop = FALSE
  LogoutWired = FALSE
CHECK_DEADLOCK FALSE
INVARIANTS HomeIsForSignedIn
