SPECIFICATION Spec
CONSTANTS
  MaxId = 8
  InteractivePop = FALSE
  LogoutWired = TRUE
CHECK_DEADLOCK FALSE
INVARIANTS TopIsServed NoRegistrationLeaks
