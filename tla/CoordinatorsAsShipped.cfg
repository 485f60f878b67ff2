SPECIFICATION Spec
CONSTANTS
  MaxId = 8
  InteractivePop = TRUE
  LogoutWired = FALSE
CHECK_DEADLOCK FALSE
INVARIANTS TypeOK OneHomePerCoordinator ServedUntilHome RegistrationOnItsLogin HomeWithoutSessionAfterFailedLogin
