SPECIFICATION FairSpec
CONSTANTS
  Emails = {e1, e2}
  Attempts = {a1, a2}
  None = None
CHECK_DEADLOCK FALSE
PROPERTIES LoginAnswered RegistrationAnsweredOrSaving ImplementsAuthRequest
