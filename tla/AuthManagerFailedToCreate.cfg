SPECIFICATION Spec
CONSTANTS
  Emails = {e1}
  Attempts = {a1}
  None = None
CHECK_DEADLOCK FALSE
PROPERTIES FailedToCreateUser
