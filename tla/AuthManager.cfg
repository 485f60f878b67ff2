SPECIFICATION Spec
CONSTANTS
  Emails = {e1, e2}
  Attempts = {a1, a2, a3}
  None = None
SYMMETRY Symmetry
CHECK_DEADLOCK FALSE
INVARIANTS AtMostOneResult SuccessIsDurable SessionFromWaitingSignIn IInv
PROPERTIES WrongUidOnlyIfOvertaken OrphanIsNotRepaired
