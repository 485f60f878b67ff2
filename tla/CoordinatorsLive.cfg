SPECIFICATION FairSpec
CONSTANTS
  MaxId = 4
  InteractivePop = TRUE
  LogoutWired = FALSE
CHECK_DEADLOCK FALSE
PROPERTIES LoginReachesHome
