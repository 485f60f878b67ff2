SPECIFICATION ScreensSpec
CONSTANTS
  Lengths = {0, 2, 3, 6, 7}
  LoginLengths = {0, 6, 7}
  NoValue = NoValue
  MaxChanges = 2
CHECK_DEADLOCK FALSE
INVARIANTS ButtonsAgreeWithScreens
PROPERTIES FormsSendWhatIsShown AskedForAlways
