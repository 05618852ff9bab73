\* One solve of each kind. Deadlock is not checked: the solve ends.
SPECIFICATION FairSpec
CONSTANTS
  Requests <- McRequests
  ApiOn = TRUE
  Margin = 3
  ApiTime = 6
  Poll = 3
  Confirm = 2
  Cooldown = 5
  Retry = 1
  Settle = 3
  Quiet = 1
  Render = 1
  WaitTimeout = 2
  LaunchMax = 2
  NavMax = 1
  ClickMax = 1
  PassTimes = {4, 5}
  Waits = {0, 1}
  JarMax = 1
  GuardMax = 2
  GapMax = 1
  VerifyMax = 4
  RoundMin = 3
CHECK_DEADLOCK FALSE
INVARIANTS
  TypeOK
  EngineKeepsItsShare
  CallerCookiesAreUsed
  CookiesCoverBody
  PressSparesVerification
  ReserveIsKept
PROPERTIES
  ConfirmedIsNoGap
  PressesAreNotCutOff
  GuardIsNotThePage
  EverySolveEnds
