\* One solve of each engine on a site that may challenge it and then refuse it.
\* Deadlock is not checked: the solve ends.
SPECIFICATION Spec
CONSTANTS
  Requests <- McRequests
  ApiOn = FALSE
  Margin = 3
  ApiTime = 6
  Poll = 3
  Confirm = 2
  Cooldown = 5
  Retry = 1
  Settle = 3
  Quiet = 1
  Render = 1
  WaitTimeout = 2
  LaunchMax = 0
  NavMax = 0
  ClickMax = 1
  PassTimes = {4, 5}
  Waits = {0}
  JarMax = 0
  GuardMax = 2
  GapMax = 1
  VerifyMax = 4
  RoundMin = 3
CHECK_DEADLOCK FALSE
PROPERTIES
  DeniedIsRaised
