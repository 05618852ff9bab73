\* Two requests of any engine choice over two hosts and one session, with the page or its
\* cookies only, on a budget clamped to just enough for two engines. Deadlock is not
\* checked: with no request the server rests.
SPECIFICATION Spec
CONSTANTS
  None = None
  Thread = {t1, t2}
  denying = denying
  guarded = guarded
  Host = {denying, guarded}
  Sid = {s1}
  Commands = {"solve", "create", "destroy"}
  Forced = {"auto", "stealth"}
  Asked = {9}
  Html = {TRUE, FALSE}
  Clears <- McClears
  Unmarked = {denying}
  StealthOn = TRUE
  DefaultEngine = "auto"
  Fallback = TRUE
  Ceiling = 2
  DefaultBudget = 3
  MinEngine = 1
  MaxHosts = 1
  Overrun = 1
SYMMETRY Symmetry
VIEW View
CHECK_DEADLOCK FALSE
INVARIANTS
  TypeOK
  AnsweredInTime
  FallbackIsReached
  PageBeatsError
  RemembersOnlyClearers
  HostMemoryKept
