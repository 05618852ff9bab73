\* Liveness of the cleanup, so without symmetry or view. Deadlock is not checked: with no request under way the server rests.
SPECIFICATION FairSpec
CONSTANTS
  Thread = {t1, t2}
  Sid = {s1}
  Store = {stealth}
  ChromeStore = {}
  Proxy = {direct}
  Handle = {h1, h2}
  None = None
  Unknown = Unknown
  Commands = {"solve"}
  WithTtl = {FALSE}
  IdleTTL = 1
  LifeTTL = 0
  MaxSessions = 0
  ProxyMemory = 2
CHECK_DEADLOCK FALSE
PROPERTIES
  AbandonedAreReaped
