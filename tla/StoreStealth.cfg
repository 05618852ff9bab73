\* Three threads solve on and create one session of the stealth engine, every
\* request naming a lifetime, with idle reaping on. Deadlock is not checked: with no request under way the server rests.
SPECIFICATION Spec
CONSTANTS
  Thread = {t1, t2, t3}
  Sid = {s1}
  Store = {stealth}
  ChromeStore = {}
  Proxy = {direct}
  Handle = {h1, h2, h3}
  None = None
  Unknown = Unknown
  Commands = {"solve", "create"}
  WithTtl = {TRUE}
  IdleTTL = 1
  LifeTTL = 0
  MaxSessions = 0
  ProxyMemory = 2
SYMMETRY Symmetry
VIEW View
CHECK_DEADLOCK FALSE
INVARIANTS
  ClaimsCounted
  SoleDriver
  NoLostBrowser
PROPERTIES
  SparesSessionsInUse
