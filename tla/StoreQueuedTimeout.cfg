\* Two requests queue on one Chrome session and the first may time out. Deadlock is not checked: with no request under way the server rests.
SPECIFICATION Spec
CONSTANTS
  Thread = {t1, t2}
  Sid = {s1}
  Store = {chrome}
  ChromeStore = {chrome}
  Proxy = {direct}
  Handle = {h1, h2, h3}
  None = None
  Unknown = Unknown
  Commands = {"solve"}
  WithTtl = {FALSE}
  IdleTTL = 0
  LifeTTL = 0
  MaxSessions = 0
  ProxyMemory = 2
SYMMETRY Symmetry
VIEW View
CHECK_DEADLOCK FALSE
PROPERTIES
  QueuedGetsLiveBrowser
