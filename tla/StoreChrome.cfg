\* Two threads solve on, create and destroy three sessions of the Chrome engine, capped
\* at one session and two remembered exits; solves may time out and discard theirs.
\* Deadlock is not checked: with no request under way the server rests.
SPECIFICATION Spec
CONSTANTS
  Thread = {t1, t2}
  Sid = {s1, s2, s3}
  Store = {chrome}
  ChromeStore = {chrome}
  Proxy = {direct}
  Handle = {h1, h2}
  None = None
  Unknown = Unknown
  Commands = {"solve", "create", "destroy"}
  WithTtl = {FALSE}
  IdleTTL = 0
  LifeTTL = 0
  MaxSessions = 1
  ProxyMemory = 2
SYMMETRY Symmetry
VIEW View
CHECK_DEADLOCK FALSE
INVARIANTS
  TypeOK
  PoolServesLive
PROPERTIES
  CapIsRestored
  ProxyMemoryIsLru
  ImplementsPool
