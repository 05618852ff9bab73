\* Two requests over two pages and an asset, every kind of page, bodies around the byte
\* cap, clients that read their answers or hang up. Deadlock is not checked: with no
\* request the server rests.
SPECIFICATION FairSpec
CONSTANTS
  None = None
  Thread = {t1, t2}
  p1 = p1
  p2 = p2
  asset = asset
  home = home
  mirror = mirror
  Path = {p1, p2, asset}
  Asset = {asset}
  Host = {home, mirror}
  Named <- McNamed
  Allowed = {home, mirror}
  DefaultHost = mirror
  Pending = {q1, q2}
  Document <- Mixed
  TTL = 2
  SuspectTTL = 1
  MaxBytes = 3
  Share = 1
CHECK_DEADLOCK FALSE
INVARIANTS
  TypeOK
  BytesAccounted
  NobodyStranded
  OneSolvePerPath
  SolvesOnlyUncached
PROPERTIES
  SlotIsFreed
  WokenGetsTheSolve
