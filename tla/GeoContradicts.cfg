\* As GeoIdentity, with nothing set.
SPECIFICATION Spec
CONSTANTS
  None = None
  Thread = {t1, t2}
  de = de
  us = us
  nl = nl
  Country = {de, us, nl}
  Zone = {"Berlin", "Amsterdam", "Chicago", "NewYork", "UTC", "posix", "Berlinn"}
  Proxy <- McProxy
  Direct <- McDirect
  Exits <- McExits
  ExitZone <- McExitZone
  Population <- McPopulation
  Linked = {"UTC"}
  UTC = "UTC"
  DefaultLanguage = us
  Settings <- JustPlain
  MaxExits = 1
  FullTTL = 2
  FailTTL = 1
INVARIANTS
  ZoneMatchesLanguage
