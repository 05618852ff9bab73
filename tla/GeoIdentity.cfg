\* Two threads launch browsers of either engine through two accounts of one server,
\* under every kind of setting. No deadlock is possible: a closed browser is followed
\* by another.
SPECIFICATION Spec
CONSTANTS
  None = None
  Thread = {t1, t2}
  de = de
  us = us
  nl = nl
  Country = {de, us, nl}
  Zone = {"Berlin", "Amsterdam", "Chicago", "NewYork", "UTC", "posix", "Berlinn"}
  Proxy <- McProxy
  Direct <- McDirect
  Exits <- McExits
  ExitZone <- McExitZone
  Population <- McPopulation
  Linked = {"UTC"}
  UTC = "UTC"
  DefaultLanguage = us
  Settings <- Both
  MaxExits = 1
  FullTTL = 2
  FailTTL = 1
SYMMETRY Symmetry
INVARIANTS
  TypeOK
  IdentityIsAsSet
PROPERTIES
  NoGuessOverKnown
