SPECIFICATION FairSpec
CONSTANTS
  HttpReloads = {h1}
  Hup = hup
  BadRules = {1}
  BadKeywords = {1}
  MaxEdits = 2
INVARIANT TypeOK
PROPERTIES NoRollback SignalServed
CHECK_DEADLOCK FALSE
