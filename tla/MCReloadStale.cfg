SPECIFICATION Spec
CONSTANTS
  HttpReloads = {h1, h2}
  Hup = hup
  BadRules = {}
  BadKeywords = {}
  MaxEdits = 1
INVARIANT ReloadedIsCurrent
CHECK_DEADLOCK FALSE
