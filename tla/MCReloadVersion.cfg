SPECIFICATION Spec
CONSTANTS
  HttpReloads = {h1, h2}
  Hup = hup
  BadRules = {}
  BadKeywords = {}
  MaxEdits = 1
INVARIANT VersionIdentifies
CHECK_DEADLOCK FALSE
