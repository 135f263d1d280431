CONSTANTS
  None = None
  Weights <- MCWeights
  Transient = {"vCLS"}
  Start <- MCStart
  Edits <- MCEdits
  Restless = {"c2", "h2", "v2", "d2", "p1"}
  Loose = {"h1"}
  Views <- MCViews
  Raising <- MCRaising
  MaxOlder = 2
  MaxEvents = 2
SPECIFICATION Spec
INVARIANTS LogTellsAll FindingsExplained IdentityStable WithinCoverage FixingHelps
CHECK_DEADLOCK FALSE
