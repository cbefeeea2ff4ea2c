SPECIFICATION FairSpec
CONSTANTS
  p1 = p1
  o1 = o1
  o2 = o2
  Slugs = {p1}
  Bundled = {}
  Operations = {o1, o2}
  MaxVersion = 2
  MaxFaults = 2
  MaxCrashes = 2
  MaxAsked = 2
  Troubles = {}
  None = None
CHECK_DEADLOCK FALSE
INVARIANTS RecordsAgree OutcomeStays SkillsAreWhole
PROPERTY ComesUp
