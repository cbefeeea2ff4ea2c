SPECIFICATION FairSpec
CONSTANTS
  Sends = {s1, s2, s3}
  TextRuns = {s1}
  ToolRuns = {s3}
  Mixed = FALSE
  Troubles = {"long"}
  MaxDeltas = 2
  MaxFaults = 1
  MaxWire = 2
  MaxLinks = 2
CHECK_DEADLOCK FALSE
INVARIANTS TextHasNoHole EndIsTrue
PROPERTIES EveryStreamEnds DeniedStaysDenied
