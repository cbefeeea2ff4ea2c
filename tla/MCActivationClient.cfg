SPECIFICATION FairSpec
CONSTANTS
  Code = Code
  Drive = Drive
  Keys = {k1, k2, k3}
  Runs = {r1}
  FileCount = 3
  MaxRequests = 2
  Callers = {"renderer", "anyone"}
  None = None
INVARIANTS JournalNeverAhead DriveIsRecoverable
PROPERTIES BoundJournalIsKept CommitMeansComplete SubmitEnds
