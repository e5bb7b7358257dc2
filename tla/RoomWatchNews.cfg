SPECIFICATION FairSpec
CONSTANTS
  Apps = {a}
  Elsewhere = Elsewhere
  MaxChanges = 4
  MaxFaults = 2
PROPERTIES NewsIsCurrent ClosedIsTold VersionsAreFetched
CHECK_DEADLOCK FALSE
