SPECIFICATION FairSpec
CONSTANTS
  NumSectors = 3
  Data = {d1, d2}
  BOUNCE_SECTORS = 2
  MaxCount = 3
  Regions = {"internal", "spm", "flash"}
  BounceRegions = {"internal", "spm"}
  Outages = {0, 9, 34}
  TickHz = 100
  MaxOps = 1
INVARIANTS TypeOK IInv ErrorsAreEarned
PROPERTIES DeviceSpec Answered
