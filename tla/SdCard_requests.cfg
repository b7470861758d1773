SPECIFICATION FairSpec
CONSTANTS
  Kinds = {"MMC", "SDV1", "SDV2_SC", "SDV2_HC"}
  MaxCount = 2
  MaxRemovals = 1
  ReadyTicks = 1
  InitTicks = 2
  ReadTicks = 1
  WriteTicks = 1
INVARIANTS CardReleased OkMeansAllSectors CardIdentified OnlyOverlapsCutWaits
PROPERTIES RequestsReturn
