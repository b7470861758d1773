SPECIFICATION Spec
CONSTANTS
  Kinds = {"SDV2_HC"}
  MaxCount = 1
  MaxRemovals = 0
  ReadyTicks = 2
  InitTicks = 3
  ReadTicks = 2
  WriteTicks = 2
INVARIANTS TimersCountFully
