SPECIFICATION FairEdgeCrashSpec
CONSTANTS
  Key = {1,2,3,4,5}
  Value = {7}
  MinKeys = 1
  MaxKeys = 3
  MaxNodeId = 8
  Headroom = 3
  NoFile = NoFile
PROPERTIES ImplementsLossyIndex CrashLosesOnlyInSplit NoFileReplaced CallsReturn
INVARIANTS NoOverflow
