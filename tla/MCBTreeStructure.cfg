SPECIFICATION FairOwnValueSpec
CONSTANTS
  Key = {1,2,3,4,5,6,7}
  Value = {1,2,3,4,5,6,7}
  MinKeys = 1
  MaxKeys = 3
  MaxNodeId = 8
  Headroom = 3
  NoFile = NoFile
INVARIANTS TypeOK LeafChainInOrder Balanced InferenceAgrees
PROPERTIES LeavesKeepPairs CallsReturn
