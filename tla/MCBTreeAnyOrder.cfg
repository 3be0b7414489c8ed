SPECIFICATION Spec
CONSTANTS
  Key = {1,2,3,4,5,6,7}
  Value = {7}
  MinKeys = 1
  MaxKeys = 3
  MaxNodeId = 8
  Headroom = 3
  NoFile = NoFile
PROPERTIES FoundUntilRemoved
