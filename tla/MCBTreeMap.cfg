SPECIFICATION EdgeSpec
CONSTANTS
  Key = {1,2,3,4,5,6}
  Value = {7,8}
  MinKeys = 1
  MaxKeys = 3
  MaxNodeId = 8
  Headroom = 3
  NoFile = NoFile
PROPERTIES ImplementsIndex
