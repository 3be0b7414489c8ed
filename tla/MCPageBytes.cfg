SPECIFICATION Spec
CONSTANTS
  Type = {"VARCHAR_16", "INT", "BOOL"}
  Size <- MCSize
  Byte = {0, 1}
  Number <- MCNumber
  Text <- MCText
  Layouts <- MCLayouts
  SLOT_SPACE = 5
  MAX_OCCUPANCY = 3
  Stride = 4
  MaxPages = 2
  Empty = Empty
INVARIANTS TypeOK RowsFitInPages
PROPERTIES ImplementsSlots
