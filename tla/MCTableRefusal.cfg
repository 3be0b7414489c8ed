SPECIFICATION Spec
CONSTANTS
  Pk = {1,2}
  Payload = {a}
  a = a
  TooLong = {}
  PkType = "VARCHAR_16"
  ValType = "VARCHAR_16"
  KeyOf <- Cast
  Predicates <- Clauses
  Slots = 2
  Stride = 4
  MaxPages = 1
  NoFile = NoFile
  Empty = Empty
PROPERTIES RefusalMeansPresent
