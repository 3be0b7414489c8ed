SPECIFICATION Spec
CONSTANTS
  Pk = {1,2}
  Payload = {a}
  a = a
  TooLong = {}
  PkType = "INT"
  ValType = "BOOL"
  KeyOf <- Cast
  Predicates <- Clauses
  Slots = 2
  Stride = 4
  MaxPages = 1
  NoFile = NoFile
  Empty = Empty
PROPERTIES WellTypedIsAnswered
