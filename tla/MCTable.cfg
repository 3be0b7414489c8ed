SPECIFICATION Spec
CONSTANTS
  Pk = {1,2,3}
  Payload = {a,b,c}
  a = a
  b = b
  c = c
  TooLong = {c}
  PkType = "INT"
  ValType = "VARCHAR_16"
  KeyOf <- Cast
  Predicates <- Clauses
  Slots = 2
  Stride = 4
  MaxPages = 2
  NoFile = NoFile
  Empty = Empty
INVARIANTS TypeOK UniquePk
PROPERTIES ImplementsRowSet
