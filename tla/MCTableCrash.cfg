SPECIFICATION FairSpec
CONSTANTS
  Pk = {1,2}
  Payload = {a}
  a = a
  TooLong = {}
  PkType = "INT"
  ValType = "VARCHAR_16"
  KeyOf <- Cast
  Predicates <- Clauses
  Slots = 2
  Stride = 4
  MaxPages = 2
  NoFile = NoFile
  Empty = Empty
INVARIANTS IndexPointsAtRows PagesAreCounted
PROPERTIES RowsStay StatementsReturn
