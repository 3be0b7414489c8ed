SPECIFICATION FairSpec
CONSTANTS
  Name = {t1,t2}
  t1 = t1
  t2 = t2
  Columns = {c1,w1}
  Wide = {w1}
  c1 = c1
  w1 = w1
  MaxPages = 2
  NoCols = NoCols
  BadCols = BadCols
  None = None
INVARIANTS TypeOK WholeTables MemoryMatchesDisk
PROPERTIES OnlySpoiltTablesKill ImplementsTableMap StatementsReturn
